------------------------------- MODULE Layout -------------------------------
(***************************************************************************)
(* How mkisofs lays out the data of the files (write.c, hash.c, inode.c,   *)
(* volume.c).  Extents are handed out in one pass over the directory and   *)
(* the data are written in a later pass over a list; in between the list   *)
(* may be sorted, a Macintosh volume may change the sizes, and hard links  *)
(* and the sections of a file above 4 GB must follow.  Nothing but the     *)
(* final count ties the two passes together.                               *)
(*                                                                         *)
(* One directory stands for the tree.  A size is a number of blocks.       *)
(***************************************************************************)
EXTENDS Integers, FiniteSets, SequencesExt

CONSTANTS
    Jobs,       \* [files, sort, hfs, dvd, cache, endpad, session, retry]
    Ahead,      \* blocks of volume descriptors, path tables and directories
    Large,      \* blocks in one section of a file (LARGE_EXTENT)
    MinVol,     \* blocks of the smallest HFS volume (HFS_MIN_SIZE)
    BigVol,     \* above it an HFS allocation block is two blocks
    Hdr,        \* blocks of HFS headers and partition map
    Extra,      \* blocks of the first guess at the HFS catalog
    EndPad,     \* the post gap (150)
    Top         \* the first inode number of an empty file (NULL_INO_MAX)


VARIABLES
    job,        \* what mkisofs was asked for
    dir,        \* the entries of the directory, in the order of ISO 9660
    pc,         \* the phase
    i,          \* the entry, or the element of the list, next in that phase
    ext,        \* extent in the ISO 9660 record of each entry
    start,      \* starting_block of each entry, its inode number
    weight,     \* sort weight of each entry
    hash,       \* inode -> [start, of]: the cache of hard links
    list,       \* the deferred writes
    tail,       \* where dw_tail stands in that list
    last,       \* last_extent
    hpad,       \* hfs_pad
    tries,      \* attempts at the HFS volume so far
    null,       \* null_inodes
    pos,        \* last_extent_written
    image       \* block of the medium -> block of a file

vars == <<job, dir, pc, i, ext, start, weight, hash, list, tail, last, hpad,
          tries, null, pos, image>>

given == <<job, dir>>
entries == <<ext, start, weight>>
deferred == <<list, tail, last>>
volume == <<hpad, tries>>
written == <<pos, image>>

\* INT_MIN in the code, below every weight a file can be given.
NotSorted == -100

\* What the search of the source tree found for one name, and what mkisofs is
\* asked to do.
Files == [ino : Nat, size : Nat, weight : Int, pad : Nat, prev : Nat,
          kind : {"iso", "mac", "fork"}]
Asked == [files : Seq(Files), sort : BOOLEAN, hfs : BOOLEAN, dvd : BOOLEAN,
          cache : BOOLEAN, endpad : BOOLEAN, session : Nat, retry : Nat]

\* Where a file of an earlier session lies.
OldBlocks(file) == IF file.prev > 0 THEN file.prev..(file.prev + file.size - 1) ELSE {}

\* Names with the same inode number are the same file; a resource fork has none
\* of its own.  The files of earlier sessions lie below this one, apart from
\* each other, and one in sections has an extent of its own for each, which is
\* not modelled.
OnDisk(j) ==
    /\ \A file \in ToSet(j.files) :
          /\ file.weight > NotSorted
          /\ file.kind = "fork" => j.hfs /\ file.prev = 0
          /\ file.prev > 0 => file.prev + file.size <= j.session /\ file.size <= Large
    /\ \A a, b \in ToSet(j.files) :
          a.kind # "fork" /\ b.kind # "fork" =>
              IF a.ino = b.ino THEN a.size = b.size /\ a.prev = b.prev
              ELSE OldBlocks(a) \cap OldBlocks(b) = {}

ASSUME LayoutAssumption ==
    /\ {Ahead, Large, MinVol, BigVol, Hdr, Extra, EndPad, Top} \subseteq Nat
    /\ Ahead > 0 /\ Large > 0
    /\ Jobs \subseteq Asked /\ \A j \in Jobs : OnDisk(j)

-----------------------------------------------------------------------------
(* A file is [ino, size, weight, pad, prev, kind]: prev is its extent in   *)
(* an earlier session or 0.  kind says what a Macintosh makes of it: "mac" *)
(* is a data fork, "fork" a resource fork, "iso" a file it does not see.   *)

\* Sections of a file of that many blocks; the last one may exceed Large by
\* the part block that still fits into 32 bits (MAX_EXTENT).
Sections(size) ==
    CHOOSE n \in 1..(size + 1) :
        /\ size - (n - 1) * Large <= Large + 1
        /\ \A m \in 1..(n - 1) : size - (m - 1) * Large > Large + 1

MultiExtent(file) == Sections(file.size) > 1

\* The entries of one file that its directory shows.
Shown(f, file) ==
    LET n == Sections(file.size)
    IN IF n = 1
       THEN <<[f |-> f, part |-> 0, off |-> 0, size |-> file.size]>>
       ELSE [p \in 1..n |->
               [f |-> f, part |-> p, off |-> (p - 1) * Large,
                size |-> IF p < n THEN Large ELSE file.size - (n - 1) * Large]]

\* sort_directory(): by name and section, hidden entries behind the others.
\* The hidden ones are the roots of the files in sections.
Roots(f, file) ==
    IF MultiExtent(file) THEN <<[f |-> f, part |-> 0, off |-> 0, size |-> file.size]>> ELSE <<>>

Entries(files) ==
    FlattenSeq([f \in 1..Len(files) |-> Shown(f, files[f])])
        \o FlattenSeq([f \in 1..Len(files) |-> Roots(f, files[f])])

File(e) == job.files[dir[e].f]

InSections(e) == MultiExtent(File(e))

Hidden(e) == InSections(e) /\ dir[e].part = 0

\* The sections from entry e on, as the loops over s_e take them: as long as
\* the next entry has the same root, which the root itself has too.
Run(e) ==
    {s \in e..Len(dir) : \A t \in e..s : dir[t].f = dir[e].f}

Root(e) == CHOOSE r \in 1..Len(dir) : Hidden(r) /\ dir[r].f = dir[e].f

SumOver(f, S) == FoldFunctionOnSet(+, 0, f, S)

Blocks(S) == SumOver([t \in 1..Len(dir) |-> dir[t].size], S)

Before(e, s) == Blocks(e..(s - 1))

\* Resource forks have no inode number of their own and are never cached.
Cached(e) == job.cache /\ File(e).kind # "fork"

Hit(e) == Cached(e) /\ File(e).ino \in DOMAIN hash

\* add_hash(): the newest entry of an inode is found first.
Remember(h, e, at) ==
    IF Cached(e)
    THEN [n \in DOMAIN h \cup {File(e).ino} |->
            IF n = File(e).ino THEN [start |-> at, of |-> e] ELSE h[n]]
    ELSE h

NoHash == [n \in {} |-> 0]

-----------------------------------------------------------------------------
Init ==
    /\ job \in Jobs
    /\ dir = Entries(job.files)
    /\ pc = "assign"
    /\ i = 1
    /\ ext = [e \in 1..Len(dir) |-> File(e).prev]
    /\ start = ext
    /\ weight = [e \in 1..Len(dir) |-> File(e).weight]
    /\ hash = NoHash
    /\ list = <<>>
    /\ tail = 0
    /\ last = job.session + Ahead
    /\ hpad = 0
    /\ tries = 0
    /\ null = Top
    /\ pos = job.session + Ahead
    /\ image = [b \in UNION {File(e).prev..(File(e).prev + File(e).size - 1) :
                               e \in {d \in 1..Len(dir) : File(d).prev > 0}} |->
                  LET e == CHOOSE d \in 1..Len(dir) :
                             /\ File(d).prev > 0
                             /\ b \in File(d).prev..(File(d).prev + File(d).size - 1)
                  IN [ino |-> File(e).ino, at |-> b - File(e).prev, zero |-> FALSE]]

-----------------------------------------------------------------------------
(* assign_file_addresses(), one entry a step.                              *)

Assigning == pc = "assign" /\ i <= Len(dir)

NextEntry == pc' = "assign" /\ i' = i + 1

\* An entry that has an extent keeps it: it comes from an earlier session,
\* or it is a section whose first section has been met.
AssignKnown ==
    /\ Assigning /\ ext[i] # 0
    /\ NextEntry
    /\ UNCHANGED <<given, entries, hash, deferred, volume, null, written>>

\* A link does not pass its weight on.
WeighOwn(e) ==
    IF job.sort /\ ~Hidden(e) THEN [weight EXCEPT ![e] = NotSorted] ELSE weight

\* A hard link to a file that has its extent.  When sorting, the file takes
\* the higher weight and the link waits for the new address.
Weigh(e) ==
    IF job.sort /\ ~Hidden(e)
    THEN LET of == hash[File(e).ino].of
         IN [[weight EXCEPT ![of] = IF @ > weight[e] THEN @ ELSE weight[e]]
               EXCEPT ![e] = NotSorted]
    ELSE weight

AssignLinked ==
    /\ Assigning /\ ext[i] = 0 /\ Hit(i)
    /\ LET there == hash[File(i).ino].start
           first == InSections(i) /\ ~Hidden(i)
       IN /\ ext' = [e \in DOMAIN ext |->
                       IF first /\ e \in Run(i) THEN there + Before(i, e)
                       ELSE IF e = i THEN there ELSE ext[e]]
          /\ start' = [e \in DOMAIN start |->
                         IF e = i \/ (first /\ e = Root(i)) THEN there ELSE start[e]]
    /\ weight' = Weigh(i)
    /\ NextEntry
    /\ UNCHANGED <<given, hash, deferred, volume, null, written>>

\* A file to be written: it goes to the end of the list and its sections
\* and its root get their extents at once.
Padding(e) == IF job.dvd THEN File(e).pad ELSE 0

AssignNew ==
    /\ Assigning /\ ext[i] = 0 /\ ~Hit(i) /\ dir[i].size > 0
    /\ ext' = [e \in DOMAIN ext |->
                 IF InSections(i) /\ e = Root(i) THEN last
                 ELSE IF e \in Run(i) THEN last + Before(i, e) ELSE ext[e]]
    /\ start' = [e \in DOMAIN start |->
                   IF e = i \/ (InSections(i) /\ e = Root(i)) THEN last ELSE start[e]]
    /\ hash' = Remember(hash, i, last)
    /\ list' = Append(list, [e |-> i, size |-> File(i).size, ext |-> last,
                             pad |-> Padding(i)])
    /\ tail' = Len(list')
    /\ last' = last + File(i).size + Padding(i)
    /\ NextEntry
    /\ UNCHANGED <<given, weight, volume, null, written>>

\* An empty file needs no blocks but must not have extent 0.
AssignEmpty ==
    /\ Assigning /\ ext[i] = 0 /\ ~Hit(i) /\ dir[i].size = 0
    /\ ext' = [ext EXCEPT ![i] = last]
    /\ NextEntry
    /\ UNCHANGED <<given, start, weight, hash, deferred, volume, null, written>>

AssignedAll ==
    /\ pc = "assign" /\ i > Len(dir)
    /\ pc' = IF job.sort THEN "sort" ELSE IF job.hfs THEN "hfs" ELSE "inodes"
    /\ i' = 1
    /\ UNCHANGED <<given, entries, hash, deferred, volume, null, written>>

-----------------------------------------------------------------------------
(* sort_file_addresses() and reassign_link_addresses().                    *)

\* compare_sort(): the heavier first, among equals the lower extent.
Precedes(a, b) ==
    \/ weight[a.e] > weight[b.e]
    \/ weight[a.e] = weight[b.e] /\ a.ext < b.ext

Sorted == CHOOSE l \in SetToSeqs(ToSet(list)) :
              \A j, k \in 1..Len(l) : j < k => Precedes(l[j], l[k])

\* The loop over the sections of a file takes the root along when the root
\* is the next entry.
Length(d) == IF InSections(d.e) THEN Blocks(Run(d.e)) ELSE dir[d.e].size

\* Where each element of a list starts when the first starts at base and
\* each is as long as Len_(it) says.
Chain(l, base, Len_(_)) ==
    [k \in 1..Len(l) |->
       base + SumOver([m \in 1..Len(l) |-> Len_(l[m])], 1..(k - 1))]

Moved(l, at) == [k \in 1..Len(l) |-> [l[k] EXCEPT !.ext = at[k]]]

\* The element of the list for entry e, 0 if there is none.
Place(l, e) == SelectInSeq(l, LAMBDA d : d.e = e)

\* The element whose sections e is one of, or whose root it is.
Owner(l, e) == SelectInSeq(l, LAMBDA d : InSections(d.e) /\ (e \in Run(d.e) \/ e = Root(d.e)))

HashOf(l, begin, Keep(_)) ==
    [n \in {File(l[k].e).ino : k \in {m \in 1..Len(l) : Cached(l[m].e) /\ Keep(l[m].e)}} |->
       LET k == CHOOSE m \in 1..Len(l) :
                   Cached(l[m].e) /\ Keep(l[m].e) /\ File(l[m].e).ino = n
       IN [start |-> begin[l[k].e], of |-> l[k].e]]

Sort ==
    /\ pc = "sort"
    /\ LET l == Sorted
           at == Chain(l, list[1].ext, LAMBDA d : Length(d) + IF job.dvd THEN d.pad ELSE 0)
           begin == [e \in DOMAIN start |->
                       IF Owner(l, e) > 0 /\ e = l[Owner(l, e)].e
                       THEN at[Owner(l, e)] + Before(e, Max(Run(e)))
                       ELSE IF Owner(l, e) > 0 /\ Hidden(e) THEN at[Owner(l, e)]
                       ELSE IF Place(l, e) > 0 THEN at[Place(l, e)] ELSE start[e]]
       IN /\ list' = Moved(l, at)
          /\ ext' = [e \in DOMAIN ext |->
                       IF Owner(l, e) > 0
                       THEN LET r == l[Owner(l, e)].e
                            IN at[Owner(l, e)] + IF e \in Run(r) THEN Before(r, e) ELSE 0
                       ELSE IF Place(l, e) > 0 THEN at[Place(l, e)] ELSE ext[e]]
          /\ start' = begin
          /\ hash' = HashOf(l, begin, LAMBDA e : TRUE)
          /\ tail' = IF tail = 0 THEN 0 ELSE Place(l, list[tail].e)
    /\ pc' = "reassign"
    /\ UNCHANGED <<given, i, weight, last, volume, null, written>>

\* The links are not told where their files went.
ReassignNothing ==
    /\ pc = "reassign"
    /\ pc' = IF job.hfs THEN "hfs" ELSE "inodes"
    /\ UNCHANGED <<given, i, entries, hash, deferred, volume, null, written>>

\* A link that waited takes the address of its file.
Reassign ==
    /\ pc = "reassign"
    /\ LET There(e, old) == IF weight[e] = NotSorted /\ Hit(e)
                            THEN hash[File(e).ino].start ELSE old
       IN /\ ext' = [e \in DOMAIN ext |-> There(e, ext[e])]
          /\ start' = [e \in DOMAIN start |-> There(e, start[e])]
    /\ pc' = IF job.hfs THEN "hfs" ELSE "inodes"
    /\ UNCHANGED <<given, i, weight, hash, deferred, volume, null, written>>

-----------------------------------------------------------------------------
(* hfs_file_gen(): the Macintosh volume over the same data.                *)

RoundUp(n, c) == ((n + c - 1) \div c) * c

\* insert_padding_file(): the new element goes behind dw_tail.
Enlarged(l, missing) ==
    Append(SubSeq(l, 1, tail), [e |-> 0, size |-> missing, ext |-> last, pad |-> 0])

\* The catalog grows with every attempt.
Catalog == Extra * (tries + 1)

\* make_mac_volume().  A catalog that is too small fails the attempt: what
\* it did to the list stays, only last_extent is put back.
Hfs ==
    /\ pc = "hfs"
    /\ LET vol == last - job.session
           missing == IF vol < MinVol THEN MinVol - vol ELSE 0
           l == IF missing > 0 THEN Enlarged(list, missing) ELSE list
           c == IF vol + missing + Catalog > BigVol THEN 2 ELSE 1
           base == RoundUp(Ahead + Hdr, c) - Hdr
           at == Chain(l, job.session + base, LAMBDA d : RoundUp(d.size, c))
           end == IF c = 1 THEN last + missing
                  ELSE IF l = <<>> THEN job.session + base
                  ELSE at[Len(l)] + RoundUp(l[Len(l)].size, c)
           moved == [e \in DOMAIN start |->
                       IF Place(l, e) > 0 THEN at[Place(l, e)] ELSE start[e]]
           h == HashOf(l, moved, LAMBDA e : File(e).kind = "iso")
           Linked(e) == File(e).kind = "iso" /\ Cached(e) /\ File(e).ino \in DOMAIN h
       IN /\ IF c = 1
             THEN /\ list' = l
                  /\ UNCHANGED <<ext, start, hash>>
             ELSE /\ list' = [k \in 1..Len(l) |->
                                [l[k] EXCEPT !.ext = at[k],
                                             !.pad = RoundUp(l[k].size, c) - l[k].size]]
                  /\ ext' = [e \in DOMAIN ext |->
                               IF Linked(e) THEN h[File(e).ino].start
                               ELSE IF Place(l, e) > 0 THEN moved[e] ELSE ext[e]]
                  /\ start' = [e \in DOMAIN start |->
                                 IF Linked(e) THEN h[File(e).ino].start ELSE moved[e]]
                  /\ hash' = NoHash
          /\ tail' = IF missing > 0 THEN Len(l) ELSE tail
          /\ IF tries < job.retry
             THEN UNCHANGED <<pc, last, hpad>>
             ELSE /\ last' = end + Catalog
                  /\ hpad' = base - Ahead
                  /\ pc' = "inodes"
    /\ tries' = tries + 1
    /\ UNCHANGED <<given, i, weight, null, written>>

-----------------------------------------------------------------------------
(* assign_inodes(): the address of a file serves as its inode number; an   *)
(* empty file gets a number from the top instead.                          *)

Numbering == pc = "inodes" /\ i <= Len(dir) /\ job.cache

Found(e) == IF start[e] = 0 /\ Hit(e) THEN hash[File(e).ino].start ELSE start[e]

NumberFile ==
    /\ Numbering /\ dir[i].size > 0
    /\ start' = [start EXCEPT ![i] = Found(i)]
    /\ i' = i + 1
    /\ UNCHANGED <<given, pc, ext, weight, hash, deferred, volume, null, written>>

\* An empty file is not put into the cache of hard links.
NumberEmptyUncached ==
    /\ Numbering /\ dir[i].size = 0
    /\ ext' = [ext EXCEPT ![i] = null]
    /\ start' = [start EXCEPT ![i] = null]
    /\ null' = null - 1
    /\ i' = i + 1
    /\ UNCHANGED <<given, pc, weight, hash, deferred, volume, written>>

NumberEmpty ==
    /\ Numbering /\ dir[i].size = 0
    /\ LET n == IF Hit(i) THEN hash[File(i).ino].start ELSE null
       IN /\ ext' = [ext EXCEPT ![i] = n]
          /\ start' = [start EXCEPT ![i] = n]
          /\ hash' = IF Hit(i) THEN hash ELSE Remember(hash, i, n)
          /\ null' = IF Hit(i) THEN null ELSE null - 1
    /\ i' = i + 1
    /\ UNCHANGED <<given, pc, weight, deferred, volume, written>>

-----------------------------------------------------------------------------
(* The second pass, file_write() and write_files().                        *)

StartWriting ==
    /\ pc = "inodes" /\ (i > Len(dir) \/ ~job.cache)
    /\ last' = last + IF job.endpad THEN EndPad ELSE 0
    /\ pos' = pos + hpad
    /\ pc' = "write" /\ i' = 1
    /\ UNCHANGED <<given, entries, hash, list, tail, volume, null, image>>

\* write_one_file(): a file that has become shorter, or cannot be read any
\* more, is filled up with zeroes.
Written(d, got) ==
    [b \in pos..(pos + d.size - 1) |->
       [ino |-> File(d.e).ino, at |-> b - pos, zero |-> b - pos >= got]]

\* What could be read is what counts.
CopiedRead(size, got) == got

Copied(size, got) == size

WriteFile ==
    /\ pc = "write" /\ i <= Len(list) /\ list[i].e > 0
    /\ \E got \in {0, list[i].size - 1, list[i].size} :
         LET d == list[i]
             w == Written(d, got)
         IN /\ image' = [b \in DOMAIN image \cup DOMAIN w |->
                           IF b \in DOMAIN w THEN w[b] ELSE image[b]]
            /\ pos' = pos + Copied(d.size, got) + IF job.hfs \/ job.dvd THEN d.pad ELSE 0
    /\ i' = i + 1
    /\ UNCHANGED <<given, pc, entries, hash, deferred, volume, null>>

\* The file that fills up a small volume.
WritePadding ==
    /\ pc = "write" /\ i <= Len(list) /\ list[i].e = 0
    /\ pos' = pos + list[i].size + list[i].pad
    /\ i' = i + 1
    /\ UNCHANGED <<given, pc, entries, hash, deferred, volume, null, image>>

\* errabort(): without -data-change-warn a file that has changed ends it all.
Abort ==
    /\ pc = "write" /\ i <= Len(list) /\ list[i].e > 0
    /\ pc' = "aborted"
    /\ UNCHANGED <<given, i, entries, hash, deferred, volume, null, written>>

\* The HFS catalog, the post gap and the comparison of the two passes.
Finish ==
    /\ pc = "write" /\ i > Len(list)
    /\ LET end == pos + (IF job.hfs THEN Extra * tries ELSE 0)
                      + (IF job.endpad THEN EndPad ELSE 0)
       IN /\ pos' = end
          /\ pc' = IF end = last THEN "done" ELSE "botch"
    /\ UNCHANGED <<given, i, entries, hash, deferred, volume, null, image>>

\* mkisofs has ended.
Done == pc \in {"done", "botch", "aborted"} /\ UNCHANGED vars

Next ==
    \/ AssignKnown \/ AssignLinked \/ AssignNew \/ AssignEmpty \/ AssignedAll
    \/ Sort \/ Reassign \/ Hfs
    \/ NumberFile \/ NumberEmpty
    \/ StartWriting \/ WriteFile \/ WritePadding \/ Abort \/ Finish
    \/ Done

Spec == Init /\ [][Next]_vars

-----------------------------------------------------------------------------
Complete == pc = "done"

\* An image mkisofs completes shows every file where its data are: block by
\* block what a directory record points at are the blocks of that file, or
\* zeroes in their place, for plain files, every section of a large one,
\* hard links and files of earlier sessions, whatever moved in between.
Placed ==
    Complete =>
        \A e \in DOMAIN ext : ~Hidden(e) =>
            \A b \in 0..(dir[e].size - 1) :
                /\ ext[e] + b \in DOMAIN image
                /\ image[ext[e] + b].ino = File(e).ino
                /\ image[ext[e] + b].at = dir[e].off + b

\* The pass that writes ends where the pass that planned said ("FS should end
\* at ... but ends at ..."), whatever happens to the files in between.
EndsAsPlanned == pc # "botch"

\* Two names have the same inode number exactly if they are the same file:
\* that is how a reader finds out about hard links.
SameInode ==
    Complete /\ job.cache =>
        \A e, d \in DOMAIN start : ~Hidden(e) /\ ~Hidden(d) =>
            \/ File(e).prev > 0 \/ File(d).prev > 0
            \/ (start[e] = start[d]) <=>
                  \/ dir[e].f = dir[d].f
                  \/ File(e).ino = File(d).ino /\ Cached(e) /\ Cached(d)

\* The names of a file mkisofs knows as such; a resource fork is none.
Aliases(e) == {d \in DOMAIN ext : Cached(d) /\ File(d).ino = File(e).ino}

Weight(e) == Max({File(d).weight : d \in Aliases(e)})

First(e) == Min(Aliases(e))

\* With sort weights the heavier file is nearer the start of the medium, where
\* a file counts with the highest weight of its names; equal ones keep the
\* order of the directory (README.sort).
HeavierFirst ==
    Complete /\ job.sort /\ job.cache =>
        \A e, d \in {x \in DOMAIN ext : dir[x].size > 0 /\ dir[x].part < 2
                                       /\ ~Hidden(x) /\ File(x).prev = 0 /\ Cached(x)} :
            Weight(e) > Weight(d) \/ (Weight(e) = Weight(d) /\ First(e) < First(d))
                => ext[e] < ext[d]
=============================================================================
