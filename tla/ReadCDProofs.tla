---------------------------- MODULE ReadCDProofs ----------------------------
(***************************************************************************)
(* Theorems about readcd's copy of a medium, for media, ranges, transfer   *)
(* sizes and numbers of retries of any size and whatever fails.            *)
(***************************************************************************)
EXTENDS ReadCD, SequenceTheorems, TLAPS

Contained == {"ok", "part", "zero"}

Retrying == {"rcheck", "seek", "seeked", "rcheck2", "rread"}

\* The chunk that is read or written lies in the range, its buffer is as long,
\* and what read_retry() works on is one of its sectors.
InChunk ==
    /\ pc \in {"read", "write"} \cup Retrying => addr + cnt <= End(job)
    /\ pc \in {"write"} \cup Retrying => Len(sbuf) = cnt
    /\ pc \in Retrying => raddr \in addr .. addr + cnt - 1

\* The i-th sector of the file is the i-th of the range, and until the file
\* system is full the loop goes on where the file ends.
InPlace ==
    /\ \A i \in DOMAIN file : file[i][1] = job.start + i - 1
    /\ file # <<>> => job.start + Len(file) <= End(job)
    /\ ~isfull => addr = job.start + Len(file)

\* The numbers and the flags of RTypeOK, and its sequences.
Scalars ==
    /\ job \in Jobs
    /\ pc \in {"size", "oldmode", "domode", "open", "head", "read", "write",
               "rcheck", "seek", "seeked", "rcheck2", "rread", "out", "resize", "remode",
               "exit", "gone"}
    /\ osecsize \in Nat /\ bsize \in Nat
    /\ oerr \in {"none", "old", "default"}
    /\ recovery \in {"old", "default", "copy"}
    /\ addr \in Nat /\ cnt \in Nat \ {0} /\ raddr \in Nat /\ try \in Nat
    /\ didintr \in BOOLEAN /\ excode \in {0, -2, SIGINT, ERRNO}
    /\ aborted \in BOOLEAN /\ isfull \in BOOLEAN /\ lost \in BOOLEAN
    /\ late \in Nat

Buffers ==
    /\ sbuf \in Seq(Contained)
    /\ bad \in Seq(Nat)
    /\ file \in Seq(Nat \X Contained)

\* The drive is set up once, before the copy, and the handler knows of it from
\* then on.
SetUp ==
    /\ pc \in {"size", "oldmode"} => recovery = "old"
    /\ pc \in {"size", "oldmode", "domode", "resize", "remode"} => job.raw
    /\ job.raw /\ pc \notin {"size", "oldmode"} => oerr # "none"

\* From select_secsize() at the start to the one at the end.
Unsized == {"oldmode", "domode", "open", "head", "read", "write", "out", "resize"}
               \cup Retrying

\* Where the drive's settings are kept while the mode pages work.
Kept ==
    "mode" \notin job.faults =>
        /\ oerr # "default"
        /\ oerr = "none" \/ pc = "gone" => recovery = "old"
        /\ ~job.raw \/ pc = "size" => bsize = job.bsize
        /\ job.raw /\ pc # "size" =>
               osecsize = IF job.known THEN job.bsize ELSE StdSize
        /\ job.raw /\ pc \in Unsized =>
               bsize = IF osecsize = StdSize THEN job.bsize ELSE StdSize
        /\ pc \in {"remode", "exit", "gone"} /\ ~aborted => bsize = job.bsize

DriveInv == Scalars /\ SetUp /\ Kept

CopyInv == RTypeOK /\ InChunk /\ InPlace

\* The end of a copy and the largest transfer are numbers for every job.
LEMMA EndType == \A j \in Jobs : End(j) \in Nat /\ Cap(j) \in Nat
<1> TAKE j \in Jobs
<1>1. Cap(j) \in Nat /\ Size(j) \in Nat
  BY ReadAssumption DEF Cap, Size
<1>2. Limit(j) \in Nat
  BY <1>1, ReadAssumption DEF Limit, Unlimited
<1> QED
  BY <1>1, <1>2, ReadAssumption DEF End

\* What filewrite() adds to the file for the first n sectors of the chunk.
LEMMA ContentsType ==
    ASSUME RTypeOK, NEW n \in 0 .. Len(sbuf)
    PROVE  /\ Contents(n) \in Seq(Nat \X Contained)
           /\ Len(Contents(n)) = n
           /\ \A i \in 1 .. n : Contents(n)[i][1] = addr + i - 1
<1>1. \A i \in 1 .. n : addr + i - 1 \in Nat /\ sbuf[i] \in Contained
  BY DEF RTypeOK, Contained
<1> QED
  BY <1>1 DEF Contents, RTypeOK

\* The elements of a file that is extended.
LEMMA Extended ==
    ASSUME NEW S, NEW f \in Seq(S), NEW g \in Seq(S)
    PROVE  /\ f \o g \in Seq(S)
           /\ Len(f \o g) = Len(f) + Len(g)
           /\ \A i \in 1 .. Len(f) : (f \o g)[i] = f[i]
           /\ \A i \in Len(f) + 1 .. Len(f) + Len(g) : (f \o g)[i] = g[i - Len(f)]
  OBVIOUS

\* A file that the first n sectors of the chunk are added to stays in place.
LEMMA WrittenInPlace ==
    ASSUME CopyInv, pc = "write", ~isfull, NEW n \in 0 .. cnt,
           file' = file \o Contents(n), UNCHANGED job
    PROVE  /\ file' \in Seq(Nat \X Contained)
           /\ Len(file') = Len(file) + n
           /\ \A i \in DOMAIN file' : file'[i][1] = job'.start + i - 1
           /\ job'.start + Len(file') <= End(job')
<1>1. /\ file \in Seq(Nat \X Contained)
      /\ sbuf \in Seq(Contained) /\ Len(sbuf) = cnt
      /\ cnt \in Nat /\ addr \in Nat /\ job \in Jobs
  BY DEF CopyInv, RTypeOK, InChunk, Contained
<1>2. /\ Contents(n) \in Seq(Nat \X Contained)
      /\ Len(Contents(n)) = n
      /\ \A i \in 1 .. n : Contents(n)[i][1] = addr + i - 1
  BY <1>1, ContentsType DEF CopyInv
<1>3. /\ file' \in Seq(Nat \X Contained)
      /\ Len(file') = Len(file) + n
      /\ \A i \in 1 .. Len(file) : file'[i] = file[i]
      /\ \A i \in Len(file) + 1 .. Len(file) + n : file'[i] = Contents(n)[i - Len(file)]
  <2> DEFINE S == Nat \X Contained
             g == Contents(n)
  <2>1. file \in Seq(S) /\ g \in Seq(S) /\ Len(g) = n /\ file' = file \o g
    BY <1>1, <1>2
  <2> HIDE DEF S, g
  <2>2. /\ file' \in Seq(S)
        /\ Len(file') = Len(file) + n
        /\ \A i \in 1 .. Len(file) : file'[i] = file[i]
        /\ \A i \in Len(file) + 1 .. Len(file) + n : file'[i] = g[i - Len(file)]
    BY <2>1, Extended
  <2> QED
    BY <2>2 DEF S, g
<1>4. job.start \in Nat /\ addr = job.start + Len(file) /\ addr + cnt <= End(job)
  BY <1>1, ReadAssumption DEF CopyInv, InPlace, InChunk
<1>5. ASSUME NEW i \in DOMAIN file' PROVE file'[i][1] = job'.start + i - 1
  <2>1. i \in 1 .. Len(file) + n /\ Len(file) \in Nat /\ n \in Nat
    BY <1>1, <1>3
  <2>2. CASE i <= Len(file)
    <3>1. i \in 1 .. Len(file)
      BY <2>1, <2>2
    <3>2. i \in DOMAIN file
      BY <1>1, <3>1
    <3>3. file[i][1] = job.start + i - 1
      BY <3>2 DEF CopyInv, InPlace
    <3>4. file'[i] = file[i]
      BY <1>3, <3>1
    <3> QED
      BY <3>3, <3>4
  <2>3. CASE i > Len(file)
    <3>1. i \in Len(file) + 1 .. Len(file) + n /\ i - Len(file) \in 1 .. n
      BY <2>1, <2>3
    <3>2. file'[i] = Contents(n)[i - Len(file)]
      BY <1>3, <3>1
    <3>3. Contents(n)[i - Len(file)][1] = addr + (i - Len(file)) - 1
      BY <1>2, <3>1
    <3> QED
      BY <1>4, <2>1, <3>2, <3>3
  <2> QED
    BY <2>1, <2>2, <2>3
<1>6. job'.start + Len(file') <= End(job')
  <2>1. End(job) \in Nat /\ Len(file) \in Nat
    BY <1>1, EndType
  <2>2. End(job') = End(job) /\ job'.start = job.start
    OBVIOUS
  <2>3. Len(file') = Len(file) + n /\ n \in Nat /\ n <= cnt
    BY <1>1, <1>3
  <2>4. \A a, b, c, d, e \in Nat : a = b + c /\ a + d <= e
                               => \A k \in Nat : k <= d => b + (c + k) <= e
    OBVIOUS
  <2>5. job.start + (Len(file) + n) <= End(job)
    BY <1>1, <1>4, <2>1, <2>3, <2>4
  <2>6. job.start + Len(file') <= End(job)
    BY <2>3, <2>5
  <2> QED
    BY <2>2, <2>6, Zenon
<1> QED
  BY <1>3, <1>5, <1>6

\* RTypeOK in two parts: the numbers and flags, and the sequences.
LEMMA TypeParts == RTypeOK <=> Scalars /\ Buffers
  BY DEF RTypeOK, Scalars, Buffers, Contained

-----------------------------------------------------------------------------
(* The drive's settings *)

\* A copy starts with a drive nobody has touched.
LEMMA DriveInit == RInit => DriveInv
<1> SUFFICES ASSUME RInit PROVE DriveInv
  OBVIOUS
<1>1. /\ job \in Jobs /\ job.raw \in BOOLEAN /\ job.start \in Nat
      /\ job.chunk \in Nat \ {0} /\ job.bsize \in Nat
  BY ReadAssumption DEF RInit
<1>2. Scalars
  <2>1. pc = "size" \/ pc = "open"
    BY DEF RInit
  <2>2. addr \in Nat /\ cnt \in Nat \ {0} /\ bsize \in Nat /\ osecsize \in Nat
    BY <1>1 DEF RInit, StdSize
  <2>3. didintr \in BOOLEAN /\ aborted \in BOOLEAN /\ isfull \in BOOLEAN
        /\ lost \in BOOLEAN
    BY DEF RInit
  <2>4. raddr \in Nat /\ try \in Nat /\ late \in Nat /\ excode \in {0, -2, 2, 28}
    BY DEF RInit
  <2>5. oerr \in {"none", "old", "default"} /\ recovery \in {"old", "default", "copy"}
    BY DEF RInit
  <2> QED
    BY <1>1, <2>1, <2>2, <2>3, <2>4, <2>5 DEF Scalars, SIGINT, ERRNO
<1>3. SetUp /\ Kept
  BY <1>1 DEF RInit, SetUp, Kept
<1> QED
  BY <1>2, <1>3 DEF DriveInv

\* Every step keeps the numbers, flags and places in their ranges.
LEMMA ScalarsStep == Scalars /\ SetUp /\ [RNext]_rvars => Scalars'
<1> SUFFICES ASSUME Scalars, SetUp, [RNext]_rvars PROVE Scalars'
  OBVIOUS
<1> USE DEF SIGINT, ERRNO, Abort
<1>0. job.raw \in BOOLEAN /\ End(job) \in Nat
  BY ReadAssumption, EndType DEF Scalars
<1>1. CASE SetSize
  BY <1>1 DEF SetSize, SelectSize, Scalars, StdSize, copyvars, outvars, endvars
<1>2. CASE OldMode
  BY <1>2 DEF OldMode, Scalars, SetUp, copyvars, outvars, endvars
<1>3. CASE DoMode
  BY <1>3 DEF DoMode, Scalars, copyvars, outvars, endvars
<1>4. CASE Open
  BY <1>4 DEF Open, Scalars, drivevars, copyvars, outvars, endvars
<1>5. CASE NextChunk
  <2>1. cnt' \in Nat \ {0}
    BY <1>0, <1>5 DEF NextChunk, Scalars
  <2>2. pc' \in {"out", "exit", "read"} /\ excode' \in {0, -2, 2, 28}
    BY <1>5 DEF NextChunk, endvars, Scalars
  <2>3. aborted' \in BOOLEAN
    BY <1>5 DEF NextChunk, endvars, Scalars
  <2> QED
    BY <1>5, <2>1, <2>2, <2>3 DEF NextChunk, Scalars, drivevars, outvars, endvars
<1>6. CASE Read
  <2>1. pc' \in {"write", "out", "rcheck"} /\ excode' \in {0, -2, 2, 28}
    BY <1>6 DEF Read, GiveUp, Scalars
  <2>2. raddr' \in Nat /\ try' \in Nat /\ late' \in Nat
    BY <1>6 DEF Read, GiveUp, Begun, Scalars
  <2>3. lost' \in BOOLEAN
    BY <1>6 DEF Read, GiveUp, Scalars
  <2> QED
    BY <1>6, <2>1, <2>2, <2>3 DEF Read, Scalars, drivevars
<1>7. CASE Write
  <2>1. pc' \in {"head", "out"} /\ addr' \in Nat
    BY <1>7 DEF Write, Scalars
  <2>2. excode' \in {0, -2, 2, 28}
    BY <1>7 DEF Write, Scalars
  <2>3. lost' \in BOOLEAN /\ isfull' \in BOOLEAN
    BY <1>7 DEF Write, Scalars
  <2> QED
    BY <1>7, <2>1, <2>2, <2>3 DEF Write, Scalars, drivevars
<1>8. CASE RetryCheck \/ Seek \/ SeekCheck \/ RetryCheck2
  <2>1. pc' \in {"exit", "seek", "seeked", "rread", "rcheck2"} /\ late' \in Nat
    BY <1>8 DEF RetryCheck, Seek, SeekCheck, RetryCheck2, Look, Begun, Scalars
  <2>2. excode' \in {0, -2, 2, 28}
    BY <1>8 DEF RetryCheck, Seek, SeekCheck, RetryCheck2, Look, endvars, Scalars
  <2>3. aborted' \in BOOLEAN
    BY <1>8 DEF RetryCheck, Seek, SeekCheck, RetryCheck2, Look, endvars, Scalars
  <2> QED
    BY <1>8, <2>1, <2>2, <2>3 DEF RetryCheck, Seek, SeekCheck, RetryCheck2, Look,
                      Scalars, drivevars, copyvars,
                      outvars
<1>9. CASE RetryRead
  <2>1. /\ pc' \in {"rcheck", "write", "out"} /\ excode' \in {excode, -2}
        /\ raddr' \in {raddr, raddr + 1} /\ try' \in {try, try + 1, 0}
        /\ late' \in {late, late + 1}
    BY <1>9 DEF RetryRead, Settle, NextSector, GiveUp, Begun
  <2> QED
    BY <1>9, <2>1 DEF RetryRead, Scalars, drivevars
<1>10. CASE Out
  BY <1>10 DEF Out, Scalars, drivevars, copyvars, outvars, endvars
<1>11. CASE Resize
  BY <1>11 DEF Resize, SelectSize, Scalars, copyvars, outvars, endvars
<1>12. CASE Remode
  BY <1>0, <1>12 DEF Remode, Scalars, SetUp, copyvars, outvars, endvars
<1>13. CASE Exit
  BY <1>13 DEF Exit, Scalars, copyvars, outvars, endvars
<1>14. CASE Interrupt
  BY <1>14 DEF Interrupt, Scalars, drivevars, copyvars, outvars, endvars
<1>15. CASE UNCHANGED rvars
  BY <1>15 DEF rvars, Scalars
<1> QED
  BY <1>1, <1>2, <1>3, <1>4, <1>5, <1>6, <1>7, <1>8, <1>9, <1>10, <1>11, <1>12,
     <1>13, <1>14, <1>15 DEF RNext, Go, RDone

\* The steps of the copy itself, which leave the drive's settings alone.
LEMMA CopySteps ==
    ASSUME NextChunk \/ Read \/ Write \/ RetryCheck \/ Seek \/ SeekCheck \/ RetryCheck2 \/ RetryRead
    PROVE  /\ UNCHANGED <<job, osecsize, oerr, bsize, recovery>>
           /\ pc \in Unsized \ {"oldmode", "domode"}
           /\ pc' \notin {"size", "oldmode", "domode", "resize", "remode", "gone"}
           /\ pc' = "exit" => aborted'
<1> USE DEF Abort, drivevars, Unsized, Retrying
<1>1. CASE NextChunk
  BY <1>1 DEF NextChunk
<1>2. CASE Read
  BY <1>2 DEF Read, GiveUp
<1>3. CASE Write
  BY <1>3 DEF Write
<1>4. CASE RetryCheck \/ Seek \/ SeekCheck \/ RetryCheck2
  BY <1>4 DEF RetryCheck, Seek, SeekCheck, RetryCheck2, Look
<1>5. CASE RetryRead
  BY <1>5 DEF RetryRead, Settle, NextSector, GiveUp
<1> QED
  BY <1>1, <1>2, <1>3, <1>4, <1>5

\* Every step keeps what readcd knows of the changes it made to the drive.
LEMMA DriveStep == DriveInv /\ [RNext]_rvars => DriveInv'
<1> SUFFICES ASSUME DriveInv, [RNext]_rvars PROVE DriveInv'
  OBVIOUS
<1>0. Scalars'
  BY ScalarsStep DEF DriveInv
<1> SUFFICES SetUp' /\ Kept'
  BY <1>0 DEF DriveInv
<1> USE DEF DriveInv, SetUp, Kept, Unsized, Retrying, Abort, drivevars, endvars
<1>00. /\ job.raw \in BOOLEAN /\ job \in Jobs
       /\ recovery \in {"old", "default", "copy"}
       /\ oerr \in {"none", "old", "default"}
  BY ReadAssumption DEF Scalars
<1>1. CASE SetSize
  BY <1>00, <1>1 DEF SetSize, SelectSize
<1>2. CASE OldMode
  BY <1>00, <1>2 DEF OldMode
<1>3. CASE DoMode
  BY <1>00, <1>3 DEF DoMode
<1>4. CASE Open
  BY <1>00, <1>4 DEF Open
<1>5. CASE \/ NextChunk \/ Read \/ Write \/ RetryCheck \/ Seek \/ SeekCheck
           \/ RetryCheck2 \/ RetryRead
  <2>1. /\ UNCHANGED <<job, osecsize, oerr, bsize, recovery>>
        /\ pc \in Unsized \ {"oldmode", "domode"} /\ pc' # "size"
        /\ pc' \notin {"oldmode", "domode", "resize", "remode", "gone"}
        /\ pc' = "exit" => aborted'
    BY <1>5, CopySteps
  <2> QED
    BY <1>00, <2>1
<1>6. CASE Out
  BY <1>00, <1>6 DEF Out
<1>7. CASE Resize
  BY <1>00, <1>7 DEF Resize, SelectSize
<1>8. CASE Remode
  BY <1>00, <1>8 DEF Remode
<1>9. CASE Exit
  BY <1>00, <1>9 DEF Exit
<1>10. CASE Interrupt
  BY <1>00, <1>10 DEF Interrupt
<1>11. CASE UNCHANGED rvars
  BY <1>00, <1>11 DEF rvars
<1> QED
  BY <1>1, <1>2, <1>3, <1>4, <1>5, <1>6, <1>7, <1>8, <1>9, <1>10, <1>11
     DEF RNext, Go, RDone

\* The drive's error recovery is restored whatever ends the copy, its sector
\* size at the regular end of it, as long as the mode pages work: exscsi() and
\* the end of readcd_disk(), readc2_disk().
THEOREM RestoredAlways == RSpec => []Restored
<1>1. DriveInv => Restored
  BY DEF DriveInv, Scalars, SetUp, Kept, Restored
<1> QED
  BY DriveInit, DriveStep, <1>1, PTL DEF RSpec

-----------------------------------------------------------------------------
(* The signal *)

\* No read was begun since the signal where one is still to begin; without a
\* signal there is none to count.
Heard ==
    /\ late \in {0, 1}
    /\ ~didintr => late = 0
    /\ pc \in {"read", "seek", "rread"} => late = 0

\* The loops look at didintr before each read: a signal stops readcd with at
\* most the one that was about to be sent.
THEOREM PromptAlways == RSpec => []Prompt
<1>1. RInit => Heard
  BY ReadAssumption DEF RInit, Heard
<1>2. Scalars /\ Heard /\ [RNext]_rvars => Heard'
  <2> SUFFICES ASSUME Scalars, Heard, [RNext]_rvars PROVE Heard'
    OBVIOUS
  <2> USE DEF Scalars, Heard, Abort
  <2>1. CASE SetSize \/ OldMode \/ DoMode \/ Open \/ Out \/ Resize \/ Remode \/ Exit
    BY <2>1 DEF SetSize, SelectSize, OldMode, DoMode, Open, Out, Resize, Remode, Exit
  <2>2. CASE NextChunk
    BY <2>2 DEF NextChunk
  <2>3. CASE Read
    BY <2>3 DEF Read, GiveUp, Begun
  <2>4. CASE Write
    BY <2>4 DEF Write
  <2>5. CASE RetryCheck \/ Seek \/ SeekCheck \/ RetryCheck2
    BY <2>5 DEF RetryCheck, Seek, SeekCheck, RetryCheck2, Look, Begun
  <2>6. CASE RetryRead
    BY <2>6 DEF RetryRead, Settle, NextSector, GiveUp, Begun
  <2>7. CASE Interrupt
    BY <2>7 DEF Interrupt
  <2>8. CASE UNCHANGED rvars
    BY <2>8 DEF rvars
  <2> QED
    BY <2>1, <2>2, <2>3, <2>4, <2>5, <2>6, <2>7, <2>8 DEF RNext, Go, RDone
<1>3. DriveInv => Scalars
  BY DEF DriveInv
<1>4. Heard => Prompt
  BY DEF Heard, Prompt
<1> QED
  BY DriveInit, DriveStep, <1>1, <1>2, <1>3, <1>4, PTL DEF RSpec

-----------------------------------------------------------------------------
(* The buffers and the file *)

\* The steps that move data, and those that leave it alone.
LEMMA Undisturbed ==
    ASSUME [RNext]_rvars, ~Read, ~Write, ~RetryRead
    PROVE  UNCHANGED <<job, addr, sbuf, raddr, try, bad, file, isfull>>
<1> USE DEF copyvars, outvars
<1>1. CASE SetSize \/ OldMode \/ DoMode \/ Open \/ Out \/ Resize \/ Remode \/ Exit
  BY <1>1 DEF SetSize, SelectSize, OldMode, DoMode, Open, Out, Resize, Remode, Exit
<1>2. CASE NextChunk
  BY <1>2 DEF NextChunk
<1>3. CASE RetryCheck \/ Seek \/ SeekCheck \/ RetryCheck2
  BY <1>3 DEF RetryCheck, Seek, SeekCheck, RetryCheck2, Look
<1>4. CASE Interrupt
  BY <1>4 DEF Interrupt
<1>5. CASE UNCHANGED rvars
  BY <1>5 DEF rvars
<1> QED
  BY <1>1, <1>2, <1>3, <1>4, <1>5 DEF RNext, Go, RDone

\* A chunk of n sectors of which the first k could be read.
LEMMA ChunkType ==
    \A n \in Nat, k \in Int : /\ Chunk(n, k) \in Seq(Contained)
                              /\ Len(Chunk(n, k)) = n
<1> TAKE n \in Nat, k \in Int
<1>1. \A i \in 1 .. n : (IF i < k THEN "ok" ELSE "part") \in Contained
  BY DEF Contained
<1> QED
  BY <1>1 DEF Chunk

\* What a write puts into the file.
LEMMA Writes ==
    ASSUME Write, Scalars, Buffers, Len(sbuf) = cnt
    PROVE  \/ UNCHANGED <<job, addr, file, isfull>> /\ pc' = "out"
           \/ /\ \E n \in 0 .. cnt : file' = file \o Contents(n)
              /\ (~isfull' => file' = file \o Contents(cnt))
              /\ addr' = addr + cnt /\ ~isfull /\ pc' = "head" /\ UNCHANGED job
<1>1. cnt \in Nat
  BY DEF Scalars
<1>2. cnt \in 0 .. cnt /\ \A n \in 0 .. cnt - 1 : n \in 0 .. cnt
  BY <1>1
<1> QED
  BY <1>2 DEF Write

\* A sector that is read again takes its place in the buffer.
LEMMA Gets ==
    ASSUME RetryRead, Scalars, Buffers, InChunk
    PROVE  sbuf' \in Seq(Contained) /\ Len(sbuf') = Len(sbuf)
<1>1. PICK v \in Contained : sbuf' = [sbuf EXCEPT ![raddr - addr + 1] = v]
  BY DEF RetryRead, Got, Contained
<1>2. raddr - addr + 1 \in 1 .. Len(sbuf)
  BY DEF RetryRead, Scalars, InChunk, Retrying
<1>3. sbuf \in Seq(Contained)
  BY DEF Buffers
<1> QED
  BY <1>1, <1>2, <1>3, ExceptSeq

\* A retry adds one address to the list of bad sectors, or none.
LEMMA BadStep ==
    ASSUME RetryRead, Scalars, Buffers
    PROVE  bad' \in Seq(Nat)
<1>1. bad' = bad \/ bad' = Append(bad, raddr)
  BY DEF RetryRead, Settle
<1>2. bad \in Seq(Nat) /\ raddr \in Nat
  BY DEF Scalars, Buffers
<1>3. Append(bad, raddr) \in Seq(Nat)
  BY <1>2
<1> QED
  BY <1>1, <1>2, <1>3

\* Nothing is read or written when a copy starts.
LEMMA CopyInit == RInit => Buffers /\ InChunk /\ InPlace
<1> SUFFICES ASSUME RInit PROVE Buffers /\ InChunk /\ InPlace
  OBVIOUS
<1>1. Buffers
  <2>1. <<>> \in Seq(Nat \X Contained) /\ <<>> \in Seq(Contained) /\ <<>> \in Seq(Nat)
    OBVIOUS
  <2> QED
    BY <2>1, Zenon DEF RInit, Buffers
<1>2. pc = "size" \/ pc = "open"
  BY DEF RInit
<1>3. InChunk
  BY <1>2 DEF InChunk, Retrying
<1>4. InPlace
  BY ReadAssumption DEF RInit, InPlace
<1> QED
  BY <1>1, <1>3, <1>4

\* Every step keeps the file in order and the chunk within its range.
LEMMA CopyStep ==
    ASSUME CopyInv, Scalars', [RNext]_rvars
    PROVE  CopyInv'
<1>0. Scalars /\ Buffers
  BY TypeParts DEF CopyInv
<1>1. /\ job \in Jobs /\ job.start \in Nat /\ End(job) \in Nat
      /\ addr \in Nat /\ cnt \in Nat \ {0} /\ raddr \in Nat
      /\ file \in Seq(Nat \X Contained) /\ sbuf \in Seq(Contained)
  BY <1>0, EndType, ReadAssumption DEF Scalars, Buffers
<1> SUFFICES Buffers' /\ InChunk' /\ InPlace'
  BY DEF CopyInv, RTypeOK, Scalars, Buffers, Contained
<1>2. CASE ~Read /\ ~Write /\ ~RetryRead
  <2>1. UNCHANGED <<job, addr, sbuf, raddr, try, bad, file, isfull>>
    BY <1>2, Undisturbed
  <2>2. Buffers' /\ InPlace'
    BY <1>0, <2>1 DEF Buffers, CopyInv, InPlace
  <2>3. InChunk'
    <3>1. CASE NextChunk
      BY <1>1, <2>1, <3>1 DEF NextChunk, Abort, InChunk, Retrying
    <3>2. CASE RetryCheck \/ Seek \/ SeekCheck \/ RetryCheck2
      BY <2>1, <3>2 DEF RetryCheck, Seek, SeekCheck, RetryCheck2, Look, Abort, copyvars, CopyInv,
                        InChunk, Retrying
    <3>3. CASE SetSize \/ OldMode \/ DoMode \/ Open \/ Out \/ Resize \/ Remode \/ Exit
      BY <3>3 DEF SetSize, SelectSize, OldMode, DoMode, Open, Out, Resize, Remode, Exit, Abort,
                  InChunk, Retrying
    <3>4. CASE Interrupt \/ UNCHANGED rvars
      BY <3>4 DEF Interrupt, rvars, copyvars, CopyInv, InChunk
    <3> QED
      BY <1>2, <3>1, <3>2, <3>3, <3>4 DEF RNext, Go, RDone
  <2> QED
    BY <2>2, <2>3
<1>3. CASE Read
  <2>1. /\ UNCHANGED <<job, addr, cnt, bad, file, isfull>>
        /\ pc' \in {"write", "out", "rcheck"}
        /\ pc' = "rcheck" => raddr' = addr
        /\ \E k \in Int : sbuf' = Chunk(cnt, k)
        /\ pc = "read"
    <3>1. cnt + 1 \in Int /\ 1 \in Int /\ \A k \in 1 .. cnt : k \in Int
      BY <1>1
    <3>2. \E k \in Int : sbuf' = Chunk(cnt, k)
      BY <1>3, <3>1 DEF Read, GiveUp
    <3> QED
      BY <1>3, <3>2 DEF Read, GiveUp
  <2>2. sbuf' \in Seq(Contained) /\ Len(sbuf') = cnt
    BY <1>1, <2>1, ChunkType
  <2>3. Buffers' /\ InPlace'
    BY <1>0, <2>1, <2>2 DEF Buffers, CopyInv, InPlace
  <2>4. InChunk'
    BY <1>1, <2>1, <2>2 DEF CopyInv, InChunk, Retrying
  <2> QED
    BY <2>3, <2>4
<1>4. CASE Write
  <2>0. pc = "write" /\ Len(sbuf) = cnt
    BY <1>4 DEF Write, CopyInv, InChunk
  <2>1. UNCHANGED <<sbuf, bad>>
    BY <1>4 DEF Write
  <2>2. InChunk'
    BY <1>4 DEF Write, InChunk, Retrying
  <2>3. CASE UNCHANGED <<job, addr, file, isfull>>
    BY <1>0, <2>1, <2>2, <2>3 DEF Buffers, CopyInv, InPlace
  <2>4. CASE ~UNCHANGED <<job, addr, file, isfull>>
    <3>1. /\ \E n \in 0 .. cnt : file' = file \o Contents(n)
          /\ ~isfull' => file' = file \o Contents(cnt)
          /\ addr' = addr + cnt /\ ~isfull /\ job' = job
      BY <1>0, <1>4, <2>0, <2>4, Writes
    <3>2. PICK n \in 0 .. cnt : file' = file \o Contents(n)
      BY <3>1
    <3>3. /\ file' \in Seq(Nat \X Contained)
          /\ \A i \in DOMAIN file' : file'[i][1] = job'.start + i - 1
          /\ job'.start + Len(file') <= End(job')
      BY <2>0, <3>1, <3>2, WrittenInPlace
    <3>4. ~isfull' => addr' = job'.start + Len(file')
      <4> SUFFICES ASSUME ~isfull' PROVE addr' = job'.start + Len(file')
        OBVIOUS
      <4>1. cnt \in 0 .. cnt
        BY <1>1
      <4>2. file' = file \o Contents(cnt)
        BY <3>1
      <4>3. Len(file') = Len(file) + cnt
        BY <2>0, <3>1, <4>1, <4>2, WrittenInPlace
      <4>4. addr = job.start + Len(file) /\ Len(file) \in Nat
        BY <1>1, <3>1 DEF CopyInv, InPlace
      <4> QED
        BY <1>1, <3>1, <4>3, <4>4
    <3>5. InPlace'
      BY <3>3, <3>4 DEF InPlace
    <3>6. Buffers'
      BY <1>0, <2>1, <3>3 DEF Buffers
    <3> QED
      BY <2>2, <3>5, <3>6
  <2> QED
    BY <2>3, <2>4
<1>5. CASE RetryRead
  <2>1. /\ UNCHANGED <<job, addr, cnt, file, isfull>> /\ pc = "rread"
        /\ sbuf' \in Seq(Contained) /\ Len(sbuf') = Len(sbuf)
        /\ bad' \in Seq(Nat)
    BY <1>0, <1>5, Gets, BadStep DEF RetryRead, CopyInv
  <2>2. Buffers' /\ InPlace'
    BY <1>0, <2>1 DEF Buffers, CopyInv, InPlace
  <2>3. \/ pc' = "rcheck" /\ raddr' = raddr
        \/ pc' = "rcheck" /\ raddr' = raddr + 1 /\ raddr + 1 < addr + cnt
        \/ pc' = "write" \/ pc' = "out"
    BY <1>5 DEF RetryRead, Settle, NextSector, GiveUp
  <2>4. InChunk'
    BY <1>1, <2>1, <2>3 DEF CopyInv, InChunk, Retrying
  <2> QED
    BY <2>2, <2>4
<1> QED
  BY <1>2, <1>3, <1>4, <1>5

\* Both invariants hold in every reachable state.
LEMMA CopyAlways == RSpec => [](DriveInv /\ CopyInv)
<1>1. RInit => DriveInv /\ CopyInv
  BY DriveInit, CopyInit, TypeParts DEF DriveInv, CopyInv
<1>2. DriveInv /\ CopyInv /\ [RNext]_rvars => (DriveInv /\ CopyInv)'
  BY DriveStep, CopyStep DEF DriveInv
<1> QED
  BY <1>1, <1>2, PTL DEF RSpec

\* Type correctness of readcd's copy.
THEOREM CopyTypeCorrect == RSpec => []RTypeOK
<1>1. DriveInv /\ CopyInv => RTypeOK
  BY DEF CopyInv
<1> QED
  BY CopyAlways, <1>1, PTL

-----------------------------------------------------------------------------
(* The copy implements Stream *)

\* A file in place is the beginning of what was asked for.
LEMMA Beginning ==
    CopyInv => /\ Len(file) \in Nat /\ Len(Wanted) \in Nat
               /\ Len(file) <= Len(Wanted) /\ Len(Written) = Len(file)
               /\ Written = SubSeq(Wanted, 1, Len(file))
<1> SUFFICES ASSUME CopyInv
             PROVE  /\ Len(file) \in Nat /\ Len(Wanted) \in Nat
                    /\ Len(file) <= Len(Wanted) /\ Len(Written) = Len(file)
                    /\ Written = SubSeq(Wanted, 1, Len(file))
  OBVIOUS
<1>1. job.start \in Nat /\ End(job) \in Nat /\ file \in Seq(Nat \X Contained)
  BY EndType, ReadAssumption DEF CopyInv, RTypeOK, Contained
<1> DEFINE n == IF End(job) > job.start THEN End(job) - job.start ELSE 0
<1>2. n \in Nat /\ Len(file) \in Nat
  BY <1>1
<1>3. Len(file) <= n
  BY <1>1 DEF CopyInv, InPlace
<1>4. /\ Wanted = [i \in 1 .. n |-> job.start + i - 1]
      /\ Wanted \in Seq(Int) /\ Len(Wanted) = n
  <2>1. Wanted = [i \in 1 .. n |-> job.start + i - 1]
    BY DEF Wanted
  <2> HIDE DEF n
  <2>2. \A i \in 1 .. n : job.start + i - 1 \in Int
    BY <1>1, <1>2
  <2> QED
    BY <1>2, <2>1, <2>2
<1> HIDE DEF n
<1>5. DOMAIN file = 1 .. Len(file)
  BY <1>1
<1>6. Written = [i \in 1 .. Len(file) |-> job.start + i - 1]
  BY <1>5 DEF Written, CopyInv, InPlace
<1>7. Written \in Seq(Int) /\ Len(Written) = Len(file)
  BY <1>1, <1>2, <1>6
<1>8. /\ SubSeq(Wanted, 1, Len(file)) \in Seq(Int)
      /\ Len(SubSeq(Wanted, 1, Len(file))) = Len(file)
      /\ \A i \in 1 .. Len(file) : SubSeq(Wanted, 1, Len(file))[i] = Wanted[i]
  BY <1>2, <1>3, <1>4
<1>9. \A i \in 1 .. Len(file) : Written[i] = Wanted[i]
  BY <1>2, <1>3, <1>4, <1>6
<1>10. Written = SubSeq(Wanted, 1, Len(file))
  BY <1>7, <1>8, <1>9, SeqEqual
<1> QED
  BY <1>2, <1>3, <1>4, <1>7, <1>10

\* The job stays, and the file never gets shorter.
LEMMA Grows ==
    ASSUME CopyInv, [RNext]_rvars
    PROVE  UNCHANGED job /\ Len(file') >= Len(file)
<1>0. Scalars /\ Buffers /\ Len(file) \in Nat
  BY TypeParts, Beginning DEF CopyInv
<1>1. CASE ~Read /\ ~Write /\ ~RetryRead
  BY <1>0, <1>1, Undisturbed
<1>2. CASE Read \/ RetryRead
  BY <1>0, <1>2 DEF Read, RetryRead
<1>3. CASE Write
  <2>1. pc = "write" /\ Len(sbuf) = cnt /\ cnt \in Nat
    BY <1>0, <1>3 DEF Write, CopyInv, InChunk, Scalars
  <2>2. CASE UNCHANGED <<job, addr, file, isfull>>
    BY <1>0, <2>2
  <2>3. CASE ~UNCHANGED <<job, addr, file, isfull>>
    <3>1. job' = job /\ ~isfull /\ \E n \in 0 .. cnt : file' = file \o Contents(n)
      BY <1>0, <1>3, <2>1, <2>3, Writes
    <3>2. PICK n \in 0 .. cnt : file' = file \o Contents(n)
      BY <3>1
    <3>3. Len(file') = Len(file) + n
      BY <2>1, <3>1, <3>2, WrittenInPlace
    <3> QED
      BY <1>0, <2>1, <3>1, <3>3
  <2> QED
    BY <2>2, <2>3
<1> QED
  BY <1>1, <1>2, <1>3

\* A step of the copy adds the next sectors to the file, or none.
LEMMA CopyTransfers ==
    ASSUME CopyInv, CopyInv', [RNext]_rvars
    PROVE  [Copy!Transfer]_<<Wanted, Written>>
<1>1. /\ Len(file) \in Nat /\ Len(Written) = Len(file)
      /\ Written = SubSeq(Wanted, 1, Len(file))
  BY Beginning
<1>2. /\ Len(file') \in Nat /\ Len(Wanted') \in Nat /\ Len(file') <= Len(Wanted')
      /\ Written' = SubSeq(Wanted', 1, Len(file'))
  <2>1. (/\ Len(file) \in Nat /\ Len(Wanted) \in Nat
         /\ Len(file) <= Len(Wanted) /\ Len(Written) = Len(file)
         /\ Written = SubSeq(Wanted, 1, Len(file)))'
    BY Beginning, PTL
  <2> QED
    BY <2>1
<1>3. Wanted' = Wanted /\ Len(file') >= Len(file)
  BY Grows DEF Wanted
<1>4. CASE Len(file') = Len(file)
  BY <1>1, <1>2, <1>3, <1>4
<1>5. CASE Len(file') > Len(file)
  <2>1. Len(file') \in Len(Written) + 1 .. Len(Wanted)
    BY <1>1, <1>2, <1>3, <1>5
  <2> QED
    BY <1>2, <1>3, <2>1 DEF Copy!Transfer
<1> QED
  BY <1>1, <1>2, <1>3, <1>4, <1>5

\* The file is the range asked for, in order and each sector once, whatever
\* fails: read_generic() and read_retry() implement Stream.
THEOREM CopyInOrder == RSpec => InOrder
<1>1. RInit => Copy!Init
  BY DEF RInit, Copy!Init, Written
<1>2. DriveInv /\ CopyInv /\ (DriveInv /\ CopyInv)' /\ [RNext]_rvars
          => [Copy!Transfer]_<<Wanted, Written>>
  BY CopyTransfers
<1> QED
  BY CopyAlways, <1>1, <1>2, PTL DEF RSpec, InOrder, Copy!Spec

-----------------------------------------------------------------------------
(* The list of bad sectors *)

Listed(list, a) == \E i \in DOMAIN list : list[i] = a

\* What the list of job j says of the sector at address a with contents c.
Fits(j, list, a, c) ==
    /\ c = "zero" => Listed(list, a)
    /\ j.retries > 0 /\ Listed(list, a) => c = "zero"
    /\ ~j.edc => c # "part"

\* Where the copy is: everything below has been decided on.
Decided == IF pc \in Retrying THEN raddr ELSE IF pc = "write" THEN addr + cnt ELSE addr

Ending == {"out", "resize", "remode", "exit", "gone"}

\* The list goes up, stays below what is decided on, and with retries holds no
\* sector that is good.
ListInOrder ==
    /\ \A i, k \in DOMAIN bad : i < k => bad[i] < bad[k]
    /\ pc \notin Ending => \A i \in DOMAIN bad : bad[i] < Decided
    /\ job.retries > 0 => \A i \in DOMAIN bad : Quality(bad[i]) # "good"
    /\ job.retries > 0 /\ pc \in Retrying => try < job.retries

\* List, file, and the part of the buffer that is decided on agree.
ListFits ==
    /\ job.start + Len(file) <= addr
    /\ \A i \in DOMAIN file : Fits(job, bad, file[i][1], file[i][2])
    /\ pc \in {"write"} \cup Retrying =>
           \A i \in DOMAIN sbuf : addr + i - 1 < Decided => Fits(job, bad, addr + i - 1, sbuf[i])

ListInv == ListInOrder /\ ListFits

\* What an exit code of 0 means from the place where it is settled.
Excused ==
    /\ pc \in Ending /\ excode = 0 /\ ~lost => addr >= End(job)
    /\ isfull => lost
    /\ bad # <<>> /\ excode = 0 => job.noerror

\* The steps that move no data keep the place, or leave for another part.
LEMMA Moves ==
    ASSUME [RNext]_rvars, ~Read, ~Write, ~RetryRead
    PROVE  \/ pc' \in Ending
           \/ pc' = pc /\ cnt' = cnt
           \/ /\ pc \notin {"write"} \cup Retrying \cup Ending
              /\ pc' \notin {"write"} \cup Retrying
           \/ pc \in Retrying /\ pc' \in Retrying /\ cnt' = cnt
<1> USE DEF copyvars, Ending, Retrying, Abort
<1>1. CASE SetSize \/ OldMode \/ DoMode \/ Open
  BY <1>1 DEF SetSize, SelectSize, OldMode, DoMode, Open
<1>2. CASE NextChunk
  BY <1>2 DEF NextChunk
<1>3. CASE RetryCheck \/ Seek \/ SeekCheck \/ RetryCheck2
  BY <1>3 DEF RetryCheck, Seek, SeekCheck, RetryCheck2, Look
<1>4. CASE Out \/ Resize \/ Remode \/ Exit
  BY <1>4 DEF Out, Resize, Remode, Exit
<1>5. CASE Interrupt
  BY <1>5 DEF Interrupt
<1>6. CASE UNCHANGED rvars
  BY <1>6 DEF rvars
<1> QED
  BY <1>1, <1>2, <1>3, <1>4, <1>5, <1>6 DEF RNext, Go, RDone

\* One more address on the list.
LEMMA Lists ==
    ASSUME bad \in Seq(Nat), NEW r \in Nat, bad' = Append(bad, r)
    PROVE  /\ \A a : Listed(bad', a) <=> Listed(bad, a) \/ a = r
           /\ \A i \in DOMAIN bad' : \/ i \in DOMAIN bad /\ bad'[i] = bad[i]
                                     \/ i = Len(bad) + 1 /\ bad'[i] = r
           /\ \A i \in DOMAIN bad : i \in DOMAIN bad' /\ bad'[i] = bad[i]
           /\ DOMAIN bad = 1 .. Len(bad) /\ DOMAIN bad' = 1 .. Len(bad) + 1
           /\ bad'[Len(bad) + 1] = r
<1>1. /\ Len(bad) \in Nat /\ DOMAIN bad = 1 .. Len(bad)
      /\ DOMAIN bad' = 1 .. Len(bad) + 1
      /\ \A i \in 1 .. Len(bad) : bad'[i] = bad[i]
      /\ bad'[Len(bad) + 1] = r
  BY AppendProperties
<1>2. \A a : Listed(bad', a) <=> Listed(bad, a) \/ a = r
  <2> TAKE a
  <2>1. Listed(bad', a) <=> \E i \in 1 .. Len(bad) + 1 : bad'[i] = a
    BY <1>1 DEF Listed
  <2>2. Listed(bad, a) <=> \E i \in 1 .. Len(bad) : bad[i] = a
    BY <1>1 DEF Listed
  <2>3. /\ Len(bad) + 1 \in 1 .. Len(bad) + 1
        /\ \A i \in 1 .. Len(bad) + 1 : i \in 1 .. Len(bad) \/ i = Len(bad) + 1
        /\ \A i \in 1 .. Len(bad) : i \in 1 .. Len(bad) + 1
    BY <1>1
  <2> QED
    BY <1>1, <2>1, <2>2, <2>3
<1> QED
  BY <1>1, <1>2

\* The two ways a sector is settled.
LEMMA Settled ==
    ASSUME NEW n, Settle(n)
    PROVE  \/ n >= job.retries /\ bad' = Append(bad, raddr) /\ job.noerror
              /\ NextSector /\ excode' = excode
           \/ n >= job.retries /\ bad' = Append(bad, raddr)
              /\ pc' = "out" /\ excode' = -2
           \/ ~(n >= job.retries) /\ bad' = bad /\ NextSector /\ excode' = excode
<1>1. CASE n >= job.retries
  BY <1>1, Zenon DEF Settle, GiveUp
<1>2. CASE ~(n >= job.retries)
  BY <1>2, Zenon DEF Settle
<1> QED
  BY <1>1, <1>2

\* What a retry leaves behind: v is what it puts into the buffer.
LEMMA Outcome ==
    ASSUME RetryRead, Scalars, job.retries \in Nat,
           job.retries > 0 => try < job.retries
    PROVE  \E v \in Contained :
              /\ sbuf' = [sbuf EXCEPT ![raddr - addr + 1] = v]
              /\ \/ bad' = bad
                 \/ /\ bad' = Append(bad, raddr)
                    /\ job.retries > 0 => v = "zero" /\ Quality(raddr) # "good"
              /\ \/ pc' = "rcheck" /\ raddr' = raddr /\ bad' = bad /\ excode' = excode
                    /\ try' < job.retries
                 \/ pc' = "out" /\ excode' = -2
                 \/ /\ NextSector /\ excode' = excode
                    /\ bad' = bad => v # "zero"
                    /\ bad' # bad => job.noerror
                    /\ v = "part" => job.edc
<1>1. try \in Nat
  BY DEF Scalars
<1> DEFINE Place(v) == sbuf' = [sbuf EXCEPT ![raddr - addr + 1] = v]
<1>2. \/ Place("ok") /\ Settle(try)
      \/ Place("part") /\ job.edc /\ Settle(try)
      \/ Place("part") /\ pc' = "out" /\ excode' = -2 /\ bad' = bad
      \/ /\ Place("zero") /\ Quality(raddr) # "good"
         /\ try + 1 < job.retries /\ try' = try + 1 /\ pc' = "rcheck"
         /\ UNCHANGED <<raddr, bad, excode>>
      \/ /\ Place("zero") /\ Quality(raddr) # "good"
         /\ try + 1 >= job.retries /\ Settle(try + 1)
  BY Zenon DEF RetryRead, Got, GiveUp
<1>3. ~(try >= job.retries) \/ ~(job.retries > 0)
  BY <1>1
<1> HIDE DEF Place
<1>4. CASE Place("ok") /\ Settle(try)
  <2> SUFFICES /\ \/ bad' = bad
                  \/ bad' = Append(bad, raddr) /\ ~(job.retries > 0)
               /\ \/ pc' = "out" /\ excode' = -2
                  \/ NextSector /\ excode' = excode /\ (bad' # bad => job.noerror)
    BY <1>4, Zenon DEF Contained, Place
  <2> QED
    BY <1>3, <1>4, Settled, Zenon
<1>5. CASE Place("part") /\ job.edc /\ Settle(try)
  <2> SUFFICES /\ \/ bad' = bad
                  \/ bad' = Append(bad, raddr) /\ ~(job.retries > 0)
               /\ \/ pc' = "out" /\ excode' = -2
                  \/ NextSector /\ excode' = excode /\ (bad' # bad => job.noerror)
    BY <1>5, Zenon DEF Contained, Place
  <2> QED
    BY <1>3, <1>5, Settled, Zenon
<1>6. CASE Place("part") /\ pc' = "out" /\ excode' = -2 /\ bad' = bad
  BY <1>6, Zenon DEF Contained, Place
<1>7. CASE /\ Place("zero") /\ Quality(raddr) # "good"
           /\ try + 1 < job.retries /\ try' = try + 1 /\ pc' = "rcheck"
           /\ UNCHANGED <<raddr, bad, excode>>
  BY <1>7, Zenon DEF Contained, Place
<1>8. CASE /\ Place("zero") /\ Quality(raddr) # "good"
           /\ try + 1 >= job.retries /\ Settle(try + 1)
  <2>1. /\ bad' = Append(bad, raddr)
        /\ \/ pc' = "out" /\ excode' = -2
           \/ NextSector /\ excode' = excode /\ job.noerror
    BY <1>8, Settled, Zenon
  <2>2. bad' # bad
    BY <2>1, AppendProperties
  <2> QED
    BY <1>8, <2>1, <2>2, Zenon DEF Contained, Place
<1> QED
  BY <1>2, <1>4, <1>5, <1>6, <1>7, <1>8, Zenon

\* Where neither list nor job changes, what fits still does.
LEMMA SameList ==
    ASSUME UNCHANGED <<job, bad>>
    PROVE  /\ \A a, c : Fits(job', bad', a, c) <=> Fits(job, bad, a, c)
           /\ \A a : Quality(a)' = Quality(a)
  BY DEF Fits, Listed, Quality, Cap

\* A sector that is not the new one on the list fits as before.
LEMMA LongerList ==
    ASSUME bad \in Seq(Nat), NEW r \in Nat, bad' = Append(bad, r), UNCHANGED job
    PROVE  \A a, c : a # r => (Fits(job', bad', a, c) <=> Fits(job, bad, a, c))
  BY Lists DEF Fits

\* An address that the list does not reach is not on it.
LEMMA Beyond ==
    ASSUME NEW n \in Int, bad \in Seq(Nat), \A i \in DOMAIN bad : bad[i] < n
    PROVE  \A a \in Int : a >= n => ~Listed(bad, a)
<1> TAKE a \in Int
<1>1. \A i \in DOMAIN bad : bad[i] \in Nat
  OBVIOUS
<1> QED
  BY <1>1 DEF Listed

\* Every step keeps the list of bad sectors right.
LEMMA ListStep ==
    ASSUME CopyInv, CopyInv', ListInv, [RNext]_rvars
    PROVE  ListInv'
<1>0. Scalars /\ Buffers /\ Scalars' /\ Buffers'
  BY TypeParts DEF CopyInv, Buffers, RTypeOK, Scalars, Contained
<1>1. /\ job \in Jobs /\ job.start \in Nat /\ job.retries \in Nat
      /\ addr \in Nat /\ cnt \in Nat \ {0} /\ raddr \in Nat /\ try \in Nat
      /\ bad \in Seq(Nat) /\ file \in Seq(Nat \X Contained) /\ sbuf \in Seq(Contained)
  BY <1>0, ReadAssumption DEF Scalars, Buffers
<1>2. CASE ~Read /\ ~Write /\ ~RetryRead
  <2>1. UNCHANGED <<job, addr, sbuf, raddr, try, bad, file>>
    BY <1>2, Undisturbed
  <2>2. /\ \A a, c : Fits(job', bad', a, c) <=> Fits(job, bad, a, c)
        /\ \A a : Quality(a)' = Quality(a)
    BY <2>1, SameList
  <2>3. /\ pc' \notin Ending => pc \notin Ending /\ Decided' = Decided
        /\ pc' \in Retrying => pc \in Retrying
        /\ pc' \in {"write"} \cup Retrying => pc \in {"write"} \cup Retrying
    <3>1. \/ pc' \in Ending
          \/ pc' = pc /\ cnt' = cnt
          \/ /\ pc \notin {"write"} \cup Retrying \cup Ending
             /\ pc' \notin {"write"} \cup Retrying
          \/ pc \in Retrying /\ pc' \in Retrying /\ cnt' = cnt
      BY <1>2, Moves
    <3> QED
      BY <2>1, <3>1 DEF Decided, Ending, Retrying
  <2>4. ListInOrder'
    BY <2>1, <2>2, <2>3 DEF ListInv, ListInOrder
  <2>5. ListFits'
    <3>1. pc' \in {"write"} \cup Retrying => Decided' = Decided
      BY <2>3 DEF Ending, Retrying
    <3> QED
      BY <2>1, <2>2, <2>3, <3>1 DEF ListInv, ListFits
  <2> QED
    BY <2>4, <2>5 DEF ListInv
<1>3. CASE Read
  <2>1. /\ UNCHANGED <<job, addr, cnt, bad, file>> /\ pc = "read"
        /\ pc' \in {"write", "out", "rcheck"}
        /\ pc' = "rcheck" => raddr' = addr /\ try' = 0
    BY <1>3, Zenon DEF Read, GiveUp
  <2>2. pc' = "write" => \E k \in Int : sbuf' = Chunk(cnt, k) /\ (k = cnt + 1 \/ job.edc)
    <3>1. cnt + 1 \in Int /\ \A k \in 1 .. cnt : k \in Int
      BY <1>1
    <3> QED
      BY <1>3, <3>1, Zenon DEF Read, GiveUp
  <2>3. /\ \A a, c : Fits(job', bad', a, c) <=> Fits(job, bad, a, c)
        /\ \A a : Quality(a)' = Quality(a)
    BY <2>1, SameList
  <2>4. \A i \in DOMAIN bad : bad[i] < addr
    BY <2>1 DEF ListInv, ListInOrder, Decided, Ending, Retrying
  <2>5. ListInOrder'
    <3>1. \A i \in DOMAIN bad : bad[i] \in Nat
      BY <1>1
    <3>2. pc' \notin Ending => Decided' = addr \/ Decided' = addr + cnt
      BY <2>1 DEF Decided, Ending, Retrying
    <3>3. pc' \notin Ending => \A i \in DOMAIN bad' : bad'[i] < Decided'
      BY <1>1, <2>1, <2>4, <3>1, <3>2
    <3>4. job'.retries > 0 /\ pc' \in Retrying => try' < job'.retries
      BY <1>1, <2>1 DEF Retrying
    <3> QED
      BY <2>1, <2>3, <3>3, <3>4 DEF ListInv, ListInOrder
  <2>6. ASSUME pc' = "write", NEW i \in DOMAIN sbuf'
        PROVE  Fits(job, bad, addr + i - 1, sbuf'[i])
    <3>1. PICK k \in Int : sbuf' = Chunk(cnt, k) /\ (k = cnt + 1 \/ job.edc)
      BY <2>2, <2>6
    <3>2. i \in 1 .. cnt /\ sbuf'[i] = (IF i < k THEN "ok" ELSE "part")
      BY <2>6, <3>1 DEF Chunk
    <3>3. ~Listed(bad, addr + i - 1)
      BY <1>1, <2>4, <3>2, Beyond
    <3>4. \/ sbuf'[i] = "ok"
          \/ sbuf'[i] = "part" /\ job.edc
      <4>1. k = cnt + 1 => i < k
        BY <1>1, <3>2
      <4>2. i < k => sbuf'[i] = "ok"
        BY <3>2
      <4>3. ~(i < k) => sbuf'[i] = "part"
        BY <3>2
      <4> QED
        BY <3>1, <4>1, <4>2, <4>3, Zenon
    <3> QED
      BY <3>3, <3>4 DEF Fits
  <2>7. ListFits'
    <3>1. pc' = "rcheck" => \A i \in DOMAIN sbuf' : ~(addr' + i - 1 < Decided')
      <4>1. pc' = "rcheck" => Decided' = addr
        BY <2>1 DEF Decided, Retrying
      <4>2. \A i \in DOMAIN sbuf' : i \in Nat /\ i >= 1
        BY <1>0 DEF Buffers
      <4> QED
        BY <1>1, <2>1, <4>1, <4>2
    <3>2. pc' \in {"write"} \cup Retrying => pc' = "write" \/ pc' = "rcheck"
      BY <2>1 DEF Retrying
    <3> QED
      BY <2>1, <2>3, <2>6, <3>1, <3>2 DEF ListInv, ListFits
  <2> QED
    BY <2>5, <2>7 DEF ListInv
<1>4. CASE Write
  <2>0. /\ pc = "write" /\ Len(sbuf) = cnt
        /\ UNCHANGED <<job, sbuf, raddr, try, bad, cnt>>
    BY <1>4 DEF Write, CopyInv, InChunk
  <2>1. /\ \A a, c : Fits(job', bad', a, c) <=> Fits(job, bad, a, c)
        /\ \A a : Quality(a)' = Quality(a)
    BY <2>0, SameList
  <2>2. /\ pc' \in {"head", "out"}
        /\ pc' = "head" => addr' = addr + cnt
    BY <1>4 DEF Write
  <2>3. Decided = addr + cnt /\ (pc' = "head" => Decided' = Decided)
    BY <2>0, <2>2 DEF Decided, Retrying
  <2>4. ListInOrder'
    BY <2>0, <2>1, <2>2, <2>3 DEF ListInv, ListInOrder, Ending, Retrying
  <2>5. /\ job'.start + Len(file') <= addr'
        /\ \A i \in DOMAIN file' : Fits(job, bad, file'[i][1], file'[i][2])
    <3>1. CASE UNCHANGED <<addr, file>>
      BY <2>0, <3>1 DEF ListInv, ListFits
    <3>2. CASE ~UNCHANGED <<addr, file>>
      <4>1. /\ \E n \in 0 .. cnt : file' = file \o Contents(n)
            /\ addr' = addr + cnt /\ ~isfull /\ job' = job
        BY <1>0, <1>4, <2>0, <3>2, Writes
      <4>2. PICK n \in 0 .. cnt : file' = file \o Contents(n)
        BY <4>1
      <4>3. Len(file') = Len(file) + n /\ Len(file) \in Nat /\ n \in Nat /\ n <= cnt
        <5>1. Len(file') = Len(file) + n
          BY <2>0, <4>1, <4>2, WrittenInPlace
        <5> QED
          BY <1>1, <5>1
      <4>4. job.start + Len(file) <= addr
        BY DEF ListInv, ListFits
      <4>5. job'.start + Len(file') <= addr'
        BY <1>1, <4>1, <4>3, <4>4
      <4>6. n \in 0 .. Len(sbuf)
        BY <2>0, <4>2
      <4>7. /\ Contents(n) \in Seq(Nat \X Contained) /\ Len(Contents(n)) = n
            /\ Contents(n) = [i \in 1 .. n |-> <<addr + i - 1, sbuf[i]>>]
        BY <4>6, ContentsType DEF CopyInv, Contents
      <4> DEFINE g == Contents(n)
      <4>8. ASSUME NEW i \in DOMAIN file' PROVE Fits(job, bad, file'[i][1], file'[i][2])
        <5>0. \A S : file \in Seq(S) /\ g \in Seq(S) =>
                 /\ \A k \in 1 .. Len(file) : (file \o g)[k] = file[k]
                 /\ \A k \in Len(file) + 1 .. Len(file) + Len(g) :
                       (file \o g)[k] = g[k - Len(file)]
                 /\ DOMAIN (file \o g) = 1 .. Len(file) + Len(g)
          <6> HIDE DEF g
          <6> QED
            OBVIOUS
        <5>1. i \in 1 .. Len(file) + n
          BY <1>1, <4>2, <4>7, <5>0
        <5>2. CASE i <= Len(file)
          <6>1. i \in 1 .. Len(file) /\ i \in DOMAIN file
            BY <1>1, <4>3, <5>1, <5>2
          <6>2. file'[i] = file[i]
            BY <1>1, <4>2, <4>7, <5>0, <6>1
          <6> QED
            BY <6>1, <6>2 DEF ListInv, ListFits
        <5>3. CASE ~(i <= Len(file))
          <6>1. i \in Len(file) + 1 .. Len(file) + n /\ i - Len(file) \in 1 .. n
            BY <4>3, <5>1, <5>3
          <6>2. file'[i] = g[i - Len(file)]
            BY <1>1, <4>2, <4>7, <5>0, <6>1
          <6> DEFINE k == i - Len(file)
          <6>3. k \in 1 .. n /\ file'[i] = <<addr + k - 1, sbuf[k]>>
            BY <4>7, <6>1, <6>2
          <6> HIDE DEF k
          <6>4. k \in DOMAIN sbuf /\ addr + k - 1 < Decided
            BY <1>1, <2>0, <2>3, <4>3, <6>3
          <6>5. Fits(job, bad, addr + k - 1, sbuf[k])
            BY <2>0, <6>4 DEF ListInv, ListFits
          <6> QED
            BY <6>3, <6>5
        <5> QED
          BY <5>2, <5>3
      <4> QED
        BY <4>5, <4>8
    <3> QED
      BY <3>1, <3>2
  <2>6. ListFits'
    BY <2>1, <2>2, <2>5 DEF ListFits, Retrying
  <2> QED
    BY <2>4, <2>6 DEF ListInv
<1>5. CASE RetryRead
  <2>0. /\ UNCHANGED <<job, addr, cnt, file, isfull>> /\ pc = "rread"
        /\ Len(sbuf) = cnt /\ raddr \in addr .. addr + cnt - 1
        /\ Decided = raddr /\ (job.retries > 0 => try < job.retries)
    BY <1>5 DEF RetryRead, CopyInv, InChunk, ListInv, ListInOrder, Decided, Retrying
  <2>1. PICK v \in Contained :
              /\ sbuf' = [sbuf EXCEPT ![raddr - addr + 1] = v]
              /\ \/ bad' = bad
                 \/ /\ bad' = Append(bad, raddr)
                    /\ job.retries > 0 => v = "zero" /\ Quality(raddr) # "good"
              /\ \/ pc' = "rcheck" /\ raddr' = raddr /\ bad' = bad /\ excode' = excode
                    /\ try' < job.retries
                 \/ pc' = "out" /\ excode' = -2
                 \/ /\ NextSector /\ excode' = excode
                    /\ bad' = bad => v # "zero"
                    /\ bad' # bad => job.noerror
                    /\ v = "part" => job.edc
    BY <1>0, <1>1, <1>5, <2>0, Outcome
  <2>2. \A i \in DOMAIN bad : bad[i] < raddr
    BY <2>0 DEF ListInv, ListInOrder, Ending
  <2>3. /\ \A a : Quality(a)' = Quality(a)
        /\ \A a, c : a # raddr => (Fits(job', bad', a, c) <=> Fits(job, bad, a, c))
    <3>1. \A a : Quality(a)' = Quality(a)
      BY <2>0 DEF Quality, Cap
    <3>2. CASE bad' = bad
      BY <2>0, <3>1, <3>2, SameList
    <3>3. CASE bad' = Append(bad, raddr)
      BY <1>1, <2>0, <3>1, <3>3, LongerList
    <3> QED
      BY <2>1, <3>2, <3>3
  <2>4. \/ pc' = "out"
        \/ pc' = "rcheck" /\ raddr' = raddr /\ bad' = bad /\ Decided' = raddr
        \/ NextSector /\ Decided' = raddr + 1
    <3>1. CASE NextSector
      BY <1>1, <2>0, <3>1 DEF NextSector, Decided, Retrying
    <3> QED
      BY <2>1, <3>1 DEF Decided, Retrying
  <2>5. ListInOrder'
    <3>1. CASE bad' = bad
      <4>1. \A i \in DOMAIN bad : bad[i] < raddr + 1
        BY <1>1, <2>2
      <4>2. pc' \notin Ending => \A i \in DOMAIN bad' : bad'[i] < Decided'
        BY <2>2, <2>4, <3>1, <4>1 DEF Ending
      <4>3. job'.retries > 0 /\ pc' \in Retrying => try' < job'.retries
        BY <1>1, <2>0, <2>1 DEF NextSector, Retrying
      <4> QED
        BY <2>0, <2>3, <3>1, <4>2, <4>3 DEF ListInv, ListInOrder
    <3>2. CASE bad' = Append(bad, raddr) /\ bad' # bad
      <4>1. /\ \A i \in DOMAIN bad' : \/ i \in DOMAIN bad /\ bad'[i] = bad[i]
                                      \/ i = Len(bad) + 1 /\ bad'[i] = raddr
            /\ DOMAIN bad = 1 .. Len(bad) /\ DOMAIN bad' = 1 .. Len(bad) + 1
            /\ Len(bad) \in Nat
        BY <1>1, <3>2, Lists
      <4>2. \A i, k \in DOMAIN bad' : i < k => bad'[i] < bad'[k]
        <5> TAKE i, k \in DOMAIN bad'
        <5> SUFFICES ASSUME i < k PROVE bad'[i] < bad'[k]
          OBVIOUS
        <5>1. i \in DOMAIN bad /\ bad'[i] = bad[i]
          BY <4>1
        <5>2. CASE k \in DOMAIN bad
          <6>1. bad'[k] = bad[k]
            BY <4>1, <5>2
          <6> QED
            BY <5>1, <5>2, <6>1 DEF ListInv, ListInOrder
        <5>3. CASE bad'[k] = raddr
          BY <2>2, <5>1, <5>3
        <5> QED
          BY <4>1, <5>2, <5>3
      <4>3. \A i \in DOMAIN bad' : bad'[i] < raddr + 1
        <5>1. \A i \in DOMAIN bad : bad[i] \in Nat /\ bad[i] < raddr
          BY <1>1, <2>2
        <5> QED
          BY <1>1, <4>1, <5>1
      <4>4. pc' \notin Ending => \A i \in DOMAIN bad' : bad'[i] < Decided'
        BY <2>4, <3>2, <4>3 DEF Ending
      <4>5. (job.retries > 0 => \A i \in DOMAIN bad : Quality(bad[i]) # "good")'
        <5>1. job.retries > 0 => Quality(raddr) # "good"
          BY <2>1, <3>2
        <5>2. job.retries > 0 => \A i \in DOMAIN bad : Quality(bad[i]) # "good"
          BY DEF ListInv, ListInOrder
        <5> QED
          BY <2>0, <2>3, <4>1, <5>1, <5>2
      <4>6. job'.retries > 0 /\ pc' \in Retrying => try' < job'.retries
        BY <1>1, <2>0, <2>1, <3>2 DEF NextSector, Retrying
      <4> QED
        BY <2>0, <4>2, <4>4, <4>5, <4>6 DEF ListInOrder
    <3> QED
      BY <2>1, <3>1, <3>2
  <2>6. \A i \in DOMAIN file' : Fits(job', bad', file'[i][1], file'[i][2])
    <3> TAKE i \in DOMAIN file'
    <3>1. i \in DOMAIN file /\ i \in 1 .. Len(file) /\ file' = file /\ Len(file) \in Nat
      BY <1>1, <2>0
    <3>2. file[i][1] = job.start + i - 1 /\ job.start + Len(file) <= addr
      BY <3>1 DEF CopyInv, InPlace, ListInv, ListFits
    <3>3. file[i][1] # raddr
      <4>1. i \in Int /\ i <= Len(file) /\ Len(file) \in Nat
        BY <3>1
      <4>2. addr \in Nat /\ job.start \in Nat /\ raddr \in Nat
        BY <1>1
      <4>3. addr <= raddr
        BY <2>0, <4>2
      <4> QED
        BY <3>2, <4>1, <4>2, <4>3
    <3>4. Fits(job, bad, file[i][1], file[i][2])
      BY <3>1 DEF ListInv, ListFits
    <3> QED
      BY <2>3, <3>1, <3>3, <3>4
  <2>7. ASSUME NextSector, bad' = bad => v # "zero", v = "part" => job.edc
        PROVE  Fits(job', bad', raddr, v)
    <3>1. ~Listed(bad, raddr)
      BY <1>1, <2>2, Beyond
    <3>2. CASE bad' = bad
      BY <2>0, <2>1, <2>7, <3>1, <3>2 DEF Fits, Listed, Contained
    <3>3. CASE bad' = Append(bad, raddr) /\ (job.retries > 0 => v = "zero")
      <4>1. Listed(bad', raddr)
        BY <1>1, <3>3, Lists
      <4> QED
        BY <2>0, <2>7, <3>3, <4>1 DEF Fits
    <3> QED
      BY <2>1, <3>2, <3>3
  <2>8. ASSUME pc' \in {"write"} \cup Retrying, NEW i \in DOMAIN sbuf',
               addr + i - 1 < Decided'
        PROVE  Fits(job', bad', addr' + i - 1, sbuf'[i])
    <3>1. /\ i \in 1 .. cnt /\ i \in DOMAIN sbuf /\ raddr - addr + 1 \in 1 .. cnt
          /\ sbuf'[i] = IF i = raddr - addr + 1 THEN v ELSE sbuf[i]
      <4>1. DOMAIN sbuf' = DOMAIN sbuf /\ DOMAIN sbuf = 1 .. cnt
        BY <1>1, <2>0, <2>1
      <4> QED
        BY <1>1, <2>0, <2>1, <4>1
    <3>2. CASE addr + i - 1 < raddr
      <4>1. Fits(job, bad, addr + i - 1, sbuf[i])
        BY <2>0, <3>1, <3>2 DEF ListInv, ListFits, Retrying
      <4>2. i # raddr - addr + 1 /\ addr + i - 1 # raddr
        BY <1>1, <3>1, <3>2
      <4> QED
        BY <2>0, <2>3, <3>1, <4>1, <4>2
    <3>3. CASE ~(addr + i - 1 < raddr)
      <4>1. pc' # "out" /\ Decided' # raddr
        BY <2>8, <3>3 DEF Retrying
      <4>2. NextSector /\ Decided' = raddr + 1
        BY <2>4, <4>1
      <4>3. i = raddr - addr + 1 /\ addr + i - 1 = raddr
        BY <1>1, <2>8, <3>1, <3>3, <4>2
      <4>4. (bad' = bad => v # "zero") /\ (v = "part" => job.edc)
        <5>1. ~(pc' = "rcheck" /\ raddr' = raddr)
          BY <1>1, <4>2 DEF NextSector
        <5> QED
          BY <2>1, <4>1, <5>1
      <4>5. Fits(job', bad', raddr, v)
        BY <2>7, <4>2, <4>4
      <4>6. sbuf'[i] = v
        BY <3>1, <4>3
      <4> QED
        BY <2>0, <4>3, <4>5, <4>6
    <3> QED
      BY <3>2, <3>3
  <2>9. ListFits'
    <3>1. job'.start + Len(file') <= addr'
      BY <2>0 DEF ListInv, ListFits
    <3> QED
      BY <2>0, <2>6, <2>8, <3>1 DEF ListFits
  <2> QED
    BY <2>5, <2>9 DEF ListInv
<1> QED
  BY <1>2, <1>3, <1>4, <1>5

\* A copy starts with an empty list.
LEMMA ListInit == RInit => ListInv /\ Excused
<1> SUFFICES ASSUME RInit PROVE ListInv /\ Excused
  OBVIOUS
<1>1. /\ bad = <<>> /\ file = <<>> /\ pc \in {"size", "open"}
      /\ job.start \in Nat /\ addr = job.start /\ isfull = FALSE
  BY ReadAssumption DEF RInit
<1>2. DOMAIN bad = {} /\ DOMAIN file = {} /\ Len(file) = 0
  BY <1>1
<1> QED
  BY <1>1, <1>2 DEF ListInv, ListInOrder, ListFits, Excused, Ending, Retrying

\* Every step keeps what the exit code means.
LEMMA ExcusedStep ==
    ASSUME CopyInv, ListInv, Excused, [RNext]_rvars
    PROVE  Excused'
<1>0. Scalars /\ Buffers
  BY TypeParts DEF CopyInv
<1>1. /\ job \in Jobs /\ job.retries \in Nat /\ excode \in {0, -2, SIGINT, ERRNO}
      /\ addr \in Nat /\ SIGINT # 0 /\ ERRNO # 0
  BY <1>0, ReadAssumption DEF Scalars, SIGINT, ERRNO
<1>2. CASE ~Read /\ ~Write /\ ~RetryRead
  <2>1. UNCHANGED <<job, addr, bad, isfull>>
    BY <1>2, Undisturbed
  <2>2. CASE excode' = excode /\ lost' = lost
    <3>1. pc' \in Ending => pc \in Ending \/ addr >= End(job) \/ excode' # 0
      <4> USE DEF Ending, Abort
      <4>1. CASE SetSize \/ OldMode \/ DoMode \/ Open
        BY <1>1, <4>1 DEF SetSize, SelectSize, OldMode, DoMode, Open
      <4>2. CASE NextChunk
        BY <1>1, <4>2 DEF NextChunk
      <4>3. CASE RetryCheck \/ Seek \/ SeekCheck \/ RetryCheck2
        BY <1>1, <4>3 DEF RetryCheck, Seek, SeekCheck, RetryCheck2, Look
      <4>4. CASE Out \/ Resize \/ Remode \/ Exit
        BY <4>4 DEF Out, Resize, Remode, Exit
      <4>5. CASE Interrupt
        BY <4>5 DEF Interrupt
      <4>6. CASE UNCHANGED rvars
        BY <4>6 DEF rvars
      <4> QED
        BY <1>2, <4>1, <4>2, <4>3, <4>4, <4>5, <4>6 DEF RNext, Go, RDone
    <3>2. End(job') = End(job)
      BY <2>1
    <3>3. /\ pc' \in Ending /\ excode' = 0 /\ ~lost' => addr' >= End(job')
          /\ isfull' => lost'
          /\ bad' # <<>> /\ excode' = 0 => job'.noerror
      <4>1. pc' \in Ending /\ excode' = 0 /\ ~lost' => addr >= End(job)
        BY <2>2, <3>1 DEF Excused
      <4>2. isfull' => lost'
        BY <2>1, <2>2 DEF Excused
      <4>3. bad' # <<>> /\ excode' = 0 => job'.noerror
        BY <2>1, <2>2 DEF Excused
      <4> QED
        BY <2>1, <4>1, <4>2, <4>3
    <3> QED
      BY <3>3 DEF Excused
  <2>3. CASE ~(excode' = excode /\ lost' = lost)
    <3>1. lost' = lost /\ excode' # 0
      <4> USE DEF Abort, outvars, endvars
      <4>1. CASE SetSize \/ OldMode \/ DoMode \/ Open
        BY <1>1, <2>3, <4>1 DEF SetSize, SelectSize, OldMode, DoMode, Open
      <4>2. CASE NextChunk
        BY <1>1, <2>3, <4>2 DEF NextChunk
      <4>3. CASE RetryCheck \/ Seek \/ SeekCheck \/ RetryCheck2
        BY <1>1, <2>3, <4>3 DEF RetryCheck, Seek, SeekCheck, RetryCheck2, Look
      <4>4. CASE Out \/ Resize \/ Remode \/ Exit
        BY <2>3, <4>4 DEF Out, Resize, Remode, Exit
      <4>5. CASE Interrupt
        BY <2>3, <4>5 DEF Interrupt
      <4>6. CASE UNCHANGED rvars
        BY <2>3, <4>6 DEF rvars
      <4> QED
        BY <1>2, <4>1, <4>2, <4>3, <4>4, <4>5, <4>6 DEF RNext, Go, RDone
    <3> QED
      BY <2>1, <3>1 DEF Excused
  <2> QED
    BY <2>2, <2>3
<1>3. CASE Read
  <2>1. /\ UNCHANGED <<job, bad, isfull>> /\ pc = "read"
        /\ \/ excode' = excode /\ (pc' \in Ending => lost')
           \/ excode' = -2
        /\ lost => lost'
    BY <1>3 DEF Read, GiveUp, Ending
  <2> QED
    BY <2>1 DEF Excused
<1>4. CASE Write
  <2>1. UNCHANGED <<job, bad>> /\ (lost => lost') /\ (isfull' => lost')
    BY <1>4 DEF Write, Excused
  <2>2. \/ pc' \notin Ending /\ excode' = excode
        \/ excode' # 0
    BY <1>1, <1>4 DEF Write, Ending
  <2> QED
    BY <2>1, <2>2 DEF Excused
<1>5. CASE RetryRead
  <2>0. UNCHANGED <<job, addr, isfull, lost>> /\ pc = "rread"
        /\ (job.retries > 0 => try < job.retries)
    BY <1>5 DEF RetryRead, ListInv, ListInOrder, Retrying
  <2>1. \/ excode' = -2
        \/ /\ pc' \notin Ending /\ excode' = excode
           /\ bad' # bad => job.noerror
    <3>1. \/ pc' = "rcheck" /\ bad' = bad /\ excode' = excode
          \/ excode' = -2
          \/ NextSector /\ excode' = excode /\ (bad' # bad => job.noerror)
      BY <1>0, <1>1, <1>5, <2>0, Outcome
    <3> QED
      BY <3>1 DEF NextSector, Ending
  <2>2. (isfull' => lost') /\ job' = job
    BY <2>0 DEF Excused
  <2>3. excode' = 0 => /\ pc' \notin Ending
                       /\ bad' # <<>> => job.noerror
    BY <2>1 DEF Excused
  <2> QED
    BY <2>2, <2>3 DEF Excused
<1> QED
  BY <1>2, <1>3, <1>4, <1>5

\* All of it holds in every reachable state.
LEMMA ListAlways == RSpec => [](CopyInv /\ ListInv /\ Excused)
<1>1. DriveInv /\ CopyInv /\ (DriveInv /\ CopyInv)' /\ ListInv /\ Excused /\ [RNext]_rvars
          => (ListInv /\ Excused)'
  BY ListStep, ExcusedStep
<1> QED
  BY CopyAlways, ListInit, <1>1, PTL DEF RSpec

\* The list of bad sectors that readcd prints is the list of those that are not
\* right in the file, with every number of retries but 0; nothing unread gets into
\* the file unlisted, and no sector with a residual unless -edc-corr asks for it.
THEOREM BadIsBadAlways == RSpec => []BadIsBad
<1>1. CopyInv /\ ListInv => BadIsBad
  <2> SUFFICES ASSUME CopyInv, ListInv PROVE BadIsBad
    OBVIOUS
  <2>1. \A a : Contains(bad, a) <=> Listed(bad, a)
    BY DEF Contains, Listed, CopyInv, RTypeOK
  <2>2. \A i \in DOMAIN file : Fits(job, bad, file[i][1], file[i][2])
    BY DEF ListInv, ListFits
  <2> QED
    BY <2>1, <2>2 DEF BadIsBad, ListInv, ListInOrder, Fits
<1> QED
  BY ListAlways, <1>1, PTL

\* An exit code of 0 means that the whole range is in the file, and that what
\* could not be read is on the list because of -noerror; residuals and short writes
\* are what the code passes over.
THEOREM ZeroMeansAllAlways == RSpec => []ZeroMeansAll
<1>1. CopyInv /\ ListInv /\ Excused => ZeroMeansAll
  <2> SUFFICES ASSUME CopyInv, ListInv, Excused, pc = "gone", excode = 0, ~lost
               PROVE  Written = Wanted /\ (bad # <<>> => job.noerror)
    BY DEF ZeroMeansAll
  <2>1. addr >= End(job) /\ ~isfull /\ (bad # <<>> => job.noerror)
    BY DEF Excused, Ending
  <2>2. job.start \in Nat /\ End(job) \in Nat /\ file \in Seq(Nat \X Contained)
    BY EndType, ReadAssumption DEF CopyInv, RTypeOK, Contained
  <2>3. /\ addr = job.start + Len(file)
        /\ file # <<>> => job.start + Len(file) <= End(job)
    BY <2>1 DEF CopyInv, InPlace
  <2> DEFINE n == IF End(job) > job.start THEN End(job) - job.start ELSE 0
  <2>4. Len(file) = n
    <3>1. file = <<>> <=> Len(file) = 0
      BY <2>2, EmptySeq
    <3>2. Len(file) \in Nat
      BY <2>2
    <3> QED
      BY <2>1, <2>2, <2>3, <3>1, <3>2
  <2>5. DOMAIN file = 1 .. n
    BY <2>2, <2>4
  <2>6. \A i \in DOMAIN file : file[i][1] = job.start + i - 1
    BY DEF CopyInv, InPlace
  <2>7. Wanted = [i \in 1 .. n |-> job.start + i - 1]
    BY DEF Wanted
  <2> HIDE DEF n
  <2>8. Written = Wanted
    BY <2>5, <2>6, <2>7 DEF Written
  <2> QED
    BY <2>1, <2>8
<1> QED
  BY ListAlways, <1>1, PTL
=============================================================================
