------------------------------- MODULE ReadCD -------------------------------
(***************************************************************************)
(* readcd copying a medium to a file: read_generic() and read_retry(),     *)
(* called by read_disk(), or by readcd_disk() and readc2_disk(), which set *)
(* up the sector size and the error recovery of the drive before and after *)
(* it, with the exit handler exscsi() and the signal handler intr().       *)
(*                                                                         *)
(* A job is a record                                                       *)
(*   raw      readcd_disk() or readc2_disk() instead of read_disk()        *)
(*   start, end   the range asked for; end is -1 for the whole medium      *)
(*   disc     the sectors 0 .. Cap(job) - 1: "good", "dead" (never read),  *)
(*            or "weak" (a read may fail)                                  *)
(*   chunk    the sectors per transfer                                     *)
(*   bsize    the sector size the drive is set to before readcd            *)
(*   known    the drive answers READ CAPACITY                              *)
(*   noerror, retries, edc     the options                                 *)
(*   faults   what may fail besides: a subset of JobFaults                 *)
(***************************************************************************)
EXTENDS Integers, Sequences, SequencesExt

CONSTANTS Jobs,        \* the copies a run may make
          SeekFrom     \* the retries that are made without a seek, 10

StdSize == 2048
DummySize == 8192      \* sizeof (dummybuf) in read_retry()
Unlimited == 10000000  \* the end of a medium whose size is to be ignored

JobFaults == {"resid",      \* a read moves less data than asked for
              "mode",       \* a mode page cannot be read or set
              "open",       \* the file cannot be opened
              "write",      \* writing the file fails
              "full"}       \* the file system is full after part of a write

\* read_disk() divides by the sector size that READ CAPACITY gave: without an
\* answer it does not come as far as the copy.
ASSUME ReadAssumption ==
    /\ SeekFrom \in Nat
    /\ \A j \in Jobs :
           /\ j.known \in BOOLEAN /\ (j.known \/ j.raw)
           /\ j.raw \in BOOLEAN /\ j.noerror \in BOOLEAN /\ j.edc \in BOOLEAN
           /\ j.start \in Nat /\ j.end \in Nat \cup {-1} /\ j.chunk \in Nat \ {0}
           /\ j.disc \in Seq({"good", "weak", "dead"})
           /\ j.retries \in Nat /\ j.bsize \in Nat \ {0}
           /\ j.faults \subseteq JobFaults

VARIABLES
    job,
    pc,         \* the next call that matters
    osecsize,   \* the sector size to go back to
    oerr,       \* exargs.oerr[]: the error recovery to go back to, or "none"
    bsize,      \* the sector size the drive is set to
    recovery,   \* its error recovery: the "old" one, "default" or "copy"
    addr, cnt,  \* the chunk that is read
    sbuf,       \* Sbuf[]: "ok", "part" of a sector, or "zero" for each of cnt
    raddr,      \* read_retry(): its addr
    try,
    bad,        \* badsecs[]
    file,       \* the sectors in the file: <<address, contents>>
    didintr,
    excode,     \* exargs.excode, or the exit code once comexit() is called
    aborted,    \* comexit() was called before the end of readcd_disk()
    isfull,     \* the file system is full
    lost,       \* a residual or a short write has been passed over
    late        \* reads begun since the signal

rvars == <<job, pc, osecsize, oerr, bsize, recovery, addr, cnt, sbuf, raddr, try,
           bad, file, didintr, excode, aborted, isfull, lost, late>>

drivevars == <<osecsize, oerr, bsize, recovery>>
copyvars == <<addr, cnt, sbuf, raddr, try>>
outvars == <<bad, file, isfull, lost>>
endvars == <<excode, aborted>>

SIGINT == 2
ERRNO == 28

Cap(j) == Len(j.disc)
Quality(a) == IF a < Cap(job) THEN job.disc[a + 1] ELSE "dead"

\* The sectors that READ CAPACITY tells of; a range is taken at its word when
\* there are none.
Size(j) == IF j.known THEN Cap(j) ELSE 0
Limit(j) == IF Size(j) = 0 /\ j.start <= j.end THEN Unlimited ELSE Size(j)

\* Where the copy ends: the size of the medium bounds what was asked for.
End(j) == IF j.end # -1 /\ j.end < Limit(j) THEN j.end ELSE Limit(j)

RInit ==
    /\ job \in Jobs
    /\ pc = IF job.raw THEN "size" ELSE "open"
    /\ osecsize = StdSize /\ oerr = "none" /\ bsize = job.bsize
    /\ recovery = "old"
    /\ addr = job.start /\ cnt = job.chunk /\ sbuf = <<>> /\ raddr = 0 /\ try = 0
    /\ bad = <<>> /\ file = <<>> /\ didintr = FALSE /\ excode = 0
    /\ aborted = FALSE /\ isfull = FALSE /\ lost = FALSE /\ late = 0

\* comexit() before the regular end.
Abort(code) == pc' = "exit" /\ excode' = code /\ aborted' = TRUE

-----------------------------------------------------------------------------
(* Setting up the drive *)

\* The effect of select_secsize(), whose result is ignored.
SelectSize(size) ==
    \/ bsize' = size
    \/ "mode" \in job.faults /\ UNCHANGED bsize

\* read_capacity(), and select_secsize(2048) if the drive has another size; the
\* size to go back to is 2048 when the drive does not tell.
SetSize ==
    /\ pc = "size"
    /\ osecsize' = IF job.known THEN bsize ELSE StdSize
    /\ \/ osecsize' = StdSize /\ UNCHANGED bsize
       \/ osecsize' # StdSize /\ SelectSize(StdSize)
    /\ pc' = "oldmode"
    /\ UNCHANGED <<job, oerr, recovery, copyvars, outvars, didintr, endvars, late>>

\* oldmode(), the exit handler is told at once.  When the page cannot be read
\* its defaults take the place of what the drive has.
OldMode ==
    /\ pc = "oldmode"
    /\ \/ oerr' = recovery
       \/ "mode" \in job.faults /\ oerr' = "default"
    /\ pc' = "domode"
    /\ UNCHANGED <<job, osecsize, bsize, recovery, copyvars, outvars, didintr,
                   endvars, late>>

DoMode ==
    /\ pc = "domode"
    /\ \/ recovery' = "copy"
       \/ "mode" \in job.faults /\ UNCHANGED recovery
    /\ pc' = "open"
    /\ UNCHANGED <<job, osecsize, oerr, bsize, copyvars, outvars, didintr, endvars,
                   late>>

-----------------------------------------------------------------------------
(* read_generic() *)

Open ==
    /\ pc = "open"
    /\ \/ pc' = "head" /\ UNCHANGED endvars
       \/ "open" \in job.faults /\ Abort(ERRNO)
    /\ UNCHANGED <<job, drivevars, copyvars, outvars, didintr, late>>

\* Mutant: the last chunk is read as a full one.
NextChunkWhole ==
    /\ pc = "head"
    /\ \/ addr >= End(job) /\ pc' = "out" /\ UNCHANGED endvars
       \/ addr < End(job) /\ didintr /\ Abort(SIGINT)
       \/ addr < End(job) /\ ~didintr /\ pc' = "read" /\ UNCHANGED endvars
    /\ UNCHANGED <<job, drivevars, copyvars, outvars, didintr, late>>

\* Mutant: the loop ends only exactly at the end.
NextChunkExact ==
    /\ pc = "head"
    /\ \/ addr = End(job) /\ pc' = "out" /\ UNCHANGED <<cnt, endvars>>
       \/ addr # End(job) /\ didintr /\ Abort(SIGINT) /\ UNCHANGED cnt
       \/ /\ addr # End(job) /\ ~didintr
          /\ cnt' = IF addr + cnt > End(job) THEN End(job) - addr ELSE cnt
          /\ pc' = "read"
          /\ UNCHANGED endvars
    /\ UNCHANGED <<job, drivevars, addr, sbuf, raddr, try, outvars, didintr, late>>

\* The head of the loop; its condition comes before the look at didintr.
NextChunk ==
    /\ pc = "head"
    /\ \/ /\ addr >= End(job)
          /\ pc' = "out"
          /\ UNCHANGED <<cnt, endvars>>
       \/ /\ addr < End(job) /\ didintr
          /\ Abort(SIGINT)
          /\ UNCHANGED cnt
       \/ /\ addr < End(job) /\ ~didintr
          /\ cnt' = IF addr + cnt > End(job) THEN End(job) - addr ELSE cnt
          /\ pc' = "read"
          /\ UNCHANGED endvars
    /\ UNCHANGED <<job, drivevars, addr, sbuf, raddr, try, outvars, didintr, late>>

Begun == IF didintr THEN late + 1 ELSE late

\* The chunk is there; the sectors from the k-th on are not with a residual.
Chunk(n, k) == [i \in 1 .. n |-> IF i < k THEN "ok" ELSE "part"]

\* Mutant: the copy ends as it does after the last sector.
GiveUpQuietly == pc' = "out" /\ UNCHANGED excode

\* read_retry() returns an error.
GiveUp == pc' = "out" /\ excode' = -2

\* read_retry() has room for sectors of up to 8192 bytes; only read_disk()
\* copies in sectors of the drive's size.
TooBig == ~job.raw /\ job.bsize > DummySize

\* (*rfunc)(): all of it, a part with a residual, or an error.  With a residual
\* the copy ends; only -edc-corr leaves that to its own correction.  After an
\* error read_retry() takes over.
Read ==
    /\ pc = "read"
    /\ late' = Begun
    /\ LET all == addr .. addr + cnt - 1 IN
       \/ /\ \A a \in all : Quality(a) # "dead"
          /\ sbuf' = Chunk(cnt, cnt + 1)
          /\ pc' = "write"
          /\ UNCHANGED <<raddr, try, lost, excode>>
       \/ /\ "resid" \in job.faults /\ \A a \in all : Quality(a) # "dead"
          /\ \E k \in 1 .. cnt : sbuf' = Chunk(cnt, k)
          /\ pc' = IF job.edc THEN "write" ELSE "out"
          /\ lost' = TRUE
          /\ UNCHANGED <<raddr, try, excode>>
       \/ /\ \E a \in all : Quality(a) # "good"
          /\ sbuf' = Chunk(cnt, 1)
          /\ raddr' = addr /\ try' = 0
          /\ \/ TooBig /\ GiveUp
             \/ ~TooBig /\ pc' = "rcheck" /\ UNCHANGED excode
          /\ UNCHANGED lost
    /\ UNCHANGED <<job, drivevars, addr, cnt, bad, file, isfull, didintr, aborted>>

Contents(n) == [i \in 1 .. n |-> <<addr + i - 1, sbuf[i]>>]

\* filewrite(): only a negative result is an error.  When the file system gets
\* full the part that fits counts as success, and the next write fails.
Write ==
    /\ pc = "write"
    /\ \/ /\ ~isfull
          /\ file' = file \o Contents(cnt)
          /\ addr' = addr + cnt /\ pc' = "head"
          /\ UNCHANGED <<isfull, lost, excode>>
       \/ /\ "full" \in job.faults /\ ~isfull
          /\ \E n \in 0 .. cnt - 1 : file' = file \o Contents(n)
          /\ isfull' = TRUE /\ lost' = TRUE
          /\ addr' = addr + cnt /\ pc' = "head"
          /\ UNCHANGED excode
       \/ /\ "write" \in job.faults \/ isfull
          /\ excode' = ERRNO /\ pc' = "out"
          /\ UNCHANGED <<file, isfull, lost, addr>>
    /\ UNCHANGED <<job, drivevars, cnt, sbuf, raddr, try, bad, didintr, aborted,
                   late>>

-----------------------------------------------------------------------------
(* read_retry(): each sector of the chunk on its own *)

\* A look at didintr: comexit(), or on to the next place.
Look(here, next) ==
    /\ pc = here
    /\ \/ didintr /\ Abort(SIGINT)
       \/ ~didintr /\ pc' = next /\ UNCHANGED endvars
    /\ UNCHANGED <<job, drivevars, copyvars, outvars, didintr, late>>

\* Mutant: the signal is left to the tests further down.
RetryCheckDeaf ==
    /\ pc = "rcheck"
    /\ pc' = IF try >= SeekFrom THEN "seek" ELSE "rcheck2"
    /\ UNCHANGED <<job, drivevars, copyvars, outvars, didintr, endvars, late>>

\* The first test; wait_unit_ready() comes after it.
RetryCheck == Look("rcheck", IF try >= SeekFrom THEN "seek" ELSE "rcheck2")

\* A read elsewhere moves the head; whether it works does not matter.
Seek ==
    /\ pc = "seek"
    /\ late' = Begun
    /\ pc' = "seeked"
    /\ UNCHANGED <<job, drivevars, copyvars, outvars, didintr, endvars>>

\* The test after the seek; another wait_unit_ready() comes after it.
SeekCheck == Look("seeked", "rcheck2")

\* The last test before the read.
RetryCheck2 == Look("rcheck2", "rread")

\* The next sector, or the chunk is complete.
NextSector ==
    /\ try' = 0
    /\ raddr' = raddr + 1
    /\ pc' = IF raddr + 1 < addr + cnt THEN "rcheck" ELSE "write"

\* Mutant: the sector that is given up is not noted down.
SettleQuietly(n) ==
    IF n >= job.retries
    THEN /\ UNCHANGED bad
         /\ \/ job.noerror /\ NextSector /\ UNCHANGED excode
            \/ ~job.noerror /\ GiveUp /\ UNCHANGED <<try, raddr>>
    ELSE NextSector /\ UNCHANGED <<bad, excode>>

\* The last try of a sector has been made: n of them have failed.
Settle(n) ==
    IF n >= job.retries
    THEN /\ bad' = Append(bad, raddr)
         /\ \/ job.noerror /\ NextSector /\ UNCHANGED excode
            \/ ~job.noerror /\ GiveUp /\ UNCHANGED <<try, raddr>>
    ELSE NextSector /\ UNCHANGED <<bad, excode>>

Got(value) == sbuf' = [sbuf EXCEPT ![raddr - addr + 1] = value]

\* Mutant: the tries are not counted.
RetryReadForever ==
    /\ pc = "rread"
    /\ late' = Begun
    /\ \/ Quality(raddr) # "dead" /\ Got("ok") /\ Settle(try)
       \/ /\ Quality(raddr) # "good" /\ Got("zero")
          /\ pc' = "rcheck"
          /\ UNCHANGED <<raddr, bad, excode, try>>
    /\ UNCHANGED <<job, drivevars, addr, cnt, file, isfull, lost, didintr, aborted>>

RetryRead ==
    /\ pc = "rread"
    /\ late' = Begun
    /\ \/ Quality(raddr) # "dead" /\ Got("ok") /\ Settle(try)
       \/ /\ "resid" \in job.faults /\ Quality(raddr) # "dead" /\ Got("part")
          /\ \/ job.edc /\ Settle(try)
             \/ ~job.edc /\ GiveUp /\ UNCHANGED <<try, raddr, bad>>
       \/ /\ Quality(raddr) # "good" /\ Got("zero")
          /\ \/ /\ try + 1 < job.retries
                /\ try' = try + 1 /\ pc' = "rcheck"
                /\ UNCHANGED <<raddr, bad, excode>>
             \/ try + 1 >= job.retries /\ Settle(try + 1)
    /\ UNCHANGED <<job, drivevars, addr, cnt, file, isfull, lost, didintr, aborted>>

-----------------------------------------------------------------------------
(* The end *)

\* The statistics and print_bad(); readcd_disk() then restores the drive.
Out ==
    /\ pc = "out"
    /\ pc' = IF job.raw THEN "resize" ELSE "exit"
    /\ UNCHANGED <<job, drivevars, copyvars, outvars, didintr, endvars, late>>

Resize ==
    /\ pc = "resize"
    /\ \/ osecsize = StdSize /\ UNCHANGED bsize
       \/ osecsize # StdSize /\ SelectSize(osecsize)
    /\ pc' = "remode"
    /\ UNCHANGED <<job, osecsize, oerr, recovery, copyvars, outvars, didintr,
                   endvars, late>>

Remode ==
    /\ pc = "remode"
    /\ \/ recovery' = oerr
       \/ "mode" \in job.faults /\ UNCHANGED recovery
    /\ pc' = "exit"
    /\ UNCHANGED <<job, osecsize, oerr, bsize, copyvars, outvars, didintr, endvars,
                   late>>

\* Mutant: the handler restores the recovery page only for a signal.
ExitForSignal ==
    /\ pc = "exit"
    /\ recovery' = IF oerr # "none" /\ excode = SIGINT THEN oerr ELSE recovery
    /\ pc' = "gone"
    /\ UNCHANGED <<job, osecsize, oerr, bsize, copyvars, outvars, didintr, endvars,
                   late>>

\* exscsi(): exargs.old_secsize is -1 from start to end, so that only the error
\* recovery is restored.
Exit ==
    /\ pc = "exit"
    /\ \/ recovery' = IF oerr # "none" THEN oerr ELSE recovery
       \/ "mode" \in job.faults /\ UNCHANGED recovery
    /\ pc' = "gone"
    /\ UNCHANGED <<job, osecsize, oerr, bsize, copyvars, outvars, didintr, endvars,
                   late>>

\* intr() only takes a note: the command that runs is not disturbed.
Interrupt ==
    /\ pc # "gone" /\ ~didintr
    /\ didintr' = TRUE
    /\ UNCHANGED <<job, pc, drivevars, copyvars, outvars, endvars, late>>

RDone == pc = "gone" /\ UNCHANGED rvars

Go == \/ SetSize \/ OldMode \/ DoMode \/ Open \/ NextChunk \/ Read \/ Write
      \/ RetryCheck \/ Seek \/ SeekCheck \/ RetryCheck2 \/ RetryRead
      \/ Out \/ Resize \/ Remode \/ Exit

RNext == Go \/ Interrupt \/ RDone

\* The program goes on; every command ends, with its timeout if need be.
RSpec == RInit /\ [][RNext]_rvars
RFairSpec == RSpec /\ WF_rvars(Go)

-----------------------------------------------------------------------------
(* Properties *)

RTypeOK ==
    /\ job \in Jobs
    /\ pc \in {"size", "oldmode", "domode", "open", "head", "read", "write",
               "rcheck", "seek", "seeked", "rcheck2", "rread", "out", "resize", "remode",
               "exit", "gone"}
    /\ osecsize \in Nat /\ bsize \in Nat
    /\ oerr \in {"none", "old", "default"}
    /\ recovery \in {"old", "default", "copy"}
    /\ addr \in Nat /\ cnt \in Nat \ {0} /\ raddr \in Nat /\ try \in Nat
    /\ sbuf \in Seq({"ok", "part", "zero"})
    /\ bad \in Seq(Nat)
    /\ file \in Seq(Nat \X {"ok", "part", "zero"})
    /\ didintr \in BOOLEAN /\ excode \in {0, -2, SIGINT, ERRNO}
    /\ aborted \in BOOLEAN /\ isfull \in BOOLEAN /\ lost \in BOOLEAN
    /\ late \in Nat

Wanted == [i \in 1 .. (IF End(job) > job.start THEN End(job) - job.start ELSE 0) |->
              job.start + i - 1]
Written == [i \in DOMAIN file |-> file[i][1]]

\* The file is the range, sector by sector, also where a chunk was read again
\* one sector at a time: the place of a sector in the file gives its address.
Copy == INSTANCE Stream WITH image <- Wanted, burned <- Written
InOrder == Copy!Spec

\* What print_bad() lists is what is not right in the file, and each sector
\* once: nothing that was read is listed (with retries=0 it is), and nothing
\* unread goes into the file unlisted.
BadIsBad ==
    /\ \A i \in DOMAIN file : file[i][2] = "zero" => Contains(bad, file[i][1])
    /\ job.retries > 0 =>
           /\ \A i \in DOMAIN file :
                  Contains(bad, file[i][1]) => file[i][2] = "zero"
           /\ \A i \in DOMAIN bad : Quality(bad[i]) # "good"
    /\ \A i, k \in DOMAIN bad : i < k => bad[i] < bad[k]
    /\ ~job.edc => \A i \in DOMAIN file : file[i][2] # "part"

\* readcd exits with 0 only with a file in which every sector asked for is
\* either right or listed; -noerror is needed for the latter.  A residual and a
\* short write are passed over.
ZeroMeansAll ==
    pc = "gone" /\ excode = 0 /\ ~lost =>
        /\ Written = Wanted
        /\ bad # <<>> => job.noerror

\* The claim of the code: a residual is an error.
ResidualIsError ==
    pc = "gone" /\ excode = 0 => Len(file) = Len(Wanted)

\* The drive is left as it was, whatever ends the copy and at any place; the
\* sector size only at the regular end.
Restored ==
    pc = "gone" /\ "mode" \notin job.faults =>
        /\ recovery = "old"
        /\ ~aborted => bsize = job.bsize

\* A signal is seen before the next read but for the one that was about to be
\* sent, and in the midst of the retries too.
Prompt == late <= 1

\* readcd ends, with a medium on which nothing can be read as well.
Ends == <>(pc = "gone")
=============================================================================
