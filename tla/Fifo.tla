-------------------------------- MODULE Fifo --------------------------------
(***************************************************************************)
(* The FIFO of cdrecord (cdrecord/fifo.c).  init_faio() lays faio_buffers  *)
(* slots out in shared memory, forks, and from then on two processes work  *)
(* on them without a lock:                                                 *)
(*                                                                         *)
(*   - the child runs faio_reader(): it reads the tracks and fills slots;  *)
(*   - the parent runs await_faio() once, then write_track_data() for one  *)
(*     track after the other, and takes slots with faio_get_buf().         *)
(*                                                                         *)
(* A slot is handed over by storing into its `owner` field, which the      *)
(* other process polls.  Every access to shared memory is a step of its    *)
(* own here, in the order of the code; what a process does with its own    *)
(* memory between two accesses belongs to the step before.                 *)
(***************************************************************************)
EXTENDS TrackData

CONSTANTS NBuf,      \* faio_buffers
          Jobs,      \* the track lists cdrecord may be started with
          Faults     \* the faults that may happen, a subset of FaultKinds

FaultKinds == {"interrupt", "killed", "driveerr", "rtimeout", "ptimeout"}

MinBuffers == 3      \* MIN_BUFFERS: init_faio() gives up below that

ASSUME NBufAssumption == NBuf \in Nat /\ NBuf >= MinBuffers
ASSUME JobsAssumption == \A j \in Jobs : j \in Seq(Track) /\ j # <<>>
ASSUME FaultsAssumption == Faults \subseteq FaultKinds

Slots == 0 .. NBuf - 1
LastSlot == NBuf - 1
Owners == {"writer", "faio", "reader"}     \* fowner_t, owner_none is unused

VARIABLES
    trackp,                         \* the tracks, the same in both processes
    \* the slots (faio_t) and struct faio_stats, in shared memory
    owner, users, fd, len, data, puts, gets, done, contLow,
    \* the child: where it is, buf_idx_reader, the track, bytes_read, l
    rpc, bufIdxReader, rtrack, rpos, rlen,
    \* the parent: where it is, buf_idx, the track, bytes_read, bytespt,
    \* the slot await_faio() looks at, the count and the users field it loaded
    ppc, bufIdx, ptrack, ppos, pcap, scan, plen, pusers,
    burned,                         \* what write_secs() gave to the drive
    ending                          \* how the parent's work ended

tvars == trackp
slotvars == <<owner, users, fd, len, data>>
statvars == <<puts, gets, done, contLow>>
rvars == <<rpc, bufIdxReader, rtrack, rpos, rlen>>
pvars == <<ppc, bufIdx, ptrack, ppos, pcap, scan, plen, pusers, burned, ending>>
vars == <<tvars, slotvars, statvars, rvars, pvars>>

NTracks == Len(trackp)
\* Mutant: wraps one slot too late.
Next1Late(i) == IF i + 1 > NBuf THEN 0 ELSE i + 1

Next1(i) == IF i + 1 >= NBuf THEN 0 ELSE i + 1

Init ==
    /\ trackp \in Jobs
    /\ owner = [s \in Slots |-> "writer"]
    /\ users = [s \in Slots |-> 0]
    /\ fd = [s \in Slots |-> -1]
    /\ len = [s \in Slots |-> 0]            \* init_fifo() cleared the memory
    /\ data = [s \in Slots |-> <<0, 0>>]
    /\ puts = 0 /\ gets = 0 /\ done = 0 /\ contLow = 0
    /\ rpc = "wait" /\ bufIdxReader = 0 /\ rtrack = 1 /\ rpos = 0 /\ rlen = 0
    /\ ppc = "await" /\ bufIdx = 0 /\ ptrack = 0 /\ ppos = 0 /\ pcap = 0
    /\ scan = 0 /\ plen = 0 /\ pusers = 0
    /\ burned = <<>> /\ ending = "none"

-----------------------------------------------------------------------------
(* The child: faio_reader() / faio_read_track() / faio_read_segment()      *)

RTrack == trackp[rtrack]

\* Mutant: takes any slot the parent has not handed out at the moment.
RWaitNotFaio ==
    /\ rpc = "wait"
    /\ owner[bufIdxReader] # "faio"
    /\ rpc' = "fd"
    /\ UNCHANGED <<tvars, slotvars, statvars, bufIdxReader, rtrack, rpos, rlen,
                   pvars>>

RWait ==                        \* faio_wait_on_buffer(f, owner_writer, ...)
    /\ rpc = "wait"
    /\ owner[bufIdxReader] = "writer"
    /\ rpc' = "fd"
    /\ UNCHANGED <<tvars, slotvars, statvars, bufIdxReader, rtrack, rpos, rlen,
                   pvars>>

RSetFd ==
    /\ rpc = "fd"
    /\ fd' = [fd EXCEPT ![bufIdxReader] = RTrack.fd]
    /\ rpc' = "fill"
    /\ UNCHANGED <<tvars, owner, users, len, data, statvars, bufIdxReader,
                   rtrack, rpos, rlen, pvars>>

RFill ==                        \* fill_buf() into f->bufp
    /\ rpc = "fill"
    /\ data' = [data EXCEPT ![bufIdxReader] = <<rtrack, rpos>>]
    /\ rlen' = FillBuf(RTrack, rpos, BytesToRead(RTrack, rpos, RTrack.bpt))
    /\ rpc' = "len"
    /\ UNCHANGED <<tvars, owner, users, fd, len, statvars, bufIdxReader,
                   rtrack, rpos, pvars>>

RSetLen ==
    /\ rpc = "len"
    /\ len' = [len EXCEPT ![bufIdxReader] = rlen]
    /\ rpc' = "owner"
    /\ UNCHANGED <<tvars, owner, users, fd, data, statvars, bufIdxReader,
                   rtrack, rpos, rlen, pvars>>

RSetOwner ==
    /\ rpc = "owner"
    /\ owner' = [owner EXCEPT ![bufIdxReader] = "reader"]
    /\ rpc' = "users"
    /\ UNCHANGED <<tvars, users, fd, len, data, statvars, bufIdxReader,
                   rtrack, rpos, rlen, pvars>>

RSetUsers ==                    \* sp->users is 1 for the whole run
    /\ rpc = "users"
    /\ users' = [users EXCEPT ![bufIdxReader] = 1]
    /\ rpc' = "puts"
    /\ UNCHANGED <<tvars, owner, fd, len, data, statvars, bufIdxReader,
                   rtrack, rpos, rlen, pvars>>

\* sp->puts++, then the rest of the loop in faio_read_track(): the next slot,
\* and the next segment or the next track.
RPut ==
    /\ rpc = "puts"
    /\ puts' = puts + 1
    /\ bufIdxReader' = Next1(bufIdxReader)
    /\ IF rlen > 0 /\ MoreToRead(RTrack, rpos + rlen)
       THEN /\ rpos' = rpos + rlen
            /\ rpc' = "wait"
            /\ UNCHANGED rtrack
       ELSE /\ rtrack' = rtrack + 1
            /\ rpos' = 0
            /\ rpc' = IF rtrack = NTracks THEN "done" ELSE "wait"
    /\ UNCHANGED <<tvars, slotvars, gets, done, contLow, rlen, pvars>>

RDone ==
    /\ rpc = "done"
    /\ done' = done + 1
    /\ rpc' = "gets"
    /\ UNCHANGED <<tvars, slotvars, puts, gets, contLow, bufIdxReader, rtrack,
                   rpos, rlen, pvars>>

\* Mutant: nothing prevents the hang.
RTestNothing ==
    /\ rpc = "gets"
    /\ rpc' = "exited"
    /\ UNCHANGED <<tvars, slotvars, statvars, bufIdxReader, rtrack, rpos, rlen,
                   pvars>>

\* "Prevent hang if buffer is larger than all the tracks combined": the test
\* of sp->gets and the store into the last slot are two accesses.
RTestGets ==
    /\ rpc = "gets"
    /\ rpc' = IF gets = 0 THEN "mark" ELSE "exited"
    /\ UNCHANGED <<tvars, slotvars, statvars, bufIdxReader, rtrack, rpos, rlen,
                   pvars>>

RMarkLast ==
    /\ rpc = "mark"
    /\ owner' = [owner EXCEPT ![LastSlot] = "reader"]
    /\ rpc' = "exited"
    /\ UNCHANGED <<tvars, users, fd, len, data, statvars, bufIdxReader, rtrack,
                   rpos, rlen, pvars>>

RAlive == rpc \notin {"exited", "killed", "timedout"}

RTimeout ==                     \* WRITER_MAXWAIT is over: comerrno()
    /\ "rtimeout" \in Faults
    /\ rpc = "wait"
    /\ owner[bufIdxReader] # "writer"
    /\ rpc' = "timedout"
    /\ UNCHANGED <<tvars, slotvars, statvars, bufIdxReader, rtrack, rpos, rlen,
                   pvars>>

RKilled ==                      \* a signal with its default action
    /\ "killed" \in Faults
    /\ RAlive
    /\ rpc' = "killed"
    /\ UNCHANGED <<tvars, slotvars, statvars, bufIdxReader, rtrack, rpos, rlen,
                   pvars>>

Reader == \/ RWait \/ RSetFd \/ RFill \/ RSetLen \/ RSetOwner \/ RSetUsers
          \/ RPut \/ RDone \/ RTestGets \/ RMarkLast

-----------------------------------------------------------------------------
(* The parent: await_faio(), faio_get_buf() and the loop that calls it     *)

PTrack == trackp[ptrack]

\* Mutant: polls the first slot.
PAwaitFirst ==
    /\ ppc = "await"
    /\ owner[0] = "reader"
    /\ contLow' = NBuf
    /\ ppc' = "scan"
    /\ UNCHANGED <<tvars, slotvars, puts, gets, done, rvars, bufIdx, ptrack,
                   ppos, pcap, scan, plen, pusers, burned, ending>>

PAwait ==                       \* polls the last slot, without a limit
    /\ ppc = "await"
    /\ owner[LastSlot] = "reader"
    /\ contLow' = NBuf
    /\ ppc' = "scan"
    /\ UNCHANGED <<tvars, slotvars, puts, gets, done, rvars, bufIdx, ptrack,
                   ppos, pcap, scan, plen, pusers, burned, ending>>

\* An empty standard input ends the run before anything is written.  lastfd
\* is the fd of the slot looked at before, -1 for the first one.
PScan ==
    /\ ppc = "scan"
    /\ LET lastfd == IF scan = 0 THEN -1 ELSE fd[scan - 1]
           premature == fd[scan] # lastfd /\ fd[scan] = STDIN /\ len[scan] = 0
       IN IF premature
          THEN /\ rpc' = IF RAlive THEN "killed" ELSE rpc       \* kill_faio()
               /\ ending' = "premature"
               /\ ppc' = "exit"
               /\ UNCHANGED scan
          ELSE /\ scan' = scan + 1
               /\ ppc' = IF scan + 1 = NBuf THEN "idle" ELSE "scan"
               /\ UNCHANGED <<rpc, ending>>
    /\ UNCHANGED <<tvars, slotvars, statvars, bufIdxReader, rtrack, rpos, rlen,
                   bufIdx, ptrack, ppos, pcap, plen, pusers, burned>>

\* Mutant: bytes_read goes on from the track before.
PStartTrackNoReset ==
    /\ ppc = "idle"
    /\ ending = "none" /\ ptrack < NTracks
    /\ ptrack' = ptrack + 1
    /\ pcap' = trackp[ptrack + 1].bpt
    /\ ppc' = "get"
    /\ UNCHANGED <<tvars, slotvars, statvars, rvars, bufIdx, ppos, scan, plen,
                   pusers, burned, ending>>

\* main() goes to the next track ...
PStartTrack ==
    /\ ppc = "idle"
    /\ ending = "none" /\ ptrack < NTracks
    /\ ptrack' = ptrack + 1
    /\ ppos' = 0
    /\ pcap' = trackp[ptrack + 1].bpt
    /\ ppc' = "get"
    /\ UNCHANGED <<tvars, slotvars, statvars, rvars, bufIdx, scan, plen, pusers,
                   burned, ending>>

\* ... or, after the last track or a failed one, to comexit().
PFinish ==
    /\ ppc = "idle"
    /\ ending # "none" \/ ptrack = NTracks
    /\ ending' = IF ending = "none" THEN "ok" ELSE ending
    /\ ppc' = "exit"
    /\ UNCHANGED <<tvars, slotvars, statvars, rvars, bufIdx, ptrack, ppos, pcap,
                   scan, plen, pusers, burned>>

\* Mutant: gives the slot back but stays on it.
PReleaseStay ==
    /\ ppc = "get"
    /\ owner' = IF owner[bufIdx] = "faio"
                THEN [owner EXCEPT ![bufIdx] = "writer"] ELSE owner
    /\ ppc' = "low"
    /\ UNCHANGED <<tvars, users, fd, len, data, statvars, rvars, bufIdx, ptrack,
                   ppos, pcap, scan, plen, pusers, burned, ending>>

PRelease ==                     \* the slot handed out before is free again
    /\ ppc = "get"
    /\ IF owner[bufIdx] = "faio"
       THEN /\ owner' = [owner EXCEPT ![bufIdx] = "writer"]
            /\ bufIdx' = Next1(bufIdx)
       ELSE UNCHANGED <<owner, bufIdx>>
    /\ ppc' = "low"
    /\ UNCHANGED <<tvars, users, fd, len, data, statvars, rvars, ptrack, ppos,
                   pcap, scan, plen, pusers, burned, ending>>

PLow ==                         \* the statistics for the minimum fill
    /\ ppc = "low"
    /\ contLow' = IF puts - gets < contLow /\ done = 0 THEN puts - gets
                                                       ELSE contLow
    /\ ppc' = "wait"
    /\ UNCHANGED <<tvars, slotvars, puts, gets, done, rvars, bufIdx, ptrack,
                   ppos, pcap, scan, plen, pusers, burned, ending>>

PWait ==                        \* faio_wait_on_buffer(f, owner_reader, ...)
    /\ ppc = "wait"
    /\ owner[bufIdx] = "reader"
    /\ ppc' = "check"
    /\ UNCHANGED <<tvars, slotvars, statvars, rvars, bufIdx, ptrack, ppos, pcap,
                   scan, plen, pusers, burned, ending>>

\* Mutant: goes on waiting until the child has said that it is done.
PTimeoutWhenDone ==
    /\ "ptimeout" \in Faults
    /\ ppc = "wait" /\ done = 1
    /\ owner[bufIdx] # "reader"
    /\ ending' = "timeout"
    /\ ppc' = "exit"
    /\ UNCHANGED <<tvars, slotvars, statvars, rvars, bufIdx, ptrack, ppos, pcap,
                   scan, plen, pusers, burned>>

PTimeout ==                     \* READER_MAXWAIT is over: comerrno()
    /\ "ptimeout" \in Faults
    /\ ppc = "wait"
    /\ owner[bufIdx] # "reader"
    /\ ending' = "timeout"
    /\ ppc' = "exit"
    /\ UNCHANGED <<tvars, slotvars, statvars, rvars, bufIdx, ptrack, ppos, pcap,
                   scan, plen, pusers, burned>>

\* The slot's fd and len against those of the request; sp->gets++.
PCheck ==
    /\ ppc = "check"
    /\ LET mine == fd[bufIdx] = PTrack.fd
           fits == len[bufIdx] <= BytesToRead(PTrack, ppos, pcap)
       IN \/ /\ mine /\ fits
             /\ plen' = len[bufIdx]
             /\ gets' = gets + 1
             /\ ppc' = "users"
             /\ UNCHANGED ending
          \/ /\ ~mine /\ len[bufIdx] = 0                     \* goto again
             /\ ppc' = "get"
             /\ UNCHANGED <<plen, gets, ending>>
          \/ /\ mine => ~fits
             /\ ~mine => len[bufIdx] # 0
             /\ ending' = "fatal"                            \* comerrno()
             /\ ppc' = "exit"
             /\ UNCHANGED <<plen, gets>>
    /\ UNCHANGED <<tvars, slotvars, puts, done, contLow, rvars, bufIdx, ptrack,
                   ppos, pcap, scan, pusers, burned>>

PLoadUsers ==                   \* --f->users is a load and a store
    /\ ppc = "users"
    /\ pusers' = users[bufIdx]
    /\ ppc' = "dec"
    /\ UNCHANGED <<tvars, slotvars, statvars, rvars, bufIdx, ptrack, ppos, pcap,
                   scan, plen, burned, ending>>

PStoreUsers ==
    /\ ppc = "dec"
    /\ users' = [users EXCEPT ![bufIdx] = pusers - 1]
    /\ ppc' = IF pusers - 1 <= 0 THEN "faio" ELSE "use"
    /\ UNCHANGED <<tvars, owner, fd, len, data, statvars, rvars, bufIdx, ptrack,
                   ppos, pcap, scan, plen, pusers, burned, ending>>

\* Mutant: the slot is free as soon as it is handed out.
PSetFree ==
    /\ ppc = "faio"
    /\ owner' = [owner EXCEPT ![bufIdx] = "writer"]
    /\ ppc' = "use"
    /\ UNCHANGED <<tvars, users, fd, len, data, statvars, rvars, bufIdx, ptrack,
                   ppos, pcap, scan, plen, pusers, burned, ending>>

PSetFaio ==
    /\ ppc = "faio"
    /\ owner' = [owner EXCEPT ![bufIdx] = "faio"]
    /\ ppc' = "use"
    /\ UNCHANGED <<tvars, users, fd, len, data, statvars, rvars, bufIdx, ptrack,
                   ppos, pcap, scan, plen, pusers, burned, ending>>

\* Mutant: takes a read error for the end of the input.
PUseErrorAsEOF ==
    /\ ppc = "use" /\ plen < 0
    /\ ppc' = "idle"
    /\ UNCHANGED <<tvars, slotvars, statvars, rvars, bufIdx, ptrack, ppos, pcap,
                   scan, plen, pusers, burned, ending>>

\* write_track_data() with the segment in its hands: it comes from the slot
\* itself, which is not copied.
PUseError ==
    /\ ppc = "use" /\ plen < 0
    /\ ending' = "readerr"                                   \* comerr()
    /\ ppc' = "exit"
    /\ UNCHANGED <<tvars, slotvars, statvars, rvars, bufIdx, ptrack, ppos, pcap,
                   scan, plen, pusers, burned>>

PUseEOF ==
    /\ ppc = "use" /\ plen = 0
    /\ ppc' = "idle"
    /\ UNCHANGED <<tvars, slotvars, statvars, rvars, bufIdx, ptrack, ppos, pcap,
                   scan, plen, pusers, burned, ending>>

PWrite ==
    /\ ppc = "use" /\ plen > 0
    /\ LET end == ppos + plen
           count == Clip(PTrack, plen, end)
       IN /\ burned' = burned \o
                       Chunk(data[bufIdx][1], data[bufIdx][2], count)
          /\ ppos' = end
          /\ pcap' = IF count < pcap THEN RoundUp(PTrack, count) ELSE pcap
          /\ ppc' = IF MoreToRead(PTrack, end) THEN "get" ELSE "idle"
    /\ UNCHANGED <<tvars, slotvars, statvars, rvars, bufIdx, ptrack, scan, plen,
                   pusers, ending>>

\* A command to the drive fails.  Inside write_track_data() and around it main()
\* leaves the track loop; when it sets up the speed or the session it exits at
\* once.
PDriveError ==
    /\ "driveerr" \in Faults
    /\ ending = "none"
    /\ \/ ppc = "use" /\ plen > 0 /\ ppc' = "idle"
       \/ ppc = "idle" /\ ppc' \in {"idle", "exit"}
       \/ ppc = "await" /\ ppc' = "exit"
    /\ ending' = "driveerr"
    /\ UNCHANGED <<tvars, slotvars, statvars, rvars, bufIdx, ptrack, ppos, pcap,
                   scan, plen, pusers, burned>>

\* intfifo(): a signal to the parent, and perhaps to the child as well, which
\* has the default action installed.
PInterrupt ==
    /\ "interrupt" \in Faults
    /\ ppc \notin {"exit", "reap", "end"}
    /\ ending' = "interrupt"
    /\ ppc' = "exit"
    /\ UNCHANGED <<tvars, slotvars, statvars, rvars, bufIdx, ptrack, ppos, pcap,
                   scan, plen, pusers, burned>>

PKillFaio ==                    \* excdr(): kill_faio() ...
    /\ ppc = "exit"
    /\ rpc' = IF RAlive THEN "killed" ELSE rpc
    /\ ppc' = "reap"
    /\ UNCHANGED <<tvars, slotvars, statvars, bufIdxReader, rtrack, rpos, rlen,
                   bufIdx, ptrack, ppos, pcap, scan, plen, pusers, burned,
                   ending>>

PWaitFaio ==                    \* ... and wait_faio()
    /\ ppc = "reap"
    /\ ~RAlive
    /\ ppc' = "end"
    /\ UNCHANGED <<tvars, slotvars, statvars, rvars, bufIdx, ptrack, ppos, pcap,
                   scan, plen, pusers, burned, ending>>

Burner == \/ PAwait \/ PScan \/ PStartTrack \/ PFinish \/ PRelease \/ PLow
          \/ PWait \/ PTimeout \/ PCheck \/ PLoadUsers \/ PStoreUsers
          \/ PSetFaio \/ PUseError \/ PUseEOF \/ PWrite \/ PKillFaio
          \/ PWaitFaio

Fault == RTimeout \/ RKilled \/ PDriveError \/ PInterrupt

\* Both processes are gone: nothing is left to happen.
Terminated == ppc = "end" /\ UNCHANGED vars

Next == Reader \/ Burner \/ Fault \/ Terminated

Spec == Init /\ [][Next]_vars

\* The scheduler runs both processes, the input delivers and the drive
\* answers; a fault need not happen, the parent's own time limit does.
FairSpec == Spec /\ WF_vars(Reader) /\ WF_vars(Burner)
-----------------------------------------------------------------------------
(* Properties                                                              *)

RPcs == {"wait", "fd", "fill", "len", "owner", "users", "puts", "done", "gets",
         "mark", "exited", "killed", "timedout"}
PPcs == {"await", "scan", "idle", "get", "low", "wait", "check", "users", "dec",
         "faio", "use", "exit", "reap", "end"}
Endings == {"none", "ok", "premature", "readerr", "driveerr", "timeout",
            "fatal", "interrupt"}

SlotsOK ==
    /\ owner \in [Slots -> Owners] /\ users \in [Slots -> Int]
    /\ fd \in [Slots -> Int] /\ len \in [Slots -> Int]
    /\ data \in [Slots -> Nat \X Nat]

StatsOK == puts \in Nat /\ gets \in Nat /\ done \in Nat /\ contLow \in Int

ReaderOK ==
    /\ rpc \in RPcs /\ bufIdxReader \in Slots
    /\ rtrack \in 1 .. NTracks + 1 /\ rpos \in Nat /\ rlen \in Int
    /\ rpc \in {"wait", "fd", "fill", "len", "owner", "users", "puts"} =>
           rtrack <= NTracks

BurnerOK ==
    /\ ppc \in PPcs /\ bufIdx \in Slots
    /\ ptrack \in 0 .. NTracks /\ ppos \in Nat /\ pcap \in Int
    /\ scan \in 0 .. NBuf /\ plen \in Int /\ pusers \in Int
    /\ burned \in Seq(Nat \X Nat) /\ ending \in Endings
    /\ ppc \in {"get", "low", "wait", "check", "users", "dec", "faio", "use"} =>
           ptrack >= 1
    /\ ppc = "await" => scan = 0
    /\ ppc = "scan" => scan < NBuf

\* Every variable has a value the C type and the protocol allow: owner_none is
\* never stored, both buffer indices and the scan of await_faio() stay inside
\* the FIFO, and a process reads or writes only tracks there are.
TypeOK == trackp \in Jobs /\ SlotsOK /\ StatsOK /\ ReaderOK /\ BurnerOK

\* Where the child may still store into its slot, and where the parent reads
\* or has handed out its own.
Filling == rpc \in {"fd", "fill", "len", "owner"}
Holding == ppc \in {"check", "users", "dec", "faio", "use"}

\* The child never fills the slot the parent is looking at or that the drive
\* is being fed from, although faio_get_buf() hands the slot out uncopied and
\* only gives it back on the next call.
SlotExclusion == ~(Filling /\ Holding /\ bufIdx = bufIdxReader)

\* When await_faio() has returned TRUE the FIFO is full, or everything there
\* is to read has been read: "Wait until the reader is active and has filled
\* the buffer", and the "Prevent hang" store does not let it return early.
AwaitMeansReady ==
    ppc \in {"scan", "idle"} /\ gets = 0 =>
        \/ \A s \in Slots : owner[s] = "reader"
        \/ done = 1

\* await_faio() looks at the slots without asking who owns them: while it
\* does, the child is in none of them.
ScanUndisturbed == ppc = "scan" => ~Filling

\* Parent and child compute the sizes of their transfers independently, each
\* from its own bytes_read, and agree on every one of them: faio_get_buf()
\* never meets a slot of another file or longer than its request, whatever
\* fails on either side.  So neither of its comerrno() calls is reachable, nor
\* is the "goto again" that would spin on a slot of another file.  Their counts
\* agree but for the "+ 1" that fifo_percent() allows for: each is bumped after
\* the slot has changed hands, so gets may overtake puts, by one at most.
Lockstep ==
    /\ ppc = "check" => /\ fd[bufIdx] = PTrack.fd
                        /\ len[bufIdx] <= BytesToRead(PTrack, ppos, pcap)
    /\ puts + 1 - gets \in 0 .. NBuf + 1
    /\ contLow \in -1 .. NBuf

\* Nothing is left running when the parent returns from its exit handler, what
\* it reports as success is the whole input on the medium, and not a byte is
\* burned when the first track is an empty pipe: "If mkisofs dumps core before
\* it starts writing, we abort before the writing process started".
CleanEnd ==
    /\ ppc = "end" => /\ ~RAlive
                      /\ ending = "ok" => burned = Image(trackp)
    /\ trackp[1].fd = STDIN /\ trackp[1].avail = 0 /\ ~trackp[1].err => burned = <<>>

\* The burned bytes are the input, in order, once each.
Promise == INSTANCE Stream WITH image <- Image(trackp)
InOrder == Promise!Spec

\* Once await_faio() is over the run ends, however the child died: each later
\* wait of the parent has a limit.
EndsAfterAwait == ppc # "await" ~> ppc = "end"

\* A run that no fault disturbs burns its whole input and ends well, unless the
\* input itself is bad (a read error, or an empty standard input): also when
\* there is less input than the FIFO holds, which await_faio() must notice.
BadInput == \E t \in DOMAIN trackp :
                trackp[t].err \/ (trackp[t].fd = STDIN /\ trackp[t].avail = 0)
Undisturbed == /\ ending \notin {"timeout", "driveerr", "interrupt"}
               /\ rpc # "timedout"
               /\ rpc = "killed" => ppc \in {"reap", "end"}
Completes == []Undisturbed => <>(ppc = "end" /\ (ending = "ok" \/ BadInput))

=============================================================================
