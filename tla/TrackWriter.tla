----------------------------- MODULE TrackWriter -----------------------------
(***************************************************************************)
(* Writing one track with cdrecord: write_track_data() and its variant for *)
(* packets write_packet_data(), with pad_track(), the retry loop of        *)
(* write_secs() and the closing of the track, one action per answer of the *)
(* drive.  What the input delivers is fill_buf() of TrackData; the FIFO in *)
(* between is the subject of Fifo.                                         *)
(*                                                                         *)
(* A track has, besides the fields of TrackData,                           *)
(*   pad    trackp->padsecs as the options set it                          *)
(*   short  is_shorttrk(): it may be shorter than MinSecs                  *)
(*   tao    a data track of a CD that is written by itself (is_tao())      *)
(*   mode   "track", or "fixed" or "variable" packets (trackp->pktsize)    *)
(*   teac   the driver is drv_jvc.c, the one that cares about islast       *)
(*   faults what its drive may do, a subset of DriveFaults                 *)
(***************************************************************************)
EXTENDS TrackData

CONSTANTS Tracks,      \* the tracks a run may write
          MinSecs      \* the least length of a track, 300 sectors

DriveFaults == {"busy",     \* a write is not taken yet
                "error",    \* a write fails
                "short",    \* a write is taken in part, and is no error
                "noaddr"}   \* the next writable address is not to be had

\* set_trsizes() lets no transfer have more than 255 sectors: fewer than MinSecs.
ASSUME WriterAssumption ==
    /\ MinSecs \in Nat \ {0}
    /\ \A t \in Tracks :
           /\ t.sec \in Nat \ {0} /\ t.bpt \in Nat \ {0} /\ t.bpt % t.sec = 0
           /\ t.bpt < MinSecs * t.sec
           /\ t.size \in Nat \cup {-1} /\ t.avail \in Nat /\ t.err \in BOOLEAN
           /\ t.pad \in Nat /\ t.short \in BOOLEAN /\ t.tao \in BOOLEAN
           /\ t.teac \in BOOLEAN
           /\ t.mode \in {"track", "fixed", "variable"}
           /\ t.faults \subseteq DriveFaults
           /\ t.mode # "track" => ~t.short /\ ~t.teac

VARIABLES
    tr,          \* *trackp
    pc,          \* the next call that matters
    padsecs,     \* trackp->padsecs
    bytesRead,   \* bytes_read
    bytes,       \* bytes written
    bytespt,     \* the size of the next write
    startsec,    \* its address
    islast,      \* it is announced as the last one of the track
    amt,         \* pad_track(): bytes still to write
    retried,     \* write_packet_data(): this packet is written again
    asleep,      \* write_secs() waits: the drive has said "in progress"
    lastDone,    \* last_done of drv_jvc.c
    nwa,         \* the next writable address the drive reports
    medium,      \* what the drive has burned, in order
    padOK,       \* pad_track() has not failed
    cut,         \* history: 0, or the place on the medium behind the first write
                 \* of data that the drive took in part
    ending

wvars == <<tr, pc, padsecs, bytesRead, bytes, bytespt, startsec, islast, amt,
           retried, asleep, lastDone, nwa, medium, padOK, cut, ending>>

\* The source of a burned stretch that holds no data of the input.
Pad == -1       \* zeroes of pad_track()
Dummy == -2     \* the block that close_track_teac() adds
Linking == -3   \* the blocks that join two packets

LinkSecs == 7   \* how many of them

\* Where the written part of the track ends.
Here == IF medium = <<>> THEN 0
        ELSE LET l == medium[Len(medium)] IN l.at + l.n

Secs(t, n) == (n + t.sec - 1) \div t.sec

\* trackp->padsecs as opentracks() leaves it.
OpenPad(t) ==
    IF ~t.short /\ t.size > 0 /\ t.size \div t.sec < MinSecs
                /\ t.pad + Secs(t, t.size) < MinSecs
    THEN MinSecs - Secs(t, t.size) ELSE t.pad

\* The blocks the drive itself adds when it closes a track.
RunOut(t) == IF t.tao THEN 2 ELSE 0

\* The length of a track of known size that checktsize() has planned with: the
\* start of the next track, and of the lead-out, depends on it.
Announced(t) ==
    LET curr == Secs(t, t.size) + OpenPad(t) IN
    RunOut(t) + IF ~t.short /\ curr < MinSecs THEN MinSecs ELSE curr

WInit ==
    /\ tr \in Tracks
    /\ pc = "get" /\ padsecs = OpenPad(tr)
    /\ bytesRead = 0 /\ bytes = 0 /\ bytespt = tr.bpt /\ startsec = 0
    /\ islast = FALSE /\ amt = 0 /\ retried = FALSE /\ asleep = FALSE
    /\ lastDone = FALSE /\ nwa = 0 /\ medium = <<>> /\ padOK = TRUE
    /\ cut = 0 /\ ending = "none"

-----------------------------------------------------------------------------
(* Data *)

Packet == tr.mode # "track"

\* Mutant: the sectors read decide alone, as they do for packets.
AloneAtMinimum(end) == padsecs = 0 \/ end \div tr.sec >= MinSecs

\* No padding will follow `end` bytes.  For packets the condition is weaker.
NoPadAfter(end) ==
    IF Packet THEN padsecs = 0 \/ end \div tr.sec >= MinSecs
              ELSE padsecs = 0 /\ (tr.short \/ end \div tr.sec >= MinSecs)

\* Mutant: what was read beyond the size of the track is written as well.
GetUnclipped ==
    /\ pc = "get"
    /\ LET got == FillBuf(tr, bytesRead, bytespt)
           end == bytesRead + got
       IN  \/ /\ got <= 0
              /\ pc' = IF got < 0 THEN "gone" ELSE "after"
              /\ ending' = IF got < 0 THEN "readerr" ELSE ending
              /\ UNCHANGED <<bytesRead, bytespt, islast, retried>>
           \/ /\ got > 0
              /\ bytesRead' = end
              /\ islast' = (islast \/ (/\ got < bytespt \/ ~MoreToRead(tr, end)
                                       /\ NoPadAfter(end)))
              /\ bytespt' = IF got < bytespt /\ tr.mode # "fixed"
                            THEN RoundUp(tr, got) ELSE bytespt
              /\ retried' = FALSE
              /\ pc' = IF tr.mode = "variable" THEN "nwa" ELSE "write"
              /\ UNCHANGED ending
    /\ UNCHANGED <<tr, padsecs, bytes, startsec, amt, asleep, lastDone, nwa,
                   medium, padOK, cut>>

\* The head of the loop: get_buf(), and the size of the write.  A write that
\* is not full is one of whole sectors, or of the whole packet.
Get ==
    /\ pc = "get"
    /\ LET got == FillBuf(tr, bytesRead, BytesToRead(tr, bytesRead, bytespt))
           end == bytesRead + got
           count == Clip(tr, got, end)
       IN  \/ /\ got <= 0
              /\ pc' = IF got < 0 THEN "gone" ELSE "after"
              /\ ending' = IF got < 0 THEN "readerr" ELSE ending
              /\ UNCHANGED <<bytesRead, bytespt, islast, retried>>
           \/ /\ got > 0
              /\ bytesRead' = end
              /\ islast' = (islast \/ (/\ count < bytespt \/ ~MoreToRead(tr, end)
                                       /\ NoPadAfter(end)))
              /\ bytespt' = IF count < bytespt /\ tr.mode # "fixed"
                            THEN RoundUp(tr, count) ELSE bytespt
              /\ retried' = FALSE
              /\ pc' = IF tr.mode = "variable" THEN "nwa" ELSE "write"
              /\ UNCHANGED ending
    /\ UNCHANGED <<tr, padsecs, bytes, startsec, amt, asleep, lastDone, nwa,
                   medium, padOK, cut>>

\* Mutant: the drive's word is taken for it.
NextAddressTrusting ==
    /\ pc = "nwa"
    /\ startsec' = nwa
    /\ pc' = "write"
    /\ UNCHANGED <<tr, padsecs, bytesRead, bytes, bytespt, islast, amt, retried,
                   asleep, lastDone, nwa, medium, padOK, cut, ending>>

\* cdr_next_wr_address() before a packet of variable length.  Some drives do
\* not move the address when their buffer has run empty; when it cannot be had
\* the old one is used.
NextAddress ==
    /\ pc = "nwa"
    /\ \/ startsec' = IF retried /\ nwa = startsec THEN startsec + LinkSecs
                                                 ELSE nwa
       \/ "noaddr" \in tr.faults /\ UNCHANGED startsec
    /\ pc' = "write"
    /\ UNCHANGED <<tr, padsecs, bytesRead, bytes, bytespt, islast, amt, retried,
                   asleep, lastDone, nwa, medium, padOK, cut, ending>>

\* The transfer pad_track() is about to send.
PadSize == IF amt < bytespt THEN RoundUp(tr, amt) ELSE bytespt

\* The write about to be sent is announced as the last one.
TheLast == IF pc = "pad" THEN islast \/ amt - PadSize <= 0 ELSE islast

Stretch(src, n, last) == [at |-> startsec, n |-> n, src |-> src, last |-> last]

\* Where the bytes of the last get_buf() come from in the input.
Source == bytesRead - (IF bytesRead % tr.bpt = 0 THEN tr.bpt
                                                 ELSE bytesRead % tr.bpt)

\* The drive burns `new` at startsec.  When its buffer runs empty it closes a
\* packet of variable length, and joins the next one to it.
Burned(new) ==
    LET end == startsec + new.n IN
    /\ startsec' = end
    /\ \/ medium' = Append(medium, new) /\ nwa' = end
       \/ /\ tr.mode = "variable"
          /\ medium' = medium \o
                 <<new, [at |-> end, n |-> LinkSecs, src |-> Linking, last |-> FALSE]>>
          /\ nwa' = end + LinkSecs

\* Of the stretch `new` the drive burns k sectors: fewer than it was given when
\* the residual count of the command says so.  After a command that was no error
\* it knows its address.
Taken(new, k) ==
    IF k = 0 /\ new.n > 0 THEN nwa' = Here /\ UNCHANGED <<startsec, medium>>
                          ELSE Burned([new EXCEPT !.n = k])

\* The drive takes k sectors of the last get_buf().  The loop counts them, and
\* goes on with the next bytes of the input however few they are.
Writes(k) ==
    /\ pc = "write" /\ ~asleep /\ startsec >= Here
    /\ Taken(Stretch(Source, bytespt \div tr.sec, islast), k)
    /\ bytes' = bytes + k * tr.sec
    /\ lastDone' = (lastDone \/ TheLast)
    /\ pc' = IF MoreToRead(tr, bytesRead) THEN "get" ELSE "after"
    /\ UNCHANGED <<tr, padsecs, bytesRead, bytespt, islast, amt, retried, asleep,
                   padOK, ending>>

Write == Writes(bytespt \div tr.sec) /\ UNCHANGED cut

\* Mutant: what the drive left over is sent again, from the start of the buffer.
ShortWriteRepeats ==
    /\ "short" \in tr.faults
    /\ \E k \in 1 .. bytespt \div tr.sec - 1 :
           /\ pc = "write" /\ ~asleep /\ startsec >= Here
           /\ Taken(Stretch(Source, bytespt \div tr.sec, islast), k)
           /\ bytes' = bytes + k * tr.sec
           /\ bytespt' = bytespt - k * tr.sec
    /\ cut' = IF cut = 0 THEN Len(medium') + 1 ELSE cut
    /\ lastDone' = (lastDone \/ TheLast)
    /\ UNCHANGED <<tr, pc, padsecs, bytesRead, islast, amt, retried, asleep,
                   padOK, ending>>

\* write_xg1() returns less than the size of the write.
ShortWrite ==
    /\ "short" \in tr.faults
    /\ \E k \in 0 .. bytespt \div tr.sec - 1 : Writes(k)
    /\ cut' = IF cut = 0 THEN Len(medium') + 1 ELSE cut

\* The drive refuses a write to what is written already.
Refuses == "error" \in tr.faults \/ startsec < Here

\* Mutant: the end of the track is forgotten when a packet is written again.
WriteErrorForgets ==
    /\ pc = "write" /\ ~asleep /\ Refuses
    /\ lastDone' = (lastDone \/ TheLast)
    /\ IF tr.mode = "variable" /\ ~retried
       THEN /\ retried' = TRUE
            /\ pc' = "get"
            /\ UNCHANGED <<medium, nwa, ending>>
       ELSE /\ pc' = "close" /\ ending' = "error"
            /\ UNCHANGED <<retried, medium, nwa>>
    /\ UNCHANGED <<tr, padsecs, bytesRead, bytes, bytespt, startsec, islast, amt,
                   asleep, padOK, cut>>

\* Mutant: the packet is tried again and again.
WriteErrorForever ==
    /\ pc = "write" /\ ~asleep /\ Refuses
    /\ IF tr.mode = "variable"
       THEN pc' = "nwa" /\ UNCHANGED ending
       ELSE pc' = "close" /\ ending' = "error"
    /\ UNCHANGED <<tr, padsecs, bytesRead, bytes, bytespt, startsec, islast, amt,
                   retried, asleep, lastDone, nwa, medium, padOK, cut>>

\* The write fails.  A packet of variable length is tried once more: the drive
\* may have burned nothing of it, or just the link, and may or may not know.
WriteError ==
    /\ pc = "write" /\ ~asleep /\ Refuses
    /\ lastDone' = (lastDone \/ TheLast)
    /\ IF tr.mode = "variable" /\ ~retried
       THEN /\ retried' = TRUE
            /\ pc' = "nwa"
            /\ \/ UNCHANGED <<medium, nwa>>
               \/ /\ startsec >= Here
                  /\ medium' = Append(medium, Stretch(Linking, LinkSecs, FALSE))
                  /\ nwa' \in {startsec, startsec + LinkSecs}
            /\ UNCHANGED ending
       ELSE /\ pc' = "close" /\ ending' = "error"
            /\ UNCHANGED <<retried, medium, nwa>>
    /\ UNCHANGED <<tr, padsecs, bytesRead, bytes, bytespt, startsec, islast, amt,
                   asleep, padOK, cut>>

\* write_secs(): scsi_in_progress(), the drive is not ready for a long write.
Busy ==
    /\ pc \in {"write", "pad"} /\ ~asleep /\ "busy" \in tr.faults
    /\ asleep' = TRUE
    /\ lastDone' = (lastDone \/ TheLast)
    /\ UNCHANGED <<tr, pc, padsecs, bytesRead, bytes, bytespt, startsec, islast,
                   amt, retried, nwa, medium, padOK, cut, ending>>

Again ==                        \* usleep() is over: goto again
    /\ asleep
    /\ asleep' = FALSE
    /\ UNCHANGED <<tr, pc, padsecs, bytesRead, bytes, bytespt, startsec, islast,
                   amt, retried, lastDone, nwa, medium, padOK, cut, ending>>

-----------------------------------------------------------------------------
(* Padding and the end of the track *)

\* Mutant: the padding set up by opentracks() is taken as it is.
PadStartKnown ==
    /\ pc = "after"
    /\ pc' = IF padsecs > 0 THEN "pad" ELSE "close"
    /\ amt' = padsecs * tr.sec
    /\ bytespt' = tr.bpt
    /\ islast' = FALSE
    /\ UNCHANGED <<tr, padsecs, bytesRead, bytes, startsec, retried, asleep,
                   lastDone, nwa, medium, padOK, cut, ending>>

\* The track is brought to its least length, whatever its size was thought
\* to be; pad_track() starts with transfers of the full size again.
PadStart ==
    /\ pc = "after"
    /\ LET secs == bytes \div tr.sec
           need == IF /\ Packet \/ ~tr.short
                      /\ secs < MinSecs /\ padsecs + secs < MinSecs
                   THEN MinSecs - secs ELSE padsecs
       IN  /\ padsecs' = need
           /\ pc' = IF need > 0 THEN "pad" ELSE "close"
           /\ amt' = need * tr.sec
    /\ bytespt' = tr.bpt
    /\ islast' = FALSE
    /\ UNCHANGED <<tr, bytesRead, bytes, startsec, retried, asleep, lastDone,
                   nwa, medium, padOK, cut, ending>>

\* The drive takes k sectors of padding; pad_track() goes on until it has taken
\* all of it, also behind a write that was announced as the last.
Pads(k) ==
    /\ pc = "pad" /\ ~asleep /\ startsec >= Here
    /\ Taken(Stretch(Pad, PadSize \div tr.sec, TheLast), k)
    /\ islast' = TheLast
    /\ lastDone' = (lastDone \/ TheLast)
    /\ bytes' = bytes + k * tr.sec
    /\ bytespt' = PadSize
    /\ amt' = amt - k * tr.sec
    /\ pc' = IF amt' > 0 THEN "pad" ELSE "close"
    /\ UNCHANGED <<tr, padsecs, bytesRead, retried, asleep, padOK, cut, ending>>

PadWrite == Pads(PadSize \div tr.sec)

PadShort == /\ "short" \in tr.faults
            /\ \E k \in 0 .. PadSize \div tr.sec - 1 : Pads(k)

\* A write of pad_track() fails, and write_track_data() does not look at the
\* result: it goes on as if the track were complete.
PadError ==
    /\ pc = "pad" /\ ~asleep /\ Refuses
    /\ padOK' = FALSE
    /\ lastDone' = (lastDone \/ TheLast)
    /\ pc' = "close"
    /\ UNCHANGED <<tr, padsecs, bytesRead, bytes, bytespt, startsec, islast, amt,
                   retried, asleep, nwa, medium, cut, ending>>

\* cdr_close_track(), after an error as well.  Of the drivers only that of the
\* TEAC writes anything: a dummy block when no write was announced as the last.
Close ==
    /\ pc = "close"
    /\ pc' = "gone"
    /\ \/ /\ tr.teac /\ ~lastDone
          /\ medium' = Append(medium, Stretch(Dummy, 1, TRUE))
          /\ ending' = IF ending = "none" THEN "ok" ELSE ending
       \/ /\ ~(tr.teac /\ ~lastDone)
          /\ ending' = IF ending = "none" THEN "ok" ELSE ending
          /\ UNCHANGED medium
       \/ /\ "error" \in tr.faults
          /\ ending' = "error"
          /\ UNCHANGED medium
    /\ UNCHANGED <<tr, padsecs, bytesRead, bytes, bytespt, startsec, islast, amt,
                   retried, asleep, lastDone, nwa, padOK, cut>>

WDone == pc = "gone" /\ UNCHANGED wvars

WNext == \/ Get \/ NextAddress \/ Write \/ ShortWrite \/ WriteError \/ Busy
         \/ Again \/ PadStart \/ PadWrite \/ PadShort \/ PadError \/ Close \/ WDone

WSpec == WInit /\ [][WNext]_wvars

\* cdrecord goes on whenever it can, and the drive does not answer "in
\* progress", or take nothing of a write of padding, for ever: it takes all of
\* a write that is sent to it again and again, or refuses it.
WFairSpec ==
    /\ WSpec
    /\ WF_wvars(Get \/ NextAddress \/ Again \/ PadStart \/ Close)
    /\ SF_wvars(Write \/ WriteError \/ PadWrite \/ PadError)

-----------------------------------------------------------------------------
(* Properties *)

DataLen(t) == IF t.size >= 0 /\ t.size < t.avail THEN t.size ELSE t.avail

\* The sectors written for the data: a fixed packet is always a whole one, also
\* the one that is begun for a file whose size was given as 0.
DataSecs(t) ==
    LET secs == Secs(t, DataLen(t))
        spt == t.bpt \div t.sec
    IN  CASE t.mode # "fixed" -> secs
          [] t.mode = "fixed" /\ t.size = 0 /\ t.avail > 0 -> spt
          [] OTHER -> ((secs + spt - 1) \div spt) * spt

Length(t) ==
    DataSecs(t) + IF t.short \/ OpenPad(t) >= MinSecs - DataSecs(t)
                  THEN OpenPad(t) ELSE MinSecs - DataSecs(t)

\* The sectors the track shall have, each named by the byte it starts with.
Goal(t) == [k \in 1 .. Length(t) |->
               IF (k - 1) * t.sec < DataLen(t) THEN (k - 1) * t.sec ELSE Pad]

\* The sectors of one stretch, and those the track has so far, without what only
\* joins packets or closes it.
Sectors(s) == [k \in 1 .. s.n |->
    LET off == s.src + (k - 1) * tr.sec IN
    IF s.src = Pad \/ off >= DataLen(tr) THEN Pad ELSE off]
RecordedOn(burned) == FlattenSeq([i \in DOMAIN burned |->
                          IF burned[i].src >= Pad THEN Sectors(burned[i]) ELSE <<>>])
Recorded == RecordedOn(medium)

WTypeOK ==
    /\ tr \in Tracks
    /\ pc \in {"get", "nwa", "write", "after", "pad", "close", "gone"}
    /\ padsecs \in Nat /\ bytesRead \in Nat /\ bytes \in Nat
    /\ bytespt \in Nat /\ bytespt % tr.sec = 0 /\ startsec \in Nat
    /\ islast \in BOOLEAN /\ retried \in BOOLEAN /\ asleep \in BOOLEAN
    /\ lastDone \in BOOLEAN /\ padOK \in BOOLEAN
    /\ amt \in Int /\ nwa \in Nat /\ cut \in Nat
    /\ medium \in Seq([at : Nat, n : Nat, src : Nat \cup {Pad, Dummy, Linking},
                       last : BOOLEAN])
    /\ ending \in {"none", "ok", "error", "readerr"}

\* What the track has up to the first write of data that was cut short.
Followed == IF cut = 0 THEN Recorded ELSE RecordedOn(SubSeq(medium, 1, cut - 1))

\* Up to a write of data that the drive takes in part, which drops sectors of the
\* input (write_track_data() does not send the rest again), the track grows as its
\* goal says: every sector once and in order, then zeroes, whatever else fails and
\* is repeated in between.
Wanted == INSTANCE Stream WITH image <- Goal(tr), burned <- Followed
InOrder == Wanted!Spec

\* Whatever the drive leaves out of its writes, no sector of the input is written
\* a second time or behind one that follows it, and none behind the padding.
OnceEach ==
    \A j \in DOMAIN Recorded : \A i \in 1 .. j - 1 :
        Recorded[j] # Pad => Recorded[i] # Pad /\ Recorded[i] < Recorded[j]

\* A track that was written without an error has all of its data and padding,
\* also when padding was taken in part and sent again; not when a write of data
\* was, or when the padding failed, which write_track_data() does not notice.
EndsComplete == ending = "ok" /\ padOK /\ cut = 0 => Recorded = Goal(tr)

\* A track of known size never reaches into what checktsize() has planned for the
\* next one, whatever its file delivers and the drive answers, and ends right
\* before it (the run-out blocks of the drive in between) when its file has the
\* announced size and EndsComplete promises all of it.
LengthPlanned ==
    tr.mode = "track" /\ tr.size >= 0 =>
        /\ Len(Recorded) + RunOut(tr) <= Announced(tr)
        /\ ending = "ok" /\ padOK /\ cut = 0 /\ DataLen(tr) = tr.size =>
               Len(Recorded) + RunOut(tr) = Announced(tr)

\* A drive that takes its writes whole is told the last one of a track: nothing is
\* written after the write announced as the last, and the TEAC is always told, if
\* need be with a dummy block.
LastWrite ==
    "short" \notin tr.faults =>
        /\ tr.mode = "track" =>
               \A i \in DOMAIN medium : medium[i].last => i = Len(medium)
        /\ ending = "ok" /\ padOK /\ tr.teac =>
               medium # <<>> /\ medium[Len(medium)].last

\* What is sent next goes right behind what is there, and never on top of it
\* where a drive keeps its address to itself after an error.
AtTheEnd ==
    /\ tr.mode # "variable" /\ pc \in {"get", "write", "after", "pad"} =>
           startsec = Here
    /\ tr.mode = "variable" /\ pc = "write" /\ "noaddr" \notin tr.faults =>
           startsec >= Here

\* write_secs() repeats a write for as long as the drive is busy: the track is
\* done with in the end all the same.
TrackEnds == <>(pc = "gone")
=============================================================================
