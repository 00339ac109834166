------------------------------ MODULE RingBuff ------------------------------
(***************************************************************************)
(* The ring of segments between the two processes of cdda2wav              *)
(* (cdda2wav/ringbuff.c, semshm.c in its variant with pipes, forked_read() *)
(* and forked_write() of cdda2wav.c).  The parent is the READER of the CD, *)
(* the child the WRITER of the sound file.                                 *)
(*                                                                         *)
(* Two counters in shared memory say how many segments are in the ring.    *)
(* A process that finds no segment sets its flag and reads a byte from a   *)
(* pipe; the other one, after bumping its counter, writes that byte if it  *)
(* sees the flag.  Every access to shared memory the other process may     *)
(* interfere with is a step of its own, in the order of the code.          *)
(***************************************************************************)
EXTENDS Integers, Sequences

CONSTANTS NBuf,      \* global.buffers, the option -buffers-in-ring
          Totals,    \* how many segments cdda2wav may be asked to read
          Events     \* what may happen besides, a subset of EventKinds

EventKinds == {"leadout", "readerr", "writeerr", "interrupt"}

ASSUME NBufAssumption == NBuf \in Nat \ {0}
ASSUME TotalsAssumption == Totals \subseteq Nat \ {0}
ASSUME EventsAssumption == Events \subseteq EventKinds

Slots == 0 .. NBuf - 1
NoSlot == -1                                        \* NULL

VARIABLES
    \* struct ringbuffheader and the segments, in shared memory
    heFill, last, segsRead, segsWritten, childWaits, parentWaits, eor, todo, ring,
    freeTok, defTok,      \* the bytes in pipefdp2c and in pipefdc2p
    rpc, iloop,           \* the reader: where it is, the segments left to read
    wpc, wslot, nDone, out,   \* the writer: where it is, its slot, nSamplesDone, the file
    premature             \* history: someone woke up and found no segment

shared == <<heFill, last, segsRead, segsWritten, childWaits, parentWaits, eor,
            todo, ring>>
pipes == <<freeTok, defTok>>
rvars == <<rpc, iloop>>
wvars == <<wpc, wslot, nDone, out>>
vars == <<shared, pipes, rvars, wvars, premature>>

Inc(s) == IF s + 1 = NBuf THEN 0 ELSE s + 1
Defined == segsRead - segsWritten                   \* defined_buffers()

\* Mutant: one segment more than the ring holds.
FullLate == Defined > NBuf

Full == Defined >= NBuf
Empty == segsRead = segsWritten

\* How a process has left: exit() or a failed assert().
RGone == rpc \in {"gone", "aborted"}
WGone == wpc \in {"gone", "aborted"}
\* The ends of the pipes the reader holds are closed: semdestroy() or its end.
RClosed == rpc = "wait" \/ RGone

\* What a signal makes of the reader.  In exit() a second one ends it at once.
Interrupted(pc) ==
    CASE pc \in {"gone", "aborted"} -> pc
      [] pc \in {"close", "wait"} -> "gone"
      [] OTHER -> "close"

Init ==
    /\ \E n \in Totals : iloop = n /\ todo = n
    /\ heFill = NoSlot /\ last = NoSlot
    /\ segsRead = 0 /\ segsWritten = 0
    /\ childWaits = 0 /\ parentWaits = 0 /\ eor = 0
    /\ ring = [s \in Slots |-> 0]
    /\ freeTok = 0 /\ defTok = 0
    /\ rpc = "next"
    /\ wpc = "loop" /\ wslot = NoSlot /\ nDone = 0 /\ out = <<>>
    /\ premature = FALSE

-----------------------------------------------------------------------------
(* The reader: forked_read()                                               *)

OccupyBuffer == heFill' = IF heFill = NoSlot THEN 0 ELSE Inc(heFill)

RGet ==                         \* get_next_buffer() finds a free segment
    /\ rpc = "next" /\ iloop > 0 /\ ~Full
    /\ OccupyBuffer
    /\ rpc' = "fill"
    /\ UNCHANGED <<last, segsRead, segsWritten, childWaits, parentWaits, eor,
                   todo, ring, pipes, iloop, wvars, premature>>

RFull ==
    /\ rpc = "next" /\ iloop > 0 /\ Full
    /\ rpc' = "flag"
    /\ UNCHANGED <<shared, pipes, iloop, wvars, premature>>

RFlag ==
    /\ rpc = "flag"
    /\ parentWaits' = 1
    /\ rpc' = "block"
    /\ UNCHANGED <<heFill, last, segsRead, segsWritten, childWaits, eor, todo,
                   ring, pipes, iloop, wvars, premature>>

RWake ==                        \* the condition is not tested again
    /\ rpc = "block" /\ freeTok > 0
    /\ freeTok' = freeTok - 1
    /\ premature' = (premature \/ Full)
    /\ OccupyBuffer
    /\ rpc' = "fill"
    /\ UNCHANGED <<last, segsRead, segsWritten, childWaits, parentWaits, eor,
                   todo, ring, defTok, iloop, wvars>>

\* Mutant: tries the request again when it failed.
RBrokenRetry ==
    /\ rpc = "block" /\ freeTok = 0 /\ WGone
    /\ rpc' = "next"
    /\ UNCHANGED <<shared, pipes, iloop, wvars, premature>>

RBroken ==                      \* end of file: exit(SEMAPHORE_ERROR)
    /\ rpc = "block" /\ freeTok = 0 /\ WGone
    /\ rpc' = "close"
    /\ UNCHANGED <<shared, pipes, iloop, wvars, premature>>

RRead ==                        \* do_read() of a whole segment
    /\ rpc = "fill"
    /\ ring' = [ring EXCEPT ![heFill] = segsRead + 1]
    /\ iloop' = iloop - 1
    /\ rpc' = "define"
    /\ UNCHANGED <<heFill, last, segsRead, segsWritten, childWaits, parentWaits,
                   eor, todo, pipes, wvars, premature>>

RLeadOut ==                     \* do_read() comes upon the real lead-out
    /\ rpc = "fill" /\ "leadout" \in Events
    /\ ring' = [ring EXCEPT ![heFill] = segsRead + 1]
    /\ eor' = 1
    /\ rpc' = "patch"
    /\ UNCHANGED <<heFill, last, segsRead, segsWritten, childWaits, parentWaits,
                   todo, pipes, iloop, wvars, premature>>

RPatch ==                       \* the sectors before it: some, or none at all
    /\ rpc = "patch"
    /\ todo' \in {segsRead, segsRead + 1}
    /\ iloop' = 0
    /\ rpc' = "define"
    /\ UNCHANGED <<heFill, last, segsRead, segsWritten, childWaits, parentWaits,
                   eor, ring, pipes, wvars, premature>>

\* Mutant: compiled without assert().
RDefineNoAssert ==
    /\ rpc = "define"
    /\ last' = IF last = NoSlot THEN heFill ELSE last
    /\ rpc' = "count"
    /\ UNCHANGED <<heFill, segsRead, segsWritten, childWaits, parentWaits, eor,
                   todo, ring, pipes, iloop, wvars, premature>>

RDefine ==                      \* define_buffer()
    /\ rpc = "define"
    /\ IF Full
       THEN rpc' = "aborted" /\ UNCHANGED last
       ELSE /\ rpc' = "count"
            /\ last' = IF last = NoSlot THEN heFill ELSE last
    /\ UNCHANGED <<heFill, segsRead, segsWritten, childWaits, parentWaits, eor,
                   todo, ring, pipes, iloop, wvars, premature>>

RCount ==
    /\ rpc = "count"
    /\ segsRead' = segsRead + 1
    /\ rpc' = "test"
    /\ UNCHANGED <<heFill, last, segsWritten, childWaits, parentWaits, eor, todo,
                   ring, pipes, iloop, wvars, premature>>

RTest ==                        \* semrelease(DEF_SEM)
    /\ rpc = "test"
    /\ rpc' = IF childWaits = 1 THEN "token" ELSE "next"
    /\ childWaits' = 0
    /\ UNCHANGED <<heFill, last, segsRead, segsWritten, parentWaits, eor, todo,
                   ring, pipes, iloop, wvars, premature>>

RToken ==                       \* SIGPIPE when the child is gone
    /\ rpc = "token"
    /\ IF WGone THEN rpc' = "close" /\ UNCHANGED defTok
                ELSE rpc' = "next" /\ defTok' = defTok + 1
    /\ UNCHANGED <<shared, freeTok, iloop, wvars, premature>>

REnd ==
    /\ rpc = "next" /\ iloop = 0
    /\ rpc' = "close"
    /\ UNCHANGED <<shared, pipes, iloop, wvars, premature>>

RClose ==                       \* CloseAll(): semdestroy() ...
    /\ rpc = "close"
    /\ iloop' = 0
    /\ rpc' = "wait"
    /\ UNCHANGED <<shared, pipes, wvars, premature>>

RWait ==                        \* ... and wait() for the child
    /\ rpc = "wait" /\ WGone
    /\ rpc' = "gone"
    /\ UNCHANGED <<shared, pipes, iloop, wvars, premature>>

RError ==                       \* exit(READ_ERROR)
    /\ rpc = "fill" /\ "readerr" \in Events
    /\ rpc' = "close"
    /\ UNCHANGED <<shared, pipes, iloop, wvars, premature>>

RInterrupt ==
    /\ "interrupt" \in Events /\ ~RGone
    /\ rpc' = Interrupted(rpc)
    /\ UNCHANGED <<shared, pipes, iloop, wvars, premature>>

Reader ==
    \/ RGet \/ RFull \/ RFlag \/ RWake \/ RBroken \/ RRead \/ RPatch
    \/ RDefine \/ RCount \/ RTest \/ RToken \/ REnd \/ RClose \/ RWait

-----------------------------------------------------------------------------
(* The writer: forked_write()                                              *)

WLoop ==
    /\ wpc = "loop"
    /\ wpc' = IF nDone < todo THEN "eor" ELSE "gone"
    /\ UNCHANGED <<shared, pipes, rvars, wslot, nDone, out, premature>>

WEor ==
    /\ wpc = "eor"
    /\ wpc' = IF eor = 1 /\ Empty THEN "gone" ELSE "request"
    /\ UNCHANGED <<shared, pipes, rvars, wslot, nDone, out, premature>>

WGet ==                         \* get_oldest_buffer() finds a defined segment
    /\ wpc = "request" /\ ~Empty
    /\ wslot' = last
    /\ wpc' = "write"
    /\ UNCHANGED <<shared, pipes, rvars, nDone, out, premature>>

WEmpty ==
    /\ wpc = "request" /\ Empty
    /\ wpc' = "flag"
    /\ UNCHANGED <<shared, pipes, rvars, wslot, nDone, out, premature>>

WFlag ==
    /\ wpc = "flag"
    /\ childWaits' = 1
    /\ wpc' = "block"
    /\ UNCHANGED <<heFill, last, segsRead, segsWritten, parentWaits, eor, todo,
                   ring, pipes, rvars, wslot, nDone, out, premature>>

WWake ==                        \* the condition is not tested again
    /\ wpc = "block" /\ defTok > 0
    /\ defTok' = defTok - 1
    /\ premature' = (premature \/ Empty)
    /\ wslot' = last
    /\ wpc' = "write"
    /\ UNCHANGED <<shared, freeTok, rvars, nDone, out>>

WBroken ==                      \* end of file: get_oldest_buffer() gives NULL
    /\ wpc = "block" /\ defTok = 0 /\ RClosed
    /\ wpc' = "gone"
    /\ UNCHANGED <<shared, pipes, rvars, wslot, nDone, out, premature>>

WWrite ==                       \* do_write(): what is left, at most a segment
    /\ wpc = "write"
    /\ IF nDone < todo
       THEN out' = Append(out, ring[wslot]) /\ nDone' = nDone + 1
       ELSE UNCHANGED <<out, nDone>>
    /\ wpc' = "drop"
    /\ UNCHANGED <<shared, pipes, rvars, wslot, premature>>

WDrop ==                        \* drop_buffer()
    /\ wpc = "drop"
    /\ IF Empty
       THEN wpc' = "aborted" /\ UNCHANGED last
       ELSE wpc' = "count" /\ last' = Inc(last)
    /\ UNCHANGED <<heFill, segsRead, segsWritten, childWaits, parentWaits, eor,
                   todo, ring, pipes, rvars, wslot, nDone, out, premature>>

WCount ==
    /\ wpc = "count"
    /\ segsWritten' = segsWritten + 1
    /\ wpc' = "test"
    /\ UNCHANGED <<heFill, last, segsRead, childWaits, parentWaits, eor, todo,
                   ring, pipes, rvars, wslot, nDone, out, premature>>

\* Mutant: does not take the flag back.
WTestKeep ==
    /\ wpc = "test"
    /\ wpc' = IF parentWaits = 1 THEN "token" ELSE "loop"
    /\ UNCHANGED <<shared, pipes, rvars, wslot, nDone, out, premature>>

WTest ==                        \* semrelease(FREE_SEM)
    /\ wpc = "test"
    /\ wpc' = IF parentWaits = 1 THEN "token" ELSE "loop"
    /\ parentWaits' = 0
    /\ UNCHANGED <<heFill, last, segsRead, segsWritten, childWaits, eor, todo,
                   ring, pipes, rvars, wslot, nDone, out, premature>>

WToken ==                       \* SIGPIPE when the parent has closed its end
    /\ wpc = "token"
    /\ IF RClosed
       THEN wpc' = "gone" /\ rpc' = Interrupted(rpc) /\ UNCHANGED freeTok
       ELSE wpc' = "loop" /\ freeTok' = freeTok + 1 /\ UNCHANGED rpc
    /\ UNCHANGED <<shared, defTok, iloop, wslot, nDone, out, premature>>

WError ==                       \* SaveBuffer() fails: kill(ppid, SIGINT)
    /\ wpc = "write" /\ "writeerr" \in Events
    /\ wpc' = "gone"
    /\ rpc' = Interrupted(rpc)
    /\ UNCHANGED <<shared, pipes, iloop, wslot, nDone, out, premature>>

WInterrupt ==
    /\ "interrupt" \in Events /\ ~WGone
    /\ wpc' = "gone"
    /\ UNCHANGED <<shared, pipes, rvars, wslot, nDone, out, premature>>

Writer ==
    \/ WLoop \/ WEor \/ WGet \/ WEmpty \/ WFlag \/ WWake \/ WBroken \/ WWrite
    \/ WDrop \/ WCount \/ WTest \/ WToken

-----------------------------------------------------------------------------
Event == RLeadOut \/ RError \/ RInterrupt \/ WError \/ WInterrupt

Next == Reader \/ Writer \/ Event

\* Neither process waits for anything but the other one: the drive answers
\* every command and the scheduler runs both.
Spec == Init /\ [][Next]_vars /\ WF_vars(Reader) /\ WF_vars(Writer)

-----------------------------------------------------------------------------
RPlaces == {"next", "flag", "block", "fill", "patch", "define", "count", "test",
            "token"}
WPlaces == {"loop", "eor", "request", "flag", "block", "write", "drop", "count",
            "test", "token"}

\* Types; the assertions of define_buffer() and drop_buffer() keep the
\* number of segments in the ring between none and all of them, even after a
\* wake-up that came too early.
RTypeOK ==
    /\ heFill \in Slots \cup {NoSlot} /\ last \in Slots \cup {NoSlot}
    /\ segsRead \in Nat /\ segsWritten \in Nat /\ Defined \in 0 .. NBuf
    /\ childWaits \in {0, 1} /\ parentWaits \in {0, 1} /\ eor \in {0, 1}
    /\ todo \in Nat /\ iloop \in Nat /\ nDone \in Nat
    /\ ring \in [Slots -> Nat] /\ out \in Seq(Nat)
    /\ freeTok \in Nat /\ defTok \in Nat
    /\ rpc \in RPlaces \cup {"close", "wait", "gone", "aborted"}
    /\ wpc \in WPlaces \cup {"gone", "aborted"}
    /\ wslot \in Slots \cup {NoSlot}
    /\ premature \in BOOLEAN

One(b) == IF b THEN 1 ELSE 0

\* A wait is paid for by exactly one of: the flag, a byte about to be written,
\* a byte in the pipe.  No byte is left over for a later wait, so a wake-up
\* can be early only by the release it was meant for.
TokensBalanced ==
    LET free == parentWaits + freeTok + One(wpc = "token")
        def == childWaits + defTok + One(rpc = "token")
    IN  /\ rpc \in RPlaces \ {"block"} => free = 0
        /\ rpc = "block" => free <= 1 /\ (~WGone => free = 1)
        /\ wpc \in WPlaces \ {"block"} => def = 0
        /\ wpc = "block" => def <= 1 /\ (rpc \in RPlaces => def = 1)

\* Unless a process was woken up too early, the reader never fills the
\* segment the writer is saving, the file is the beginning of the recording
\* segment by segment, and no assertion of ringbuff.c fails.
OrderUnlessPremature ==
    premature \/
    /\ rpc \in {"fill", "patch", "define"} /\ wpc = "write" => wslot # heFill
    /\ \A k \in DOMAIN out : out[k] = k
    /\ rpc # "aborted" /\ wpc # "aborted"

BothGone == RGone /\ WGone
BothWaiting ==
    rpc = "block" /\ wpc = "block" /\ freeTok = 0 /\ defTok = 0

\* Whatever ends one of the processes ends the other, by an end of file, a
\* SIGPIPE, a signal or the end of its work; only two processes that both
\* wait for a byte go on for ever.
EndsOrBothWait == <>[](BothGone \/ BothWaiting)

-----------------------------------------------------------------------------
(* What a comment says and the code does not keep                          *)

\* cdda2wav.c:3775: one process reads the sectors and the other one stores
\* them in a wav file.  With no error and no signal, all of them.
AllStored == wpc = "gone" => out = [k \in 1 .. todo |-> k]
=============================================================================
