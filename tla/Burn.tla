-------------------------------- MODULE Burn --------------------------------
(***************************************************************************)
(* One writing session of cdrecord around the FIFO: what main() does from  *)
(* the fork in init_faio() on, the SCSI commands it sends between its      *)
(* calls to the FIFO, the signal handler intfifo(), the exit handlers      *)
(* exscsi() and excdr() that comexit() runs, and the time all this takes.  *)
(*                                                                         *)
(* The steps of Fifo are those of this module too; here a step of the      *)
(* parent waits for the commands before it, and the two time limits of     *)
(* the FIFO expire after MaxWait ticks instead of at any moment.  Only     *)
(* waiting takes time: waiting for a slot, for input and for the drive.    *)
(***************************************************************************)
EXTENDS Fifo

CONSTANTS MaxWait,     \* WRITER_MAXWAIT = READER_MAXWAIT, in ticks
          InputMax,    \* the longest wait for input, in ticks
          Drives,      \* sessions with a drive: the longest time of each of
                       \* its commands (limit), whether main() blanks the
                       \* medium first, F_BLANK (blank), and whether it does so
                       \* also without looking at it, F_FORCE (force)
          MaxIntr      \* how many interrupts the user sends at most

VARIABLE drive         \* one of Drives, never changed

\* exscsi(): scsi_flush_cache(), cdr_abort_session(), set_secsize(),
\* unload_media().  The child inherits it; excdr() belongs to the parent.
Restore == <<"flush", "abort", "secsize", "unload">>

\* main()'s commands before await_faio(), with gracewait() ("grace") among them,
\* which is no command of the drive.  "ready" is wait_unit_ready(120), whose
\* result main() ignores, as it ignores that of the first, blind blank.
Prelude == <<"speed">> \o (IF drive.blank /\ drive.force
                               THEN <<"ready", "grace", "tryblank">>
                               ELSE <<"grace">>)

\* Its commands between await_faio() and the first track.  do_opc() may fail
\* before a blank ("tryopc"), but not before the lead-in ("opc"); "settle" is
\* wait_unit_ready(240), "disktype" cdr_getdisktype() with checkdsize(), and
\* "session" stands for read_tochdr() and cdr_opt2() as well.
Setup == <<"ready">>
         \o (IF drive.blank THEN <<"tryopc", "ready", "blank", "settle", "disktype">>
                            ELSE <<>>)
         \o <<"session", "opc", "leadin">>

Scsi == {"speed", "tryblank", "ready", "tryopc", "blank", "settle", "disktype",
         "session", "opc", "leadin", "open", "write", "close", "fixate"}
            \cup Range(Restore)
Commands == Scsi \cup {"grace"}

ASSUME BurnAssumption ==
    /\ MaxWait \in Nat \ {0} /\ InputMax \in Nat /\ MaxIntr \in Nat
    /\ Drives \subseteq [limit : [Commands -> Nat], blank : BOOLEAN, force : BOOLEAN]

VARIABLES
    cmds,      \* the parent's commands before its next FIFO step, first one
               \* running
    ctime,     \* ticks the first one has taken
    cb,        \* scgp->cb_fun is set: comexit() once the command is over
    exflags,   \* exargs.exflags of the parent
    rcmds,     \* the child's commands: those of exscsi(), after a comerrno()
    rtime,     \* ticks the first of them has taken
    rwait,     \* ticks the child has waited for its slot or its input
    pwait,     \* ticks the parent has waited for its slot
    intrs      \* how many interrupts there were

bvars == <<cmds, ctime, cb, exflags, rcmds, rtime, rwait, pwait,
           intrs, drive>>

BInit ==
    /\ Init
    /\ drive \in Drives
    /\ cmds = Prelude /\ ctime = 0 /\ cb = FALSE /\ exflags = FALSE
    /\ rcmds = <<>> /\ rtime = 0 /\ rwait = 0 /\ pwait = 0
    /\ intrs = 0

Running == cmds # <<>> /\ Head(cmds) \in Scsi       \* scgp->running

-----------------------------------------------------------------------------
(* The parent *)

\* Mutant: leaves the drive as it is.
CmdsAfterNoRestore ==
    CASE ppc = "scan" /\ ppc' = "idle" -> Setup \o <<"open">>
      [] ppc' = "use" /\ plen' > 0     -> <<"write">>
      [] ppc = "use" /\ ppc' = "idle"  ->
             <<"close">> \o IF ptrack < NTracks THEN <<"open">>
                                                ELSE <<"fixate">>
      [] OTHER                         -> <<>>

\* The commands main() and write_track_data() send after a step of the FIFO.
CmdsAfter ==
    CASE ppc = "scan" /\ ppc' = "idle" -> Setup \o <<"open">>
      [] ppc' = "use" /\ plen' > 0     -> <<"write">>
      [] ppc = "use" /\ ppc' = "idle"  ->
             <<"close">> \o IF ptrack < NTracks THEN <<"open">>
                                                ELSE <<"fixate">>
      [] ppc # "exit" /\ ppc' = "exit" -> Restore
      [] OTHER                         -> <<>>

ParentStep ==
    /\ cmds = <<>>
    /\ Burner
    /\ ending' = "timeout" => pwait = MaxWait \/ ending = "timeout"
    /\ cmds' = CmdsAfter
    /\ pwait' = 0
    /\ rcmds' = IF rpc' = "killed" THEN <<>> ELSE rcmds
    /\ UNCHANGED <<ctime, cb, exflags, rtime, rwait, intrs>>

\* A command is over.  When exscsi() is through with all of its own it sets
\* exflags; an interrupt during the command takes effect now, and comexit()
\* has not yet taken the handler it is in off its list.
CmdDone ==
    /\ cmds # <<>>
    /\ ctime' = 0
    /\ \/ /\ ~(Running /\ cb)
          /\ cmds' = Tail(cmds)
          /\ exflags' = (exflags \/ (ppc = "exit" /\ Tail(cmds) = <<>>))
          /\ UNCHANGED <<vars>>
       \/ /\ Running /\ cb
          /\ cmds' = Restore
          /\ \/ PInterrupt
             \/ ppc = "exit" /\ UNCHANGED vars
          /\ UNCHANGED exflags
    /\ cb' = FALSE
    /\ UNCHANGED <<rcmds, rtime, rwait, pwait, intrs>>

\* A command fails: the session cannot be set up, the track loop is left for
\* the fixation, or errs is just counted.  main() goes on when others fail, as
\* after CmdDone, and with F_FORCE also after "speed" and "disktype"; the checks
\* of the speed and of the size behind those two may still end it.  exscsi()
\* does not care.  "open" is cdr_open_track() and cdr_next_wr_address().
CmdError ==
    /\ Running /\ ~cb
    /\ PDriveError
    /\ CASE Head(cmds) \in {"speed", "blank", "settle", "disktype", "session",
                            "opc", "leadin"} ->
                ppc' = "exit" /\ cmds' = Restore
         [] Head(cmds) \in {"open", "close"} ->
                ppc' = "idle" /\ cmds' = <<"fixate">>
         [] Head(cmds) = "write" ->
                ppc' = "idle" /\ cmds' = <<"close", "fixate">>
         [] Head(cmds) = "fixate" ->
                ppc' = "idle" /\ cmds' = <<>>
         [] OTHER -> FALSE
    /\ ctime' = 0
    /\ UNCHANGED <<cb, exflags, rcmds, rtime, rwait, pwait, intrs>>

\* Before gracewait(), and while main() leaves before it, a signal has its default
\* action: the session has not begun, and such interrupts are not modelled.
Uncaught == \/ ppc = "await" /\ cmds # <<>> /\ "grace" \in Range(Tail(cmds))
            \/ scan = 0 /\ ending = "driveerr"

\* intfifo() (or, in gracewait(), intr()): at once when the drive is idle;
\* noted when it is busy; the second one while it is busy gives up on it,
\* and exscsi() then leaves the drive alone.
Interrupt ==
    /\ "interrupt" \in Faults /\ intrs < MaxIntr /\ ~Uncaught
    /\ intrs' = intrs + 1
    /\ \/ /\ Running /\ ~cb
          /\ cb' = TRUE
          /\ UNCHANGED <<vars, cmds, ctime>>
       \/ /\ Running /\ cb
          /\ PInterrupt \/ (ppc = "exit" /\ UNCHANGED vars)
          /\ cmds' = <<>> /\ ctime' = 0
          /\ UNCHANGED <<cb>>
       \/ /\ ~Running
          /\ PInterrupt
          /\ cmds' = Restore /\ ctime' = 0
          /\ UNCHANGED cb
    /\ UNCHANGED <<exflags, rcmds, rtime, rwait, pwait>>

-----------------------------------------------------------------------------
(* The child *)

\* Mutant: the time limit is one for the whole run.
ChildStepSameClock ==
    /\ Reader
    /\ UNCHANGED <<cmds, ctime, cb, exflags, rcmds, rtime, rwait, pwait, intrs>>

ChildStep ==
    /\ Reader
    /\ rwait' = 0
    /\ UNCHANGED <<cmds, ctime, cb, exflags, rcmds, rtime, pwait,
                   intrs>>

\* comerrno() in the child runs the handlers registered before the fork.
ChildTimeout ==
    /\ RTimeout
    /\ rwait = MaxWait
    /\ rcmds' = Restore
    /\ UNCHANGED <<cmds, ctime, cb, exflags, rtime, rwait, pwait, intrs>>

ChildCmdDone ==
    /\ rcmds # <<>>
    /\ rcmds' = Tail(rcmds)
    /\ rtime' = 0
    /\ UNCHANGED <<vars, cmds, ctime, cb, exflags, rwait, pwait,
                   intrs>>

-----------------------------------------------------------------------------
(* Time *)

ParentBlocked ==
    \/ cmds # <<>> /\ ctime < drive.limit[Head(cmds)]
    \/ /\ cmds = <<>>
       /\ \/ ppc = "await" /\ owner[LastSlot] # "reader"
          \/ ppc = "wait" /\ owner[bufIdx] # "reader" /\ pwait < MaxWait

\* Mutant: one delay too many.
ChildBlockedLong ==
    \/ rpc = "wait" /\ owner[bufIdxReader] # "writer" /\ rwait <= MaxWait
    \/ rpc = "fill" /\ rwait < InputMax
    \/ ~RAlive /\ (rcmds # <<>> => rtime < drive.limit[Head(rcmds)])

ChildBlocked ==
    \/ rpc = "wait" /\ owner[bufIdxReader] # "writer" /\ rwait < MaxWait
    \/ rpc = "fill" /\ rwait < InputMax
    \/ ~RAlive /\ (rcmds # <<>> => rtime < drive.limit[Head(rcmds)])

\* Mutant: max_wait is 0 for the parent, and no delay is counted.
TickUncounted ==
    /\ ParentBlocked /\ ChildBlocked
    /\ ctime' = IF cmds = <<>> THEN 0 ELSE ctime + 1
    /\ rwait' = IF RAlive THEN rwait + 1 ELSE rwait
    /\ rtime' = IF rcmds = <<>> THEN 0 ELSE rtime + 1
    /\ UNCHANGED <<vars, cmds, cb, exflags, rcmds, pwait, intrs>>

\* `f->owner == s` is looked at once more after the last delay.
Tick ==
    /\ ParentBlocked /\ ChildBlocked
    /\ ctime' = IF cmds = <<>> THEN 0 ELSE ctime + 1
    /\ pwait' = IF cmds = <<>> /\ ppc = "wait" THEN pwait + 1 ELSE pwait
    /\ rwait' = IF RAlive THEN rwait + 1 ELSE rwait
    /\ rtime' = IF rcmds = <<>> THEN 0 ELSE rtime + 1
    /\ UNCHANGED <<vars, cmds, cb, exflags, rcmds, intrs>>

BTerminated == ppc = "end" /\ UNCHANGED <<vars, bvars>>

BNext == /\ \/ ParentStep \/ CmdDone \/ CmdError \/ Interrupt
            \/ ChildStep \/ ChildTimeout \/ ChildCmdDone
            \/ Tick \/ BTerminated
         /\ UNCHANGED drive

BSpec == BInit /\ [][BNext]_<<vars, bvars>>

\* Everything that can go on does: the two processes are scheduled, commands
\* end or run into their time limit, and time passes.
BFairSpec ==
    /\ BSpec
    /\ WF_<<vars, bvars>>((ParentStep \/ CmdDone) /\ UNCHANGED drive)
    /\ WF_<<vars, bvars>>(
           (ChildStep \/ ChildTimeout \/ ChildCmdDone) /\ UNCHANGED drive)
    /\ WF_<<vars, bvars>>(Tick /\ UNCHANGED drive)

-----------------------------------------------------------------------------
(* Properties                                                              *)

BTypeOK ==
    /\ TypeOK
    /\ cmds \in Seq(Commands) /\ rcmds \in Seq(Scsi)
    /\ ctime \in Nat /\ rtime \in Nat
    /\ cb \in BOOLEAN /\ exflags \in BOOLEAN
    /\ rwait \in (0 .. MaxWait) \cup (0 .. InputMax) /\ pwait \in 0 .. MaxWait
    /\ intrs \in 0 .. MaxIntr
    /\ drive \in Drives

\* The child gives up on the parent only when something is wrong with it, not
\* because the drive is busy: "WRITER_MAXWAIT & READER_MAXWAIT need to be
\* greater than the SCSI timeout for commands that write to the media".
NoReaderTimeout == rpc # "timedout"

\* It does not give up on a drive whose commands are quick, also when they fail
\* or are interrupted.  The child may wait for its slot before the grace time.
\* It gets it when the parent asks for the segment after the first one, which may
\* be in the next track; if that cannot be opened no slot becomes free any more,
\* and the medium is fixated and exscsi() run before the child is killed.  Each
\* interrupt may start exscsi() once more.
LongestOn(d, seq) == FoldSeq(LAMBDA c, n : d.limit[c] + n, 0, seq)
Longest(seq) == LongestOn(drive, seq)
FirstSegment == <<"write", "close", "open", "fixate">> \o Restore
Quick == /\ Longest(Prelude \o Setup \o <<"open">> \o FirstSegment)
               + MaxIntr * Longest(Restore) < MaxWait
         /\ InputMax < MaxWait
QuickDriveKeepsReader == Quick => NoReaderTimeout

\* The drive is not left in the middle of a session: when cdrecord is gone, the
\* parent has run exscsi() to its end, unless a second interrupt came while a
\* command was running.
Restored == ppc = "end" => exflags \/ cb

\* Every session comes to an end, with interrupts and errors and a child that
\* has given up: the await_faio() without a limit is never entered by a parent
\* whose child has not filled the FIFO first.
SessionEnds == <>(ppc = "end")
=============================================================================
