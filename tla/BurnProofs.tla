----------------------------- MODULE BurnProofs -----------------------------
(***************************************************************************)
(* Theorems about a writing session, for every drive, every length of its  *)
(* commands, every number of interrupts and whatever the FIFO does.        *)
(***************************************************************************)
EXTENDS Burn, FifoProofs

-----------------------------------------------------------------------------
(* The session uses the FIFO *)

\* Every step of the session is a step of the FIFO or leaves it alone.
LEMMA SessionStep == [BNext]_<<vars, bvars>> => [Next]_vars
  <1>1. ParentStep => Burner
    BY DEF ParentStep
  <1>2. CmdDone => PInterrupt \/ UNCHANGED vars
    BY DEF CmdDone
  <1>3. CmdError => PDriveError
    BY DEF CmdError
  <1>4. Interrupt => PInterrupt \/ UNCHANGED vars
    BY DEF Interrupt
  <1>5. ChildStep => Reader
    BY DEF ChildStep
  <1>6. ChildTimeout => RTimeout
    BY DEF ChildTimeout
  <1>7. ChildCmdDone \/ Tick \/ BTerminated \/ UNCHANGED <<vars, bvars>>
            => UNCHANGED vars
    BY DEF ChildCmdDone, Tick, BTerminated
  <1> QED
    BY <1>1, <1>2, <1>3, <1>4, <1>5, <1>6, <1>7 DEF BNext, Next, Fault

\* So what is proved of the FIFO with its faults holds of it in a session.
LEMMA SessionUsesFifo == BSpec => Spec
  <1>1. BInit => Init
    BY DEF BInit
  <1> QED
    BY <1>1, SessionStep, PTL DEF BSpec, Spec

-----------------------------------------------------------------------------
(* Type correctness *)

\* The commands are sequences of commands, the child's of those of the drive.
LEMMA CommandSeqs ==
    /\ Restore \in Seq(Scsi) /\ Restore \in Seq(Commands) /\ Restore # <<>>
    /\ \A c \in Scsi : <<c>> \in Seq(Commands)
    /\ Scsi \subseteq Commands
    /\ CmdsAfter \in Seq(Commands) /\ Prelude \in Seq(Commands)
  <1>1. {"flush", "abort", "secsize", "unload"} \subseteq Scsi
    BY DEF Scsi, Restore, Range
  <1>2. Scsi \subseteq Commands
    BY DEF Commands
  <1>3. /\ Restore \in Seq(Scsi) /\ Restore \in Seq(Commands) /\ Restore # <<>>
    BY <1>1, <1>2 DEF Restore
  <1>4. \A c \in Scsi : <<c>> \in Seq(Commands)
    BY <1>2
  <1>5. /\ Setup \in Seq(Commands) /\ Prelude \in Seq(Commands)
    <2>1. Setup \in Seq(Commands)
      BY <1>2 DEF Setup, Scsi
    <2>2. Prelude \in Seq(Commands)
      <3> DEFINE twice == <<"ready", "grace", "tryblank">>
      <3>1. /\ <<"speed">> \in Seq(Commands) /\ twice \in Seq(Commands)
            /\ <<"grace">> \in Seq(Commands)
        BY DEF Scsi, Commands
      <3> HIDE DEF twice
      <3>2. (IF drive.blank /\ drive.force THEN twice ELSE <<"grace">>) \in Seq(Commands)
        BY <3>1
      <3> QED
        BY <3>1, <3>2 DEF Prelude, twice
    <2> QED
      BY <2>1, <2>2
  <1>6. CmdsAfter \in Seq(Commands)
    <2>1. /\ Setup \o <<"open">> \in Seq(Commands) /\ <<"write">> \in Seq(Commands)
          /\ <<>> \in Seq(Commands)
          /\ <<"close">> \o (IF ptrack < NTracks THEN <<"open">> ELSE <<"fixate">>)
                \in Seq(Commands)
      BY <1>2, <1>5 DEF Scsi
    <2>2. \/ CmdsAfter = Setup \o <<"open">>
          \/ CmdsAfter = <<"write">>
          \/ CmdsAfter = <<"close">> \o (IF ptrack < NTracks THEN <<"open">>
                                                             ELSE <<"fixate">>)
          \/ CmdsAfter = Restore
          \/ CmdsAfter = <<>>
      BY DEF CmdsAfter
    <2> QED
      BY <1>3, <2>1, <2>2
  <1> QED
    BY <1>2, <1>3, <1>4, <1>5, <1>6

\* The part of BTypeOK that is about the session itself.
SessionTypeOK ==
    /\ cmds \in Seq(Commands) /\ rcmds \in Seq(Scsi)
    /\ ctime \in Nat /\ rtime \in Nat
    /\ cb \in BOOLEAN /\ exflags \in BOOLEAN
    /\ rwait \in (0 .. MaxWait) \cup (0 .. InputMax) /\ pwait \in 0 .. MaxWait
    /\ intrs \in 0 .. MaxIntr
    /\ drive \in Drives

\* Every step of the session keeps its variables in their ranges.
LEMMA SessionTypeStep ==
    ASSUME SessionTypeOK, [BNext]_<<vars, bvars>>
    PROVE  SessionTypeOK'
  <1>0. MaxWait \in Nat /\ InputMax \in Nat /\ MaxIntr \in Nat
    BY BurnAssumption
  <1>1. /\ Restore \in Seq(Scsi) /\ Restore \in Seq(Commands) /\ Restore # <<>>
        /\ CmdsAfter \in Seq(Commands)
        /\ \A c \in Scsi : <<c>> \in Seq(Commands)
    BY CommandSeqs
  <1>2. /\ <<>> \in Seq(Commands) /\ <<>> \in Seq(Scsi)
        /\ <<"fixate">> \in Seq(Commands) /\ <<"close", "fixate">> \in Seq(Commands)
    BY DEF Commands, Scsi
  <1>3. /\ cmds # <<>> => Tail(cmds) \in Seq(Commands)
        /\ rcmds # <<>> => Tail(rcmds) \in Seq(Scsi)
    BY DEF SessionTypeOK
  <1>4. 0 \in 0 .. MaxWait /\ 0 \in (0 .. MaxWait) \cup (0 .. InputMax)
    BY <1>0
  <1>5. CASE ParentStep /\ drive' = drive
    BY <1>1, <1>2, <1>4, <1>5 DEF ParentStep, SessionTypeOK
  <1>6. CASE CmdDone /\ drive' = drive
    <2>1. cmds' \in Seq(Commands)
      BY <1>1, <1>3, <1>6 DEF CmdDone
    <2>2. exflags' \in BOOLEAN
      BY <1>6 DEF CmdDone, SessionTypeOK
    <2> QED
      BY <1>6, <2>1, <2>2 DEF CmdDone, SessionTypeOK
  <1>7. CASE CmdError /\ drive' = drive
    <2>1. cmds' \in {Restore, <<"fixate">>, <<"close", "fixate">>, <<>>}
      BY <1>7 DEF CmdError
    <2> QED
      BY <1>1, <1>2, <1>7, <2>1 DEF CmdError, SessionTypeOK
  <1>8. CASE Interrupt /\ drive' = drive
    <2>1. intrs' \in 0 .. MaxIntr
      BY <1>0, <1>8 DEF Interrupt, SessionTypeOK
    <2>2. /\ cmds' \in {cmds, <<>>, Restore} /\ ctime' \in {ctime, 0}
          /\ cb' = cb \/ cb' = TRUE
          /\ UNCHANGED <<exflags, rcmds, rtime, rwait, pwait>>
      BY <1>8, Zenon DEF Interrupt
    <2>3. cmds' \in Seq(Commands) /\ ctime' \in Nat
      <3>1. cmds' \in Seq(Commands)
        BY <1>1, <1>2, <2>2, Zenon DEF SessionTypeOK
      <3>2. ctime' = ctime \/ ctime' = 0
        BY <2>2, Zenon
      <3> QED
        BY <3>1, <3>2 DEF SessionTypeOK
    <2>4. cb' \in BOOLEAN
      BY <2>2, Zenon DEF SessionTypeOK
    <2> QED
      BY <1>8, <2>1, <2>2, <2>3, <2>4 DEF SessionTypeOK
  <1>9. CASE (ChildStep \/ ChildTimeout \/ ChildCmdDone) /\ drive' = drive
    <2>1. rcmds' \in Seq(Scsi)
      BY <1>1, <1>3, <1>9 DEF ChildStep, ChildTimeout, ChildCmdDone, SessionTypeOK
    <2>2. rtime' \in Nat /\ rwait' \in (0 .. MaxWait) \cup (0 .. InputMax)
      BY <1>4, <1>9 DEF ChildStep, ChildTimeout, ChildCmdDone, SessionTypeOK
    <2>3. UNCHANGED <<cmds, ctime, cb, exflags, pwait, intrs, drive>>
      BY <1>9 DEF ChildStep, ChildTimeout, ChildCmdDone
    <2> QED
      BY <2>1, <2>2, <2>3, Zenon DEF SessionTypeOK
  <1>10. CASE Tick /\ drive' = drive
    <2>1. rwait' \in (0 .. MaxWait) \cup (0 .. InputMax)
      BY <1>0, <1>10 DEF Tick, ChildBlocked, SessionTypeOK, RAlive
    <2>2. pwait' \in 0 .. MaxWait
      BY <1>0, <1>10 DEF Tick, ParentBlocked, SessionTypeOK
    <2>3. ctime' \in Nat /\ rtime' \in Nat
      BY <1>10 DEF Tick, SessionTypeOK
    <2> QED
      BY <1>10, <2>1, <2>2, <2>3 DEF Tick, SessionTypeOK
  <1>11. CASE UNCHANGED <<vars, bvars>>
    BY <1>11 DEF bvars, SessionTypeOK
  <1>12. CASE BTerminated /\ drive' = drive
    BY <1>12 DEF BTerminated, bvars, SessionTypeOK
  <1> QED
    BY <1>5, <1>6, <1>7, <1>8, <1>9, <1>10, <1>11, <1>12 DEF BNext

\* A session starts with the speed and the grace time, and no signal.
LEMMA SessionTypeInit == BInit => SessionTypeOK
  <1>1. Prelude \in Seq(Commands) /\ <<>> \in Seq(Scsi)
    BY CommandSeqs
  <1>2. /\ 0 \in 0 .. MaxWait /\ 0 \in 0 .. MaxIntr /\ 0 \in Nat
        /\ 0 \in (0 .. MaxWait) \cup (0 .. InputMax)
    BY BurnAssumption
  <1> QED
    BY <1>1, <1>2, Zenon DEF BInit, SessionTypeOK

\* The variables of the session are in their ranges.
LEMMA SessionTypeAlways == BSpec => []SessionTypeOK
  BY SessionTypeInit, SessionTypeStep, PTL DEF BSpec

\* Type correctness of a session.
THEOREM SessionTypeCorrect == BSpec => []BTypeOK
  <1>1. TypeOK /\ SessionTypeOK => BTypeOK
    BY DEF BTypeOK, SessionTypeOK
  <1> QED
    BY <1>1, SessionTypeAlways, SessionUsesFifo, TypeCorrect, PTL

-----------------------------------------------------------------------------
(* The drive is restored *)

\* Once the parent is on its way out, either commands of exscsi() are still to
\* come, or it is through with them, or it has been told to give up on the drive;
\* the child is killed only after them.
OnTheWayOut ==
    /\ ppc \in {"exit", "reap", "end"} /\ cmds = <<>> => exflags \/ cb
    /\ ppc \in {"reap", "end"} => cmds = <<>>

\* After a step of the FIFO that ends the parent's work come those of exscsi().
LEMMA CommandsAtTheEnd ==
    Burner => /\ ppc \notin {"exit", "reap", "end"} /\ ppc' \in {"exit", "reap", "end"}
                    => ppc' = "exit" /\ CmdsAfter = Restore
              /\ ppc \in {"exit", "reap", "end"} => ppc' \in {"reap", "end"} /\ CmdsAfter = <<>>
  <1> SUFFICES ASSUME Burner
               PROVE  /\ ppc \notin {"exit", "reap", "end"} /\ ppc' \in {"exit", "reap", "end"}
                            => ppc' = "exit" /\ CmdsAfter = Restore
                      /\ ppc \in {"exit", "reap", "end"}
                            => ppc' \in {"reap", "end"} /\ CmdsAfter = <<>>
    OBVIOUS
  <1>1. /\ ppc \notin {"exit", "reap", "end"} /\ ppc' \in {"exit", "reap", "end"}
              => ppc' = "exit"
        /\ ppc \in {"exit", "reap", "end"}
              => ppc \in {"exit", "reap"} /\ ppc' \in {"reap", "end"}
    BY DEF Burner, PAwait, PScan, PStartTrack, PFinish, PRelease, PLow, PWait, PTimeout,
           PCheck, PLoadUsers, PStoreUsers, PSetFaio, PUseError, PUseEOF, PWrite,
           PKillFaio, PWaitFaio
  <1>2. ppc \notin {"exit", "reap", "end"} /\ ppc' = "exit" => CmdsAfter = Restore
    BY DEF CmdsAfter
  <1>3. ppc \in {"exit", "reap"} /\ ppc' \in {"reap", "end"} => CmdsAfter = <<>>
    BY DEF CmdsAfter
  <1> QED
    BY <1>1, <1>2, <1>3

\* Every step keeps that promise.
LEMMA OnTheWayOutStep ==
    ASSUME OnTheWayOut, [BNext]_<<vars, bvars>>
    PROVE  OnTheWayOut'
  <1>1. Restore # <<>>
    BY CommandSeqs
  <1>2. CASE ParentStep
    BY <1>1, <1>2, CommandsAtTheEnd DEF ParentStep, OnTheWayOut
  <1>3. CASE CmdDone
    <2>1. cmds # <<>> /\ ppc \notin {"reap", "end"}
      BY <1>3 DEF CmdDone, OnTheWayOut
    <2>2. CASE ~(Running /\ cb)
      BY <1>3, <2>1, <2>2 DEF CmdDone, OnTheWayOut, vars, pvars
    <2>3. CASE Running /\ cb
      BY <1>1, <1>3, <2>1, <2>3 DEF CmdDone, OnTheWayOut, PInterrupt, vars, pvars
    <2> QED
      BY <2>2, <2>3
  <1>4. CASE CmdError
    BY <1>1, <1>4 DEF CmdError, OnTheWayOut
  <1>5. CASE Interrupt
    <2>1. CASE Running /\ ~cb /\ cb' /\ UNCHANGED <<vars, cmds, ctime>>
      BY <1>5, <2>1 DEF Interrupt, OnTheWayOut, vars, pvars
    <2>2. CASE /\ Running /\ cb /\ (PInterrupt \/ (ppc = "exit" /\ UNCHANGED vars))
               /\ cmds' = <<>> /\ cb' = cb
      <3>1. ppc' = "exit"
        BY <2>2 DEF PInterrupt, vars, pvars
      <3> QED
        BY <2>2, <3>1 DEF OnTheWayOut
    <2>3. CASE PInterrupt /\ cmds' = Restore
      BY <1>1, <2>3 DEF PInterrupt, OnTheWayOut
    <2> QED
      BY <1>5, <2>1, <2>2, <2>3 DEF Interrupt
  <1>6. CASE ChildStep \/ ChildTimeout
    <2>1. UNCHANGED <<ppc, cmds, exflags, cb>>
      BY <1>6 DEF ChildStep, ChildTimeout, Reader, RWait, RSetFd, RFill, RSetLen, RSetOwner,
                  RSetUsers, RPut, RDone, RTestGets, RMarkLast, RTimeout, pvars
    <2> QED
      BY <2>1 DEF OnTheWayOut
  <1>7. CASE ChildCmdDone \/ Tick \/ BTerminated \/ UNCHANGED <<vars, bvars>>
    BY <1>7 DEF ChildCmdDone, Tick, BTerminated, OnTheWayOut, vars, pvars, bvars
  <1> QED
    BY <1>2, <1>3, <1>4, <1>5, <1>6, <1>7 DEF BNext

\* When cdrecord is gone exscsi() has run to its end, but for a second interrupt
\* during a command; main(), the track loop, intfifo() and the time limits all end
\* there.
THEOREM RestoredAlways == BSpec => []Restored
  <1>1. BInit => OnTheWayOut
    BY DEF BInit, Init, OnTheWayOut
  <1>2. OnTheWayOut => Restored
    BY DEF OnTheWayOut, Restored
  <1> QED
    BY <1>1, <1>2, OnTheWayOutStep, PTL DEF BSpec

-----------------------------------------------------------------------------
(* The child does not give up on a quick drive                              *)

\* The limits that Longest() adds up.
Limits(d, seq) == [i \in 1 .. Len(seq) |-> d.limit[seq[i]]]

\* The longest time of a sequence of commands is the sum of their limits.
LEMMA TimeIsSum ==
    ASSUME NEW d \in Drives, NEW s \in Seq(Commands)
    PROVE  Limits(d, s) \in Seq(Nat) /\ LongestOn(d, s) = SumOf(Limits(d, s))
  <1> DEFINE w == Limits(d, s)
             S == 1 .. Len(s)
             ch(u) == CHOOSE x \in u : TRUE
             Fold(g) == g = [u \in SUBSET S |->
                                IF u = {} THEN 0 ELSE d.limit[s[ch(u)]] + g[u \ {ch(u)}]]
             F == CHOOSE g : Fold(g)
  <1>1. d.limit \in [Commands -> Nat]
    BY BurnAssumption
  <1>2. w \in Seq(Nat) /\ DOMAIN s = S /\ Len(w) = Len(s) /\ \A i \in S : w[i] = d.limit[s[i]]
    BY <1>1 DEF Limits
  <1>3. IsFiniteSet(S)
    BY FS_Interval
  <1>4. \A u : u # {} => ch(u) \in u
    OBVIOUS
  <1>5. LongestOn(d, s) = F[S]
    BY <1>2 DEF LongestOn, FoldSeq, FoldFunction, FoldFunctionOnSet, MapThenFoldSet
  <1>6. \A g : Fold(g) <=> Sums(g, w, S)
    <2> SUFFICES ASSUME NEW g PROVE Fold(g) <=> Sums(g, w, S)
      OBVIOUS
    <2> HIDE DEF w, S
    <2>1. \A u \in SUBSET S : u # {} => w[ch(u)] = d.limit[s[ch(u)]]
      BY <1>2, <1>4
    <2> HIDE DEF ch
    <2>2. Sums(g, w, S) <=> g = [u \in SUBSET S |-> IF u = {} THEN 0 ELSE w[ch(u)] + g[u \ {ch(u)}]]
      BY DEF Sums, ch
    <2>3. [u \in SUBSET S |-> IF u = {} THEN 0 ELSE w[ch(u)] + g[u \ {ch(u)}]]
            = [u \in SUBSET S |-> IF u = {} THEN 0 ELSE d.limit[s[ch(u)]] + g[u \ {ch(u)}]]
      BY <2>1
    <2> QED  BY <2>2, <2>3
  <1>7. Fold(F)
    <2> HIDE DEF w, S, Fold
    <2>1. \E g : Fold(g)
      BY <1>3, <1>6, SumsExist
    <2> QED  BY <2>1
  <1> HIDE DEF w, S, Fold, F
  <1>8. Total(w, S) = F[S]
    BY <1>3, <1>6, <1>7, TotalPart
  <1>9. SumOf(w) = Total(w, S)
    BY <1>2 DEF SumOf, S
  <1> QED  BY <1>2, <1>5, <1>8, <1>9 DEF w

\* So it adds up over sequences of commands.
LEMMA TimeFacts ==
    ASSUME NEW d \in Drives
    PROVE  /\ d.limit \in [Commands -> Nat]
           /\ LongestOn(d, <<>>) = 0
           /\ \A s \in Seq(Commands) : LongestOn(d, s) \in Nat
           /\ \A s, t \in Seq(Commands) : LongestOn(d, s \o t) = LongestOn(d, s) + LongestOn(d, t)
           /\ \A c \in Commands : LongestOn(d, <<c>>) = d.limit[c]
           /\ \A s \in Seq(Commands) : s # <<>> =>
                  LongestOn(d, s) = d.limit[Head(s)] + LongestOn(d, Tail(s))
  <1>1. d.limit \in [Commands -> Nat]
    BY BurnAssumption
  <1>2. \A s \in Seq(Commands) : /\ LongestOn(d, s) = SumOf(Limits(d, s))
                                 /\ Limits(d, s) \in Seq(Nat) /\ Limits(d, s) \in Seq(Int)
    <2>1. \A s : s \in Seq(Nat) => s \in Seq(Int)
      OBVIOUS
    <2> QED  BY <2>1, TimeIsSum
  <1>3. LongestOn(d, <<>>) = 0
    <2>1. <<>> \in Seq(Commands) /\ Limits(d, <<>>) = <<>>
      BY DEF Limits
    <2>2. SumOf(<<>>) = 0
      BY <<>> \in Seq(Int), 0 \in Int, SumAppend
    <2> QED  BY <1>2, <2>1, <2>2
  <1>4. \A s \in Seq(Commands) : LongestOn(d, s) \in Nat
    BY <1>2, SumNat
  <1>5. \A s, t \in Seq(Commands) : LongestOn(d, s \o t) = LongestOn(d, s) + LongestOn(d, t)
    <2> TAKE s, t \in Seq(Commands)
    <2>1. s \o t \in Seq(Commands) /\ Limits(d, s \o t) = Limits(d, s) \o Limits(d, t)
      BY DEF Limits
    <2> QED  BY <1>2, <2>1, SumConcat
  <1>6. ASSUME NEW s \in Seq(Commands), s # <<>>
        PROVE  LongestOn(d, s) = d.limit[Head(s)] + LongestOn(d, Tail(s))
    <2>1. /\ Tail(s) \in Seq(Commands) /\ Limits(d, s) # <<>>
          /\ Head(Limits(d, s)) = d.limit[Head(s)]
          /\ Tail(Limits(d, s)) = Limits(d, Tail(s))
      BY <1>6 DEF Limits
    <2> QED  BY <1>2, <2>1, SumTail
  <1>7. ASSUME NEW c \in Commands PROVE LongestOn(d, <<c>>) = d.limit[c]
    <2>1. <<c>> \in Seq(Commands) /\ <<c>> # <<>> /\ Head(<<c>>) = c /\ Tail(<<c>>) = <<>>
      OBVIOUS
    <2>2. d.limit[c] \in Nat
      BY <1>1
    <2>3. LongestOn(d, <<c>>) = d.limit[Head(<<c>>)] + LongestOn(d, Tail(<<c>>))
      BY <1>6, <2>1
    <2>4. LongestOn(d, <<c>>) = d.limit[c] + 0
      BY <2>1, <2>3, <1>3
    <2> QED  BY <2>2, <2>4
  <1> QED  BY <1>1, <1>3, <1>4, <1>5, <1>6, <1>7

\* The longest time of one command, of exscsi(), of the commands after and before
\* await_faio(), of giving up in the middle of a segment, and of all that may
\* happen while the child waits.
Limit(c) == drive.limit[c]
R == Longest(Restore)
Prepare == Longest(Setup \o <<"open">>)
GivesUp == Longest(FirstSegment)
Before == Longest(Prelude)
Bound == Longest(Prelude \o Setup \o <<"open">> \o FirstSegment) + MaxIntr * R

\* The commands the session consists of, and how long they take.
LEMMA LongestFacts ==
    ASSUME drive \in Drives
    PROVE  /\ R \in Nat /\ Prepare \in Nat /\ Before \in Nat
           /\ \A c \in Commands : Limit(c) \in Nat
           /\ Restore \in Seq(Commands) /\ Setup \o <<"open">> \in Seq(Commands)
           /\ Prelude \in Seq(Commands)
           /\ Commands = {"speed", "tryblank", "ready", "tryopc", "blank", "settle", "disktype",
                          "session", "opc", "leadin", "open", "write", "close", "fixate",
                          "flush", "abort", "secsize", "unload", "grace"}
           /\ Scsi = Commands \ {"grace"}
           /\ GivesUp = Limit("write") + Limit("close") + Limit("open") + Limit("fixate") + R
           /\ Bound = Before + Prepare + GivesUp + MaxIntr * R
           /\ Longest(<<>>) = 0
           /\ Longest(<<"write">>) = Limit("write")
           /\ Longest(<<"open">>) = Limit("open")
           /\ Longest(<<"fixate">>) = Limit("fixate")
           /\ Longest(<<"close", "open">>) = Limit("close") + Limit("open")
           /\ Longest(<<"close", "fixate">>) = Limit("close") + Limit("fixate")
           /\ Longest(<<"close">> \o <<"open">>) = Limit("close") + Limit("open")
           /\ Longest(<<"close">> \o <<"fixate">>) = Limit("close") + Limit("fixate")
           /\ \A s \in Seq(Commands) :
                  /\ Longest(s) \in Nat
                  /\ s # <<>> => Longest(s) = Limit(Head(s)) + Longest(Tail(s))
  <1>1. \A s : Longest(s) = LongestOn(drive, s)
    BY DEF Longest
  <1>2. Restore = <<"flush", "abort", "secsize", "unload">>
    BY DEF Restore
  <1>3. /\ Commands = {"speed", "tryblank", "ready", "tryopc", "blank", "settle", "disktype",
                       "session", "opc", "leadin", "open", "write", "close", "fixate",
                       "flush", "abort", "secsize", "unload", "grace"}
        /\ Scsi = Commands \ {"grace"}
    <2>1. Range(Restore) = {"flush", "abort", "secsize", "unload"}
      <3>1. /\ Restore[1] = "flush" /\ Restore[2] = "abort" /\ Restore[3] = "secsize"
            /\ Restore[4] = "unload" /\ DOMAIN Restore = 1 .. 4
        BY <1>2
      <3>2. 1 .. 4 = {1, 2, 3, 4}
        OBVIOUS
      <3> QED  BY <3>1, <3>2 DEF Range
    <2> QED  BY <2>1 DEF Commands, Scsi
  <1>4. /\ Restore \in Seq(Commands) /\ Setup \in Seq(Commands) /\ Prelude \in Seq(Commands)
        /\ \A c \in Commands : <<c>> \in Seq(Commands)
    <2>1. \A c \in Commands : <<c>> \in Seq(Commands)
      OBVIOUS
    <2>2. Restore \in Seq(Commands)
      BY <1>2, <1>3
    <2>3. Setup \in Seq(Commands)
      <3> DEFINE again == <<"tryopc", "ready", "blank", "settle", "disktype">>
      <3>1. /\ <<"ready">> \in Seq(Commands) /\ again \in Seq(Commands)
            /\ <<"session", "opc", "leadin">> \in Seq(Commands) /\ <<>> \in Seq(Commands)
        BY <1>3
      <3>2. (IF drive.blank THEN again ELSE <<>>) \in Seq(Commands)
        BY <3>1
      <3> QED  BY <3>1, <3>2 DEF Setup
    <2>4. Prelude \in Seq(Commands)
      BY CommandSeqs
    <2> QED  BY <2>1, <2>2, <2>3, <2>4
  <1>5. /\ \A c \in Commands : Limit(c) \in Nat
        /\ Longest(<<>>) = 0
        /\ \A s \in Seq(Commands) : Longest(s) \in Nat
        /\ \A s, t \in Seq(Commands) : Longest(s \o t) = Longest(s) + Longest(t)
        /\ \A c \in Commands : Longest(<<c>>) = Limit(c)
        /\ \A s \in Seq(Commands) : s # <<>> => Longest(s) = Limit(Head(s)) + Longest(Tail(s))
    BY <1>1, TimeFacts DEF Limit
  <1>6. \A s, t \in Seq(Commands) : s \o t \in Seq(Commands)
    OBVIOUS
  <1>7. /\ <<"close", "open">> = <<"close">> \o <<"open">>
        /\ <<"close", "fixate">> = <<"close">> \o <<"fixate">>
    OBVIOUS
  <1>8. \A a, b \in Commands : Longest(<<a>> \o <<b>>) = Limit(a) + Limit(b)
    BY <1>4, <1>5
  <1>9. /\ FirstSegment \in Seq(Commands)
        /\ GivesUp = Limit("write") + Limit("close") + Limit("open") + Limit("fixate") + R
    <2> DEFINE a == <<"write">> \o <<"close">>
               b == <<"open">> \o <<"fixate">>
    <2>1. <<"write", "close", "open", "fixate">> = a \o b
      OBVIOUS
    <2>2. /\ a \in Seq(Commands) /\ b \in Seq(Commands)
          /\ Longest(a) = Limit("write") + Limit("close")
          /\ Longest(b) = Limit("open") + Limit("fixate")
      BY <1>3, <1>4, <1>6, <1>8
    <2> HIDE DEF a, b
    <2>3. /\ Longest((a \o b) \o Restore) = Longest(a) + Longest(b) + Longest(Restore)
          /\ (a \o b) \o Restore \in Seq(Commands)
      <3>1. a \o b \in Seq(Commands) /\ Longest(a \o b) = Longest(a) + Longest(b)
        BY <2>2, <1>5, <1>6
      <3> QED  BY <3>1, <1>4, <1>5, <1>6
    <2>4. Limit("write") \in Nat /\ Limit("close") \in Nat /\ Limit("open") \in Nat
          /\ Limit("fixate") \in Nat /\ Longest(Restore) \in Nat
      BY <1>3, <1>4, <1>5
    <2>5. FirstSegment = (a \o b) \o Restore
      BY <2>1 DEF FirstSegment
    <2>6. Longest(FirstSegment) = Longest(a) + Longest(b) + Longest(Restore)
      BY <2>3, <2>5
    <2> QED  BY <2>2, <2>3, <2>4, <2>5, <2>6 DEF GivesUp, R
  <1>10. /\ Setup \o <<"open">> \in Seq(Commands)
         /\ Bound = Before + Prepare + GivesUp + MaxIntr * R
    <2> DEFINE o == <<"open">>
               g == Prelude
    <2>1. o \in Seq(Commands) /\ g \in Seq(Commands) /\ Longest(g) = Before
      BY <1>3, <1>4, <1>5 DEF Before
    <2> HIDE DEF o, g
    <2>2. g \o Setup \o o \o FirstSegment = (g \o (Setup \o o)) \o FirstSegment
      BY <2>1, <1>4, <1>9
    <2>3. Setup \o o \in Seq(Commands) /\ g \o (Setup \o o) \in Seq(Commands)
      BY <2>1, <1>4, <1>6
    <2>4. Longest((g \o (Setup \o o)) \o FirstSegment)
            = Longest(g) + Longest(Setup \o o) + Longest(FirstSegment)
      BY <2>1, <2>3, <1>5, <1>9
    <2>5. Longest(g \o Setup \o o \o FirstSegment)
            = Before + Longest(Setup \o o) + Longest(FirstSegment)
      BY <2>1, <2>2, <2>4
    <2> QED  BY <2>3, <2>5 DEF Bound, GivesUp, Prepare, o, g
  <1>11. R \in Nat /\ Prepare \in Nat /\ Before \in Nat
    BY <1>4, <1>5, <1>10 DEF R, Prepare, Before
  <1> QED  BY <1>3, <1>4, <1>5, <1>7, <1>8, <1>9, <1>10, <1>11

\* The bound is a number.
LEMMA BoundInt ==
    ASSUME drive \in Drives
    PROVE  GivesUp \in Nat /\ Bound \in Nat
  <1>1. {"write", "close", "open", "fixate"} \subseteq Commands
    BY LongestFacts
  <1>2. /\ \A x \in Commands : Limit(x) \in Nat
        /\ R \in Nat /\ Prepare \in Nat /\ Before \in Nat
        /\ GivesUp = Limit("write") + Limit("close") + Limit("open") + Limit("fixate") + R
        /\ Bound = Before + Prepare + GivesUp + MaxIntr * R
    BY LongestFacts
  <1>3. \A i, j \in Nat : i * j \in Nat
    OBVIOUS
  <1>4. MaxIntr * R \in Nat
    BY <1>2, <1>3, BurnAssumption
  <1> QED  BY <1>1, <1>2, <1>4

\* These times are the same all through a session.
LEMMA LongestSame ==
    ASSUME drive' = drive
    PROVE  /\ R' = R /\ Prepare' = Prepare /\ GivesUp' = GivesUp /\ Bound' = Bound
           /\ Before' = Before
           /\ (Longest(cmds))' = Longest(cmds')
           /\ \A c : Limit(c)' = Limit(c)
  <1>1. \A s : Longest(s) = LongestOn(drive, s)
    BY DEF Longest
  <1>2. (Longest(cmds))' = LongestOn(drive', cmds')
    BY DEF Longest
  <1>3. R' = LongestOn(drive', Restore)
    BY DEF R, Longest, Restore
  <1>4. Setup' = Setup /\ Prelude' = Prelude
    BY DEF Setup, Prelude
  <1>5. Prepare' = LongestOn(drive', Setup' \o <<"open">>)
    BY DEF Prepare, Longest
  <1>6. GivesUp' = LongestOn(drive', FirstSegment)
    BY DEF GivesUp, Longest, FirstSegment, Restore
  <1>7. Bound' = LongestOn(drive', Prelude' \o Setup' \o <<"open">> \o FirstSegment)
                    + MaxIntr * R'
    BY DEF Bound, Longest, FirstSegment, Restore
  <1>8. R' = R
    BY <1>1, <1>3 DEF R
  <1>9. \A c : Limit(c)' = Limit(c)
    BY DEF Limit
  <1>10. Before' = LongestOn(drive', Prelude')
    BY DEF Before, Longest
  <1> QED  BY <1>1, <1>2, <1>4, <1>5, <1>6, <1>7, <1>8, <1>9, <1>10
           DEF Prepare, GivesUp, Bound, Before

\* What is still to come, at most, after the commands under way and before the
\* child has its slot or is killed.
After ==
    IF ppc \in {"exit", "reap", "end"} THEN 0
    ELSE IF ppc \in {"await", "scan"} THEN Prepare + GivesUp
    ELSE IF ppc = "idle" /\ (ending # "none" \/ ptrack = NTracks) THEN R
    ELSE IF ppc = "idle" /\ ptrack > 0 THEN Limit("fixate") + R
    ELSE IF ppc = "get" /\ owner[bufIdx] = "faio" THEN 0
    ELSE IF ppc = "use" THEN Limit("close") + Limit("open") + Limit("fixate") + R
    ELSE GivesUp

\* The interrupts that may still start exscsi(), and the time all this takes.
Allowed == (MaxIntr - intrs + (IF cb THEN 1 ELSE 0)) * R
Left == Longest(cmds) - ctime + After + Allowed

\* The child waits for a slot that is not free: all of them are full.
Stuck == rpc = "wait" /\ owner[bufIdxReader] # "writer"

\* A command takes no longer than its limit.
Clock == IF cmds = <<>> THEN ctime = 0 ELSE ctime <= Limit(Head(cmds))

\* The commands that may be under way.
PreludeCommands == {"speed", "ready", "grace", "tryblank"}
SetupCommands == {"ready", "tryopc", "blank", "settle", "disktype", "session", "opc", "leadin",
                  "open"}
Shape ==
    /\ cb => intrs >= 1
    /\ ppc = "await" => cmds \in Seq(PreludeCommands) /\ Longest(cmds) <= Before
    /\ ppc = "idle" /\ ending = "none" /\ ptrack = 0 =>
           cmds \in Seq(SetupCommands) /\ Longest(cmds) <= Prepare
    /\ ppc = "idle" /\ ending = "none" /\ ptrack \in 1 .. NTracks - 1 =>
           cmds \in {<<>>, <<"open">>, <<"close", "open">>}
    /\ ppc = "idle" /\ (ending # "none" \/ ptrack = NTracks) =>
           cmds \in {<<>>, <<"fixate">>, <<"close", "fixate">>}
    /\ ppc = "use" => cmds \in {<<>>, <<"write">>}
    /\ ppc = "exit" => Longest(cmds) <= R
    /\ ppc \notin {"await", "idle", "use", "exit"} => cmds = <<>>

\* Between two segments the parent has still the slot of the last one.
Between == ppc = "use" \/ (ppc = "idle" /\ ptrack > 0 /\ ending = "none")
Held == Between => owner[bufIdx] = "faio" \/ rpc \in {"exited", "killed"}

\* The child waits no longer than what has been done since and what is left.
Waited == Stuck => rwait + Left <= Bound

\* What is left is part of the bound.
LEMMA LeftBound ==
    ASSUME TypeOK, SessionTypeOK, Shape, Clock
    PROVE  /\ After \in Nat /\ Allowed \in Nat
           /\ Longest(cmds) \in Nat /\ Longest(cmds) - ctime \in Nat
           /\ Left \in Nat /\ Left <= Bound
  <1> DEFINE w == Limit("write")
             c == Limit("close")
             o == Limit("open")
             f == Limit("fixate")
             g == Before
             L == Longest(cmds)
  <1>1. /\ drive \in Drives /\ cmds \in Seq(Commands) /\ ctime \in Nat /\ intrs \in 0 .. MaxIntr
        /\ cb \in BOOLEAN
    BY DEF SessionTypeOK
  <1>2. /\ R \in Nat /\ Prepare \in Nat /\ GivesUp \in Nat
        /\ w \in Nat /\ c \in Nat /\ o \in Nat /\ f \in Nat /\ g \in Nat
        /\ GivesUp = w + c + o + f + R
    <2>1. {"write", "close", "open", "fixate"} \subseteq Commands /\ g \in Nat
      BY <1>1, LongestFacts
    <2>2. /\ \A x \in Commands : Limit(x) \in Nat
          /\ R \in Nat /\ Prepare \in Nat /\ GivesUp = w + c + o + f + R
      BY <1>1, LongestFacts
    <2>3. w \in Nat /\ c \in Nat /\ o \in Nat /\ f \in Nat /\ g \in Nat
      BY <2>1, <2>2
    <2> HIDE DEF w, c, o, f, g
    <2> QED  BY <2>2, <2>3
  <1>3. /\ L \in Nat /\ (cmds = <<>> => L = 0) /\ L - ctime \in Nat
    <2>1. cmds # <<>> => Head(cmds) \in Commands /\ Tail(cmds) \in Seq(Commands)
      BY <1>1
    <2>2. cmds # <<>> => /\ L = Limit(Head(cmds)) + Longest(Tail(cmds))
                         /\ Limit(Head(cmds)) \in Nat /\ Longest(Tail(cmds)) \in Nat
      BY <1>1, <2>1, LongestFacts
    <2>3. L \in Nat /\ (cmds = <<>> => L = 0)
      BY <1>1, LongestFacts
    <2> HIDE DEF L
    <2> QED  BY <1>1, <2>2, <2>3 DEF Clock
  <1>4. /\ cmds = <<>> => L = 0
        /\ cmds = <<"write">> => L = w
        /\ cmds = <<"open">> => L = o
        /\ cmds = <<"fixate">> => L = f
        /\ cmds = <<"close", "open">> => L = c + o
        /\ cmds = <<"close", "fixate">> => L = c + f
    BY <1>1, LongestFacts
  <1>5. After = IF ppc \in {"exit", "reap", "end"} THEN 0
                ELSE IF ppc \in {"await", "scan"} THEN Prepare + GivesUp
                ELSE IF ppc = "idle" /\ (ending # "none" \/ ptrack = NTracks) THEN R
                ELSE IF ppc = "idle" /\ ptrack > 0 THEN f + R
                ELSE IF ppc = "get" /\ owner[bufIdx] = "faio" THEN 0
                ELSE IF ppc = "use" THEN c + o + f + R
                ELSE GivesUp
    BY DEF After
  <1>6. Allowed \in Nat /\ Allowed <= MaxIntr * R /\ MaxIntr * R \in Nat
    <2> DEFINE k == MaxIntr - intrs + (IF cb THEN 1 ELSE 0)
    <2>1. k \in 0 .. MaxIntr /\ MaxIntr \in Nat
      BY <1>1, BurnAssumption DEF Shape
    <2> HIDE DEF k
    <2>2. \A m, r \in Nat : \A i \in 0 .. m : i * r \in Nat /\ i * r <= m * r
      <3> TAKE m, r \in Nat
      <3> TAKE i \in 0 .. m
      <3>1. m * r = i * r + (m - i) * r /\ i * r \in Nat /\ (m - i) * r \in Nat
        OBVIOUS
      <3> QED  BY <3>1
    <2>3. k * R \in Nat /\ k * R <= MaxIntr * R /\ MaxIntr * R \in Nat
      BY <1>2, <2>1, <2>2
    <2> QED  BY <2>3 DEF Allowed, k
  <1>7. Bound = g + Prepare + GivesUp + MaxIntr * R
    BY <1>1, LongestFacts
  <1>8. ptrack \in 0 .. NTracks /\ NTracks \in Nat
    BY JobTracks DEF TypeOK, BurnerOK
  <1> HIDE DEF w, c, o, f, g, L
  <1>9. After \in Nat
    BY <1>2, <1>5
  <1>10. L + After <= g + Prepare + GivesUp
    <2>1. CASE ppc = "await"
      <3>1. L <= g
        BY <2>1 DEF Shape, L, g
      <3> QED  BY <1>2, <1>3, <1>5, <2>1, <3>1
    <2>2. CASE ppc = "idle" /\ (ending # "none" \/ ptrack = NTracks)
      <3>1. cmds \in {<<>>, <<"fixate">>, <<"close", "fixate">>}
        BY <2>2 DEF Shape
      <3> QED  BY <1>2, <1>4, <1>5, <2>2, <3>1
    <2>3. CASE ppc = "idle" /\ ~(ending # "none" \/ ptrack = NTracks) /\ ptrack = 0
      <3>1. L <= Prepare
        BY <2>3 DEF Shape, L
      <3> QED  BY <1>2, <1>3, <1>5, <2>3, <3>1
    <2>4. CASE ppc = "idle" /\ ~(ending # "none" \/ ptrack = NTracks) /\ ptrack # 0
      <3>1. cmds \in {<<>>, <<"open">>, <<"close", "open">>} /\ ptrack > 0
        BY <1>8, <2>4 DEF Shape
      <3> QED  BY <1>2, <1>4, <1>5, <2>4, <3>1
    <2>5. CASE ppc = "use"
      <3>1. cmds \in {<<>>, <<"write">>}
        BY <2>5 DEF Shape
      <3> QED  BY <1>2, <1>4, <1>5, <2>5, <3>1
    <2>6. CASE ppc = "exit"
      <3>1. L <= R
        BY <2>6 DEF Shape, L
      <3> QED  BY <1>2, <1>3, <1>5, <2>6, <3>1
    <2>7. CASE ppc \notin {"await", "idle", "use", "exit"}
      <3>1. cmds = <<>>
        BY <2>7 DEF Shape
      <3> QED  BY <1>2, <1>4, <1>5, <2>7, <3>1
    <2> QED  BY <2>1, <2>2, <2>3, <2>4, <2>5, <2>6, <2>7
  <1>11. Left = L - ctime + After + Allowed
    BY DEF Left, L
  <1>12. Left \in Nat
    BY <1>3, <1>6, <1>9, <1>11
  <1>13. Left <= Bound
    <2> DEFINE m == MaxIntr * R
    <2>1. m \in Nat /\ Allowed <= m /\ Bound = g + Prepare + GivesUp + m
      BY <1>6, <1>7
    <2> HIDE DEF m
    <2> QED  BY <1>1, <1>2, <1>3, <1>6, <1>9, <1>10, <1>11, <2>1
  <1> QED  BY <1>3, <1>6, <1>9, <1>12, <1>13 DEF L

\* While the child waits every slot is full, and the one it waits for is the one
\* the parent is at.
LEMMA StuckFacts ==
    ASSUME TypeOK, ChainInv, Stuck
    PROVE  /\ bufIdxReader = bufIdx /\ bufIdx \in Slots /\ owner[bufIdx] \in {"reader", "faio"}
           /\ ppc = "await" => owner[LastSlot] = "reader"
           /\ ppc = "wait" => owner[bufIdx] = "reader"
  <1>1. PICK c \in 0 .. NBuf, u \in {0, 1}, h \in {0, 1} : Chain(c, u, h)
    BY DEF ChainInv
  <1>2. bufIdx \in Slots /\ NBuf \in Nat \ {0} /\ LastSlot \in Slots
    BY NBufAssumption DEF TypeOK, BurnerOK, MinBuffers, Slots, LastSlot
  <1>3. u = 0 /\ bufIdxReader = At(c)
    BY <1>1 DEF Chain, Counts, Stuck, RNextSlot
  <1>4. RPlace # Over
    BY JobTracks DEF TypeOK, ReaderOK, Stuck, RPlace, Over
  <1>5. c = NBuf
    BY <1>1, <1>2, <1>3, <1>4 DEF Chain, Owned, Stuck
  <1>6. bufIdxReader = bufIdx /\ At(0) = bufIdx
    BY <1>2, <1>3, <1>5, AtFacts
  <1>7. \A i \in 0 .. NBuf - 1 :
            owner[At(i)] = "reader" \/ (i = 0 /\ h = 1 /\ owner[At(i)] = "faio")
    BY <1>1, <1>5 DEF Chain, Owned
  <1>8. ppc \in {"await", "wait"} => h = 0
    BY <1>1 DEF Chain, Counts
  <1>9. \E i \in 0 .. NBuf - 1 : At(i) = LastSlot
    <2>1. LastSlot - bufIdx \in 0 .. NBuf - 1 /\ At(LastSlot - bufIdx) = LastSlot
      BY <1>2 DEF At, Slots, LastSlot
    <2> QED  BY <2>1
  <1>10. owner[bufIdx] \in {"reader", "faio"}
    BY <1>2, <1>6, <1>7
  <1> QED  BY <1>2, <1>6, <1>7, <1>8, <1>9, <1>10

\* The clock of a command starts again with every other one.
LEMMA ClockStep ==
    ASSUME SessionTypeOK, SessionTypeOK', Clock, BNext
    PROVE  Clock'
  <1>1. drive' = drive /\ drive \in Drives /\ cmds' \in Seq(Commands)
    BY DEF BNext, SessionTypeOK
  <1>2. /\ \A c : Limit(c)' = Limit(c)
        /\ cmds' # <<>> => Limit(Head(cmds')) \in Nat
    <2>1. cmds' # <<>> => Head(cmds') \in Commands
      BY <1>1
    <2> QED  BY <1>1, <2>1, LongestFacts, LongestSame
  <1>3. CASE ctime' = 0
    BY <1>2, <1>3 DEF Clock
  <1>4. CASE UNCHANGED <<cmds, ctime>>
    BY <1>2, <1>4 DEF Clock
  <1>5. CASE Tick
    <2>1. cmds' = cmds /\ ctime' = IF cmds = <<>> THEN 0 ELSE ctime + 1
      BY <1>5 DEF Tick
    <2>2. cmds # <<>> => ctime < Limit(Head(cmds))
      BY <1>5 DEF Tick, ParentBlocked, Limit
    <2>3. cmds # <<>> => Limit(Head(cmds)) \in Nat /\ ctime \in Nat
      BY <1>2, <2>1 DEF SessionTypeOK
    <2> QED  BY <1>2, <2>1, <2>2, <2>3 DEF Clock
  <1>6. CASE ParentStep
    <2>1. ctime' = 0
      BY <1>6 DEF ParentStep, Clock
    <2> QED  BY <1>3, <2>1
  <1>7. ctime' = 0 \/ UNCHANGED <<cmds, ctime>> \/ Tick \/ ParentStep
    BY Zenon DEF BNext, CmdDone, CmdError, Interrupt, ChildStep, ChildTimeout, ChildCmdDone,
       BTerminated, bvars
  <1> QED  BY <1>3, <1>4, <1>5, <1>6, <1>7

\* The commands after a step of the parent.
LEMMA CmdsAfterCases ==
    /\ ppc = "scan" /\ ppc' = "idle" => CmdsAfter = Setup \o <<"open">>
    /\ ppc' = "use" /\ plen' > 0 => CmdsAfter = <<"write">>
    /\ ppc = "use" /\ ppc' = "idle" =>
           CmdsAfter = IF ptrack < NTracks THEN <<"close", "open">> ELSE <<"close", "fixate">>
    /\ ppc # "exit" /\ ppc' = "exit" => CmdsAfter = Restore
    /\ ppc' \notin {"idle", "use", "exit"} => CmdsAfter = <<>>
    /\ ppc' = "use" /\ ~(plen' > 0) => CmdsAfter = <<>>
  <1>1. /\ <<"close", "open">> = <<"close">> \o <<"open">>
        /\ <<"close", "fixate">> = <<"close">> \o <<"fixate">>
    OBVIOUS
  <1>2. /\ ppc = "scan" /\ ppc' = "idle" => CmdsAfter = Setup \o <<"open">>
        /\ ppc' = "use" /\ plen' > 0 => CmdsAfter = <<"write">>
        /\ ppc # "exit" /\ ppc' = "exit" => CmdsAfter = Restore
    BY DEF CmdsAfter
  <1>3. /\ ppc' \notin {"idle", "use", "exit"} => CmdsAfter = <<>>
        /\ ppc' = "use" /\ ~(plen' > 0) => CmdsAfter = <<>>
    BY DEF CmdsAfter
  <1>4. ppc = "use" /\ ppc' = "idle" =>
           CmdsAfter = <<"close">> \o (IF ptrack < NTracks THEN <<"open">> ELSE <<"fixate">>)
    BY DEF CmdsAfter
  <1> QED  BY <1>1, <1>2, <1>3, <1>4

\* Where a step of the parent leads, and from where.
LEMMA BurnerMoves ==
    ASSUME Burner
    PROVE  /\ ppc' # "await"
           /\ ppc' = "idle" => /\ ppc \in {"scan", "use"}
                               /\ ending' = ending /\ ptrack' = ptrack
           /\ trackp' = trackp
           /\ ppc' = "use" => ppc \in {"dec", "faio"}
           /\ ppc' = "exit" => ppc # "exit"
           /\ ppc' \in {"reap", "end"} => ppc \in {"exit", "reap"}
  BY DEF Burner, PAwait, PScan, PStartTrack, PFinish, PRelease, PLow, PWait, PTimeout,
         PCheck, PLoadUsers, PStoreUsers, PSetFaio, PUseError, PUseEOF, PWrite,
         PKillFaio, PWaitFaio, tvars

\* The commands stay in the places where they belong.
LEMMA ShapeParent ==
    ASSUME TypeOK, TypeOK', SessionTypeOK, ChainInv, Shape, ParentStep, drive' = drive
    PROVE  Shape'
  <1>1. Burner /\ cmds' = CmdsAfter /\ cb' = cb /\ intrs' = intrs
    BY DEF ParentStep
  <1>2. /\ ppc \in {"await", "scan"} => ending = "none" /\ ptrack = 0
        /\ ppc = "use" => ending = "none" /\ ptrack >= 1
    <2>1. PICK c \in 0 .. NBuf, u \in {0, 1}, h \in {0, 1} : Chain(c, u, h)
      BY DEF ChainInv
    <2> QED  BY <2>1 DEF Chain, Parent, InTrack, TypeOK, BurnerOK
  <1>3. /\ Longest(Setup \o <<"open">>) = Prepare
        /\ Setup \o <<"open">> \in Seq(SetupCommands)
        /\ (Longest(cmds))' = Longest(cmds') /\ R' = R /\ Prepare' = Prepare
        /\ R \in Nat /\ Prepare \in Nat
    <2>1. drive \in Drives
      BY DEF SessionTypeOK
    <2>2. Setup \o <<"open">> \in Seq(SetupCommands)
      <3> DEFINE again == <<"tryopc", "ready", "blank", "settle", "disktype">>
      <3>1. /\ <<"ready">> \in Seq(SetupCommands) /\ again \in Seq(SetupCommands)
            /\ <<"session", "opc", "leadin">> \in Seq(SetupCommands)
            /\ <<>> \in Seq(SetupCommands) /\ <<"open">> \in Seq(SetupCommands)
        BY DEF SetupCommands
      <3>2. (IF drive.blank THEN again ELSE <<>>) \in Seq(SetupCommands)
        BY <3>1
      <3> QED  BY <3>1, <3>2 DEF Setup
    <2> QED  BY <2>1, <2>2, LongestFacts, LongestSame DEF Prepare
  <1>4. /\ ppc = "scan" /\ ppc' = "idle" => cmds' = Setup \o <<"open">>
        /\ ppc = "use" /\ ppc' = "idle" =>
               cmds' = IF ptrack < NTracks THEN <<"close", "open">> ELSE <<"close", "fixate">>
        /\ ppc' = "use" => cmds' \in {<<>>, <<"write">>}
        /\ ppc' = "exit" => cmds' = Restore
        /\ ppc' \notin {"idle", "use", "exit"} => cmds' = <<>>
    <2>1. /\ ppc = "scan" /\ ppc' = "idle" => cmds' = Setup \o <<"open">>
          /\ ppc = "use" /\ ppc' = "idle" =>
               cmds' = IF ptrack < NTracks THEN <<"close", "open">> ELSE <<"close", "fixate">>
      BY <1>1, CmdsAfterCases, Zenon
    <2>2. ppc' = "use" => cmds' \in {<<>>, <<"write">>}
      BY <1>1, CmdsAfterCases
    <2>3. ppc' = "exit" => cmds' = Restore
      BY <1>1, BurnerMoves, CmdsAfterCases, Zenon
    <2>4. ppc' \notin {"idle", "use", "exit"} => cmds' = <<>>
      BY <1>1, CmdsAfterCases, Zenon
    <2> QED  BY <2>1, <2>2, <2>3, <2>4
  <1>5. NTracks' = NTracks /\ NTracks \in Nat \ {0} /\ ptrack \in 0 .. NTracks
    BY <1>1, BurnerMoves, JobTracks DEF TypeOK, BurnerOK, NTracks
  <1>6. CASE ppc' = "idle"
    <2>1. ppc \in {"scan", "use"} /\ ending' = ending /\ ptrack' = ptrack
      BY <1>1, <1>6, BurnerMoves
    <2>2. CASE ppc = "scan"
      <3>1. ending' = "none" /\ ptrack' = 0 /\ 0 # NTracks' /\ 0 \notin 1 .. NTracks' - 1
        BY <1>2, <1>5, <2>1, <2>2
      <3>2. cmds' \in Seq(SetupCommands) /\ (Longest(cmds) <= Prepare)'
        <4>1. cmds' = Setup \o <<"open">>
          BY <1>4, <1>6, <2>2
        <4>2. Longest(cmds') = Prepare
          BY <4>1 DEF Prepare
        <4>3. (Longest(cmds))' <= Prepare'
          BY <1>3, <4>2
        <4> QED  BY <1>3, <4>1, <4>3
      <3>3. cb' => intrs' >= 1
        BY <1>1 DEF Shape
      <3> QED  BY <1>6, <3>1, <3>2, <3>3, Zenon DEF Shape
    <2>3. CASE ppc = "use"
      BY <1>1, <1>2, <1>4, <1>5, <1>6, <2>1, <2>3 DEF Shape
    <2> QED  BY <2>1, <2>2, <2>3
  <1>7. CASE ppc' = "exit"
    <2>1. Longest(cmds') = R
      BY <1>4, <1>7 DEF R
    <2> QED  BY <1>1, <1>3, <1>7, <2>1 DEF Shape
  <1>8. CASE ppc' \notin {"idle", "exit"}
    BY <1>1, <1>4, <1>8, BurnerMoves DEF Shape
  <1> QED  BY <1>6, <1>7, <1>8

\* They get fewer as they end, fail or are given up.
LEMMA ShapeStep ==
    ASSUME TypeOK, TypeOK', SessionTypeOK, ChainInv, Shape, BNext
    PROVE  Shape'
  <1>1. drive' = drive /\ drive \in Drives /\ cmds \in Seq(Commands) /\ intrs \in 0 .. MaxIntr
    BY DEF BNext, SessionTypeOK
  <1>2. /\ (Longest(cmds))' = Longest(cmds') /\ R' = R /\ Prepare' = Prepare
        /\ R \in Nat /\ Prepare \in Nat /\ Longest(Restore) = R
        /\ Before' = Before /\ Before \in Nat
        /\ Longest(<<>>) = 0
    BY <1>1, LongestFacts, LongestSame DEF R
  <1>3. CASE ParentStep
    BY <1>1, <1>3, ShapeParent
  <1>4. CASE CmdDone
    <2>1. CASE /\ ~(Running /\ cb) /\ cmds # <<>> /\ cmds' = Tail(cmds)
               /\ cb' = FALSE /\ UNCHANGED vars
      <3>1. UNCHANGED <<ppc, ending, ptrack, trackp>> /\ NTracks' = NTracks
        BY <2>1 DEF vars, pvars, tvars, NTracks
      <3>2. Longest(cmds') \in Nat /\ Longest(cmds') <= Longest(cmds) /\ Longest(cmds) \in Nat
        <4>1. Head(cmds) \in Commands /\ Tail(cmds) \in Seq(Commands)
          BY <1>1, <2>1
        <4>2. /\ Longest(cmds) = Limit(Head(cmds)) + Longest(Tail(cmds))
              /\ Limit(Head(cmds)) \in Nat /\ Longest(Tail(cmds)) \in Nat
          BY <1>1, <2>1, <4>1, LongestFacts
        <4> QED  BY <2>1, <4>2
      <3>3. /\ \A x : cmds = <<x>> => cmds' = <<>>
            /\ \A x, y : cmds = <<x, y>> => cmds' = <<y>>
        <4>1. (\A x : Tail(<<x>>) = <<>>) /\ (\A x, y : Tail(<<x, y>>) = <<y>>)
          OBVIOUS
        <4> QED  BY <2>1, <4>1, Zenon
      <3>4. /\ cmds \in Seq(SetupCommands) => cmds' \in Seq(SetupCommands)
            /\ cmds \in Seq(PreludeCommands) => cmds' \in Seq(PreludeCommands)
        BY <2>1
      <3>5. ppc = "exit" => Longest(cmds') <= R
        BY <1>2, <3>2 DEF Shape
      <3>6. ppc = "idle" /\ ending = "none" /\ ptrack = 0 => Longest(cmds') <= Prepare
        BY <1>2, <3>2 DEF Shape
      <3>7. ppc = "await" => Longest(cmds') <= Before
        BY <1>2, <3>2 DEF Shape
      <3> QED  BY <1>2, <2>1, <3>1, <3>3, <3>4, <3>5, <3>6, <3>7 DEF Shape
    <2>2. CASE cmds' = Restore /\ ppc' = "exit" /\ cb' = FALSE
      BY <1>2, <2>2 DEF Shape
    <2>3. PInterrupt \/ (ppc = "exit" /\ UNCHANGED vars) => ppc' = "exit"
      BY DEF PInterrupt, vars, pvars
    <2> QED  BY <1>4, <2>1, <2>2, <2>3 DEF CmdDone
  <1>5. CASE CmdError
    <2>1. /\ cb' = cb /\ ~cb /\ ending' = "driveerr"
          /\ \/ ppc' = "exit" /\ cmds' = Restore
             \/ ppc' = "idle" /\ cmds' \in {<<>>, <<"fixate">>, <<"close", "fixate">>}
      BY <1>5 DEF CmdError, PDriveError
    <2> QED  BY <1>2, <2>1 DEF Shape
  <1>6. CASE Interrupt
    <2>1. intrs' >= 1
      BY <1>1, <1>6 DEF Interrupt
    <2>2. CASE UNCHANGED <<vars, cmds>>
      <3>1. UNCHANGED <<ppc, ending, ptrack, trackp>> /\ NTracks' = NTracks
        BY <2>2 DEF vars, pvars, tvars, NTracks
      <3> QED  BY <1>2, <2>1, <2>2, <3>1 DEF Shape
    <2>3. CASE ppc' = "exit" /\ cmds' \in {<<>>, Restore}
      BY <1>2, <2>1, <2>3 DEF Shape
    <2>4. PInterrupt \/ (ppc = "exit" /\ UNCHANGED vars) => ppc' = "exit"
      BY DEF PInterrupt, vars, pvars
    <2> QED  BY <1>6, <2>2, <2>3, <2>4 DEF Interrupt
  <1>7. CASE UNCHANGED <<pvars, tvars, cmds, cb, intrs>>
    <2>1. UNCHANGED <<ppc, ending, ptrack, trackp>> /\ NTracks' = NTracks
      BY <1>7 DEF pvars, tvars, NTracks
    <2> QED  BY <1>2, <1>7, <2>1 DEF Shape
  <1>8. ChildStep \/ ChildTimeout => UNCHANGED <<pvars, tvars, cmds, cb, intrs>>
    BY DEF ChildStep, ChildTimeout, Reader, RWait, RSetFd, RFill, RSetLen, RSetOwner, RSetUsers,
           RPut, RDone, RTestGets, RMarkLast, RTimeout
  <1>9. ChildCmdDone \/ Tick \/ BTerminated => UNCHANGED <<pvars, tvars, cmds, cb, intrs>>
    BY DEF ChildCmdDone, Tick, BTerminated, vars, bvars
  <1> QED  BY <1>3, <1>4, <1>5, <1>6, <1>7, <1>8, <1>9 DEF BNext

\* Only the "Prevent hang" store takes the slot from the parent before its next
\* request, and then the child is through.
LEMMA HeldStep ==
    ASSUME TypeOK, SlotOwners, ChainInv, Held, [Next]_vars
    PROVE  Held'
  <1>1. CASE Reader
    <2>1. UNCHANGED pvars
      BY <1>1 DEF Reader, RWait, RSetFd, RFill, RSetLen, RSetOwner, RSetUsers,
                  RPut, RDone, RTestGets, RMarkLast
    <2>2. rpc \notin {"exited", "killed"}
      BY <1>1 DEF Reader, RWait, RSetFd, RFill, RSetLen, RSetOwner, RSetUsers,
                  RPut, RDone, RTestGets, RMarkLast
    <2>3. \/ owner' = owner
          \/ owner' = [owner EXCEPT ![bufIdxReader] = "reader"] /\ owner[bufIdxReader] = "writer"
          \/ rpc' = "exited"
      BY <1>1 DEF Reader, RWait, RSetFd, RFill, RSetLen, RSetOwner, RSetUsers,
                  RPut, RDone, RTestGets, RMarkLast, slotvars, SlotOwners, Filling
    <2>4. SUFFICES ASSUME Between' PROVE owner'[bufIdx'] = "faio" \/ rpc' = "exited"
      BY DEF Held
    <2>5. UNCHANGED <<ppc, ptrack, ending, bufIdx>> /\ owner[bufIdx] = "faio"
      BY <2>1, <2>2, <2>4 DEF Held, Between, pvars
    <2> QED  BY <2>3, <2>5 DEF TypeOK, SlotsOK, BurnerOK
  <1>2. CASE Burner
    <2>1. CASE PStoreUsers
      <3>1. ppc' = "faio"
        BY <2>1 DEF PStoreUsers, ChainInv, OneUser, TypeOK, BurnerOK
      <3> QED  BY <3>1 DEF Held, Between
    <2>2. CASE PSetFaio
      BY <2>2 DEF PSetFaio, Held, Between, TypeOK, SlotsOK, BurnerOK
    <2>3. CASE PScan
      <3>1. ptrack = 0
        BY <2>3 DEF ChainInv, Chain, Parent, PScan
      <3> QED  BY <2>3, <3>1 DEF PScan, Held, Between
    <2>4. CASE PUseEOF \/ PWrite
      BY <2>4 DEF PUseEOF, PWrite, Held, Between, slotvars, rvars
    <2>5. CASE \/ PAwait \/ PStartTrack \/ PFinish \/ PRelease \/ PLow \/ PWait \/ PTimeout
               \/ PCheck \/ PLoadUsers \/ PUseError \/ PKillFaio \/ PWaitFaio
      BY <2>5 DEF PAwait, PStartTrack, PFinish, PRelease, PLow, PWait, PTimeout,
                  PCheck, PLoadUsers, PUseError, PKillFaio, PWaitFaio, Held, Between
    <2> QED  BY <1>2, <2>1, <2>2, <2>3, <2>4, <2>5 DEF Burner
  <1>3. CASE Fault
    BY <1>3 DEF Fault, RTimeout, RKilled, PDriveError, PInterrupt, Held, Between, slotvars,
                pvars, RAlive
  <1>4. CASE UNCHANGED vars
    BY <1>4 DEF vars, slotvars, rvars, pvars, Held, Between
  <1> QED  BY <1>1, <1>2, <1>3, <1>4 DEF Next, Terminated

\* What is still to come, before and after a step.
LEMMA AfterSame ==
    ASSUME drive' = drive
    PROVE  After' = IF ppc' \in {"exit", "reap", "end"} THEN 0
                    ELSE IF ppc' \in {"await", "scan"} THEN Prepare + GivesUp
                    ELSE IF ppc' = "idle" /\ (ending' # "none" \/ ptrack' = NTracks') THEN R
                    ELSE IF ppc' = "idle" /\ ptrack' > 0 THEN Limit("fixate") + R
                    ELSE IF ppc' = "get" /\ owner'[bufIdx'] = "faio" THEN 0
                    ELSE IF ppc' = "use"
                         THEN Limit("close") + Limit("open") + Limit("fixate") + R
                    ELSE GivesUp
  BY LongestSame DEF After

\* While the child is stuck, what the parent starts is what was still to come.
LEMMA LeftParent ==
    ASSUME TypeOK, SessionTypeOK, ChainInv, Shape, Clock, Held, Stuck, Stuck',
           ParentStep, drive' = drive
    PROVE  Left' <= Left
  <1> DEFINE w == Limit("write")
             c == Limit("close")
             o == Limit("open")
             f == Limit("fixate")
             L == Longest(cmds')
             A == After'
  <1>1. /\ Burner /\ cmds = <<>> /\ cmds' = CmdsAfter /\ cb' = cb /\ intrs' = intrs
        /\ ctime = 0 /\ ctime' = 0
    BY DEF ParentStep, Clock
  <1>2. drive \in Drives
    BY DEF SessionTypeOK
  <1>3. /\ R \in Nat /\ Prepare \in Nat /\ GivesUp \in Nat
        /\ w \in Nat /\ c \in Nat /\ o \in Nat /\ f \in Nat
        /\ GivesUp = w + c + o + f + R
    <2>1. {"write", "close", "open", "fixate"} \subseteq Commands
      BY <1>2, LongestFacts
    <2>2. /\ \A x \in Commands : Limit(x) \in Nat
          /\ R \in Nat /\ Prepare \in Nat /\ GivesUp = w + c + o + f + R
      BY <1>2, LongestFacts
    <2>3. w \in Nat /\ c \in Nat /\ o \in Nat /\ f \in Nat
      BY <2>1, <2>2
    <2> HIDE DEF w, c, o, f
    <2> QED  BY <2>2, <2>3
  <1>4. /\ cmds' = <<>> => L = 0
        /\ cmds' = <<"write">> => L = w
        /\ cmds' = Restore => L = R
        /\ cmds' = Setup \o <<"open">> => L = Prepare
        /\ cmds' = <<"close", "open">> => L = c + o
        /\ cmds' = <<"close", "fixate">> => L = c + f
    BY <1>2, LongestFacts DEF R, Prepare
  <1>5. After = IF ppc \in {"exit", "reap", "end"} THEN 0
                ELSE IF ppc \in {"await", "scan"} THEN Prepare + GivesUp
                ELSE IF ppc = "idle" /\ (ending # "none" \/ ptrack = NTracks) THEN R
                ELSE IF ppc = "idle" /\ ptrack > 0 THEN f + R
                ELSE IF ppc = "get" /\ owner[bufIdx] = "faio" THEN 0
                ELSE IF ppc = "use" THEN c + o + f + R
                ELSE GivesUp
    BY DEF After
  <1>6. A = IF ppc' \in {"exit", "reap", "end"} THEN 0
            ELSE IF ppc' \in {"await", "scan"} THEN Prepare + GivesUp
            ELSE IF ppc' = "idle" /\ (ending' # "none" \/ ptrack' = NTracks') THEN R
            ELSE IF ppc' = "idle" /\ ptrack' > 0 THEN f + R
            ELSE IF ppc' = "get" /\ owner'[bufIdx'] = "faio" THEN 0
            ELSE IF ppc' = "use" THEN c + o + f + R
            ELSE GivesUp
    BY AfterSame
  <1>7. Left = After + Allowed /\ Left' = L + A + Allowed /\ Allowed \in Nat /\ After \in Nat
    <2>1. Longest(cmds) = 0 /\ (Longest(cmds))' = L /\ R' = R
      BY <1>1, <1>2, LongestFacts, LongestSame
    <2>2. Allowed' = Allowed
      BY <1>1, <2>1 DEF Allowed
    <2>3. After \in Nat /\ Allowed \in Nat
      BY LeftBound
    <2>4. L \in Nat /\ A \in Nat
      <3>1. L \in Nat
        BY <1>1, <1>2, CommandSeqs, LongestFacts
      <3> HIDE DEF w, c, o, f, L, A
      <3> QED  BY <1>3, <1>6, <3>1
    <2>5. Left' = L - ctime' + A + Allowed'
      BY <2>1 DEF Left
    <2>6. Left = Longest(cmds) - ctime + After + Allowed
      BY DEF Left
    <2> HIDE DEF L, A
    <2> QED  BY <1>1, <2>1, <2>2, <2>3, <2>4, <2>5, <2>6
  <1>8. /\ ppc = "scan" /\ ppc' = "idle" => cmds' = Setup \o <<"open">>
        /\ ppc' = "use" /\ plen' > 0 => cmds' = <<"write">>
        /\ ppc' = "use" /\ ~(plen' > 0) => cmds' = <<>>
        /\ ppc = "use" /\ ppc' = "idle" =>
               cmds' = IF ptrack < NTracks THEN <<"close", "open">> ELSE <<"close", "fixate">>
        /\ ppc # "exit" /\ ppc' = "exit" => cmds' = Restore
        /\ ppc' \notin {"idle", "use", "exit"} => cmds' = <<>>
    BY <1>1, CmdsAfterCases, Zenon
  <1>9. /\ bufIdxReader = bufIdx /\ bufIdx \in Slots /\ owner[bufIdx] \in {"reader", "faio"}
        /\ rpc = "wait" /\ rpc' = "wait" /\ owner'[bufIdxReader'] # "writer"
    BY StuckFacts DEF Stuck
  <1>10. /\ ppc \in {"await", "scan"} => ending = "none" /\ ptrack = 0
         /\ ppc = "use" => ending = "none" /\ ptrack >= 1
         /\ ptrack \in 0 .. NTracks /\ NTracks \in Nat \ {0} /\ NTracks' = NTracks
    <2>1. PICK cc \in 0 .. NBuf, u \in {0, 1}, h \in {0, 1} : Chain(cc, u, h)
      BY DEF ChainInv
    <2>2. NTracks' = NTracks
      BY <1>1, BurnerMoves DEF NTracks
    <2> QED  BY <2>1, <2>2, JobTracks DEF Chain, Parent, InTrack, TypeOK, BurnerOK
  <1> HIDE DEF w, c, o, f, L, A
  <1> SUFFICES L + A <= After
    <2>1. L \in Nat /\ A \in Nat
      <3>1. L \in Nat
        BY <1>1, <1>2, CommandSeqs, LongestFacts DEF L
      <3> QED  BY <1>3, <1>6, <3>1
    <2> QED  BY <1>7, <2>1
  <1>11. CASE PAwait
    BY <1>3, <1>4, <1>5, <1>6, <1>8, <1>11 DEF PAwait
  <1>12. CASE PScan
    BY <1>3, <1>4, <1>5, <1>6, <1>8, <1>9, <1>10, <1>12 DEF PScan
  <1>13. CASE PStartTrack
    <2>1. ppc = "idle" /\ ppc' = "get" /\ ending = "none" /\ ptrack < NTracks
          /\ owner' = owner /\ bufIdx' = bufIdx
      BY <1>13 DEF PStartTrack, slotvars
    <2>2. ptrack > 0 => owner[bufIdx] = "faio"
      BY <1>9, <2>1 DEF Held, Between
    <2> QED  BY <1>3, <1>4, <1>5, <1>6, <1>8, <1>10, <2>1, <2>2
  <1>14. CASE PFinish
    BY <1>3, <1>4, <1>5, <1>6, <1>8, <1>14 DEF PFinish
  <1>15. CASE PRelease
    <2>1. owner[bufIdx] # "faio"
      <3>1. owner \in [Slots -> Owners]
        BY DEF TypeOK, SlotsOK
      <3> QED  BY <1>9, <1>15, <3>1 DEF PRelease, rvars
    <2> QED  BY <1>3, <1>4, <1>5, <1>6, <1>8, <1>15, <2>1 DEF PRelease
  <1>16. CASE PLow \/ PWait \/ PLoadUsers
    <2>1. ppc \in {"low", "wait", "users"} /\ ppc' \in {"wait", "check", "dec"}
      BY <1>16 DEF PLow, PWait, PLoadUsers
    <2>2. After = GivesUp /\ A = GivesUp /\ L = 0
      BY <1>4, <1>5, <1>6, <1>8, <2>1
    <2> QED  BY <1>3, <2>2
  <1>17. CASE PTimeout \/ PUseError
    <2>1. ppc \in {"wait", "use"} /\ ppc' = "exit"
      BY <1>17 DEF PTimeout, PUseError
    <2>2. L = R /\ A = 0
      BY <1>4, <1>6, <1>8, <2>1
    <2> QED  BY <1>3, <1>5, <2>1, <2>2
  <1>18. CASE PCheck
    <2>1. ppc = "check" /\ ppc' \in {"users", "get", "exit"}
      BY <1>18 DEF PCheck
    <2>2. After = GivesUp
      BY <1>5, <2>1
    <2>3. CASE ppc' = "exit"
      <3>1. L = R /\ A = 0
        BY <1>4, <1>6, <1>8, <2>1, <2>3
      <3> QED  BY <1>3, <2>2, <3>1
    <2>4. CASE ppc' # "exit"
      <3>1. L = 0 /\ A \in {0, GivesUp}
        BY <1>4, <1>6, <1>8, <2>1, <2>4
      <3> QED  BY <1>3, <2>2, <3>1
    <2> QED  BY <2>3, <2>4
  <1>19. CASE PStoreUsers
    <2>1. ppc' = "faio"
      BY <1>19 DEF PStoreUsers, ChainInv, OneUser, TypeOK, BurnerOK
    <2> QED  BY <1>3, <1>4, <1>5, <1>6, <1>8, <1>19, <2>1 DEF PStoreUsers
  <1>20. CASE PSetFaio
    <2>1. ppc = "faio" /\ ppc' = "use"
      BY <1>20 DEF PSetFaio
    <2> QED  BY <1>3, <1>4, <1>5, <1>6, <1>8, <2>1
  <1>21. CASE PUseEOF \/ PWrite
    <2>1. ppc = "use" /\ ppc' \in {"get", "idle"} /\ owner' = owner /\ bufIdx' = bufIdx
          /\ ending' = ending /\ ptrack' = ptrack
      BY <1>21 DEF PUseEOF, PWrite, slotvars
    <2>2. owner[bufIdx] = "faio"
      BY <1>9, <2>1 DEF Held, Between
    <2>3. CASE ppc' = "get"
      BY <1>3, <1>4, <1>5, <1>6, <1>8, <2>1, <2>2, <2>3
    <2>4. CASE ppc' = "idle" /\ ptrack < NTracks
      BY <1>3, <1>4, <1>5, <1>6, <1>8, <1>10, <2>1, <2>4
    <2>5. CASE ppc' = "idle" /\ ~(ptrack < NTracks)
      BY <1>3, <1>4, <1>5, <1>6, <1>8, <1>10, <2>1, <2>5
    <2> QED  BY <2>1, <2>3, <2>4, <2>5
  <1>22. CASE PKillFaio \/ PWaitFaio
    BY <1>9, <1>22 DEF PKillFaio, PWaitFaio, RAlive
  <1> QED  BY <1>1, <1>11, <1>12, <1>13, <1>14, <1>15, <1>16, <1>17, <1>18, <1>19, <1>20,
              <1>21, <1>22 DEF Burner

\* An interrupt pays for the exscsi() that it starts, an error for what is left
\* out, and a command that ends has taken no longer than it may.
LEMMA LeftCommand ==
    ASSUME TypeOK, SessionTypeOK, SessionTypeOK', Shape, Clock, drive' = drive,
           CmdDone \/ CmdError \/ Interrupt
    PROVE  Left' <= Left
  <1> DEFINE w == Limit("write")
             c == Limit("close")
             o == Limit("open")
             f == Limit("fixate")
             L == Longest(cmds)
             N == Longest(cmds')
             A == After'
             k == MaxIntr - intrs + (IF cb THEN 1 ELSE 0)
             n == MaxIntr - intrs' + (IF cb' THEN 1 ELSE 0)
  <1>1. /\ drive \in Drives /\ cmds \in Seq(Commands) /\ cmds' \in Seq(Commands)
        /\ ctime \in Nat /\ ctime' \in Nat /\ intrs \in 0 .. MaxIntr /\ intrs' \in 0 .. MaxIntr
        /\ cb \in BOOLEAN /\ cb' \in BOOLEAN /\ MaxIntr \in Nat
    BY BurnAssumption DEF SessionTypeOK
  <1>2. /\ R \in Nat /\ Prepare \in Nat /\ GivesUp \in Nat
        /\ w \in Nat /\ c \in Nat /\ o \in Nat /\ f \in Nat
        /\ GivesUp = w + c + o + f + R
    <2>1. {"write", "close", "open", "fixate"} \subseteq Commands
      BY <1>1, LongestFacts
    <2>2. /\ \A x \in Commands : Limit(x) \in Nat
          /\ R \in Nat /\ Prepare \in Nat /\ GivesUp = w + c + o + f + R
      BY <1>1, LongestFacts
    <2>3. w \in Nat /\ c \in Nat /\ o \in Nat /\ f \in Nat
      BY <2>1, <2>2
    <2> HIDE DEF w, c, o, f
    <2> QED  BY <2>2, <2>3
  <1>3. After = IF ppc \in {"exit", "reap", "end"} THEN 0
                ELSE IF ppc \in {"await", "scan"} THEN Prepare + GivesUp
                ELSE IF ppc = "idle" /\ (ending # "none" \/ ptrack = NTracks) THEN R
                ELSE IF ppc = "idle" /\ ptrack > 0 THEN f + R
                ELSE IF ppc = "get" /\ owner[bufIdx] = "faio" THEN 0
                ELSE IF ppc = "use" THEN c + o + f + R
                ELSE GivesUp
    BY DEF After
  <1>4. A = IF ppc' \in {"exit", "reap", "end"} THEN 0
            ELSE IF ppc' \in {"await", "scan"} THEN Prepare + GivesUp
            ELSE IF ppc' = "idle" /\ (ending' # "none" \/ ptrack' = NTracks') THEN R
            ELSE IF ppc' = "idle" /\ ptrack' > 0 THEN f + R
            ELSE IF ppc' = "get" /\ owner'[bufIdx'] = "faio" THEN 0
            ELSE IF ppc' = "use" THEN c + o + f + R
            ELSE GivesUp
    BY AfterSame
  <1>5. L \in Nat /\ N \in Nat /\ L - ctime \in Nat /\ After \in Nat
    BY <1>1, LongestFacts, LeftBound
  <1>6. /\ cmds = <<"write">> => L = w
        /\ cmds = <<"close", "open">> => L = c + o
        /\ cmds = <<"open">> => L = o
        /\ cmds = <<"fixate">> => L = f
        /\ cmds = <<"close", "fixate">> => L = c + f
        /\ cmds' = <<>> => N = 0
        /\ cmds' = <<"fixate">> => N = f
        /\ cmds' = <<"close", "fixate">> => N = c + f
        /\ cmds' = Restore => N = R
    BY <1>1, LongestFacts DEF R
  <1>7. k \in Nat /\ n \in Nat
    <2>1. (IF cb THEN 1 ELSE 0) \in {0, 1} /\ (IF cb' THEN 1 ELSE 0) \in {0, 1}
      BY <1>1
    <2>2. /\ MaxIntr \in Nat /\ intrs \in 0 .. MaxIntr /\ intrs' \in 0 .. MaxIntr
      BY <1>1, Zenon
    <2>3. \A m \in Nat : \A i \in 0 .. m : \A b \in {0, 1} : m - i + b \in Nat
      OBVIOUS
    <2> QED  BY <2>1, <2>2, <2>3, Zenon
  <1>8. Left = L - ctime + After + k * R /\ Left' = N - ctime' + A + n * R
    <2>1. (Longest(cmds))' = N /\ R' = R
      BY LongestSame
    <2> QED  BY <2>1 DEF Left, Allowed
  <1>9. UNCHANGED vars => A = After
    <2> SUFFICES ASSUME UNCHANGED vars PROVE A = After
      OBVIOUS
    <2>1. UNCHANGED <<ppc, ending, ptrack, trackp, owner, bufIdx>> /\ NTracks' = NTracks
      BY DEF vars, pvars, tvars, slotvars, NTracks
    <2> HIDE DEF w, c, o, f, A
    <2> QED  BY <1>3, <1>4, <2>1
  <1>10. PInterrupt \/ (ppc = "exit" /\ UNCHANGED vars) => A = 0
    <2>1. PInterrupt \/ (ppc = "exit" /\ UNCHANGED vars) => ppc' = "exit"
      BY DEF PInterrupt, vars, pvars
    <2> QED  BY <1>4, <2>1
  <1>11. /\ cmds # <<>> => L = Limit(Head(cmds)) + Longest(Tail(cmds))
                           /\ Limit(Head(cmds)) \in Nat /\ Longest(Tail(cmds)) \in Nat
                           /\ ctime <= Limit(Head(cmds))
    <2>1. cmds # <<>> => Head(cmds) \in Commands /\ Tail(cmds) \in Seq(Commands)
      BY <1>1
    <2> QED  BY <1>1, <2>1, LongestFacts DEF Clock
  <1>12. \A i \in Nat : i * R \in Nat /\ (i + 1) * R = i * R + R
    BY <1>2
  <1>13. CASE CmdDone
    <2>0. /\ cmds # <<>> /\ ctime' = 0 /\ cb' = FALSE /\ intrs' = intrs
          /\ n = MaxIntr - intrs
          /\ \/ ~(Running /\ cb) /\ cmds' = Tail(cmds) /\ UNCHANGED vars
             \/ Running /\ cb /\ cmds' = Restore /\ A = 0
      BY <1>1, <1>10, <1>13 DEF CmdDone
    <2>1. k = n \/ (cb /\ k = n + 1)
      BY <1>1, <2>0
    <2> HIDE DEF w, c, o, f, L, N, A, k, n
    <2>2. n * R \in Nat /\ k * R \in Nat /\ n * R <= k * R /\ (k = n + 1 => k * R = n * R + R)
      BY <1>2, <1>7, <1>12, <2>1
    <2>3. CASE cmds' = Tail(cmds) /\ UNCHANGED vars
      <3>1. N = Longest(Tail(cmds)) /\ A = After
        BY <1>9, <2>3 DEF N
      <3>2. N <= L - ctime
        BY <1>1, <1>5, <1>11, <2>0, <3>1
      <3> QED  BY <1>5, <1>8, <2>0, <2>2, <3>1, <3>2
    <2>4. CASE cb /\ cmds' = Restore /\ A = 0
      <3>1. k = n + 1
        <4>1. (IF cb THEN 1 ELSE 0) = 1 /\ (IF cb' THEN 1 ELSE 0) = 0 /\ intrs' = intrs
          BY <2>0, <2>4
        <4>2. MaxIntr \in Nat /\ intrs \in Int
          BY <1>1
        <4>3. k = MaxIntr - intrs + 1 /\ n = MaxIntr - intrs + 0
          BY <4>1 DEF k, n
        <4> QED  BY <4>2, <4>3
      <3> DEFINE p == n * R
                 q == k * R
      <3>2. p \in Nat /\ q = p + R /\ Left = L - ctime + After + q /\ Left' = R - 0 + 0 + p
        BY <1>6, <1>8, <2>0, <2>2, <2>4, <3>1
      <3> HIDE DEF p, q
      <3> QED  BY <1>2, <1>5, <3>2
    <2> QED  BY <2>0, <2>3, <2>4
  <1>14. CASE CmdError
    <2>0. /\ Running /\ ~cb /\ cb' = cb /\ intrs' = intrs /\ ctime' = 0 /\ ending = "none"
          /\ ending' = "driveerr" /\ trackp' = trackp /\ ptrack' = ptrack
          /\ ppc \in {"use", "idle"} \/ (ppc = "await" /\ ppc' = "exit")
      BY <1>14 DEF CmdError, PDriveError, tvars
    <2>1. k = n /\ cmds # <<>> /\ NTracks' = NTracks
      BY <2>0 DEF Running, NTracks
    <2>2. n * R \in Nat
      BY <1>7, <1>12
    <2>3. ptrack \in 0 .. NTracks /\ NTracks \in Nat
      BY JobTracks DEF TypeOK, BurnerOK
    <2> DEFINE fatal == {"speed", "blank", "settle", "disktype", "session", "opc", "leadin"}
    <2>4. /\ Head(cmds) \in fatal => ppc' = "exit" /\ cmds' = Restore
          /\ Head(cmds) \in {"open", "close"} => ppc' = "idle" /\ cmds' = <<"fixate">>
          /\ Head(cmds) = "write" => ppc' = "idle" /\ cmds' = <<"close", "fixate">>
          /\ Head(cmds) = "fixate" => ppc' = "idle" /\ cmds' = <<>>
          /\ Head(cmds) \in fatal \cup {"open", "close", "write", "fixate"}
      <3>1. CASE Head(cmds) \in fatal
        BY <1>14, <3>1 DEF CmdError
      <3>2. CASE Head(cmds) \notin fatal
        BY <1>14, <3>2 DEF CmdError
      <3> QED  BY <3>1, <3>2
    <2>5. \A x, y : Head(<<x>>) = x /\ Head(<<x, y>>) = x
      OBVIOUS
    <2>6. \/ ppc = "idle" /\ ptrack = 0 /\ cmds \in Seq(SetupCommands)
          \/ ppc = "idle" /\ ptrack \in 1 .. NTracks - 1
                          /\ cmds \in {<<"open">>, <<"close", "open">>}
          \/ ppc = "idle" /\ ptrack = NTracks /\ cmds \in {<<"fixate">>, <<"close", "fixate">>}
          \/ ppc = "use" /\ cmds = <<"write">>
          \/ ppc = "await" /\ ppc' = "exit"
      BY <2>0, <2>1, <2>3 DEF Shape
    <2> HIDE DEF w, c, o, f, L, N, A, k, n
    <2>7. SUFFICES N + A <= (L - ctime) + After
      <3>1. N \in Nat /\ A \in Nat
        BY <1>2, <1>4, <1>5
      <3> QED  BY <1>5, <1>8, <2>0, <2>1, <2>2, <3>1
    <2>13. CASE ppc = "await" /\ ppc' = "exit"
      <3>1. Head(cmds) \in fatal
        BY <2>4, <2>13
      <3>2. N = R /\ A = 0 /\ After = Prepare + GivesUp
        BY <1>3, <1>4, <1>6, <2>4, <2>13, <3>1
      <3> QED  BY <1>2, <1>5, <3>2
    <2>8. CASE ppc = "idle" /\ ptrack = 0 /\ cmds \in Seq(SetupCommands)
      <3>1. Head(cmds) \in SetupCommands
        BY <2>1, <2>8
      <3>2. After = GivesUp \/ ptrack = NTracks
        BY <1>3, <2>0, <2>8
      <3>3. NTracks # 0
        BY JobTracks DEF TypeOK
      <3>4. Head(cmds) = "open" => N = f /\ A = R
        BY <1>4, <1>6, <2>0, <2>4
      <3>5. Head(cmds) # "open" => N = R /\ A = 0
        BY <1>4, <1>6, <2>4, <3>1 DEF SetupCommands
      <3> QED  BY <1>2, <1>5, <2>8, <3>2, <3>3, <3>4, <3>5
    <2>9. CASE ppc = "idle" /\ ptrack \in 1 .. NTracks - 1
                            /\ cmds \in {<<"open">>, <<"close", "open">>}
      <3>1. Head(cmds) \in {"open", "close"} /\ After = f + R
        BY <1>3, <2>0, <2>3, <2>5, <2>9
      <3>2. N = f /\ A = R
        BY <1>4, <1>6, <2>0, <2>4, <3>1
      <3> QED  BY <1>2, <1>5, <3>1, <3>2
    <2>10. CASE ppc = "idle" /\ ptrack = NTracks /\ cmds = <<"fixate">>
      <3>1. Head(cmds) = "fixate" /\ After = R
        BY <1>3, <2>5, <2>10
      <3>2. N = 0 /\ A = R
        BY <1>4, <1>6, <2>0, <2>4, <3>1
      <3> QED  BY <1>2, <1>5, <3>1, <3>2
    <2>11. CASE ppc = "idle" /\ ptrack = NTracks /\ cmds = <<"close", "fixate">>
      <3>1. Head(cmds) = "close" /\ After = R
        BY <1>3, <2>5, <2>11
      <3>2. N = f /\ A = R /\ L = c + f /\ ctime <= c
        BY <1>4, <1>6, <1>11, <2>0, <2>1, <2>4, <2>11, <3>1 DEF c
      <3> QED  BY <1>1, <1>2, <1>5, <3>1, <3>2
    <2>12. CASE ppc = "use" /\ cmds = <<"write">>
      <3>1. Head(cmds) = "write" /\ After = c + o + f + R
        BY <1>3, <2>5, <2>12
      <3>2. N = c + f /\ A = R
        BY <1>4, <1>6, <2>0, <2>4, <3>1
      <3> QED  BY <1>2, <1>5, <3>1, <3>2
    <2> QED  BY <2>6, <2>13, <2>8, <2>9, <2>10, <2>11, <2>12
  <1>15. CASE Interrupt
    <2>0. /\ intrs' = intrs + 1
          /\ \/ ~cb /\ cb' = TRUE /\ UNCHANGED <<vars, cmds, ctime>>
             \/ /\ PInterrupt \/ (ppc = "exit" /\ UNCHANGED vars)
                /\ cb /\ cb' = cb /\ cmds' = <<>> /\ ctime' = 0
             \/ PInterrupt /\ cmds' = Restore /\ ctime' = 0 /\ cb' = cb
      BY <1>15 DEF Interrupt
    <2>1. CASE ~cb /\ cb' = TRUE /\ UNCHANGED <<vars, cmds, ctime>>
      <3>1. k = n /\ A = After /\ N = L
        BY <1>1, <1>9, <2>0, <2>1
      <3> HIDE DEF w, c, o, f, L, N, A, k, n
      <3> QED  BY <1>5, <1>8, <1>7, <1>12, <2>1, <3>1
    <2>2. CASE ctime' = 0 /\ A = 0 /\ cb' = cb /\ cmds' \in {<<>>, Restore}
      <3>1. k = n + 1
        BY <1>1, <2>0, <2>2
      <3> HIDE DEF w, c, o, f, L, N, A, k, n
      <3>2. k * R = n * R + R /\ n * R \in Nat
        BY <1>7, <1>12, <3>1
      <3>3. N <= R
        BY <1>2, <1>6, <2>2
      <3> QED  BY <1>2, <1>5, <1>8, <2>2, <3>2, <3>3
    <2> QED  BY <1>10, <2>0, <2>1, <2>2
  <1> QED  BY <1>13, <1>14, <1>15

\* Every tick the child waits for is one of a command of the parent.
LEMMA LeftStep ==
    ASSUME TypeOK, SessionTypeOK, SessionTypeOK', ChainInv, Shape, Clock, Held,
           Stuck, Stuck', BNext
    PROVE  rwait' + Left' <= rwait + Left
  <1>1. drive' = drive /\ rwait \in Nat /\ Left \in Nat
    <2>1. rwait \in Nat
      BY BurnAssumption DEF SessionTypeOK
    <2> QED  BY <2>1, LeftBound DEF BNext
  <1>2. CASE Left' <= Left /\ rwait' = rwait
    <2>1. Left' \in Int
      <3>1. cmds' \in Seq(Commands) /\ ctime' \in Nat /\ drive' = drive /\ drive \in Drives
        BY <1>1 DEF SessionTypeOK
      <3>2. Longest(cmds') \in Nat /\ (Longest(cmds))' = Longest(cmds')
        BY <3>1, LongestFacts, LongestSame
      <3>3. After' \in Int
        <4>1. {"close", "open", "fixate"} \subseteq Commands
          BY <3>1, LongestFacts
        <4>2. Limit("close") \in Nat /\ Limit("open") \in Nat /\ Limit("fixate") \in Nat
          BY <3>1, <4>1, LongestFacts
        <4>3. R \in Nat /\ Prepare \in Nat /\ GivesUp \in Nat
          BY <3>1, <4>2, BoundInt, LongestFacts
        <4> QED  BY <3>1, <4>2, <4>3, AfterSame
      <3>4. Allowed' \in Int
        <4>1. intrs' \in Int /\ MaxIntr \in Int /\ R' \in Int
          BY <3>1, BurnAssumption, LongestFacts, LongestSame DEF SessionTypeOK
        <4>2. (IF cb' THEN 1 ELSE 0) \in Int
          OBVIOUS
        <4>3. MaxIntr - intrs' + (IF cb' THEN 1 ELSE 0) \in Int
          BY <4>1, <4>2
        <4>4. \A a, b \in Int : a * b \in Int
          OBVIOUS
        <4> QED  BY <4>1, <4>3, <4>4 DEF Allowed
      <3>5. Left' = Longest(cmds') - ctime' + After' + Allowed'
        BY <3>2 DEF Left
      <3> QED  BY <3>1, <3>2, <3>3, <3>4, <3>5
    <2>2. \A i \in Nat : \A a, b \in Int : a <= b => i + a <= i + b
      OBVIOUS
    <2>3. Left \in Int
      BY <1>1
    <2> QED  BY <1>1, <1>2, <2>1, <2>2, <2>3, Zenon
  <1>3. CASE UNCHANGED <<vars, cmds, ctime, cb, intrs, rwait>>
    <2>1. Left' = Left
      <3>1. UNCHANGED <<ppc, ending, ptrack, trackp, owner, bufIdx>> /\ NTracks' = NTracks
        BY <1>3 DEF vars, pvars, tvars, slotvars, NTracks
      <3>2. After' = After
        BY <1>1, <3>1, AfterSame DEF After
      <3>3. (Longest(cmds))' = Longest(cmds) /\ R' = R
        BY <1>1, <1>3, LongestSame
      <3>4. Allowed' = Allowed
        BY <1>3, <3>3 DEF Allowed
      <3> QED  BY <1>3, <3>2, <3>3, <3>4 DEF Left
    <2> QED  BY <1>1, <1>2, <1>3, <2>1
  <1>4. CASE ParentStep
    <2>1. rwait' = rwait
      BY <1>4 DEF ParentStep
    <2> QED  BY <1>1, <1>2, <1>4, <2>1, LeftParent
  <1>5. CASE CmdDone \/ CmdError \/ Interrupt
    <2>1. rwait' = rwait
      BY <1>5 DEF CmdDone, CmdError, Interrupt
    <2> QED  BY <1>1, <1>2, <1>5, <2>1, LeftCommand
  <1>6. ~ChildStep /\ ~ChildTimeout
    BY DEF ChildStep, ChildTimeout, RTimeout, Stuck, Reader, RWait, RSetFd, RFill, RSetLen,
           RSetOwner, RSetUsers, RPut, RDone, RTestGets, RMarkLast
  <1>7. CASE Tick
    <2>1. /\ ParentBlocked /\ rwait' = rwait + 1
          /\ UNCHANGED vars /\ UNCHANGED <<cmds, cb, intrs>>
          /\ ctime' = IF cmds = <<>> THEN 0 ELSE ctime + 1
      BY <1>7 DEF Tick, Stuck, RAlive
    <2>2. cmds # <<>>
      BY <2>1, StuckFacts DEF ParentBlocked
    <2>3. UNCHANGED <<ppc, ending, ptrack, trackp, owner, bufIdx>> /\ NTracks' = NTracks
      BY <2>1 DEF vars, pvars, tvars, slotvars, NTracks
    <2>4. After' = After
      BY <1>1, <2>3, AfterSame DEF After
    <2>5. (Longest(cmds))' = Longest(cmds) /\ R' = R
      BY <1>1, <2>1, LongestSame
    <2>6. Allowed' = Allowed
      BY <2>1, <2>5 DEF Allowed
    <2>7. Left' = Longest(cmds) - (ctime + 1) + After + Allowed
      BY <2>1, <2>2, <2>4, <2>5, <2>6 DEF Left
    <2>8. /\ Left = Longest(cmds) - ctime + After + Allowed
          /\ Longest(cmds) \in Nat /\ ctime \in Nat /\ After \in Nat /\ Allowed \in Nat
      BY LeftBound DEF Left, SessionTypeOK
    <2>9. Left' = Left - 1
      BY <2>7, <2>8
    <2> QED  BY <1>1, <2>1, <2>9
  <1>8. CASE ChildCmdDone \/ BTerminated
    <2>1. UNCHANGED <<vars, cmds, ctime, cb, intrs, rwait>>
      BY <1>8 DEF ChildCmdDone, BTerminated, bvars
    <2> QED  BY <1>3, <2>1
  <1> QED  BY <1>4, <1>5, <1>6, <1>7, <1>8 DEF BNext

\* The child comes to a full slot only by a step of its own.
LEMMA StuckStarts ==
    ASSUME TypeOK, SlotOwners, ~Stuck, Stuck', BNext
    PROVE  ChildStep
  <1> SUFFICES ASSUME ~ChildStep PROVE FALSE
    OBVIOUS
  <1>1. rpc' = "wait" /\ owner'[bufIdxReader'] # "writer"
    BY DEF Stuck
  <1>2. CASE ParentStep
    <2>1. rpc' = rpc /\ bufIdxReader' = bufIdxReader
      BY <1>1, <1>2 DEF ParentStep, Burner, PAwait, PScan, PStartTrack, PFinish, PRelease, PLow,
         PWait, PTimeout, PCheck, PLoadUsers, PStoreUsers, PSetFaio, PUseError, PUseEOF, PWrite,
         PKillFaio, PWaitFaio, rvars, RAlive
    <2>2. \/ owner' = owner
          \/ owner' = [owner EXCEPT ![bufIdx] = "writer"]
          \/ owner' = [owner EXCEPT ![bufIdx] = "faio"] /\ owner[bufIdx] = "reader"
      BY <1>2 DEF ParentStep, Burner, PAwait, PScan, PStartTrack, PFinish, PRelease, PLow,
         PWait, PTimeout, PCheck, PLoadUsers, PStoreUsers, PSetFaio, PUseError, PUseEOF, PWrite,
         PKillFaio, PWaitFaio, slotvars, SlotOwners
    <2>3. owner[bufIdxReader] = "writer"
      BY <1>1, <2>1 DEF Stuck
    <2>4. owner \in [Slots -> Owners] /\ bufIdxReader \in Slots
      BY DEF TypeOK, SlotsOK, ReaderOK
    <2> QED  BY <1>1, <2>1, <2>2, <2>3, <2>4
  <1>3. CASE UNCHANGED <<rpc, bufIdxReader, owner>>
    BY <1>3 DEF Stuck
  <1>4. ChildTimeout => rpc' # "wait"
    BY DEF ChildTimeout, RTimeout
  <1>5. CmdDone \/ CmdError \/ Interrupt => UNCHANGED <<rpc, bufIdxReader, owner>>
    BY DEF CmdDone, CmdError, Interrupt, PInterrupt, PDriveError, vars, rvars, slotvars
  <1>6. ChildCmdDone \/ Tick \/ BTerminated => UNCHANGED <<rpc, bufIdxReader, owner>>
    BY DEF ChildCmdDone, Tick, BTerminated, vars, rvars, slotvars
  <1> QED  BY <1>1, <1>2, <1>3, <1>4, <1>5, <1>6 DEF BNext

\* So the child's wait stays within the bound.
LEMMA WaitedStep ==
    ASSUME TypeOK, SlotOwners, SessionTypeOK, SessionTypeOK', ChainInv, Shape, Clock, Held,
           Waited, BNext, Left' \in Nat, Left' <= Bound'
    PROVE  Waited'
  <1> SUFFICES ASSUME Stuck' PROVE rwait' + Left' <= Bound'
    BY DEF Waited
  <1>1. CASE Stuck
    <2>1. rwait + Left <= Bound /\ rwait' + Left' <= rwait + Left
      BY <1>1, LeftStep DEF Waited
    <2>2. Bound' = Bound
      BY LongestSame DEF BNext
    <2>3. Left \in Nat /\ Bound \in Nat /\ rwait \in Nat /\ rwait' \in Nat
      <3>1. rwait \in Nat /\ rwait' \in Nat
        BY BurnAssumption DEF SessionTypeOK
      <3>2. Left \in Nat /\ Left <= Bound
        BY LeftBound
      <3>3. Bound \in Nat
        BY BoundInt DEF SessionTypeOK
      <3> QED  BY <3>1, <3>2, <3>3
    <2>4. \A a, b, i, j, k \in Nat : a + b <= k /\ i + j <= a + b => i + j <= k
      OBVIOUS
    <2> QED  BY <2>1, <2>2, <2>3, <2>4, Zenon
  <1>2. CASE ~Stuck
    <2>1. rwait' = 0
      BY <1>2, StuckStarts DEF ChildStep
    <2> QED  BY <2>1
  <1> QED  BY <1>1, <1>2

\* The child has not given up.
NotTimedOut == Quick => rpc # "timedout"

\* Under a quick drive the child is never given the time to give up.
LEMMA NotTimedOutStep ==
    ASSUME TypeOK, SessionTypeOK, Shape, Clock, Waited, NotTimedOut, BNext
    PROVE  NotTimedOut'
  <1>1. Quick <=> Bound < MaxWait /\ InputMax < MaxWait
    BY DEF Quick, Bound, R
  <1>2. Quick' <=> Bound' < MaxWait /\ InputMax < MaxWait
    BY DEF Quick, Bound, R
  <1>3. Bound' = Bound
    BY LongestSame DEF BNext
  <1> SUFFICES ASSUME Quick PROVE rpc' # "timedout"
    BY <1>1, <1>2, <1>3 DEF NotTimedOut
  <1>4. rpc # "timedout"
    BY DEF NotTimedOut
  <1>5. ASSUME ChildTimeout PROVE FALSE
    <2>1. Stuck /\ rwait = MaxWait
      BY <1>5 DEF ChildTimeout, RTimeout, Stuck
    <2>2. MaxWait + Left <= Bound /\ Left \in Nat
      BY <2>1, LeftBound DEF Waited
    <2>3. Bound \in Nat /\ MaxWait \in Nat
      BY BoundInt, BurnAssumption DEF SessionTypeOK
    <2> QED  BY <1>1, <2>2, <2>3
  <1>6. ParentStep => rpc' \in {rpc, "killed"}
    BY DEF ParentStep, Burner, PAwait, PScan, PStartTrack, PFinish, PRelease, PLow,
         PWait, PTimeout, PCheck, PLoadUsers, PStoreUsers, PSetFaio, PUseError, PUseEOF, PWrite,
         PKillFaio, PWaitFaio, rvars
  <1>7. CmdDone \/ CmdError \/ Interrupt => rpc' = rpc
    BY DEF CmdDone, CmdError, Interrupt, PInterrupt, PDriveError, vars, rvars
  <1>8. ChildStep => rpc' # "timedout"
    BY DEF ChildStep, Reader, RWait, RSetFd, RFill, RSetLen, RSetOwner, RSetUsers, RPut, RDone,
           RTestGets, RMarkLast
  <1>9. ChildCmdDone \/ Tick \/ BTerminated => rpc' = rpc
    BY DEF ChildCmdDone, Tick, BTerminated, vars, rvars
  <1> QED  BY <1>4, <1>5, <1>6, <1>7, <1>8, <1>9 DEF BNext

\* What holds in every session, whatever the drive: the places and the clocks.
Pace == Shape /\ Clock /\ Held

\* The parent starts with the speed and the grace time; the child has all slots.
LEMMA PaceInit == BInit => Pace /\ Waited /\ NotTimedOut
  <1> SUFFICES ASSUME BInit PROVE Pace /\ Waited /\ NotTimedOut
    OBVIOUS
  <1>1. /\ ppc = "await" /\ rpc = "wait" /\ cmds = Prelude /\ ctime = 0 /\ cb = FALSE
        /\ owner[bufIdxReader] = "writer"
    BY NBufAssumption DEF BInit, Init, Slots, MinBuffers
  <1>2. Limit(Head(Prelude)) \in Nat /\ Before \in Nat /\ Prelude # <<>>
    <2>1. drive \in Drives
      BY DEF BInit
    <2>2. Prelude # <<>>
      BY DEF Prelude
    <2>3. Head(Prelude) \in Commands
      BY <2>2, CommandSeqs
    <2> QED  BY <2>1, <2>2, <2>3, LongestFacts
  <1>3. Prelude \in Seq(PreludeCommands)
    <2> DEFINE twice == <<"ready", "grace", "tryblank">>
    <2>1. /\ <<"speed">> \in Seq(PreludeCommands) /\ twice \in Seq(PreludeCommands)
          /\ <<"grace">> \in Seq(PreludeCommands)
      BY DEF PreludeCommands
    <2> HIDE DEF twice
    <2>2. (IF drive.blank /\ drive.force THEN twice ELSE <<"grace">>) \in Seq(PreludeCommands)
      BY <2>1
    <2> QED  BY <2>1, <2>2 DEF Prelude, twice
  <1>4. Shape
    BY <1>1, <1>2, <1>3 DEF Shape, Before
  <1>5. Clock
    BY <1>1, <1>2 DEF Clock
  <1> QED  BY <1>1, <1>4, <1>5 DEF Pace, Held, Between, Waited, Stuck, NotTimedOut

\* No step of the session changes it.
LEMMA PaceStep ==
    ASSUME TypeOK, TypeOK', SlotOwners, SessionTypeOK, SessionTypeOK', ChainInv, Pace,
           [BNext]_<<vars, bvars>>
    PROVE  Pace'
  <1>1. CASE BNext
    BY <1>1, ShapeStep, ClockStep, HeldStep, SessionStep DEF Pace
  <1>2. CASE UNCHANGED <<vars, bvars>>
    <2>1. /\ UNCHANGED <<ppc, ending, ptrack, trackp, owner, bufIdx, rpc, cmds, ctime, cb, intrs>>
          /\ drive' = drive /\ NTracks' = NTracks
      BY <1>2 DEF vars, pvars, tvars, rvars, slotvars, bvars, NTracks
    <2>2. /\ (Longest(cmds))' = Longest(cmds) /\ R' = R /\ Prepare' = Prepare
          /\ Before' = Before
          /\ \A c : Limit(c)' = Limit(c)
      BY <2>1, LongestSame
    <2> QED  BY <2>1, <2>2 DEF Pace, Shape, Clock, Held, Between
  <1> QED  BY <1>1, <1>2

\* The child does not give up on a quick drive: while it waits, the commands that
\* were sent and those still to come stay within its time limit, whatever fails
\* and whenever an interrupt comes.
THEOREM QuickDriveSafe == BSpec => []QuickDriveKeepsReader
  <1> DEFINE Types == TypeOK /\ SlotOwners /\ ChainInv /\ SessionTypeOK
             Bounded == Left \in Nat /\ Left <= Bound
  <1>1. BSpec => []Types
    BY SessionUsesFifo, ChainHolds, SessionTypeAlways, PTL
  <1>2. BInit => Pace /\ Waited /\ NotTimedOut
    BY PaceInit
  <1>3. Types /\ Types' /\ Pace /\ [BNext]_<<vars, bvars>> => Pace'
    BY PaceStep
  <1>4. BSpec => []Pace
    BY <1>1, <1>2, <1>3, PTL DEF BSpec
  <1>5. Types /\ Pace => Bounded
    BY LeftBound DEF Pace
  <1>6. BSpec => []Bounded
    BY <1>1, <1>4, <1>5, PTL
  <1>7. Types /\ Types' /\ Pace /\ Bounded' /\ Waited /\ [BNext]_<<vars, bvars>> => Waited'
    <2>1. CASE BNext
      BY <2>1, WaitedStep DEF Pace
    <2>2. CASE UNCHANGED <<vars, bvars>>
      <3>1. /\ UNCHANGED <<ppc, ending, ptrack, trackp, owner, bufIdx, rpc, bufIdxReader, cmds>>
            /\ UNCHANGED <<ctime, cb, intrs, rwait>> /\ drive' = drive /\ NTracks' = NTracks
        BY <2>2 DEF vars, pvars, tvars, rvars, slotvars, bvars, NTracks
      <3>2. (Longest(cmds))' = Longest(cmds) /\ R' = R /\ Bound' = Bound
        BY <3>1, LongestSame
      <3>3. After' = After /\ Allowed' = Allowed
        BY <3>1, <3>2, AfterSame DEF After, Allowed
      <3> QED  BY <3>1, <3>2, <3>3 DEF Waited, Stuck, Left
    <2> QED  BY <2>1, <2>2
  <1>8. BSpec => []Waited
    BY <1>1, <1>2, <1>4, <1>6, <1>7, PTL DEF BSpec
  <1>9. Types /\ Pace /\ Waited /\ NotTimedOut /\ [BNext]_<<vars, bvars>> => NotTimedOut'
    <2>1. CASE BNext
      BY <2>1, NotTimedOutStep DEF Pace
    <2>2. CASE UNCHANGED <<vars, bvars>>
      <3>1. rpc' = rpc /\ drive' = drive
        BY <2>2 DEF vars, rvars, bvars
      <3>2. Quick <=> Bound < MaxWait /\ InputMax < MaxWait
        BY DEF Quick, Bound, R
      <3>3. Quick' <=> Bound' < MaxWait /\ InputMax < MaxWait
        BY DEF Quick, Bound, R
      <3> QED  BY <3>1, <3>2, <3>3, LongestSame DEF NotTimedOut
    <2> QED  BY <2>1, <2>2
  <1>10. NotTimedOut => QuickDriveKeepsReader
    BY DEF NotTimedOut, QuickDriveKeepsReader, NoReaderTimeout
  <1> QED  BY <1>1, <1>2, <1>4, <1>8, <1>9, <1>10, PTL DEF BSpec
=============================================================================
