----------------------------- MODULE RingProofs -----------------------------
(***************************************************************************)
(* Theorems about the ring of segments of cdda2wav, for rings of any size  *)
(* and recordings of any length.                                           *)
(***************************************************************************)
EXTENDS RingBuff, SequenceTheorems, TLAPS

\* What holds at which place of the reader and of the writer: the results of
\* the tests and assertions it has passed, which only the other process could
\* spoil and does not.
Places ==
    /\ rpc \in {"flag", "block", "fill"} => iloop > 0
    /\ rpc \in {"fill", "patch", "define"} => heFill \in Slots
    /\ rpc = "count" => ~Full /\ last \in Slots
    /\ wpc = "count" => ~Empty
    /\ wpc \in {"write", "drop"} => wslot \in Slots

\* Nothing reaches the writer before the first segment is defined.
FirstDefined ==
    /\ segsRead > 0 => last \in Slots
    /\ defTok > 0 \/ rpc \in {"test", "token"} => segsRead > 0

RInv == RTypeOK /\ Places /\ FirstDefined

\* The ring leads from a slot, or from none, to a slot.
LEMMA IncType == \A s \in Slots \cup {NoSlot} : Inc(s) \in Slots
  BY NBufAssumption DEF Inc, Slots, NoSlot

\* occupy_buffer() leaves the reader with a slot.
LEMMA OccupyType ==
    ASSUME heFill \in Slots \cup {NoSlot}, OccupyBuffer
    PROVE  heFill' \in Slots
<1>1. 0 \in Slots
  BY NBufAssumption DEF Slots
<1> QED
  BY <1>1, IncType DEF OccupyBuffer

\* A signal takes the reader from whatever it does to exit().
LEMMA InterruptedType ==
    \A pc : /\ Interrupted(pc) \in {"close", "gone", "aborted"}
            /\ Interrupted(pc) = "aborted" => pc = "aborted"
  BY DEF Interrupted

\* At the start the ring is empty and no process has passed a test.
LEMMA InitInv == Init => RInv
  BY NBufAssumption, TotalsAssumption
  DEF Init, RInv, RTypeOK, Places, FirstDefined, Defined, Full, Slots, NoSlot,
      RPlaces, WPlaces

\* The steps of the reader preserve the invariant.
LEMMA ReaderInv == RInv /\ Reader => RInv'
<1> SUFFICES ASSUME RInv, Reader PROVE RInv'
  OBVIOUS
<1> USE NBufAssumption DEF RInv, RTypeOK, Places, FirstDefined, Defined, Full,
        Empty, NoSlot, RPlaces, WPlaces, shared, pipes, rvars, wvars
<1>1. CASE RGet
<2>1. heFill' \in Slots
  BY <1>1, OccupyType DEF RGet
<2> QED
  BY <1>1, <2>1 DEF RGet
<1>2. CASE RFull
  BY <1>2 DEF RFull
<1>3. CASE RFlag
  BY <1>3 DEF RFlag
<1>4. CASE RWake
<2>1. heFill' \in Slots
  BY <1>4, OccupyType DEF RWake
<2> QED
  BY <1>4, <2>1 DEF RWake
<1>5. CASE RBroken
  BY <1>5 DEF RBroken
<1>6. CASE RRead
  BY <1>6 DEF RRead
<1>7. CASE RPatch
  BY <1>7 DEF RPatch
<1>8. CASE RDefine
  BY <1>8 DEF RDefine
<1>9. CASE RCount
  BY <1>9 DEF RCount
<1>10. CASE RTest
  BY <1>10 DEF RTest
<1>11. CASE RToken
  BY <1>11 DEF RToken
<1>12. CASE REnd
  BY <1>12 DEF REnd
<1>13. CASE RClose
  BY <1>13 DEF RClose
<1>14. CASE RWait
  BY <1>14 DEF RWait
<1> QED
  BY <1>1, <1>2, <1>3, <1>4, <1>5, <1>6, <1>7, <1>8, <1>9, <1>10, <1>11,
     <1>12, <1>13, <1>14 DEF Reader

\* What is saved is a segment of the ring, and only the file grows.
LEMMA SaveType ==
    ASSUME RInv, WWrite
    PROVE  RInv'
<1>1. /\ wpc = "write" /\ wpc' = "drop"
      /\ UNCHANGED <<shared, pipes, rvars, wslot, premature>>
      /\ out' \in {out, Append(out, ring[wslot])} /\ nDone' \in {nDone, nDone + 1}
  BY DEF WWrite
<1>2. ring[wslot] \in Nat /\ out \in Seq(Nat) /\ nDone \in Nat
  BY <1>1 DEF RInv, RTypeOK, Places
<1>3. Append(out, ring[wslot]) \in Seq(Nat)
  BY <1>2, AppendProperties
<1>8. nDone' \in Nat
  BY <1>1, <1>2
<1>9. out' \in Seq(Nat)
  BY <1>1, <1>2, <1>3, Zenon
<1>4. out' \in Seq(Nat) /\ nDone' \in Nat
  BY <1>8, <1>9
<1>5. Defined' = Defined
  BY <1>1 DEF Defined, shared
<1>6. RTypeOK'
  BY <1>1, <1>4, <1>5 DEF RInv, RTypeOK, WPlaces, shared, pipes, rvars
<1>7. Places' /\ FirstDefined'
  BY <1>1, <1>5 DEF RInv, Places, FirstDefined, Full, shared, pipes, rvars
<1> QED
  BY <1>6, <1>7 DEF RInv

\* The steps of the writer preserve the invariant.
LEMMA WriterInv == RInv /\ Writer => RInv'
<1> SUFFICES ASSUME RInv, Writer PROVE RInv'
  OBVIOUS
<1> USE NBufAssumption DEF RInv, RTypeOK, Places, FirstDefined, Defined, Full,
        Empty, NoSlot, RPlaces, WPlaces, shared, pipes, rvars, wvars
<1>1. CASE WLoop
  BY <1>1 DEF WLoop
<1>2. CASE WEor
  BY <1>2 DEF WEor
<1>3. CASE WGet
  BY <1>3 DEF WGet
<1>4. CASE WEmpty
  BY <1>4 DEF WEmpty
<1>5. CASE WFlag
  BY <1>5 DEF WFlag
<1>6. CASE WWake
  BY <1>6 DEF WWake
<1>7. CASE WBroken
  BY <1>7 DEF WBroken
<1>8. CASE WWrite
  BY <1>8, SaveType
<1>9. CASE WDrop
  BY <1>9, IncType DEF WDrop
<1>10. CASE WCount
  BY <1>10 DEF WCount
<1>11. CASE WTest
  BY <1>11 DEF WTest
<1>12. CASE WToken
  BY <1>12, InterruptedType DEF WToken
<1> QED
  BY <1>1, <1>2, <1>3, <1>4, <1>5, <1>6, <1>7, <1>8, <1>9, <1>10, <1>11,
     <1>12 DEF Writer

\* So do the lead-out, the errors and the interrupts.
LEMMA EventInv == RInv /\ Event => RInv'
<1> SUFFICES ASSUME RInv, Event PROVE RInv'
  OBVIOUS
<1> USE NBufAssumption DEF RInv, RTypeOK, Places, FirstDefined, Defined, Full,
        Empty, NoSlot, RPlaces, WPlaces, shared, pipes, rvars, wvars
<1>1. CASE RLeadOut
  BY <1>1 DEF RLeadOut
<1>2. CASE RError
  BY <1>2 DEF RError
<1>3. CASE RInterrupt
  BY <1>3, InterruptedType DEF RInterrupt, RGone
<1>4. CASE WError
  BY <1>4, InterruptedType DEF WError
<1>5. CASE WInterrupt
  BY <1>5 DEF WInterrupt
<1> QED
  BY <1>1, <1>2, <1>3, <1>4, <1>5 DEF Event

\* A stuttering step changes nothing the invariant speaks of.
LEMMA StutterInv == RInv /\ UNCHANGED vars => RInv'
  BY DEF RInv, RTypeOK, Places, FirstDefined, Defined, Full, Empty, vars, shared,
         pipes, rvars, wvars

\* The asserts of ringbuff.c keep the number of segments in the ring between
\* 0 and global.buffers whatever wake-ups the pipes deliver, and every
\* segment that is read or saved lies inside the ring.
THEOREM RingTypeCorrect == Spec => []RTypeOK
<1>1. RInv /\ [Next]_vars => RInv'
  BY ReaderInv, WriterInv, EventInv, StutterInv DEF Next
<1>2. RInv => RTypeOK
  BY DEF RInv
<1> QED
  BY InitInv, <1>1, <1>2, PTL DEF Spec

-----------------------------------------------------------------------------
(* Tokens                                                                  *)

\* No flag is up and no byte is on its way at the start.
LEMMA InitTokens == Init => TokensBalanced
  BY DEF Init, TokensBalanced, One, RPlaces, WPlaces

\* A step of the reader raises its flag, takes its byte or pays the writer.
LEMMA ReaderTokens == RInv /\ TokensBalanced /\ Reader => TokensBalanced'
<1> SUFFICES ASSUME RInv, TokensBalanced, Reader PROVE TokensBalanced'
  OBVIOUS
<1> USE DEF RInv, RTypeOK, TokensBalanced, One, WGone, RPlaces, WPlaces, shared,
        pipes, rvars, wvars
<1>1. CASE RGet \/ RRead \/ RPatch \/ RDefine \/ RCount
  BY <1>1 DEF RGet, RRead, RPatch, RDefine, RCount
<1>2. CASE RFull
  BY <1>2 DEF RFull
<1>7. CASE RFlag
<2>1. parentWaits = 0 /\ freeTok = 0 /\ wpc # "token"
  BY <1>7 DEF RFlag
<2> QED
  BY <1>7, <2>1 DEF RFlag
<1>3. CASE RWake
  BY <1>3 DEF RWake
<1>4. CASE RBroken \/ REnd \/ RClose \/ RWait
  BY <1>4 DEF RBroken, REnd, RClose, RWait
<1>5. CASE RTest
  BY <1>5 DEF RTest
<1>6. CASE RToken
  BY <1>6 DEF RToken
<1> QED
  BY <1>1, <1>2, <1>3, <1>4, <1>5, <1>6, <1>7 DEF Reader

\* A step of the writer does the same the other way round.
LEMMA WriterTokens == RInv /\ TokensBalanced /\ Writer => TokensBalanced'
<1> SUFFICES ASSUME RInv, TokensBalanced, Writer PROVE TokensBalanced'
  OBVIOUS
<1> USE DEF RInv, RTypeOK, TokensBalanced, One, WGone, RPlaces, WPlaces, shared,
        pipes, rvars, wvars
<1>1. CASE WLoop \/ WEor \/ WGet \/ WWrite \/ WDrop \/ WCount
  BY <1>1 DEF WLoop, WEor, WGet, WWrite, WDrop, WCount
<1>2. CASE WEmpty \/ WFlag
  BY <1>2 DEF WEmpty, WFlag
<1>3. CASE WWake
  BY <1>3 DEF WWake
<1>4. CASE WBroken
  BY <1>4 DEF WBroken, RClosed, RGone
<1>5. CASE WTest
  BY <1>5 DEF WTest
<1>6. CASE WToken
  BY <1>6, InterruptedType DEF WToken, RClosed, RGone
<1> QED
  BY <1>1, <1>2, <1>3, <1>4, <1>5, <1>6 DEF Writer

\* Errors and signals take a process away from its place, never add a byte.
LEMMA EventTokens == RInv /\ TokensBalanced /\ Event => TokensBalanced'
<1> SUFFICES ASSUME RInv, TokensBalanced, Event PROVE TokensBalanced'
  OBVIOUS
<1> USE DEF RInv, RTypeOK, TokensBalanced, One, WGone, RPlaces, WPlaces, shared,
        pipes, rvars, wvars
<1>1. CASE RLeadOut \/ RError
  BY <1>1 DEF RLeadOut, RError
<1>2. CASE RInterrupt
  BY <1>2, InterruptedType DEF RInterrupt, RGone
<1>3. CASE WError
  BY <1>3, InterruptedType DEF WError
<1>4. CASE WInterrupt
  BY <1>4 DEF WInterrupt
<1> QED
  BY <1>1, <1>2, <1>3, <1>4 DEF Event

\* A stuttering step changes no token.
LEMMA StutterTokens == TokensBalanced /\ UNCHANGED vars => TokensBalanced'
  BY DEF TokensBalanced, One, WGone, vars, shared, pipes, rvars, wvars

\* No byte in a pipe outlives the wait it was written for: a process blocks
\* with exactly one of its flag, a byte on its way and a byte in the pipe, and
\* goes on with none of them.  A wake-up can therefore be too early only by
\* the release that was under way when the process began to wait.
THEOREM TokensCorrect == Spec => []TokensBalanced
<1>1. RInv /\ [Next]_vars => RInv'
  BY ReaderInv, WriterInv, EventInv, StutterInv DEF Next
<1>2. RInv /\ TokensBalanced /\ [Next]_vars => TokensBalanced'
  BY ReaderTokens, WriterTokens, EventTokens, StutterTokens DEF Next
<1> QED
  BY InitInv, InitTokens, <1>1, <1>2, PTL DEF Spec

-----------------------------------------------------------------------------
(* Order                                                                   *)

\* Segments begun by occupy_buffer() and segments last_buffer has passed.
Occupied == segsRead + One(rpc \in {"fill", "patch", "define", "count"})
Dropped == segsWritten + One(wpc = "count")

\* The ring counted on from a slot, less than once round either way.
Wrap(x) == IF x < 0 THEN x + NBuf ELSE IF x >= NBuf THEN x - NBuf ELSE x

\* Where the reader is, counted from where the writer is.
Front ==
    /\ rpc \in RPlaces /\ wpc \in WPlaces =>
           /\ last # NoSlot => Occupied > 0
           /\ heFill = IF Occupied = 0 THEN NoSlot
                       ELSE IF last = NoSlot THEN 0
                       ELSE Wrap(last + (Occupied - Dropped - 1))
    /\ last = NoSlot => segsRead = 0

\* The slots between hold the defined segments, in order.
Contents ==
    /\ wpc \in WPlaces => \A i \in 0 .. segsRead - Dropped - 1 :
                              ring[Wrap(last + i)] = Dropped + 1 + i
    /\ rpc \in {"patch", "define", "count"} => ring[heFill] = segsRead + 1

\* What a process has found is still there when it uses it.
Found ==
    /\ rpc \in {"fill", "patch", "define"} => ~Full
    /\ wpc \in {"write", "drop"} => ~Empty /\ wslot = last
    /\ rpc # "aborted" /\ wpc # "aborted"

\* The file is as long as the work done.
Saved ==
    /\ Len(out) = nDone
    /\ \A k \in 1 .. nDone : out[k] = k
    /\ wpc \in WPlaces /\ nDone < todo =>
           nDone = segsWritten + One(wpc \in {"drop", "count"})

\* What is left to read has not been taken off nSamplesToDo.
Ahead ==
    /\ rpc = "patch" => iloop > 0
    /\ rpc \in RPlaces /\ iloop > 0 =>
           segsRead + iloop + One(rpc \in {"define", "count"}) <= todo

OInv == Ahead /\ (premature \/ (Front /\ Contents /\ Found /\ Saved))

\* Counting on along the ring.
LEMMA WrapFacts ==
    ASSUME NEW l \in Slots
    PROVE  /\ Wrap(l) = l
           /\ \A i \in -1 .. NBuf : Wrap(l + i) \in Slots
           /\ \A i \in -1 .. NBuf - 1 : /\ Inc(Wrap(l + i)) = Wrap(l + (i + 1))
                                        /\ Wrap(Inc(l) + i) = Wrap(l + (i + 1))
           /\ \A i, j \in 0 .. NBuf - 1 : i # j => Wrap(l + i) # Wrap(l + j)
  BY NBufAssumption DEF Wrap, Inc, Slots

\* The ring starts empty, with both processes at its first slot.
LEMMA InitOrder == Init => OInv
  BY TotalsAssumption
  DEF Init, OInv, Ahead, Front, Contents, Found, Saved, Occupied, Dropped, One,
      Empty, RPlaces, WPlaces, NoSlot

\* do_read() takes from iloop what define_buffer() adds to the counter.
LEMMA AheadStep == RInv /\ Ahead /\ [Next]_vars => Ahead'
<1> SUFFICES ASSUME RInv, Ahead, [Next]_vars PROVE Ahead'
  OBVIOUS
<1> USE DEF RInv, RTypeOK, Places, Ahead, One, RPlaces, WPlaces, shared, pipes, rvars,
        wvars
<1>1. CASE Reader
<2>1. CASE RGet \/ RFull \/ RFlag \/ RWake \/ RBroken
  BY <2>1 DEF RGet, RFull, RFlag, RWake, RBroken
<2>2. CASE RRead \/ RPatch
  BY <2>2 DEF RRead, RPatch
<2>3. CASE RDefine
  BY <2>3 DEF RDefine
<2>5. CASE RCount
  BY <2>5 DEF RCount
<2>6. CASE RTest \/ RToken
  BY <2>6 DEF RTest, RToken
<2>4. CASE REnd \/ RClose \/ RWait
  BY <2>4 DEF REnd, RClose, RWait
<2> QED
  BY <1>1, <2>1, <2>2, <2>3, <2>4, <2>5, <2>6 DEF Reader
<1>2. CASE Writer
<2>1. CASE WLoop \/ WEor \/ WGet \/ WEmpty \/ WFlag \/ WWake \/ WBroken
  BY <2>1 DEF WLoop, WEor, WGet, WEmpty, WFlag, WWake, WBroken
<2>2. CASE WWrite \/ WDrop \/ WCount \/ WTest
  BY <2>2 DEF WWrite, WDrop, WCount, WTest
<2>3. CASE WToken
  BY <2>3, InterruptedType DEF WToken
<2> QED
  BY <1>2, <2>1, <2>2, <2>3 DEF Writer
<1>3. CASE Event
<2>1. CASE RLeadOut \/ RError \/ WInterrupt
  BY <2>1 DEF RLeadOut, RError, WInterrupt
<2>2. CASE RInterrupt \/ WError
  BY <2>2, InterruptedType DEF RInterrupt, WError
<2> QED
  BY <1>3, <2>1, <2>2 DEF Event
<1>4. CASE UNCHANGED vars
  BY <1>4 DEF vars
<1> QED
  BY <1>1, <1>2, <1>3, <1>4 DEF Next

Order == Front /\ Contents /\ Found /\ Saved

\* How far the reader is ahead of the writer, in slots.
LEMMA Distance ==
    ASSUME RInv, Found
    PROVE  /\ Occupied \in Nat /\ Dropped \in Nat
           /\ wpc \in WPlaces => segsRead - Dropped \in 0 .. NBuf
           /\ rpc \in {"fill", "patch", "define", "count"} => Occupied = segsRead + 1
           /\ rpc \notin {"fill", "patch", "define", "count"} => Occupied = segsRead
           /\ rpc \in {"fill", "patch", "define", "count"} =>
                  segsRead - Dropped <= NBuf - 1
  BY NBufAssumption
  DEF RInv, RTypeOK, Places, Found, Occupied, Dropped, One, Full, Empty, Defined,
      RPlaces, WPlaces

\* The reader takes the slot in front of it.
LEMMA OccupyOrder ==
    ASSUME RInv, Front, Found, wpc \in WPlaces, rpc \in {"next", "block"}, ~Full,
           OccupyBuffer
    PROVE  heFill' = IF last = NoSlot THEN 0
                     ELSE Wrap(last + (Occupied + 1 - Dropped - 1))
<1>1. CASE last = NoSlot
<2>1. Occupied = 0
  BY <1>1, Distance DEF Front
<2> QED
  BY <1>1, <2>1 DEF Front, OccupyBuffer, RPlaces
<1>2. CASE last # NoSlot
<2> DEFINE i == Occupied - Dropped - 1
<2>1. last \in Slots
  BY <1>2 DEF RInv, RTypeOK
<2>2. i \in -1 .. NBuf - 1 /\ i + 1 = Occupied + 1 - Dropped - 1
  BY Distance, NBufAssumption DEF Full, Defined, Dropped, One, RInv, RTypeOK
<2>3. heFill = Wrap(last + i)
  BY <1>2 DEF Front, RPlaces
<2> HIDE DEF i
<2>4. Wrap(last + i) \in Slots /\ Inc(Wrap(last + i)) = Wrap(last + (i + 1))
  BY <2>1, <2>2, WrapFacts, NBufAssumption
<2>5. heFill # NoSlot
  BY <2>3, <2>4 DEF Slots, NoSlot
<2> QED
  BY <1>2, <2>2, <2>3, <2>4, <2>5 DEF OccupyBuffer
<1> QED
  BY <1>1, <1>2

\* The reader fills the slot it has occupied, and no defined one.
LEMMA FillOrder ==
    ASSUME RInv, Front, Contents, Found, rpc = "fill",
           ring' = [ring EXCEPT ![heFill] = segsRead + 1], rpc' \in {"patch", "define"},
           UNCHANGED <<heFill, last, segsRead, segsWritten, wpc, wslot>>
    PROVE  Front' /\ Contents'
<1>1. Occupied' = Occupied /\ Dropped' = Dropped
  BY DEF Occupied, Dropped, One
<1>2. Front'
  BY <1>1 DEF Front, RPlaces
<1>3. ring'[heFill] = segsRead + 1
  BY DEF RInv, RTypeOK, Places
<1>4. ASSUME wpc \in WPlaces, NEW i \in 0 .. segsRead - Dropped - 1
      PROVE  ring'[Wrap(last + i)] = Dropped + 1 + i
<2>1. /\ Occupied = segsRead + 1 /\ segsRead \in Nat /\ Dropped \in Nat
      /\ segsRead - Dropped \in 0 .. NBuf - 1
  BY <1>4, Distance, NBufAssumption DEF RInv, RTypeOK
<2>7. last \in Slots
  BY <1>4, <2>1 DEF RInv, FirstDefined
<2> DEFINE d == Occupied - Dropped - 1
<2>2. d \in 0 .. NBuf - 1 /\ i \in 0 .. NBuf - 1 /\ i # d
  BY <1>4, <2>1, NBufAssumption
<2>8. last # NoSlot /\ Occupied # 0
  BY <2>1, <2>7 DEF Slots, NoSlot
<2>3. heFill = Wrap(last + d)
  BY <1>4, <2>8 DEF Front, RPlaces
<2> HIDE DEF d
<2>4. Wrap(last + i) # heFill
  BY <2>7, <2>2, <2>3, WrapFacts
<2>5. Wrap(last + i) \in Slots
  BY <2>7, <2>2, WrapFacts, NBufAssumption
<2>6. ring[Wrap(last + i)] = Dropped + 1 + i
  BY <1>4 DEF Contents
<2> QED
  BY <2>4, <2>5, <2>6 DEF RInv, RTypeOK
<1> QED
  BY <1>1, <1>2, <1>3, <1>4 DEF Contents

\* The segment defined next is the one in front of those there are.
LEMMA CountOrder ==
    ASSUME RInv, Front, Contents, Found, RCount
    PROVE  Front' /\ Contents'
<1> USE DEF RCount, wvars
<1>1. Occupied' = Occupied /\ Dropped' = Dropped /\ Occupied = segsRead + 1
  BY Distance DEF Occupied, Dropped, One, RInv, RTypeOK
<1>2. last \in Slots
  BY DEF RInv, Places
<1>3. Front'
  BY <1>1, <1>2 DEF Front, RPlaces, Slots, NoSlot
<1>4. ASSUME wpc \in WPlaces, NEW i \in 0 .. segsRead' - Dropped - 1
      PROVE  ring[Wrap(last + i)] = Dropped + 1 + i
<2>1. CASE i = segsRead - Dropped
<3>1. i = Occupied - Dropped - 1
  BY <1>1, <2>1, Distance DEF RInv, RTypeOK
<3>2. heFill = Wrap(last + i)
  BY <1>1, <1>2, <1>4, <3>1 DEF Front, RPlaces, Slots, NoSlot, RInv, RTypeOK
<3>3. ring[heFill] = segsRead + 1
  BY DEF Contents
<3> QED
  BY <2>1, <3>2, <3>3, Distance DEF RInv, RTypeOK
<2>2. CASE i # segsRead - Dropped
<3>1. i \in 0 .. segsRead - Dropped - 1
  BY <1>4, <2>2, Distance DEF RInv, RTypeOK
<3> QED
  BY <1>4, <3>1 DEF Contents
<2> QED
  BY <2>1, <2>2
<1> QED
  BY <1>1, <1>3, <1>4 DEF Contents

\* The steps of the reader keep the order.
LEMMA ReaderOrder ==
    ASSUME RInv, RInv', Ahead, Order, ~premature', Reader
    PROVE  Order'
<1> USE DEF Order, shared, pipes, rvars, wvars
<1>1. Saved'
<2>1. CASE RPatch
  BY <2>1 DEF RPatch, Saved, Ahead, RInv, RTypeOK, One
<2>2. CASE ~RPatch
<3>1. UNCHANGED <<out, nDone, todo, segsWritten, wpc>>
  BY <2>2 DEF Reader, RGet, RFull, RFlag, RWake, RBroken, RRead, RDefine, RCount,
              RTest, RToken, REnd, RClose, RWait
<3> QED
  BY <3>1 DEF Saved
<2> QED
  BY <2>1, <2>2
<1>2. CASE RGet \/ RWake
<2>1. /\ OccupyBuffer /\ ~Full /\ rpc \in {"next", "block"} /\ rpc' = "fill"
      /\ UNCHANGED <<last, segsRead, segsWritten, ring, wpc, wslot>>
  BY <1>2 DEF RGet, RWake
<2>2. Occupied' = Occupied + 1 /\ Dropped' = Dropped
  BY <2>1 DEF Occupied, Dropped, One, RInv, RTypeOK
<2>3. Front'
  BY <2>1, <2>2, OccupyOrder, Distance DEF Front
<2>4. Contents' /\ Found'
  BY <2>1, <2>2 DEF Contents, Found, Full, Defined, Empty
<2> QED
  BY <1>1, <2>3, <2>4
<1>3. CASE RRead
<2>1. Front' /\ Contents'
  BY <1>3, FillOrder DEF RRead
<2>2. Found'
  BY <1>3 DEF RRead, Found, Full, Defined, Empty
<2> QED
  BY <1>1, <2>1, <2>2
<1>4. CASE RPatch \/ (RDefine /\ last # NoSlot)
<2>1. /\ ~Full /\ rpc \in {"patch", "define"} /\ rpc' \in {"define", "count"}
      /\ UNCHANGED <<heFill, last, segsRead, segsWritten, ring, wpc, wslot>>
  BY <1>4 DEF RPatch, RDefine, Found
<2>2. Occupied' = Occupied /\ Dropped' = Dropped
  BY <2>1 DEF Occupied, Dropped, One
<2> QED
  BY <1>1, <2>1, <2>2 DEF Front, Contents, Found, Full, Defined, Empty, RPlaces
<1>5. CASE RDefine /\ last = NoSlot
<2>1. /\ ~Full /\ rpc = "define" /\ rpc' = "count" /\ last' = heFill
      /\ UNCHANGED <<heFill, segsRead, segsWritten, ring, wpc, wslot>>
  BY <1>5 DEF RDefine, Found
<2>2. segsRead = 0 /\ segsWritten = 0 /\ Empty /\ heFill \in Slots
  BY <1>5, <2>1 DEF Front, RInv, RTypeOK, Places, Defined, Empty
<2>3. wpc \in WPlaces => Occupied = 1 /\ Occupied' = 1 /\ Dropped = 0 /\ Dropped' = 0
  BY <2>1, <2>2 DEF Occupied, Dropped, One, RInv, Places, Empty
<2>4. Front'
  BY <2>1, <2>2, <2>3, WrapFacts DEF Front, RPlaces, Slots, NoSlot
<2>5. Contents' /\ Found'
  BY <2>1, <2>2, <2>3 DEF Contents, Found, Full, Defined, Empty
<2> QED
  BY <1>1, <2>4, <2>5
<1>6. CASE RCount
<2>1. Front' /\ Contents'
  BY <1>6, CountOrder
<2>2. Found'
  BY <1>6 DEF RCount, Found, Full, Defined, Empty, RInv, RTypeOK
<2> QED
  BY <1>1, <2>1, <2>2
<1>7. CASE RFull \/ RFlag \/ RTest \/ RToken \/ RBroken \/ REnd \/ RClose \/ RWait
<2>1. /\ rpc \in {"next", "flag", "test", "token", "block", "close", "wait"}
      /\ rpc' \in {"next", "flag", "block", "token", "close", "wait", "gone"}
      /\ rpc' \in RPlaces => rpc \in RPlaces
      /\ UNCHANGED <<heFill, last, segsRead, segsWritten, ring, wpc, wslot>>
  BY <1>7 DEF RFull, RFlag, RTest, RToken, RBroken, REnd, RClose, RWait, RPlaces
<2>2. Occupied' = Occupied /\ Dropped' = Dropped
  BY <2>1 DEF Occupied, Dropped, One
<2> QED
  BY <1>1, <2>1, <2>2 DEF Front, Contents, Found, Full, Defined, Empty
<1> QED
  BY <1>2, <1>3, <1>4, <1>5, <1>6, <1>7 DEF Reader

\* The writer drops the slot it has saved: the ring is counted from the next.
LEMMA DropOrder ==
    ASSUME RInv, Front, Contents, Found, WDrop
    PROVE  Front' /\ Contents'
<1> USE DEF WDrop, rvars, pipes
<1>1. ~Empty /\ last \in Slots /\ last' = Inc(last)
  BY DEF Found, Empty, RInv, RTypeOK, Defined, FirstDefined
<1>2. Dropped = segsWritten /\ Dropped' = segsWritten + 1 /\ Occupied' = Occupied
  BY <1>1 DEF Dropped, Occupied, One, RInv, RTypeOK
<1>3. last' \in Slots /\ last' # NoSlot /\ last # NoSlot
  BY <1>1, IncType DEF Slots, NoSlot
<1>4. segsRead - segsWritten \in 1 .. NBuf /\ wpc \in WPlaces
  BY <1>1 DEF Empty, RInv, RTypeOK, Defined, WPlaces
<1>5. ASSUME rpc \in RPlaces
      PROVE  heFill = Wrap(last' + (Occupied - Dropped' - 1))
<2> DEFINE i == Occupied - Dropped' - 1
<2>1. i \in -1 .. NBuf - 1 /\ i + 1 = Occupied - Dropped - 1
  BY <1>2, <1>4, Distance, NBufAssumption DEF RInv, RTypeOK
<2>2. Occupied # 0
  BY <1>2, <1>4, Distance DEF RInv, RTypeOK
<2>3. heFill = Wrap(last + (i + 1))
  BY <1>3, <1>4, <1>5, <2>1, <2>2 DEF Front
<2> HIDE DEF i
<2>4. Wrap(Inc(last) + i) = Wrap(last + (i + 1))
  BY <1>1, <2>1, WrapFacts
<2> QED
  BY <1>1, <2>3, <2>4 DEF i
<1>6. ASSUME NEW i \in 0 .. segsRead - Dropped' - 1
      PROVE  ring[Wrap(last' + i)] = Dropped' + 1 + i
<2>1. i + 1 \in 0 .. segsRead - Dropped - 1 /\ i \in -1 .. NBuf - 1
  BY <1>2, <1>4, NBufAssumption DEF RInv, RTypeOK
<2>2. ring[Wrap(last + (i + 1))] = Dropped + 1 + (i + 1)
  BY <1>4, <2>1 DEF Contents
<2>3. Wrap(Inc(last) + i) = Wrap(last + (i + 1))
  BY <1>1, <2>1, WrapFacts
<2> QED
  BY <1>1, <1>2, <2>2, <2>3 DEF RInv, RTypeOK
<1>7. Front'
  BY <1>2, <1>3, <1>4, <1>5, Distance DEF Front, RInv, RTypeOK
<1>8. Contents'
  BY <1>6 DEF Contents
<1> QED
  BY <1>7, <1>8

\* The writer saves the segment that comes next in the file.
LEMMA SaveOrder ==
    ASSUME RInv, Contents, Found, Saved, WWrite
    PROVE  Saved'
<1> USE DEF WWrite, rvars, pipes, shared
<1>1. ~Empty /\ last \in Slots /\ wslot = last
  BY DEF Found, Empty, RInv, RTypeOK, Defined, FirstDefined
<1>2. CASE nDone < todo
<2>1. nDone = segsWritten /\ Dropped = segsWritten
  BY <1>2 DEF Saved, WPlaces, One, Dropped, RInv, RTypeOK
<2>2. 0 \in 0 .. segsRead - Dropped - 1
  BY <1>1, <2>1 DEF Empty, RInv, RTypeOK, Defined
<2>3. ring[Wrap(last + 0)] = Dropped + 1 + 0
  BY <2>2 DEF Contents, WPlaces
<2>9. last + 0 = last /\ Wrap(last) = last /\ Dropped + 1 + 0 = nDone + 1
  BY <1>1, <2>1, WrapFacts, NBufAssumption DEF RInv, RTypeOK, Slots
<2>4. ring[wslot] = nDone + 1
  BY <1>1, <2>3, <2>9
<2>5. out \in Seq(Nat) /\ nDone + 1 \in Nat
  BY DEF RInv, RTypeOK
<2>6. out' = Append(out, nDone + 1) /\ nDone' = nDone + 1
  BY <1>2, <2>4
<2>7. /\ Len(out') = nDone'
      /\ \A k \in 1 .. nDone' : out'[k] = k
  BY <2>5, <2>6, AppendProperties DEF Saved, RInv, RTypeOK
<2>8. nDone' = segsWritten' + One((wpc \in {"drop", "count"})')
  BY <2>1, <2>6 DEF One
<2> QED
  BY <2>7, <2>8 DEF Saved
<1>3. CASE ~(nDone < todo)
  BY <1>3 DEF Saved, RInv, RTypeOK
<1> QED
  BY <1>2, <1>3

\* The steps of the writer keep the order.
LEMMA WriterOrder ==
    ASSUME RInv, RInv', Ahead, Order, ~premature', Writer
    PROVE  Order'
<1> USE DEF Order, shared, pipes, rvars, wvars
<1>1. CASE WWrite
<2>1. Saved'
  BY <1>1, SaveOrder
<2>2. /\ wpc = "write" /\ wpc' = "drop" /\ UNCHANGED <<shared, rvars, wslot>>
  BY <1>1 DEF WWrite
<2>3. Occupied' = Occupied /\ Dropped' = Dropped
  BY <2>2 DEF Occupied, Dropped, One
<2>4. Front' /\ Contents' /\ Found'
  BY <2>2, <2>3 DEF Front, Contents, Found, Full, Defined, Empty, WPlaces
<2> QED
  BY <2>1, <2>4
<1>2. CASE WDrop
<2>1. Front' /\ Contents'
  BY <1>2, DropOrder
<2>2. Found' /\ Saved'
  BY <1>2 DEF WDrop, Found, Saved, Full, Defined, Empty, One, WPlaces
<2> QED
  BY <2>1, <2>2
<1>3. CASE WCount
<2>1. Occupied' = Occupied /\ Dropped' = Dropped
  BY <1>3 DEF WCount, Occupied, Dropped, One, RInv, RTypeOK
<2>2. Front' /\ Contents'
  BY <1>3, <2>1 DEF WCount, Front, Contents, WPlaces
<2>3. Found'
  BY <1>3, NBufAssumption DEF WCount, Found, Full, Defined, Empty, RInv, RTypeOK
<2>4. Saved'
  BY <1>3 DEF WCount, Saved, One, WPlaces, RInv, RTypeOK
<2> QED
  BY <2>2, <2>3, <2>4
<1>4. CASE WGet \/ WWake
<2>1. /\ ~Empty /\ wslot' = last /\ wpc \in {"request", "block"} /\ wpc' = "write"
      /\ UNCHANGED <<shared, rvars, nDone, out>>
  BY <1>4 DEF WGet, WWake
<2>2. Occupied' = Occupied /\ Dropped' = Dropped
  BY <2>1 DEF Occupied, Dropped, One
<2> QED
  BY <2>1, <2>2 DEF Front, Contents, Found, Saved, Full, Defined, Empty, One,
                    WPlaces
<1>5. CASE WLoop \/ WEor \/ WEmpty \/ WFlag \/ WBroken \/ WTest
<2>1. /\ wpc \in {"loop", "eor", "request", "flag", "block", "test"}
      /\ wpc' \in {"loop", "eor", "request", "flag", "block", "token", "gone"}
      /\ UNCHANGED <<heFill, last, segsRead, segsWritten, todo, ring, rvars, wslot,
                     nDone, out>>
  BY <1>5 DEF WLoop, WEor, WEmpty, WFlag, WBroken, WTest
<2>2. Occupied' = Occupied /\ Dropped' = Dropped
  BY <2>1 DEF Occupied, Dropped, One
<2> QED
  BY <2>1, <2>2 DEF Front, Contents, Found, Saved, Full, Defined, Empty, One,
                    WPlaces
<1>6. CASE WToken
<2>1. /\ wpc = "token" /\ wpc' \in {"loop", "gone"}
      /\ rpc' = rpc \/ rpc' \in {"close", "gone"} \/ (rpc' = "aborted" /\ rpc = "aborted")
      /\ UNCHANGED <<shared, wslot, nDone, out>>
  BY <1>6, InterruptedType DEF WToken
<2>2. Dropped' = Dropped /\ (rpc' = rpc => Occupied' = Occupied)
  BY <2>1 DEF Occupied, Dropped, One
<2> QED
  BY <2>1, <2>2 DEF Front, Contents, Found, Saved, Full, Defined, Empty, One,
                    WPlaces, RPlaces
<1> QED
  BY <1>1, <1>2, <1>3, <1>4, <1>5, <1>6 DEF Writer

\* Errors and signals take a process from its place and leave the ring alone.
LEMMA EventOrder ==
    ASSUME RInv, RInv', Ahead, Order, ~premature', Event
    PROVE  Order'
<1> USE DEF Order, shared, pipes, rvars, wvars
<1>1. CASE RLeadOut
<2>1. Front' /\ Contents'
  BY <1>1, FillOrder DEF RLeadOut
<2>2. Found' /\ Saved'
  BY <1>1 DEF RLeadOut, Found, Saved, Full, Defined, Empty
<2> QED
  BY <2>1, <2>2
<1>2. CASE RError \/ RInterrupt
<2>1. /\ rpc' \in {"close", "gone"}
      /\ UNCHANGED <<shared, wvars>>
  BY <1>2, InterruptedType DEF RError, RInterrupt, RGone
<2>2. Dropped' = Dropped
  BY <2>1 DEF Dropped
<2> QED
  BY <2>1, <2>2 DEF Front, Contents, Found, Saved, Full, Defined, Empty, RPlaces
<1>3. CASE WError \/ WInterrupt
<2>1. /\ wpc' = "gone"
      /\ rpc' = rpc \/ rpc' \in {"close", "gone"} \/ (rpc' = "aborted" /\ rpc = "aborted")
      /\ UNCHANGED <<shared, wslot, nDone, out>>
  BY <1>3, InterruptedType DEF WError, WInterrupt
<2> QED
  BY <2>1 DEF Front, Contents, Found, Saved, Full, Defined, Empty, RPlaces, WPlaces
<1> QED
  BY <1>1, <1>2, <1>3 DEF Event

\* Unless a process was woken up too early, the file is the beginning of the
\* recording, the reader never fills the segment the writer is saving, and no
\* assertion of ringbuff.c fails.
THEOREM OrderCorrect == Spec => []OrderUnlessPremature
<1>1. RInv /\ [Next]_vars => RInv'
  BY ReaderInv, WriterInv, EventInv, StutterInv DEF Next
<1>2. RInv /\ Ahead /\ [Next]_vars => Ahead'
  BY AheadStep
<1>3. ASSUME RInv, RInv', OInv, [Next]_vars PROVE OInv'
<2>1. CASE premature'
  BY <1>2, <1>3, <2>1 DEF OInv
<2>2. CASE ~premature'
<3>1. ~premature
  BY <1>3, <2>2 DEF Next, Reader, Writer, Event, RGet, RFull, RFlag, RWake, RBroken,
       RRead, RPatch, RDefine, RCount, RTest, RToken, REnd, RClose, RWait, WLoop,
       WEor, WGet, WEmpty, WFlag, WWake, WBroken, WWrite, WDrop, WCount, WTest,
       WToken, RLeadOut, RError, RInterrupt, WError, WInterrupt, vars
<3>2. Order
  BY <1>3, <3>1 DEF OInv, Order
<3>3. Ahead
  BY <1>3 DEF OInv
<3>4. ASSUME UNCHANGED vars PROVE Order'
<4>1. Occupied' = Occupied /\ Dropped' = Dropped
  BY <3>4 DEF Occupied, Dropped, One, vars, shared, rvars, wvars
<4>2. Full' = Full /\ Empty' = Empty
  BY <3>4 DEF Full, Defined, Empty, vars, shared
<4> QED
  BY <3>2, <3>4, <4>1, <4>2 DEF Order, Front, Contents, Found, Saved, One, vars,
       shared, rvars, wvars
<3>5. Order'
  BY <1>3, <2>2, <3>2, <3>3, <3>4, ReaderOrder, WriterOrder, EventOrder DEF Next
<3> QED
  BY <1>2, <1>3, <3>3, <3>5 DEF OInv, Order
<2> QED
  BY <2>1, <2>2
<1>4. ASSUME RInv, OInv, ~premature PROVE OrderUnlessPremature
<2>1. Order
  BY <1>4 DEF OInv, Order
<2>2. \A k \in DOMAIN out : out[k] = k
  BY <1>4, <2>1 DEF Order, Saved, RInv, RTypeOK
<2>3. ASSUME rpc \in {"fill", "patch", "define"}, wpc = "write" PROVE wslot # heFill
<3> DEFINE d == Occupied - Dropped - 1
<3>1. Found /\ Front
  BY <2>1 DEF Order
<3>2. wslot = last /\ last \in Slots /\ segsRead - Dropped \in 1 .. NBuf - 1
  BY <1>4, <2>3, <3>1, Distance
  DEF Found, Empty, Dropped, One, RInv, RTypeOK, Defined, FirstDefined
<3>3. d \in 0 .. NBuf - 1 /\ d # 0 /\ 0 \in 0 .. NBuf - 1
  BY <1>4, <2>3, <3>1, <3>2, Distance, NBufAssumption DEF RInv, RTypeOK
<3>4. heFill = Wrap(last + d)
  BY <1>4, <2>3, <3>1, <3>2, Distance
  DEF Front, RPlaces, WPlaces, Slots, NoSlot, RInv, RTypeOK
<3> HIDE DEF d
<3>5. Wrap(last + d) # Wrap(last + 0)
  BY <3>2, <3>3, WrapFacts
<3>6. last + 0 = last /\ Wrap(last) = last
  BY <3>2, WrapFacts, NBufAssumption DEF Slots
<3> QED
  BY <3>2, <3>4, <3>5, <3>6
<2> QED
  BY <2>1, <2>2, <2>3 DEF OrderUnlessPremature, Order, Found
<1>5. RInv /\ OInv => OrderUnlessPremature
  BY <1>4 DEF OrderUnlessPremature
<1> QED
  BY InitInv, InitOrder, <1>1, <1>3, <1>5, PTL DEF Spec
=============================================================================
