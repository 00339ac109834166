----------------------------- MODULE FifoProofs -----------------------------
(***************************************************************************)
(* Proofs about Fifo, for every number of slots, every list of tracks and  *)
(* every set of faults: who may use a slot, what a wait means, and in the  *)
(* second part that the order of the input is kept.                        *)
(***************************************************************************)
EXTENDS Fifo, SeqLemmas, TLAPS

-----------------------------------------------------------------------------
(* Lemmas about the operators of TrackData and Fifo                        *)

\* What the later proofs use of a track record.
LEMMA TrackFields ==
    ASSUME NEW tr \in Track
    PROVE  /\ tr.fd \in Nat /\ tr.size \in Int /\ tr.avail \in Nat
           /\ tr.err \in BOOLEAN /\ tr.sec \in Nat \ {0} /\ tr.bpt \in Nat \ {0}
  BY DEF Track

\* fill_buf() returns a count or -1.
LEMMA FillBufType ==
    ASSUME NEW tr \in Track, NEW pos \in Int, NEW cap \in Int
    PROVE  /\ BytesToRead(tr, pos, cap) \in Int
           /\ FillBuf(tr, pos, BytesToRead(tr, pos, cap)) \in Int
  BY TrackFields DEF BytesToRead, FillBuf

\* The size of the last transfer of a track, in whole sectors.
LEMMA ClipType ==
    ASSUME NEW tr \in Track, NEW count \in Int, NEW end \in Int
    PROVE  /\ Clip(tr, count, end) \in Int
           /\ RoundUp(tr, Clip(tr, count, end)) \in Int
  BY TrackFields DEF Clip, RoundUp

\* A run of named bytes.
LEMMA ChunkType ==
    ASSUME NEW t \in Nat, NEW off \in Nat, NEW n \in Int
    PROVE  Chunk(t, off, n) \in Seq(Nat \X Nat)
  <1>1. \A k \in 1 .. n : <<t, off + k - 1>> \in Nat \X Nat
    OBVIOUS
  <1>2. CASE n \in Nat
    BY <1>1, <1>2 DEF Chunk
  <1>3. CASE n \notin Nat
    <2>1. 1 .. n = 1 .. 0
      BY <1>3
    <2> QED  BY <2>1 DEF Chunk
  <1> QED  BY <1>2, <1>3

\* The next slot is a slot.
LEMMA Next1Type == \A i \in Slots : Next1(i) \in Slots
  BY NBufAssumption DEF Slots, Next1

-----------------------------------------------------------------------------
(* Type correctness                                                        *)

\* A track of a job has the fields a track has.
LEMMA JobTracks ==
    ASSUME trackp \in Jobs
    PROVE  /\ NTracks \in Nat \ {0}
           /\ \A t \in 1 .. NTracks : trackp[t] \in Track
  BY JobsAssumption DEF NTracks

\* Both processes start at the first track with all slots free.
LEMMA InitType == Init => TypeOK
  <1> SUFFICES ASSUME Init PROVE TypeOK
    OBVIOUS
  <1>1. trackp \in Jobs /\ NTracks \in Nat \ {0}
    BY JobTracks DEF Init
  <1>2. 0 \in Slots
    BY NBufAssumption DEF Slots, MinBuffers
  <1>3. SlotsOK /\ StatsOK
    BY DEF Init, SlotsOK, StatsOK, Owners
  <1>4. ReaderOK
    BY <1>1, <1>2 DEF Init, ReaderOK, RPcs
  <1>5. BurnerOK
    BY <1>1, <1>2, NBufAssumption DEF Init, BurnerOK, PPcs, Endings
  <1> QED  BY <1>1, <1>3, <1>4, <1>5 DEF TypeOK

\* A part of the state that a step leaves alone keeps its type.
LEMMA TypeFrame ==
    /\ UNCHANGED slotvars /\ SlotsOK => SlotsOK'
    /\ UNCHANGED statvars /\ StatsOK => StatsOK'
    /\ UNCHANGED <<tvars, rvars>> /\ ReaderOK => ReaderOK'
    /\ UNCHANGED <<tvars, pvars>> /\ BurnerOK => BurnerOK'
  <1>1. UNCHANGED slotvars /\ SlotsOK => SlotsOK'
    BY DEF slotvars, SlotsOK
  <1>2. UNCHANGED statvars /\ StatsOK => StatsOK'
    BY DEF statvars, StatsOK
  <1>3. UNCHANGED <<tvars, rvars>> /\ ReaderOK => ReaderOK'
    BY DEF tvars, rvars, ReaderOK, NTracks
  <1>4. UNCHANGED <<tvars, pvars>> /\ BurnerOK => BurnerOK'
    BY DEF tvars, pvars, BurnerOK, NTracks
  <1> QED  BY <1>1, <1>2, <1>3, <1>4

\* Every step of the child keeps the types.
LEMMA ReaderType == TypeOK /\ Reader => TypeOK'
  <1> SUFFICES ASSUME TypeOK, Reader PROVE TypeOK'
    OBVIOUS
  <1>a. trackp \in Jobs /\ SlotsOK /\ StatsOK /\ ReaderOK /\ BurnerOK
    BY DEF TypeOK
  <1>b. NTracks \in Nat \ {0} /\ \A t \in 1 .. NTracks : trackp[t] \in Track
    BY <1>a, JobTracks
  <1>c. UNCHANGED <<tvars, pvars>>
    BY DEF Reader, RWait, RSetFd, RFill, RSetLen, RSetOwner, RSetUsers, RPut,
           RDone, RTestGets, RMarkLast
  <1>d. trackp' \in Jobs /\ NTracks' = NTracks /\ BurnerOK'
    BY <1>a, <1>c, TypeFrame DEF tvars, NTracks
  <1>1. CASE RWait
    <2>1. ReaderOK'
      BY <1>1, <1>a, <1>d DEF RWait, ReaderOK, RPcs
    <2> QED  BY <1>1, <1>a, <1>d, <2>1, TypeFrame DEF RWait, TypeOK
  <1>2. CASE RSetFd
    <2>1. RTrack.fd \in Int
      BY <1>2, <1>a, <1>b, TrackFields DEF RSetFd, ReaderOK, RTrack
    <2>2. ReaderOK'
      BY <1>2, <1>a, <1>d DEF RSetFd, ReaderOK, RPcs
    <2>3. SlotsOK'
      BY <1>2, <1>a, <2>1 DEF RSetFd, SlotsOK
    <2> QED  BY <1>2, <1>a, <1>d, <2>2, <2>3, TypeFrame DEF RSetFd, TypeOK
  <1>3. CASE RFill
    <2>1. RTrack \in Track
      BY <1>3, <1>a, <1>b DEF RFill, ReaderOK, RTrack
    <2>2. rlen' \in Int
      BY <1>3, <1>a, <2>1, TrackFields, FillBufType DEF RFill, ReaderOK
    <2>3. <<rtrack, rpos>> \in Nat \X Nat
      BY <1>a, <1>b DEF ReaderOK
    <2>4. ReaderOK'
      BY <1>3, <1>a, <1>d, <2>2 DEF RFill, ReaderOK, RPcs
    <2>5. SlotsOK'
      BY <1>3, <1>a, <2>3 DEF RFill, SlotsOK
    <2> QED  BY <1>3, <1>a, <1>d, <2>4, <2>5, TypeFrame DEF RFill, TypeOK
  <1>4. CASE RSetLen
    <2>1. ReaderOK'
      BY <1>4, <1>a, <1>d DEF RSetLen, ReaderOK, RPcs
    <2>2. SlotsOK'
      BY <1>4, <1>a DEF RSetLen, SlotsOK, ReaderOK
    <2> QED  BY <1>4, <1>a, <1>d, <2>1, <2>2, TypeFrame DEF RSetLen, TypeOK
  <1>5. CASE RSetOwner
    <2>1. ReaderOK'
      BY <1>5, <1>a, <1>d DEF RSetOwner, ReaderOK, RPcs
    <2>2. SlotsOK'
      BY <1>5, <1>a DEF RSetOwner, SlotsOK, Owners
    <2> QED  BY <1>5, <1>a, <1>d, <2>1, <2>2, TypeFrame DEF RSetOwner, TypeOK
  <1>6. CASE RSetUsers
    <2>1. ReaderOK'
      BY <1>6, <1>a, <1>d DEF RSetUsers, ReaderOK, RPcs
    <2>2. SlotsOK'
      <3>1. users' \in [Slots -> Int]
        <4>1. users \in [Slots -> Int] /\ 1 \in Int
          BY <1>a DEF SlotsOK
        <4> QED  BY <1>6, <4>1, Zenon DEF RSetUsers
      <3> QED  BY <1>6, <1>a, <3>1 DEF RSetUsers, SlotsOK
    <2> QED  BY <1>6, <1>a, <1>d, <2>1, <2>2, TypeFrame DEF RSetUsers, TypeOK
  <1>7. CASE RPut
    <2>1. bufIdxReader' \in Slots
      BY <1>7, <1>a, Next1Type DEF RPut, ReaderOK
    <2>2. StatsOK'
      BY <1>7, <1>a DEF RPut, StatsOK
    <2>3. rtrack \in 1 .. NTracks
      BY <1>7, <1>a, <1>b DEF RPut, ReaderOK
    <2>4. ReaderOK'
      <3>1. CASE rlen > 0 /\ MoreToRead(RTrack, rpos + rlen)
        BY <1>7, <1>a, <1>b, <1>d, <2>1, <2>3, <3>1 DEF RPut, ReaderOK, RPcs
      <3>2. CASE ~(rlen > 0 /\ MoreToRead(RTrack, rpos + rlen))
        BY <1>7, <1>a, <1>b, <1>d, <2>1, <2>3, <3>2 DEF RPut, ReaderOK, RPcs
      <3> QED  BY <3>1, <3>2
    <2> QED  BY <1>7, <1>a, <1>d, <2>2, <2>4, TypeFrame DEF RPut, TypeOK
  <1>8. CASE RDone
    <2>1. ReaderOK'
      BY <1>8, <1>a, <1>d DEF RDone, ReaderOK, RPcs
    <2>2. StatsOK'
      BY <1>8, <1>a DEF RDone, StatsOK
    <2> QED  BY <1>8, <1>a, <1>d, <2>1, <2>2, TypeFrame DEF RDone, TypeOK
  <1>9. CASE RTestGets
    <2>1. ReaderOK'
      BY <1>9, <1>a, <1>d DEF RTestGets, ReaderOK, RPcs
    <2> QED  BY <1>9, <1>a, <1>d, <2>1, TypeFrame DEF RTestGets, TypeOK
  <1>10. CASE RMarkLast
    <2>1. ReaderOK'
      BY <1>10, <1>a, <1>d DEF RMarkLast, ReaderOK, RPcs
    <2>2. SlotsOK'
      BY <1>10, <1>a DEF RMarkLast, SlotsOK, Owners
    <2> QED  BY <1>10, <1>a, <1>d, <2>1, <2>2, TypeFrame DEF RMarkLast, TypeOK
  <1> QED  BY <1>1, <1>2, <1>3, <1>4, <1>5, <1>6, <1>7, <1>8, <1>9, <1>10
              DEF Reader

\* Every step of the parent keeps the types.
LEMMA BurnerType == TypeOK /\ Burner => TypeOK'
  <1> SUFFICES ASSUME TypeOK, Burner PROVE TypeOK'
    OBVIOUS
  <1> USE DEF tvars, rvars, pvars
  <1>a. /\ trackp \in Jobs /\ SlotsOK /\ StatsOK /\ ReaderOK /\ BurnerOK
        /\ trackp' = trackp
    BY DEF TypeOK, Burner, PAwait, PScan, PStartTrack, PFinish, PRelease, PLow,
           PWait, PTimeout, PCheck, PLoadUsers, PStoreUsers, PSetFaio,
           PUseError, PUseEOF, PWrite, PKillFaio, PWaitFaio
  <1>b. /\ NTracks \in Nat \ {0} /\ NTracks' = NTracks
        /\ \A t \in 1 .. NTracks : trackp[t] \in Track
    BY <1>a, JobTracks DEF NTracks
  <1>c. NBuf \in Nat /\ NBuf >= 3
    BY NBufAssumption DEF MinBuffers
  <1>1. CASE PAwait
    <2>1. BurnerOK'
      BY <1>1, <1>a, <1>b, <1>c DEF PAwait, BurnerOK, PPcs
    <2>2. StatsOK'
      BY <1>1, <1>a, <1>c DEF PAwait, StatsOK
    <2> QED  BY <1>1, <1>a, <2>1, <2>2, TypeFrame DEF PAwait, TypeOK
  <1>2. CASE PScan
    <2> DEFINE premature == fd[scan] # (IF scan = 0 THEN -1 ELSE fd[scan - 1])
                               /\ fd[scan] = STDIN /\ len[scan] = 0
    <2> HIDE DEF premature
    <2>1. IF premature
          THEN /\ rpc' = IF RAlive THEN "killed" ELSE rpc
               /\ ending' = "premature" /\ ppc' = "exit" /\ scan' = scan
          ELSE /\ scan' = scan + 1
               /\ ppc' = IF scan + 1 = NBuf THEN "idle" ELSE "scan"
               /\ rpc' = rpc /\ ending' = ending
      BY <1>2 DEF PScan, premature
    <2>2. ppc = "scan" /\ UNCHANGED <<bufIdx, ptrack, ppos, pcap, plen, pusers,
                                     burned>>
      BY <1>2 DEF PScan
    <2>3. BurnerOK'
      BY <1>a, <1>b, <1>c, <2>1, <2>2 DEF BurnerOK, PPcs, Endings
    <2>4. UNCHANGED <<bufIdxReader, rtrack, rpos, rlen>>
      BY <1>2 DEF PScan
    <2>5. rpc' = rpc \/ rpc' = "killed"
      BY <2>1
    <2>6. ReaderOK'
      BY <1>a, <1>b, <2>4, <2>5 DEF ReaderOK, RPcs
    <2> QED  BY <1>2, <1>a, <2>3, <2>6, TypeFrame DEF PScan, TypeOK
  <1>3. CASE PStartTrack
    <2>1. trackp[ptrack + 1].bpt \in Int
      BY <1>3, <1>a, <1>b, TrackFields DEF PStartTrack, BurnerOK
    <2>2. BurnerOK'
      BY <1>3, <1>a, <1>b, <2>1 DEF PStartTrack, BurnerOK, PPcs
    <2> QED  BY <1>3, <1>a, <2>2, TypeFrame DEF PStartTrack, TypeOK
  <1>4. CASE PFinish
    <2>1. BurnerOK'
      BY <1>4, <1>a, <1>b DEF PFinish, BurnerOK, PPcs, Endings
    <2> QED  BY <1>4, <1>a, <2>1, TypeFrame DEF PFinish, TypeOK
  <1>5. CASE PRelease
    <2>1. bufIdx \in Slots /\ bufIdx' \in Slots
      BY <1>5, <1>a, Next1Type DEF PRelease, BurnerOK
    <2>2. BurnerOK'
      BY <1>5, <1>a, <1>b, <2>1 DEF PRelease, BurnerOK, PPcs
    <2>3. owner' \in [Slots -> Owners]
      BY <1>5, <1>a DEF PRelease, SlotsOK, Owners
    <2>4. SlotsOK'
      BY <1>5, <1>a, <2>3 DEF PRelease, SlotsOK
    <2> QED  BY <1>5, <1>a, <2>2, <2>4, TypeFrame DEF PRelease, TypeOK
  <1>6. CASE PLow
    <2>1. BurnerOK'
      BY <1>6, <1>a, <1>b DEF PLow, BurnerOK, PPcs
    <2>2. StatsOK'
      BY <1>6, <1>a DEF PLow, StatsOK
    <2> QED  BY <1>6, <1>a, <2>1, <2>2, TypeFrame DEF PLow, TypeOK
  <1>7. CASE PWait
    <2>1. BurnerOK'
      BY <1>7, <1>a, <1>b DEF PWait, BurnerOK, PPcs
    <2> QED  BY <1>7, <1>a, <2>1, TypeFrame DEF PWait, TypeOK
  <1>8. CASE PTimeout
    <2>1. BurnerOK'
      BY <1>8, <1>a, <1>b DEF PTimeout, BurnerOK, PPcs, Endings
    <2> QED  BY <1>8, <1>a, <2>1, TypeFrame DEF PTimeout, TypeOK
  <1>9. CASE PCheck
    <2>1. len[bufIdx] \in Int
      BY <1>a DEF SlotsOK, BurnerOK
    <2>2. /\ ppc = "check" /\ ppc' \in {"users", "get", "exit"}
          /\ plen' \in {plen, len[bufIdx]} /\ ending' \in {ending, "fatal"}
          /\ gets' \in {gets, gets + 1}
      BY <1>9 DEF PCheck
    <2>3. UNCHANGED <<bufIdx, ptrack, ppos, pcap, scan, pusers, burned>>
      BY <1>9 DEF PCheck
    <2>4. BurnerOK'
      BY <1>a, <1>b, <2>1, <2>2, <2>3 DEF BurnerOK, PPcs, Endings
    <2>5. StatsOK'
      BY <1>9, <1>a, <2>2 DEF PCheck, StatsOK
    <2> QED  BY <1>9, <1>a, <2>4, <2>5, TypeFrame DEF PCheck, TypeOK
  <1>10. CASE PLoadUsers
    <2>1. users[bufIdx] \in Int
      BY <1>a DEF SlotsOK, BurnerOK
    <2>2. BurnerOK'
      BY <1>10, <1>a, <1>b, <2>1 DEF PLoadUsers, BurnerOK, PPcs
    <2> QED  BY <1>10, <1>a, <2>2, TypeFrame DEF PLoadUsers, TypeOK
  <1>11. CASE PStoreUsers
    <2>1. BurnerOK'
      BY <1>11, <1>a, <1>b DEF PStoreUsers, BurnerOK, PPcs
    <2>2. users \in [Slots -> Int] /\ pusers - 1 \in Int
      BY <1>a DEF SlotsOK, BurnerOK
    <2>3. users' \in [Slots -> Int]
      BY <1>11, <2>2, Zenon DEF PStoreUsers
    <2>4. SlotsOK'
      BY <1>11, <1>a, <2>3 DEF PStoreUsers, SlotsOK
    <2> QED  BY <1>11, <1>a, <2>1, <2>4, TypeFrame DEF PStoreUsers, TypeOK
  <1>12. CASE PSetFaio
    <2>1. BurnerOK'
      BY <1>12, <1>a, <1>b DEF PSetFaio, BurnerOK, PPcs
    <2>2. SlotsOK'
      BY <1>12, <1>a DEF PSetFaio, SlotsOK, Owners
    <2> QED  BY <1>12, <1>a, <2>1, <2>2, TypeFrame DEF PSetFaio, TypeOK
  <1>13. CASE PUseError
    <2>1. BurnerOK'
      BY <1>13, <1>a, <1>b DEF PUseError, BurnerOK, PPcs, Endings
    <2> QED  BY <1>13, <1>a, <2>1, TypeFrame DEF PUseError, TypeOK
  <1>14. CASE PUseEOF
    <2>1. BurnerOK'
      BY <1>14, <1>a, <1>b DEF PUseEOF, BurnerOK, PPcs
    <2> QED  BY <1>14, <1>a, <2>1, TypeFrame DEF PUseEOF, TypeOK
  <1>15. CASE PWrite
    <2> DEFINE count == Clip(PTrack, plen, ppos + plen)
    <2>1. PTrack \in Track
      BY <1>15, <1>a, <1>b DEF PWrite, BurnerOK, PTrack
    <2>2. count \in Int /\ RoundUp(PTrack, count) \in Int
      BY <1>a, <2>1, ClipType DEF BurnerOK
    <2>3. /\ burned' = burned \o Chunk(data[bufIdx][1], data[bufIdx][2], count)
          /\ ppos' = ppos + plen
          /\ pcap' = IF count < pcap THEN RoundUp(PTrack, count) ELSE pcap
          /\ ppc' = IF MoreToRead(PTrack, ppos + plen) THEN "get" ELSE "idle"
          /\ ppc = "use" /\ plen > 0
          /\ UNCHANGED <<bufIdx, ptrack, scan, plen, pusers, ending>>
      BY <1>15 DEF PWrite
    <2> HIDE DEF count
    <2>4. data[bufIdx][1] \in Nat /\ data[bufIdx][2] \in Nat
      BY <1>a DEF SlotsOK, BurnerOK
    <2>5. burned' \in Seq(Nat \X Nat)
      <3>1. Chunk(data[bufIdx][1], data[bufIdx][2], count) \in Seq(Nat \X Nat)
        BY <2>2, <2>4, ChunkType
      <3>2. burned \in Seq(Nat \X Nat)
        BY <1>a DEF BurnerOK
      <3> QED  BY <2>3, <3>1, <3>2
    <2>6. ppos' \in Nat /\ pcap' \in Int
      BY <1>a, <2>2, <2>3 DEF BurnerOK
    <2>7. ppc' \in {"get", "idle"}
      BY <2>3
    <2>8. BurnerOK'
      BY <1>a, <1>b, <2>3, <2>5, <2>6, <2>7 DEF BurnerOK, PPcs
    <2> QED  BY <1>15, <1>a, <2>8, TypeFrame DEF PWrite, TypeOK
  <1>16. CASE PKillFaio
    <2>1. BurnerOK'
      BY <1>16, <1>a, <1>b DEF PKillFaio, BurnerOK, PPcs
    <2>2. rpc' = rpc \/ rpc' = "killed"
      BY <1>16 DEF PKillFaio
    <2>3. ReaderOK'
      BY <1>16, <1>a, <1>b, <2>2 DEF PKillFaio, ReaderOK, RPcs
    <2> QED  BY <1>16, <1>a, <2>1, <2>3, TypeFrame DEF PKillFaio, TypeOK
  <1>17. CASE PWaitFaio
    <2>1. BurnerOK'
      BY <1>17, <1>a, <1>b DEF PWaitFaio, BurnerOK, PPcs
    <2> QED  BY <1>17, <1>a, <2>1, TypeFrame DEF PWaitFaio, TypeOK
  <1> QED  BY <1>1, <1>2, <1>3, <1>4, <1>5, <1>6, <1>7, <1>8, <1>9, <1>10,
              <1>11, <1>12, <1>13, <1>14, <1>15, <1>16, <1>17 DEF Burner

\* So does every fault.
LEMMA FaultType == TypeOK /\ Fault => TypeOK'
  <1> SUFFICES ASSUME TypeOK, Fault PROVE TypeOK'
    OBVIOUS
  <1> USE DEF tvars, rvars, pvars
  <1>a. /\ trackp \in Jobs /\ SlotsOK /\ StatsOK /\ ReaderOK /\ BurnerOK
        /\ trackp' = trackp
    BY DEF TypeOK, Fault, RTimeout, RKilled, PDriveError, PInterrupt
  <1>b. NTracks \in Nat \ {0} /\ NTracks' = NTracks
    BY <1>a, JobTracks DEF NTracks
  <1>1. CASE RTimeout
    <2>1. ReaderOK'
      BY <1>1, <1>a, <1>b DEF RTimeout, ReaderOK, RPcs
    <2> QED  BY <1>1, <1>a, <2>1, TypeFrame DEF RTimeout, TypeOK
  <1>2. CASE RKilled
    <2>1. ReaderOK'
      BY <1>2, <1>a, <1>b DEF RKilled, ReaderOK, RPcs
    <2> QED  BY <1>2, <1>a, <2>1, TypeFrame DEF RKilled, TypeOK
  <1>3. CASE PDriveError
    <2>1. ppc' \in {"idle", "exit"}
      BY <1>3 DEF PDriveError
    <2>2. BurnerOK'
      BY <1>3, <1>a, <1>b, <2>1 DEF PDriveError, BurnerOK, PPcs, Endings
    <2> QED  BY <1>3, <1>a, <2>2, TypeFrame DEF PDriveError, TypeOK
  <1>4. CASE PInterrupt
    <2>1. BurnerOK'
      BY <1>4, <1>a, <1>b DEF PInterrupt, BurnerOK, PPcs, Endings
    <2> QED  BY <1>4, <1>a, <2>1, TypeFrame DEF PInterrupt, TypeOK
  <1> QED  BY <1>1, <1>2, <1>3, <1>4 DEF Fault

\* Every variable keeps its type in every run of the FIFO: the indices of both
\* processes stay inside it, and neither runs past the last track.
THEOREM TypeCorrect == Spec => []TypeOK
  <1>1. Init => TypeOK
    BY InitType
  <1>2. TypeOK /\ [Next]_vars => TypeOK'
    <2> SUFFICES ASSUME TypeOK, [Next]_vars PROVE TypeOK'
      OBVIOUS
    <2>1. CASE Reader
      BY <2>1, ReaderType
    <2>2. CASE Burner
      BY <2>2, BurnerType
    <2>3. CASE Fault
      BY <2>3, FaultType
    <2>4. CASE UNCHANGED vars
      BY <2>4, TypeFrame DEF vars, tvars, TypeOK
    <2> QED  BY <2>1, <2>2, <2>3, <2>4 DEF Next, Terminated
  <1> QED  BY <1>1, <1>2, PTL DEF Spec

-----------------------------------------------------------------------------
(* Slot exclusion                                                          *)

\* Who owns a slot while a process is busy with it: the child's is free until
\* it has handed it over, the parent's has been handed over until it is done
\* with it.  When the parent has given the segment to the drive the "Prevent
\* hang" store may have turned owner_faio into owner_reader again, so there
\* only this much is true.
SlotOwners ==
    /\ Filling => owner[bufIdxReader] = "writer"
    /\ ppc \in {"check", "users", "dec", "faio"} => owner[bufIdx] = "reader"
    /\ ppc = "use" => owner[bufIdx] # "writer"

\* The child's steps respect it: a store into `owner` ends its own hold on the
\* slot, and never makes a slot free.
LEMMA ReaderOwners == TypeOK /\ SlotOwners /\ Reader => SlotOwners'
  <1> SUFFICES ASSUME TypeOK, SlotOwners, Reader PROVE SlotOwners'
    OBVIOUS
  <1> USE DEF slotvars, pvars
  <1>a. /\ owner \in [Slots -> Owners] /\ bufIdx \in Slots
        /\ bufIdxReader \in Slots /\ LastSlot \in Slots
    BY NBufAssumption DEF TypeOK, SlotsOK, ReaderOK, BurnerOK, Slots, LastSlot,
                          MinBuffers
  <1>1. CASE RWait
    BY <1>1 DEF RWait, SlotOwners, Filling
  <1>2. CASE RSetFd \/ RFill \/ RSetLen
    BY <1>2 DEF RSetFd, RFill, RSetLen, SlotOwners, Filling
  <1>3. CASE RSetOwner
    BY <1>3, <1>a DEF RSetOwner, SlotOwners, Filling
  <1>4. CASE RSetUsers \/ RDone \/ RTestGets
    BY <1>4 DEF RSetUsers, RDone, RTestGets, SlotOwners, Filling
  <1>5. CASE RPut
    BY <1>5 DEF RPut, SlotOwners, Filling
  <1>6. CASE RMarkLast
    BY <1>6, <1>a DEF RMarkLast, SlotOwners, Filling
  <1> QED  BY <1>1, <1>2, <1>3, <1>4, <1>5, <1>6 DEF Reader

\* So do the parent's: it frees a slot only on the call after the one that
\* handed it out, and takes none that is not its own.
LEMMA BurnerOwners == TypeOK /\ SlotOwners /\ Burner => SlotOwners'
  <1> SUFFICES ASSUME TypeOK, SlotOwners, Burner PROVE SlotOwners'
    OBVIOUS
  <1> USE DEF slotvars, rvars
  <1>a. /\ owner \in [Slots -> Owners] /\ bufIdx \in Slots
        /\ bufIdxReader \in Slots
    BY DEF TypeOK, SlotsOK, ReaderOK, BurnerOK
  <1>1. CASE PAwait \/ PScan \/ PStartTrack \/ PFinish \/ PLow \/ PTimeout
    BY <1>1 DEF PAwait, PScan, PStartTrack, PFinish, PLow, PTimeout, SlotOwners,
                Filling
  <1>2. CASE PRelease
    BY <1>2, <1>a DEF PRelease, SlotOwners, Filling
  <1>3. CASE PWait
    BY <1>3 DEF PWait, SlotOwners, Filling
  <1>4. CASE PCheck
    BY <1>4 DEF PCheck, SlotOwners, Filling
  <1>5. CASE PLoadUsers \/ PStoreUsers
    BY <1>5 DEF PLoadUsers, PStoreUsers, SlotOwners, Filling
  <1>6. CASE PSetFaio
    <2>1. Filling => bufIdx # bufIdxReader
      BY <1>6 DEF PSetFaio, SlotOwners
    <2> QED  BY <1>6, <1>a, <2>1 DEF PSetFaio, SlotOwners, Filling
  <1>7. CASE PUseError \/ PUseEOF \/ PWrite
    BY <1>7 DEF PUseError, PUseEOF, PWrite, SlotOwners, Filling
  <1>8. CASE PKillFaio \/ PWaitFaio
    BY <1>8 DEF PKillFaio, PWaitFaio, SlotOwners, Filling
  <1> QED  BY <1>1, <1>2, <1>3, <1>4, <1>5, <1>6, <1>7, <1>8 DEF Burner

\* And so does every step of the FIFO.
LEMMA OwnersStep == TypeOK /\ SlotOwners /\ [Next]_vars => SlotOwners'
  <1> SUFFICES ASSUME TypeOK, SlotOwners, [Next]_vars PROVE SlotOwners'
    OBVIOUS
  <1>1. CASE Reader
    BY <1>1, ReaderOwners
  <1>2. CASE Burner
    BY <1>2, BurnerOwners
  <1>3. CASE Fault
    BY <1>3 DEF Fault, RTimeout, RKilled, PDriveError, PInterrupt, SlotOwners,
                Filling, slotvars, rvars, pvars
  <1>4. CASE UNCHANGED vars
    BY <1>4 DEF vars, slotvars, rvars, pvars, SlotOwners, Filling
  <1> QED  BY <1>1, <1>2, <1>3, <1>4 DEF Next, Terminated

\* The child never fills the slot the parent is looking at or the drive is
\* being fed from, in any run: whatever fails, dies or times out, and for any
\* number of slots.
THEOREM SlotsExclusive == Spec => []SlotExclusion
  <1>1. Init => SlotOwners
    BY DEF Init, SlotOwners, Filling
  <1>2. TypeOK /\ SlotOwners /\ [Next]_vars => SlotOwners'
    BY OwnersStep
  <1>3. SlotOwners => SlotExclusion
    BY DEF SlotOwners, SlotExclusion, Filling, Holding
  <1> QED  BY <1>1, <1>2, <1>3, TypeCorrect, PTL DEF Spec

-----------------------------------------------------------------------------
(* What await_faio() finds                                                 *)

\* The child adds to `done` once, when it has read the last track.
DoneOnce ==
    /\ done \in {0, 1}
    /\ rpc \in {"gets", "mark", "exited"} => done = 1
    /\ done = 1 => rpc \in {"gets", "mark", "exited", "killed"}

\* The parent has not yet asked for its first segment; it counts each one
\* before it uses it.
Early == ppc \in {"await", "scan"} \/ (ppc = "idle" /\ gets = 0)
GetsCounted == ppc \in {"users", "dec", "faio", "use"} => gets >= 1

Full == \A s \in Slots : owner[s] = "reader"

\* Until then the child fills the slots from the first one upwards: those below
\* buf_idx_reader are full and those above it are free.
FilledUpTo ==
    /\ \A s \in Slots : s < bufIdxReader => owner[s] = "reader"
    /\ \A s \in Slots : s > bufIdxReader => owner[s] = "writer"
    /\ rpc \in {"users", "puts"} => owner[bufIdxReader] = "reader"
    /\ rpc \notin {"users", "puts", "killed"} => owner[bufIdxReader] = "writer"

\* What await_faio() relies on when it polls the last slot only, and what it
\* has established when it is through.
AwaitInv ==
    /\ DoneOnce /\ GetsCounted
    /\ Early => done = 1 \/ Full \/ FilledUpTo
    /\ Early /\ ppc # "await" => done = 1 \/ Full

\* A full last slot means that all are full, or that all tracks were read.
LEMMA LastMeansFull ==
    ASSUME TypeOK, FilledUpTo, owner[LastSlot] = "reader"
    PROVE  Full
  <1>1. /\ bufIdxReader \in Slots /\ LastSlot \in Slots
        /\ \A s \in Slots : s <= LastSlot /\ s \in Int
    BY NBufAssumption DEF TypeOK, ReaderOK, Slots, LastSlot, MinBuffers
  <1>2. bufIdxReader = LastSlot
    BY <1>1 DEF FilledUpTo, Slots
  <1> QED  BY <1>1, <1>2 DEF FilledUpTo, Full, Slots

\* The child fills one slot after the other, and is done once.
LEMMA ReaderAwait ==
    TypeOK /\ SlotOwners /\ AwaitInv /\ Reader => AwaitInv'
  <1> SUFFICES ASSUME TypeOK, SlotOwners, AwaitInv, Reader PROVE AwaitInv'
    OBVIOUS
  <1> USE DEF slotvars, statvars, pvars
  <1>a. /\ owner \in [Slots -> Owners] /\ bufIdxReader \in Slots
        /\ LastSlot \in Slots /\ gets \in Nat
    BY NBufAssumption DEF TypeOK, SlotsOK, StatsOK, ReaderOK, Slots, LastSlot,
                          MinBuffers
  <1>b. UNCHANGED <<ppc, gets>>
    BY DEF Reader, RWait, RSetFd, RFill, RSetLen, RSetOwner, RSetUsers, RPut,
           RDone, RTestGets, RMarkLast
  <1>c. GetsCounted' /\ Early' = Early
    BY <1>b DEF AwaitInv, GetsCounted, Early
  <1>1. CASE RWait \/ RSetFd \/ RFill \/ RSetLen
    <2>1. UNCHANGED <<owner, bufIdxReader, done>>
      BY <1>1 DEF RWait, RSetFd, RFill, RSetLen
    <2>2. /\ rpc \in {"wait", "fd", "fill", "len"}
          /\ rpc' \in {"fd", "fill", "len", "owner"}
      BY <1>1 DEF RWait, RSetFd, RFill, RSetLen
    <2>3. DoneOnce'
      BY <2>1, <2>2 DEF AwaitInv, DoneOnce
    <2>4. FilledUpTo => FilledUpTo'
      BY <2>1, <2>2 DEF FilledUpTo
    <2> QED  BY <1>b, <1>c, <2>1, <2>3, <2>4 DEF AwaitInv, Full
  <1>2. CASE RSetOwner
    <2>1. /\ owner' = [owner EXCEPT ![bufIdxReader] = "reader"]
          /\ UNCHANGED <<bufIdxReader, done>>
          /\ rpc = "owner" /\ rpc' = "users"
      BY <1>2 DEF RSetOwner
    <2>2. DoneOnce'
      BY <2>1 DEF AwaitInv, DoneOnce
    <2>3. FilledUpTo => FilledUpTo'
      BY <1>a, <2>1 DEF FilledUpTo, Slots
    <2>4. Full => Full'
      BY <1>a, <2>1 DEF Full
    <2> QED  BY <1>b, <1>c, <2>1, <2>2, <2>3, <2>4 DEF AwaitInv
  <1>3. CASE RSetUsers
    <2>1. /\ UNCHANGED <<owner, bufIdxReader, done>>
          /\ rpc = "users" /\ rpc' = "puts"
      BY <1>3 DEF RSetUsers
    <2>2. DoneOnce' /\ (FilledUpTo => FilledUpTo')
      BY <2>1 DEF AwaitInv, DoneOnce, FilledUpTo
    <2> QED  BY <1>b, <1>c, <2>1, <2>2 DEF AwaitInv, Full
  <1>4. CASE RPut
    <2>1. /\ UNCHANGED <<owner, done>>
          /\ bufIdxReader' = Next1(bufIdxReader)
          /\ rpc = "puts" /\ rpc' \in {"wait", "done"}
      BY <1>4 DEF RPut
    <2>2. DoneOnce'
      BY <2>1 DEF AwaitInv, DoneOnce
    <2>3. FilledUpTo => Full' \/ FilledUpTo'
      <3>1. SUFFICES ASSUME FilledUpTo PROVE Full' \/ FilledUpTo'
        OBVIOUS
      <3>2. NBuf \in Nat /\ bufIdxReader \in 0 .. NBuf - 1
        BY <1>a, NBufAssumption DEF Slots
      <3>3. CASE bufIdxReader + 1 >= NBuf
        BY <2>1, <3>1, <3>2, <3>3 DEF FilledUpTo, Full, Slots
      <3>4. CASE bufIdxReader + 1 < NBuf
        <4>1. bufIdxReader' = bufIdxReader + 1 /\ bufIdxReader' \in Slots
          BY <2>1, <3>2, <3>4 DEF Next1, Slots
        <4>2. \A s \in Slots : s < bufIdxReader + 1 =>
                                 s < bufIdxReader \/ s = bufIdxReader
          BY <3>2 DEF Slots
        <4>3. \A s \in Slots : s < bufIdxReader' => owner'[s] = "reader"
          BY <2>1, <3>1, <4>1, <4>2 DEF FilledUpTo
        <4>4. \A s \in Slots : s > bufIdxReader' => owner'[s] = "writer"
          BY <2>1, <3>1, <3>2, <4>1 DEF FilledUpTo, Slots
        <4>5. owner'[bufIdxReader'] = "writer"
          BY <2>1, <3>1, <3>2, <4>1 DEF FilledUpTo
        <4> QED  BY <2>1, <4>3, <4>4, <4>5 DEF FilledUpTo
      <3> QED  BY <3>2, <3>3, <3>4
    <2>4. Full => Full'
      BY <2>1 DEF Full
    <2>5. Early /\ ppc # "await" => done = 1 \/ Full
      BY DEF AwaitInv
    <2> QED  BY <1>b, <1>c, <2>1, <2>2, <2>3, <2>4, <2>5 DEF AwaitInv
  <1>5. CASE RDone
    <2>1. rpc = "done" /\ rpc' = "gets" /\ done' = done + 1
      BY <1>5 DEF RDone
    <2>2. done = 0 /\ done' = 1
      BY <2>1 DEF AwaitInv, DoneOnce
    <2>3. DoneOnce'
      BY <2>1, <2>2 DEF DoneOnce
    <2> QED  BY <1>c, <2>2, <2>3 DEF AwaitInv
  <1>6. CASE RTestGets \/ RMarkLast
    <2>1. /\ rpc \in {"gets", "mark"} /\ rpc' \in {"mark", "exited"}
          /\ done' = done
      BY <1>6 DEF RTestGets, RMarkLast
    <2>2. done = 1 /\ DoneOnce'
      BY <2>1 DEF AwaitInv, DoneOnce
    <2> QED  BY <1>c, <2>1, <2>2 DEF AwaitInv
  <1> QED  BY <1>1, <1>2, <1>3, <1>4, <1>5, <1>6 DEF Reader

\* Before its first segment the parent stores into no slot.
LEMMA BurnerAwait == TypeOK /\ AwaitInv /\ Burner => AwaitInv'
  <1> SUFFICES ASSUME TypeOK, AwaitInv, Burner PROVE AwaitInv'
    OBVIOUS
  <1> USE DEF slotvars, statvars, rvars
  <1>a. gets \in Nat /\ NBuf \in Nat
    BY NBufAssumption DEF TypeOK, StatsOK
  <1>1. CASE PAwait
    <2>1. /\ ppc = "await" /\ ppc' = "scan" /\ owner[LastSlot] = "reader"
          /\ UNCHANGED <<owner, bufIdxReader, rpc, done, gets>>
      BY <1>1 DEF PAwait
    <2>2. done = 1 \/ Full
      BY <2>1, LastMeansFull DEF AwaitInv, Early
    <2> QED  BY <2>1, <2>2 DEF AwaitInv, DoneOnce, GetsCounted, Early, Full
  <1>2. CASE PScan
    <2>1. /\ ppc = "scan" /\ ppc' \in {"exit", "idle", "scan"}
          /\ UNCHANGED <<owner, bufIdxReader, done, gets>>
      BY <1>2 DEF PScan
    <2>2. rpc' = rpc \/ rpc' = "killed"
      BY <1>2 DEF PScan
    <2>3. done = 1 \/ Full
      BY <2>1 DEF AwaitInv, Early
    <2>4. DoneOnce'
      BY <2>1, <2>2 DEF AwaitInv, DoneOnce
    <2> QED  BY <2>1, <2>3, <2>4 DEF AwaitInv, GetsCounted, Full
  <1>3. CASE PStartTrack \/ PFinish \/ PLow \/ PWait \/ PTimeout \/ PRelease
    <2>1. /\ ppc' \in {"get", "exit", "low", "wait", "check"}
          /\ UNCHANGED <<rpc, done>>
      BY <1>3 DEF PStartTrack, PFinish, PLow, PWait, PTimeout, PRelease
    <2> QED  BY <2>1 DEF AwaitInv, DoneOnce, GetsCounted, Early
  <1>4. CASE PCheck
    <2>1. /\ \/ ppc' = "users" /\ gets' = gets + 1
             \/ ppc' \in {"get", "exit"}
          /\ UNCHANGED <<rpc, done>>
      BY <1>4 DEF PCheck
    <2> QED  BY <1>a, <2>1 DEF AwaitInv, DoneOnce, GetsCounted, Early
  <1>5. CASE \/ PLoadUsers \/ PStoreUsers \/ PSetFaio \/ PUseError \/ PUseEOF
             \/ PWrite
    <2>1. /\ ppc \in {"users", "dec", "faio", "use"}
          /\ ppc' \in {"dec", "faio", "use", "exit", "idle", "get"}
          /\ UNCHANGED <<rpc, done, gets>>
      BY <1>5 DEF PLoadUsers, PStoreUsers, PSetFaio, PUseError, PUseEOF, PWrite
    <2> QED  BY <1>a, <2>1 DEF AwaitInv, DoneOnce, GetsCounted, Early
  <1>6. CASE PKillFaio \/ PWaitFaio
    <2>1. ppc' \in {"reap", "end"} /\ (rpc' = rpc \/ rpc' = "killed")
          /\ done' = done
      BY <1>6 DEF PKillFaio, PWaitFaio
    <2> QED  BY <2>1 DEF AwaitInv, DoneOnce, GetsCounted, Early
  <1> QED  BY <1>1, <1>2, <1>3, <1>4, <1>5, <1>6 DEF Burner

\* A fault stores into no slot, and only ends a process or the session.
LEMMA FaultAwait == TypeOK /\ AwaitInv /\ Fault => AwaitInv'
  <1> SUFFICES ASSUME TypeOK, AwaitInv, Fault PROVE AwaitInv'
    OBVIOUS
  <1> USE DEF slotvars, statvars, rvars, pvars
  <1>1. CASE RKilled \/ RTimeout
    <2>1. /\ UNCHANGED <<ppc, owner, bufIdxReader, done, gets>>
          /\ \/ rpc' = "killed"
             \/ rpc = "wait" /\ rpc' = "timedout"
      BY <1>1 DEF RKilled, RTimeout
    <2>2. DoneOnce' /\ GetsCounted' /\ Early' = Early
      BY <2>1 DEF AwaitInv, DoneOnce, GetsCounted, Early
    <2>3. FilledUpTo => FilledUpTo'
      BY <2>1 DEF FilledUpTo
    <2> QED  BY <2>1, <2>2, <2>3 DEF AwaitInv, Full
  <1>2. CASE PDriveError
    <2>1. /\ UNCHANGED <<owner, bufIdxReader, rpc, done, gets>>
          /\ \/ ppc = "use" /\ ppc' = "idle"
             \/ ppc = "idle" /\ ppc' \in {"idle", "exit"}
             \/ ppc = "await" /\ ppc' = "exit"
      BY <1>2 DEF PDriveError
    <2>2. Early' => Early /\ ppc # "await"
      BY <2>1 DEF AwaitInv, GetsCounted, Early
    <2> QED  BY <2>1, <2>2 DEF AwaitInv, DoneOnce, GetsCounted, Full
  <1>3. CASE PInterrupt
    <2>1. ppc' = "exit" /\ UNCHANGED <<rpc, done>>
      BY <1>3 DEF PInterrupt
    <2> QED  BY <2>1 DEF AwaitInv, DoneOnce, GetsCounted, Early
  <1> QED  BY <1>1, <1>2, <1>3 DEF Fault

\* All this is kept by every step of the FIFO.
LEMMA AwaitStep ==
    TypeOK /\ SlotOwners /\ AwaitInv /\ [Next]_vars => AwaitInv'
  <1> SUFFICES ASSUME TypeOK, SlotOwners, AwaitInv, [Next]_vars PROVE AwaitInv'
    OBVIOUS
  <1>1. CASE Reader
    BY <1>1, ReaderAwait
  <1>2. CASE Burner
    BY <1>2, BurnerAwait
  <1>3. CASE Fault
    BY <1>3, FaultAwait
  <1>4. CASE UNCHANGED vars
    BY <1>4 DEF vars, slotvars, statvars, rvars, pvars, AwaitInv, DoneOnce,
                GetsCounted, Early, Full, FilledUpTo
  <1> QED  BY <1>1, <1>2, <1>3, <1>4 DEF Next, Terminated

\* At the start no slot is full and the child stands before the first one.
LEMMA InitAwait == Init => SlotOwners /\ AwaitInv
  <1> SUFFICES ASSUME Init PROVE SlotOwners /\ AwaitInv
    OBVIOUS
  <1>1. 0 \in Slots /\ \A s \in Slots : ~(s < 0)
    BY NBufAssumption DEF Slots, MinBuffers
  <1>2. FilledUpTo
    BY <1>1 DEF Init, FilledUpTo
  <1> QED  BY <1>2 DEF Init, SlotOwners, Filling, AwaitInv, DoneOnce,
                       GetsCounted, Early

\* await_faio() returns TRUE only when the FIFO is full or the child has read
\* all there is, although it polls a single slot: this holds until the parent
\* has taken its first segment, whatever fails.
THEOREM AwaitReady == Spec => []AwaitMeansReady
  <1>1. TypeOK /\ SlotOwners /\ [Next]_vars => SlotOwners'
    BY OwnersStep
  <1>2. TypeOK /\ SlotOwners /\ AwaitInv /\ [Next]_vars => AwaitInv'
    BY AwaitStep
  <1>3. AwaitInv => AwaitMeansReady
    BY DEF AwaitInv, AwaitMeansReady, Early, Full
  <1> QED  BY <1>1, <1>2, <1>3, InitAwait, TypeCorrect, PTL DEF Spec

\* While await_faio() looks through the slots for an empty standard input, the
\* child is not filling any of them.
THEOREM ScanSafe == Spec => []ScanUndisturbed
  <1>1. TypeOK /\ SlotOwners /\ [Next]_vars => SlotOwners'
    BY OwnersStep
  <1>2. TypeOK /\ SlotOwners /\ AwaitInv /\ [Next]_vars => AwaitInv'
    BY AwaitStep
  <1>3. TypeOK /\ SlotOwners /\ AwaitInv => ScanUndisturbed
    <2>1. SUFFICES ASSUME TypeOK, SlotOwners, AwaitInv, ppc = "scan", Filling
                   PROVE  FALSE
      BY DEF ScanUndisturbed
    <2>2. bufIdxReader \in Slots /\ owner[bufIdxReader] = "writer"
      BY <2>1 DEF TypeOK, ReaderOK, SlotOwners
    <2>3. done = 1 \/ Full
      BY <2>1 DEF AwaitInv, Early
    <2>4. done # 1
      BY <2>1 DEF AwaitInv, DoneOnce, Filling
    <2> QED  BY <2>2, <2>3, <2>4 DEF Full
  <1> QED  BY <1>1, <1>2, <1>3, InitAwait, TypeCorrect, PTL DEF Spec

-----------------------------------------------------------------------------
(***************************************************************************)
(* That the FIFO keeps the order of the input: proofs of Lockstep, of      *)
(* CleanEnd and of the refinement InOrder, for any number of slots, any    *)
(* tracks and any set of faults.                                           *)
(*                                                                         *)
(* The child and the parent go through the tracks with the same arithmetic *)
(* but never tell each other where they are.  The inductive invariant says *)
(* what they have in common: from the parent's slot on, around the ring,   *)
(* there are c slots that were handed over; they hold consecutive segments *)
(* of the input; the first one is the segment the parent asks for next, and*)
(* the child's own place is behind the last one.  Of the c slots one may be*)
(* missing in `puts` (u) and one may be in `gets` already (h).             *)
(***************************************************************************)

-----------------------------------------------------------------------------
(* What both processes have to agree on                                    *)

\* A place <<t, pos>> in the input is a track and an offset in it.  A segment is
\* read from a place where the track has begun or there is more of it to read.
Valid(p) ==
    /\ p \in Nat \X Nat
    /\ p[1] \in 1 .. NTracks
    /\ p[2] = 0 \/ MoreToRead(trackp[p[1]], p[2])
    /\ p[2] <= trackp[p[1]].avail

\* The place behind all tracks.
Over == <<NTracks + 1, 0>>

\* What a full transfer gets at a place, and where the next one starts.
Got(p) ==
    LET tr == trackp[p[1]]
    IN  FillBuf(tr, p[2], BytesToRead(tr, p[2], tr.bpt))
Succ(p) ==
    IF Got(p) > 0 /\ MoreToRead(trackp[p[1]], p[2] + Got(p))
    THEN <<p[1], p[2] + Got(p)>> ELSE <<p[1] + 1, 0>>

\* Slot s has the segment of the place that is noted in it.
Segment(s) ==
    /\ Valid(data[s])
    /\ fd[s] = trackp[data[s][1]].fd
    /\ len[s] = Got(data[s])

\* The i-th slot from the parent's on.
At(i) == IF bufIdx + i >= NBuf THEN bufIdx + i - NBuf ELSE bufIdx + i

RPlace == <<rtrack, rpos>>

\* Where the child goes on when its current slot, if u = 1, is counted.
RNextSlot(u) == IF u = 1 THEN Next1(bufIdxReader) ELSE bufIdxReader
RNextPlace(u) == IF u = 1 THEN Succ(RPlace) ELSE RPlace

\* The segment the parent asks for next, or has in its hands.
InTrack == ppc \in {"get", "low", "wait", "check", "users", "dec", "faio", "use"}
Taken == ppc \in {"users", "dec", "faio", "use"}
PPlace == IF InTrack THEN <<ptrack, ppos>> ELSE <<ptrack + 1, 0>>

\* c slots from the parent's on have been handed over and not been given back;
\* u of them, 0 or 1, is not in `puts` yet, and h of them is in `gets` already.
Counts(c, u, h) ==
    /\ c = 0 => h = 0
    /\ puts - gets = c - u - h
    /\ RNextSlot(u) = At(c)
    /\ rpc \in {"users", "puts"} => u = 1
    /\ rpc \notin {"users", "puts", "killed"} => u = 0
    /\ u = 1 => rtrack <= NTracks
    /\ Taken => h = 1
    /\ ppc \in {"await", "scan", "low", "wait", "check"} => h = 0
    /\ gets = 0 => bufIdx = 0 /\ h = 0
    /\ rpc = "mark" => bufIdx + c <= NBuf

\* Their owners, and those of the others.  The "Prevent hang" store touches the
\* last slot when all has been read.
Owned(c, h) ==
    /\ \A i \in 0 .. c - 1 :
           owner[At(i)] = "reader" \/ (i = 0 /\ h = 1 /\ owner[At(i)] = "faio")
    /\ \A i \in c .. NBuf - 1 :
           \/ owner[At(i)] = "writer"
           \/ owner[At(i)] = "reader" /\ At(i) = LastSlot /\ RPlace = Over

\* They hold one segment of the input after the other, up to the child's place.
Linked(c, u) ==
    /\ \A i \in 0 .. c - 1 : Segment(At(i))
    /\ \A i \in 0 .. c - 2 : data[At(i + 1)] = Succ(data[At(i)])
    /\ c > 0 => RNextPlace(u) = Succ(data[At(c - 1)])

\* What the child has put into its slot so far.
Child ==
    /\ RPlace = Over \/ Valid(RPlace)
    /\ rpc \in {"done", "gets", "mark", "exited"} \/ done = 1 => RPlace = Over
    /\ rpc \in {"fill", "len", "owner"} => fd[bufIdxReader] = RTrack.fd
    /\ rpc \in {"len", "owner"} => data[bufIdxReader] = RPlace
    /\ rpc \in {"len", "owner", "users", "puts"} => rlen = Got(RPlace)
    /\ rpc = "owner" => len[bufIdxReader] = rlen

\* The parent goes through the same segments as the child.
Active == ppc \notin {"exit", "reap", "end"} /\ ending = "none"
Parent(c, u, h) ==
    /\ InTrack \/ ppc \in {"await", "scan"} => ending = "none"
    /\ ppc \in {"await", "scan"} => ptrack = 0
    /\ Active =>
           /\ h = 0 => PPlace = IF c > 0 THEN data[bufIdx] ELSE RNextPlace(u)
           /\ h = 1 /\ Taken => data[bufIdx] = PPlace /\ plen = len[bufIdx]
           /\ h = 1 /\ ~Taken => Succ(data[bufIdx]) = PPlace
           /\ h = 1 /\ ppc \in {"use", "get", "idle"} =>
                  owner[bufIdx] = "faio" \/ Succ(data[bufIdx]) = Over
           /\ InTrack => Valid(PPlace)

\* A segment is used up at once: no reference but the child's own is counted,
\* even where the parent is faster than the child's store into `users`.
OneUser == (\A s \in Slots : users[s] <= 1) /\ pusers <= 1

\* The parent asks for less than a full transfer only when nothing is left.
Capacity ==
    ppc \in {"get", "low", "wait", "check", "users", "dec", "faio", "use"} =>
        \/ pcap = PTrack.bpt
        \/ pcap \in Nat /\ Got(<<ptrack, ppos>>) <= 0

Chain(c, u, h) ==
    Counts(c, u, h) /\ Owned(c, h) /\ Linked(c, u) /\ Parent(c, u, h)

ChainInv ==
    /\ Child /\ OneUser /\ Capacity
    /\ contLow \in -1 .. NBuf
    /\ \E c \in 0 .. NBuf, u, h \in {0, 1} : Chain(c, u, h)

\* What of the input has been burned.
TrackBytes(t) ==
    LET tr == trackp[t] IN
    IF tr.size >= 0 /\ tr.size <= tr.avail THEN tr.size ELSE tr.avail
Pieces == [t \in DOMAIN trackp |-> Chunk(t, 0, TrackBytes(t))]
BurnedInv ==
    /\ InTrack => burned = FlattenFirst(Pieces, ptrack - 1) \o Chunk(ptrack, 0, ppos)
    /\ Active /\ ~InTrack => burned = FlattenFirst(Pieces, ptrack)
    /\ ending = "ok" => burned = Image(trackp)

EmptyPipe == trackp[1].fd = STDIN /\ trackp[1].avail = 0 /\ ~trackp[1].err
PipeInv ==
    /\ ppc \in {"await", "scan"} => gets = 0
    /\ EmptyPipe => /\ burned = <<>>
                    /\ \/ ppc \in {"await", "exit", "reap", "end"}
                       \/ ppc = "scan" /\ scan = 0
\* After kill_faio() the child is gone.
Reaped == ppc = "end" => ~RAlive

-----------------------------------------------------------------------------
(* Lemmas about places and slots                                           *)

\* A transfer from a place gets no more than is there, and fewer bytes than
\* asked for only at the end of the file.
LEMMA GotFacts ==
    ASSUME trackp \in Jobs, NEW p, Valid(p)
    PROVE  /\ trackp[p[1]] \in Track
           /\ Got(p) \in Int /\ Got(p) <= trackp[p[1]].avail - p[2]
           /\ Got(p) <= BytesToRead(trackp[p[1]], p[2], trackp[p[1]].bpt)
           /\ BytesToRead(trackp[p[1]], p[2], trackp[p[1]].bpt) \in Nat \ {0}
           /\ Got(p) < BytesToRead(trackp[p[1]], p[2], trackp[p[1]].bpt) =>
                  Got(p) = -1 \/ p[2] + Got(p) = trackp[p[1]].avail
  <1> DEFINE tr == trackp[p[1]]
  <1>1. tr \in Track
    BY JobTracks DEF Valid
  <1>2. /\ tr.fd \in Nat /\ tr.size \in Int /\ tr.avail \in Nat
        /\ tr.err \in BOOLEAN /\ tr.sec \in Nat \ {0} /\ tr.bpt \in Nat \ {0}
    BY <1>1, TrackFields
  <1>3. p[2] \in Nat /\ p[2] <= tr.avail /\ (p[2] = 0 \/ tr.size < 0 \/ p[2] < tr.size)
    BY DEF Valid, MoreToRead
  <1>4. BytesToRead(tr, p[2], tr.bpt) \in Nat \ {0}
    BY <1>2, <1>3 DEF BytesToRead
  <1> DEFINE want == BytesToRead(tr, p[2], tr.bpt)
  <1>5. Got(p) = FillBuf(tr, p[2], want)
    BY DEF Got
  <1> HIDE DEF tr, want
  <1>6. /\ Got(p) \in Int /\ Got(p) <= tr.avail - p[2] /\ Got(p) <= want
        /\ Got(p) < want => Got(p) = -1 \/ p[2] + Got(p) = tr.avail
    BY <1>2, <1>3, <1>4, <1>5 DEF FillBuf, want
  <1> QED  BY <1>1, <1>4, <1>6 DEF tr, want

\* Behind a place is another one, or the end.
LEMMA SuccFacts ==
    ASSUME trackp \in Jobs, NEW p, Valid(p)
    PROVE  /\ Valid(Succ(p)) \/ Succ(p) = Over
           /\ Succ(p) = Over => p[1] = NTracks
           /\ Succ(p) # p
  <1>1. /\ p[1] \in 1 .. NTracks /\ p[2] \in Nat /\ NTracks \in Nat \ {0}
        /\ \A t \in 1 .. NTracks : trackp[t] \in Track
    BY JobTracks DEF Valid
  <1>2. Got(p) \in Int /\ Got(p) <= trackp[p[1]].avail - p[2]
    BY GotFacts
  <1>3. \A t \in 1 .. NTracks : trackp[t].avail \in Nat
    BY <1>1, TrackFields
  <1>4. CASE Got(p) > 0 /\ MoreToRead(trackp[p[1]], p[2] + Got(p))
    <2>1. Succ(p) = <<p[1], p[2] + Got(p)>>
      BY <1>4 DEF Succ
    <2>2. p[2] + Got(p) \in Nat /\ p[2] + Got(p) <= trackp[p[1]].avail
      BY <1>1, <1>2, <1>3, <1>4
    <2>3. Succ(p)[1] = p[1] /\ Succ(p)[2] = p[2] + Got(p)
      BY <2>1
    <2>4. Valid(Succ(p))
      BY <1>1, <1>4, <2>1, <2>2 DEF Valid
    <2>5. Succ(p)[1] # Over[1] /\ Succ(p)[2] # p[2]
      BY <1>1, <1>2, <1>4, <2>3 DEF Over
    <2> QED  BY <2>4, <2>5
  <1>5. CASE ~(Got(p) > 0 /\ MoreToRead(trackp[p[1]], p[2] + Got(p)))
    <2>1. Succ(p) = <<p[1] + 1, 0>>
      BY <1>5 DEF Succ
    <2>2. p[1] + 1 <= NTracks => Valid(Succ(p))
      BY <1>1, <1>3, <2>1 DEF Valid
    <2>3. ~(p[1] + 1 <= NTracks) => p[1] = NTracks
      BY <1>1
    <2> QED  BY <1>1, <2>1, <2>2, <2>3 DEF Over
  <1> QED  BY <1>4, <1>5

\* The end is no place in the input.
LEMMA OverInvalid == trackp \in Jobs => ~Valid(Over)
  BY JobTracks DEF Valid, Over

\* Counting from the parent's slot on, the slots come one after the other and
\* each of them once.
LEMMA AtFacts ==
    ASSUME bufIdx \in Slots
    PROVE  /\ \A i \in 0 .. NBuf : At(i) \in Slots
           /\ At(0) = bufIdx /\ At(NBuf) = bufIdx
           /\ \A i, j \in 0 .. NBuf - 1 : At(i) = At(j) => i = j
           /\ \A i \in 0 .. NBuf - 1 : Next1(At(i)) = At(i + 1)
  BY NBufAssumption DEF At, Slots, Next1, MinBuffers

\* The owners stay what they have to be as long as nobody stores one.
LEMMA OwnedFrame ==
    ASSUME UNCHANGED <<trackp, owner, bufIdx>>, RPlace = Over => RPlace' = Over,
           NEW c, NEW h, Owned(c, h)
    PROVE  Owned(c, h)'
  BY DEF Owned, At, Over, NTracks

\* The slots that were handed over keep their segments as long as they and the
\* child's next place stay the same.
LEMMA LinkedFrame ==
    ASSUME UNCHANGED <<trackp, bufIdx>>, NEW c \in Nat, NEW u, Linked(c, u),
           RNextPlace(u)' = RNextPlace(u),
           \A i \in 0 .. c - 1 : /\ data'[At(i)] = data[At(i)]
                                 /\ fd'[At(i)] = fd[At(i)]
                                 /\ len'[At(i)] = len[At(i)]
    PROVE  Linked(c, u)'
  <1>1. \A i : At(i)' = At(i)
    BY DEF At
  <1>2. \A p : Valid(p)' = Valid(p) /\ Succ(p)' = Succ(p) /\ Got(p)' = Got(p)
    BY DEF Valid, Succ, Got, NTracks
  <1>3. \A i \in 0 .. c - 1 : Segment(At(i))'
    <2> TAKE i \in 0 .. c - 1
    <2>1. Segment(At(i)) /\ data'[At(i)] = data[At(i)]
          /\ fd'[At(i)] = fd[At(i)] /\ len'[At(i)] = len[At(i)] /\ At(i)' = At(i)
      BY <1>1 DEF Linked
    <2> QED  BY <1>2, <2>1 DEF Segment
  <1>4. \A i \in 0 .. c - 2 : (data[At(i + 1)] = Succ(data[At(i)]))'
    <2> TAKE i \in 0 .. c - 2
    <2>1. i \in 0 .. c - 1 /\ i + 1 \in 0 .. c - 1
      OBVIOUS
    <2>2. data[At(i + 1)] = Succ(data[At(i)])
      BY DEF Linked
    <2> QED  BY <1>1, <1>2, <2>1, <2>2
  <1>5. c > 0 => (RNextPlace(u) = Succ(data[At(c - 1)]))'
    <2>1. c > 0 => c - 1 \in 0 .. c - 1
      OBVIOUS
    <2> QED  BY <1>1, <1>2, <2>1 DEF Linked
  <1> QED  BY <1>3, <1>4, <1>5 DEF Linked

\* The parent's view stays the same as long as its own variables, its slot and
\* the child's next place do.
LEMMA ParentFrame ==
    ASSUME UNCHANGED <<trackp, pvars>>, NEW c, NEW u, NEW h, Parent(c, u, h),
           RNextPlace(u)' = RNextPlace(u),
           c > 0 \/ h = 1 => data'[bufIdx] = data[bufIdx] /\ len'[bufIdx] = len[bufIdx],
           h = 1 => owner'[bufIdx] = owner[bufIdx]
    PROVE  Parent(c, u, h)'
  <1>1. \A p : Valid(p)' = Valid(p) /\ Succ(p)' = Succ(p)
    BY DEF Valid, Succ, Got, NTracks
  <1>2. /\ PPlace' = PPlace /\ Over' = Over /\ InTrack' = InTrack
        /\ Taken' = Taken /\ Active' = Active
        /\ UNCHANGED <<ppc, ending, ptrack, plen, bufIdx>>
    BY DEF PPlace, Over, InTrack, Taken, Active, NTracks, pvars
  <1> QED  BY <1>1, <1>2 DEF Parent

\* The parent asks for as much as it did.
LEMMA CapacityFrame ==
    UNCHANGED <<trackp, pvars>> /\ Capacity => Capacity'
  BY DEF Capacity, Got, PTrack, pvars

-----------------------------------------------------------------------------
(* The child's steps                                                       *)

\* The child's slot is none of those that were handed over.
LEMMA Apart ==
    ASSUME TypeOK, NEW c \in 0 .. NBuf, NEW h, Owned(c, h),
           bufIdxReader = At(c), owner[bufIdxReader] = "writer"
    PROVE  c < NBuf /\ \A i \in 0 .. c - 1 : At(i) # bufIdxReader
  <1>1. bufIdx \in Slots /\ NBuf \in Nat \ {0}
    BY NBufAssumption DEF TypeOK, BurnerOK, MinBuffers
  <1>2. \A i \in 0 .. c - 1 : owner[At(i)] # "writer"
    BY DEF Owned
  <1>3. At(NBuf) = At(0)
    BY <1>1, AtFacts
  <1>4. c # NBuf
    BY <1>1, <1>2, <1>3
  <1> QED  BY <1>1, <1>2, <1>4

\* What the child stores into its own slot before it hands it over disturbs
\* nobody.
LEMMA FillStep ==
    ASSUME TypeOK, SlotOwners, ChainInv, RWait \/ RSetFd \/ RFill \/ RSetLen
    PROVE  ChainInv'
  <1>1. /\ trackp \in Jobs /\ SlotsOK /\ ReaderOK /\ BurnerOK
        /\ bufIdx \in Slots /\ bufIdxReader \in Slots /\ NBuf \in Nat
    BY NBufAssumption DEF TypeOK, ReaderOK, BurnerOK
  <1>2. /\ UNCHANGED <<trackp, owner, users, puts, gets, done, contLow>>
        /\ UNCHANGED <<bufIdxReader, rtrack, rpos>> /\ UNCHANGED pvars
        /\ rpc \in {"wait", "fd", "fill", "len"}
        /\ rpc' \in {"fd", "fill", "len", "owner"}
        /\ rpc = "wait" => owner[bufIdxReader] = "writer"
    BY DEF RWait, RSetFd, RFill, RSetLen, tvars, slotvars, statvars, pvars
  <1>3. owner[bufIdxReader] = "writer"
    BY <1>2 DEF SlotOwners, Filling
  <1>4. \A s \in Slots : s # bufIdxReader =>
            data'[s] = data[s] /\ fd'[s] = fd[s] /\ len'[s] = len[s]
    BY <1>1 DEF RWait, RSetFd, RFill, RSetLen, slotvars, SlotsOK
  <1>5. PICK c \in 0 .. NBuf, u \in {0, 1}, h \in {0, 1} : Chain(c, u, h)
    BY DEF ChainInv
  <1>6. u = 0 /\ bufIdxReader = At(c)
    BY <1>2, <1>5 DEF Chain, Counts, RNextSlot
  <1>7. c < NBuf /\ \A i \in 0 .. c - 1 : At(i) # bufIdxReader /\ At(i) \in Slots
    BY <1>1, <1>3, <1>5, <1>6, Apart, AtFacts DEF Chain
  <1>8. c > 0 \/ h = 1 => bufIdx # bufIdxReader
    <2>1. c > 0 \/ h = 1 => 0 \in 0 .. c - 1 /\ At(0) = bufIdx
      BY <1>1, <1>5, AtFacts DEF Chain, Counts
    <2> QED  BY <1>7, <2>1
  <1>9. RNextPlace(u)' = RNextPlace(u) /\ RPlace' = RPlace /\ RTrack' = RTrack
    BY <1>2, <1>6 DEF RNextPlace, RPlace, RTrack
  <1>10. Counts(c, u, h)'
    BY <1>2, <1>5, <1>6 DEF Chain, Counts, At, RNextSlot, Taken, NTracks, pvars
  <1>11. Owned(c, h)'
    <2>1. Owned(c, h) /\ UNCHANGED bufIdx
      BY <1>2, <1>5 DEF Chain, pvars
    <2> QED  BY <1>2, <1>9, <2>1, OwnedFrame DEF Over, NTracks
  <1>12. Linked(c, u)'
    <2>1. UNCHANGED bufIdx
      BY <1>2 DEF pvars
    <2> QED  BY <1>2, <1>4, <1>5, <1>7, <1>9, <2>1, LinkedFrame DEF Chain
  <1>13. Parent(c, u, h)'
    <2>1. c > 0 \/ h = 1 => data'[bufIdx] = data[bufIdx] /\ len'[bufIdx] = len[bufIdx]
      BY <1>1, <1>4, <1>8
    <2>2. owner' = owner /\ Parent(c, u, h)
      BY <1>2, <1>5 DEF Chain
    <2> QED  BY <1>2, <1>9, <2>1, <2>2, ParentFrame
  <1>14. Child'
    <2>1. \A p : Valid(p)' = Valid(p) /\ Got(p)' = Got(p)
      BY <1>2 DEF Valid, Got, NTracks
    <2>2. Over' = Over
      BY <1>2 DEF Over, NTracks
    <2>3. CASE RWait
      BY <1>2, <1>9, <2>1, <2>2, <2>3 DEF RWait, ChainInv, Child
    <2>4. CASE RSetFd
      BY <1>1, <1>2, <1>9, <2>1, <2>2, <2>4 DEF RSetFd, ChainInv, Child, SlotsOK
    <2>5. CASE RFill
      <3>1. rlen' = Got(RPlace) /\ data'[bufIdxReader] = RPlace /\ fd' = fd
        BY <1>1, <2>5 DEF RFill, Got, RPlace, RTrack, SlotsOK
      <3> QED  BY <1>1, <1>2, <1>9, <2>1, <2>2, <2>5, <3>1 DEF RFill, ChainInv, Child
    <2>6. CASE RSetLen
      BY <1>1, <1>2, <1>9, <2>1, <2>2, <2>6 DEF RSetLen, ChainInv, Child, SlotsOK
    <2> QED  BY <2>3, <2>4, <2>5, <2>6
  <1>15. OneUser' /\ Capacity' /\ contLow' \in -1 .. NBuf
    BY <1>2, CapacityFrame DEF ChainInv, OneUser, pvars
  <1> QED  BY <1>10, <1>11, <1>12, <1>13, <1>14, <1>15 DEF ChainInv, Chain

\* With the store into `owner` the segment in the child's slot is the last one of
\* those that were handed over.
LEMMA HandOverStep ==
    ASSUME TypeOK, SlotOwners, ChainInv, RSetOwner
    PROVE  ChainInv'
  <1>1. /\ trackp \in Jobs /\ SlotsOK /\ ReaderOK /\ BurnerOK
        /\ bufIdx \in Slots /\ bufIdxReader \in Slots /\ NBuf \in Nat
        /\ rtrack <= NTracks /\ owner \in [Slots -> Owners]
    BY NBufAssumption DEF TypeOK, ReaderOK, BurnerOK, RSetOwner, SlotsOK
  <1>2. /\ UNCHANGED <<trackp, users, fd, len, data, puts, gets, done, contLow>>
        /\ UNCHANGED <<bufIdxReader, rtrack, rpos, rlen>> /\ UNCHANGED pvars
        /\ rpc = "owner" /\ rpc' = "users"
        /\ owner' = [owner EXCEPT ![bufIdxReader] = "reader"]
    BY DEF RSetOwner, tvars, statvars, pvars
  <1>3. owner[bufIdxReader] = "writer"
    BY <1>2 DEF SlotOwners, Filling
  <1>4. PICK c \in 0 .. NBuf, u \in {0, 1}, h \in {0, 1} : Chain(c, u, h)
    BY DEF ChainInv
  <1>5. u = 0 /\ bufIdxReader = At(c)
    BY <1>2, <1>4 DEF Chain, Counts, RNextSlot
  <1>6. c < NBuf /\ \A i \in 0 .. c - 1 : At(i) # bufIdxReader /\ At(i) \in Slots
    BY <1>1, <1>3, <1>4, <1>5, Apart, AtFacts DEF Chain
  <1>7. \A i : At(i)' = At(i)
    BY <1>2 DEF At, pvars
  <1>8. \A p : Valid(p)' = Valid(p) /\ Got(p)' = Got(p) /\ Succ(p)' = Succ(p)
    BY <1>2 DEF Valid, Got, Succ, NTracks
  <1>9. RPlace' = RPlace /\ RTrack' = RTrack /\ Over' = Over /\ RPlace # Over
    BY <1>1, <1>2, JobTracks DEF RPlace, RTrack, Over, NTracks
  <1>10. Counts(c + 1, 1, h)'
    <2>1. Next1(bufIdxReader) = At(c + 1)
      BY <1>1, <1>5, <1>6, AtFacts
    <2>2. RNextSlot(1)' = At(c + 1)'
      BY <1>2, <1>7, <2>1 DEF RNextSlot
    <2> QED  BY <1>1, <1>2, <1>4, <1>5, <2>2
             DEF Chain, Counts, Taken, NTracks, pvars
  <1>11. Owned(c + 1, h)'
    <2>1. \A i \in 0 .. c - 1 : owner'[At(i)] = owner[At(i)]
      BY <1>1, <1>2, <1>6
    <2>2. owner'[At(c)] = "reader"
      BY <1>1, <1>2, <1>5
    <2>3. ASSUME NEW i \in 0 .. c
          PROVE  owner'[At(i)] = "reader" \/ (i = 0 /\ h = 1 /\ owner'[At(i)] = "faio")
      <3>1. i = c \/ i \in 0 .. c - 1
        OBVIOUS
      <3> QED  BY <1>4, <2>1, <2>2, <3>1 DEF Chain, Owned
    <2>4. ASSUME NEW i \in c + 1 .. NBuf - 1 PROVE owner'[At(i)] = "writer"
      <3>1. i \in c .. NBuf - 1 /\ i \in 0 .. NBuf - 1 /\ c \in 0 .. NBuf - 1 /\ i # c
        BY <1>1, <1>6
      <3>2. At(i) # bufIdxReader /\ At(i) \in Slots
        BY <1>1, <1>5, <3>1, AtFacts
      <3> QED  BY <1>1, <1>2, <1>4, <1>9, <3>1, <3>2 DEF Chain, Owned
    <2>5. (c + 1) - 1 = c
      OBVIOUS
    <2> QED  BY <1>7, <2>3, <2>4, <2>5 DEF Owned
  <1>12. Linked(c + 1, 1)'
    <2>1. ChainInv /\ data[At(c)] = RPlace /\ Segment(At(c)) /\ Valid(RPlace)
      BY <1>1, <1>2, <1>5, <1>9 DEF ChainInv, Child, Segment, RPlace, RTrack
    <2>2. ASSUME NEW i \in 0 .. c PROVE Segment(At(i))'
      <3>1. i = c \/ i \in 0 .. c - 1
        OBVIOUS
      <3>2. Segment(At(i))
        BY <1>4, <2>1, <3>1 DEF Chain, Linked
      <3> QED  BY <1>2, <1>7, <1>8, <3>2 DEF Segment
    <2>3. ASSUME NEW i \in 0 .. c - 1 PROVE (data[At(i + 1)] = Succ(data[At(i)]))'
      <3>1. i + 1 = c \/ i \in 0 .. c - 2
        OBVIOUS
      <3>2. data[At(i + 1)] = Succ(data[At(i)])
        <4>1. CASE i \in 0 .. c - 2
          BY <1>4, <4>1 DEF Chain, Linked
        <4>2. CASE i + 1 = c
          <5>1. c > 0 /\ i = c - 1
            BY <4>2
          <5> QED  BY <1>4, <1>5, <2>1, <4>2, <5>1 DEF Chain, Linked, RNextPlace
        <4> QED  BY <3>1, <4>1, <4>2
      <3> QED  BY <1>2, <1>7, <1>8, <3>2
    <2>4. (RNextPlace(1) = Succ(data[At(c)]))'
      BY <1>2, <1>7, <1>8, <1>9, <2>1 DEF RNextPlace
    <2>5. (c + 1) - 1 = c /\ (c + 1) - 2 = c - 1
      OBVIOUS
    <2> QED  BY <2>2, <2>3, <2>4, <2>5 DEF Linked
  <1>13. Parent(c + 1, 1, h)'
    <2>1. Parent(c, u, h)
      BY <1>4 DEF Chain
    <2>2. /\ PPlace' = PPlace /\ InTrack' = InTrack /\ Taken' = Taken
          /\ Active' = Active /\ Over' = Over
          /\ UNCHANGED <<ppc, ending, ptrack, plen, bufIdx>>
      BY <1>2 DEF PPlace, InTrack, Taken, Active, Over, NTracks, pvars
    <2>3. h = 0 /\ Active => PPlace = data[bufIdx]
      <3>1. CASE c = 0
        <4>1. bufIdxReader = bufIdx /\ data[bufIdxReader] = RPlace
          BY <1>1, <1>2, <1>5, <3>1, AtFacts DEF ChainInv, Child
        <4> QED  BY <1>5, <2>1, <3>1, <4>1 DEF Parent, RNextPlace
      <3>2. CASE c # 0
        BY <2>1, <3>2 DEF Parent
      <3> QED  BY <3>1, <3>2
    <2>4. h = 1 => owner'[bufIdx] = owner[bufIdx]
      <3>1. h = 1 => 0 \in 0 .. c - 1 /\ At(0) = bufIdx
        BY <1>1, <1>4, AtFacts DEF Chain, Counts
      <3> QED  BY <1>1, <1>2, <1>6, <3>1
    <2> QED  BY <1>2, <1>8, <2>1, <2>2, <2>3, <2>4 DEF Parent
  <1>14. Child'
    BY <1>2, <1>8, <1>9 DEF ChainInv, Child
  <1>15. OneUser' /\ Capacity' /\ contLow' \in -1 .. NBuf
    BY <1>2, CapacityFrame DEF ChainInv, OneUser, pvars
  <1>16. c + 1 \in 0 .. NBuf
    BY <1>1, <1>6
  <1> QED  BY <1>10, <1>11, <1>12, <1>13, <1>14, <1>15, <1>16 DEF ChainInv, Chain

\* When the child counts its segment it goes on to the next slot and place.
LEMMA PutStep ==
    ASSUME TypeOK, ChainInv, RSetUsers \/ RPut
    PROVE  ChainInv'
  <1>1. /\ trackp \in Jobs /\ SlotsOK /\ ReaderOK /\ BurnerOK
        /\ bufIdx \in Slots /\ bufIdxReader \in Slots /\ NBuf \in Nat
        /\ NTracks \in Nat \ {0} /\ rtrack \in 1 .. NTracks
        /\ puts \in Nat /\ gets \in Nat
    BY NBufAssumption, JobTracks DEF TypeOK, StatsOK, ReaderOK, BurnerOK, RSetUsers, RPut
  <1>2. /\ UNCHANGED <<trackp, owner, fd, len, data, gets, done, contLow>>
        /\ UNCHANGED pvars /\ rlen' = rlen
    BY DEF RSetUsers, RPut, tvars, slotvars, statvars, pvars
  <1>3. PICK c \in 0 .. NBuf, u \in {0, 1}, h \in {0, 1} : Chain(c, u, h)
    BY DEF ChainInv
  <1>4. u = 1
    BY <1>3 DEF Chain, Counts, RSetUsers, RPut
  <1>5. /\ Over' = Over /\ Capacity' /\ contLow' \in -1 .. NBuf
        /\ \A i : At(i)' = At(i)
        /\ \A p : Valid(p)' = Valid(p) /\ Got(p)' = Got(p) /\ Succ(p)' = Succ(p)
    BY <1>2, CapacityFrame DEF ChainInv, Over, NTracks, At, Valid, Got, Succ, pvars
  <1>6. RPlace # Over /\ Valid(RPlace) /\ rlen = Got(RPlace)
    BY <1>1 DEF ChainInv, Child, RPlace, Over, RSetUsers, RPut
  <1>7. CASE RSetUsers
    <2>1. /\ UNCHANGED <<puts, bufIdxReader, rtrack, rpos>>
          /\ rpc = "users" /\ rpc' = "puts"
          /\ users' = [users EXCEPT ![bufIdxReader] = 1]
      BY <1>7 DEF RSetUsers, statvars
    <2>2. Counts(c, u, h)'
      BY <1>2, <1>3, <1>4, <2>1 DEF Chain, Counts, At, RNextSlot, Next1, Taken, NTracks, pvars
    <2>3. RPlace' = RPlace /\ RNextPlace(u)' = RNextPlace(u) /\ RTrack' = RTrack
      BY <1>2, <1>5, <2>1 DEF RPlace, RNextPlace, RTrack
    <2>4. Owned(c, h)'
      BY <1>2, <1>3, <1>5, <2>3, OwnedFrame DEF Chain, pvars
    <2>5. Linked(c, u)'
      BY <1>2, <1>3, <2>3, LinkedFrame DEF Chain, pvars
    <2>6. Parent(c, u, h)'
      BY <1>2, <1>3, <2>3, ParentFrame DEF Chain
    <2>7. Child'
      BY <1>2, <1>5, <2>1, <2>3 DEF ChainInv, Child
    <2>8. OneUser'
      <3>1. \A s \in Slots : users'[s] = users[s] \/ users'[s] = 1
        BY <1>1, <2>1 DEF SlotsOK
      <3> QED  BY <1>2, <3>1 DEF ChainInv, OneUser, pvars
    <2> QED  BY <1>5, <2>2, <2>4, <2>5, <2>6, <2>7, <2>8 DEF ChainInv, Chain
  <1>8. CASE RPut
    <2>1. /\ puts' = puts + 1 /\ bufIdxReader' = Next1(bufIdxReader)
          /\ rpc = "puts" /\ rpc' \in {"wait", "done"} /\ users' = users
      BY <1>8 DEF RPut, slotvars
    <2>2. RPlace' = Succ(RPlace) /\ (rpc' = "done" => RPlace' = Over)
      <3>1. RPlace[1] = rtrack /\ RPlace[2] = rpos
        BY DEF RPlace
      <3>2. CASE rlen > 0 /\ MoreToRead(RTrack, rpos + rlen)
        <4>1. Succ(RPlace) = <<rtrack, rpos + rlen>>
          BY <1>6, <3>1, <3>2 DEF Succ, RTrack
        <4> QED  BY <1>8, <3>2, <4>1 DEF RPut, RPlace
      <3>3. CASE ~(rlen > 0 /\ MoreToRead(RTrack, rpos + rlen))
        <4>1. Succ(RPlace) = <<rtrack + 1, 0>>
          BY <1>6, <3>1, <3>3 DEF Succ, RTrack
        <4> QED  BY <1>8, <3>3, <4>1 DEF RPut, RPlace, Over
      <3> QED  BY <3>2, <3>3
    <2>3. RNextPlace(0)' = RNextPlace(1) /\ RNextSlot(0)' = RNextSlot(1)
      BY <2>1, <2>2 DEF RNextPlace, RNextSlot
    <2>4. Counts(c, 0, h)'
      BY <1>1, <1>2, <1>3, <1>4, <1>5, <2>1, <2>3 DEF Chain, Counts, Taken, NTracks, pvars
    <2>5. Owned(c, h)'
      BY <1>2, <1>3, <1>6, OwnedFrame DEF Chain, pvars
    <2>6. Linked(c, 0)'
      <3>1. \A i \in 0 .. c - 1 : Segment(At(i))'
        BY <1>2, <1>3, <1>5 DEF Chain, Linked, Segment
      <3>2. \A i \in 0 .. c - 2 : (data[At(i + 1)] = Succ(data[At(i)]))'
        BY <1>2, <1>3, <1>5 DEF Chain, Linked
      <3>3. c > 0 => (RNextPlace(0) = Succ(data[At(c - 1)]))'
        BY <1>2, <1>3, <1>4, <1>5, <2>3 DEF Chain, Linked
      <3> QED  BY <3>1, <3>2, <3>3 DEF Linked
    <2>7. Parent(c, 0, h)'
      <3>1. Parent(c, 1, h)
        BY <1>3, <1>4 DEF Chain
      <3>2. /\ PPlace' = PPlace /\ InTrack' = InTrack /\ Taken' = Taken
            /\ Active' = Active
            /\ UNCHANGED <<ppc, ending, ptrack, plen, bufIdx>>
        BY <1>2 DEF PPlace, InTrack, Taken, Active, pvars
      <3> QED  BY <1>2, <1>5, <2>3, <3>1, <3>2 DEF Parent
    <2>8. Child'
      <3>1. RPlace' = Over \/ Valid(RPlace')
        BY <1>1, <1>6, <2>2, SuccFacts
      <3>2. done = 1 => FALSE
        BY <1>6 DEF ChainInv, Child
      <3> QED  BY <1>2, <1>5, <2>1, <2>2, <3>1, <3>2 DEF Child
    <2>9. OneUser'
      BY <1>2, <2>1 DEF ChainInv, OneUser, pvars
    <2> QED  BY <1>5, <2>4, <2>5, <2>6, <2>7, <2>8, <2>9 DEF ChainInv, Chain
  <1> QED  BY <1>7, <1>8

\* The child says that it is done, and looks whether the parent has begun.
LEMMA DoneStep ==
    ASSUME TypeOK, ChainInv, RDone \/ RTestGets
    PROVE  ChainInv'
  <1>1. /\ UNCHANGED <<trackp, owner, users, fd, len, data, puts, gets, contLow>>
        /\ UNCHANGED <<bufIdxReader, rtrack, rpos, rlen>> /\ UNCHANGED pvars
        /\ rpc \in {"done", "gets"} /\ rpc' \in {"gets", "mark", "exited"}
        /\ rpc' = "mark" => gets = 0
    BY DEF RDone, RTestGets, tvars, slotvars, statvars, pvars
  <1>2. PICK c \in 0 .. NBuf, u \in {0, 1}, h \in {0, 1} : Chain(c, u, h)
    BY DEF ChainInv
  <1>3. /\ RPlace' = RPlace /\ RTrack' = RTrack /\ Over' = Over
        /\ RNextPlace(u)' = RNextPlace(u) /\ RNextSlot(u)' = RNextSlot(u)
        /\ \A i : At(i)' = At(i)
        /\ \A p : Valid(p)' = Valid(p) /\ Got(p)' = Got(p) /\ Succ(p)' = Succ(p)
    BY <1>1 DEF RPlace, RTrack, Over, NTracks, RNextPlace, RNextSlot, At, Valid,
                Got, Succ, pvars
  <1>4. u = 0
    BY <1>1, <1>2 DEF Chain, Counts
  <1>5. Counts(c, u, h)'
    <2>1. gets = 0 => bufIdx + c <= NBuf
      BY <1>2, NBufAssumption DEF Chain, Counts
    <2> QED  BY <1>1, <1>2, <1>3, <1>4, <2>1 DEF Chain, Counts, Taken, NTracks, pvars
  <1>6. Owned(c, h)'
    BY <1>1, <1>2, <1>3, OwnedFrame DEF Chain, pvars
  <1>7. Linked(c, u)'
    BY <1>1, <1>2, <1>3, LinkedFrame DEF Chain, pvars
  <1>8. Parent(c, u, h)'
    BY <1>1, <1>2, <1>3, ParentFrame DEF Chain
  <1>9. Child'
    BY <1>1, <1>3 DEF ChainInv, Child
  <1>10. OneUser' /\ Capacity' /\ contLow' \in -1 .. NBuf
    BY <1>1, CapacityFrame DEF ChainInv, OneUser, pvars
  <1> QED  BY <1>5, <1>6, <1>7, <1>8, <1>9, <1>10 DEF ChainInv, Chain

\* The "Prevent hang" store: a last slot that was handed over is the last of them,
\* and the parent takes it for its next one only where there is no more to ask for.
LEMMA MarkStep ==
    ASSUME TypeOK, ChainInv, RMarkLast
    PROVE  ChainInv'
  <1>1. /\ trackp \in Jobs /\ bufIdx \in Slots /\ NBuf \in Nat \ {0}
        /\ owner \in [Slots -> Owners] /\ LastSlot \in Slots
    <2>1. NBuf \in Nat \ {0} /\ LastSlot \in Slots
      BY NBufAssumption DEF MinBuffers, Slots, LastSlot
    <2> QED  BY <2>1 DEF TypeOK, BurnerOK, SlotsOK
  <1>2. /\ UNCHANGED <<trackp, users, fd, len, data, puts, gets, done, contLow>>
        /\ UNCHANGED <<bufIdxReader, rtrack, rpos, rlen>> /\ UNCHANGED pvars
        /\ rpc = "mark" /\ rpc' = "exited"
        /\ owner' = [owner EXCEPT ![LastSlot] = "reader"]
    BY DEF RMarkLast, tvars, statvars, pvars
  <1>3. PICK c \in 0 .. NBuf, u \in {0, 1}, h \in {0, 1} : Chain(c, u, h)
    BY DEF ChainInv
  <1>4. /\ RPlace' = RPlace /\ RTrack' = RTrack /\ Over' = Over
        /\ RNextPlace(u)' = RNextPlace(u) /\ RNextSlot(u)' = RNextSlot(u)
        /\ \A i : At(i)' = At(i)
        /\ \A p : Valid(p)' = Valid(p) /\ Got(p)' = Got(p) /\ Succ(p)' = Succ(p)
    BY <1>2 DEF RPlace, RTrack, Over, NTracks, RNextPlace, RNextSlot, At, Valid,
                Got, Succ, pvars
  <1>5. u = 0 /\ bufIdx + c <= NBuf /\ RPlace = Over
    BY <1>2, <1>3 DEF Chain, Counts, ChainInv, Child
  <1>6. \A i \in 0 .. NBuf : At(i) \in Slots
    BY <1>1, AtFacts
  <1>7. \A s \in Slots : owner'[s] = IF s = LastSlot THEN "reader" ELSE owner[s]
    BY <1>1, <1>2
  <1>8. Counts(c, u, h)'
    BY <1>2, <1>3, <1>4, <1>5 DEF Chain, Counts, Taken, NTracks, pvars
  <1>9. Owned(c, h)'
    <2>1. ASSUME NEW i \in 0 .. c - 1
          PROVE  owner'[At(i)] = "reader" \/ (i = 0 /\ h = 1 /\ owner'[At(i)] = "faio")
      <3>1. At(i) \in Slots
        BY <1>1, <1>6
      <3> QED  BY <1>3, <1>7, <3>1 DEF Chain, Owned
    <2>2. ASSUME NEW i \in c .. NBuf - 1
          PROVE  \/ owner'[At(i)] = "writer"
                 \/ owner'[At(i)] = "reader" /\ At(i) = LastSlot /\ RPlace = Over
      <3>1. At(i) \in Slots
        BY <1>1, <1>6
      <3> QED  BY <1>3, <1>5, <1>7, <3>1 DEF Chain, Owned
    <2>3. LastSlot' = LastSlot
      BY DEF LastSlot
    <2> QED  BY <1>4, <2>1, <2>2, <2>3 DEF Owned
  <1>10. Linked(c, u)'
    BY <1>2, <1>3, <1>4, LinkedFrame DEF Chain, pvars
  <1>11. Parent(c, u, h)'
    <2>1. Parent(c, u, h)
      BY <1>3 DEF Chain
    <2>2. /\ PPlace' = PPlace /\ InTrack' = InTrack /\ Taken' = Taken
          /\ Active' = Active
          /\ UNCHANGED <<ppc, ending, ptrack, plen, bufIdx>>
      BY <1>2 DEF PPlace, InTrack, Taken, Active, pvars
    <2>3. h = 1 => owner'[bufIdx] = owner[bufIdx] \/ Succ(data[bufIdx]) = Over
      <3>1. CASE h = 1 /\ bufIdx = LastSlot
        <4>1. c > 0 /\ bufIdx + c <= NBuf /\ bufIdx = NBuf - 1
          BY <1>3, <1>5, <3>1 DEF LastSlot, Chain, Counts
        <4>2. c = 1
          BY <1>1, <4>1
        <4>3. At(c - 1) = bufIdx
          BY <1>1, <4>2, AtFacts
        <4> QED  BY <1>3, <1>5, <4>1, <4>3 DEF Chain, Linked, RNextPlace
      <3> QED  BY <1>1, <1>7, <3>1
    <2> QED  BY <1>2, <1>4, <2>1, <2>2, <2>3 DEF Parent
  <1>12. Child'
    BY <1>2, <1>4 DEF ChainInv, Child
  <1>13. OneUser' /\ Capacity' /\ contLow' \in -1 .. NBuf
    BY <1>2, CapacityFrame DEF ChainInv, OneUser, pvars
  <1> QED  BY <1>8, <1>9, <1>10, <1>11, <1>12, <1>13 DEF ChainInv, Chain

-----------------------------------------------------------------------------
(* The end of either process                                               *)

\* A child that goes away leaves all as it was.
LEMMA ChildGoesStep ==
    ASSUME TypeOK, ChainInv, RTimeout \/ RKilled
    PROVE  ChainInv'
  <1>1. /\ UNCHANGED <<trackp, owner, users, fd, len, data, puts, gets, done, contLow>>
        /\ UNCHANGED <<bufIdxReader, rtrack, rpos, rlen>> /\ UNCHANGED pvars
        /\ rpc' = "killed" \/ (rpc = "wait" /\ rpc' = "timedout")
    BY DEF RTimeout, RKilled, tvars, slotvars, statvars, pvars
  <1>2. PICK c \in 0 .. NBuf, u \in {0, 1}, h \in {0, 1} : Chain(c, u, h)
    BY DEF ChainInv
  <1>3. /\ RPlace' = RPlace /\ RTrack' = RTrack /\ Over' = Over
        /\ RNextPlace(u)' = RNextPlace(u) /\ RNextSlot(u)' = RNextSlot(u)
        /\ \A i : At(i)' = At(i)
        /\ \A p : Valid(p)' = Valid(p) /\ Got(p)' = Got(p) /\ Succ(p)' = Succ(p)
    BY <1>1 DEF RPlace, RTrack, Over, NTracks, RNextPlace, RNextSlot, At, Valid,
                Got, Succ, pvars
  <1>4. Counts(c, u, h)'
    BY <1>1, <1>2, <1>3 DEF Chain, Counts, Taken, NTracks, pvars
  <1>5. Owned(c, h)'
    BY <1>1, <1>2, <1>3, OwnedFrame DEF Chain, pvars
  <1>6. Linked(c, u)'
    BY <1>1, <1>2, <1>3, LinkedFrame DEF Chain, pvars
  <1>7. Parent(c, u, h)'
    BY <1>1, <1>2, <1>3, ParentFrame DEF Chain
  <1>8. Child'
    BY <1>1, <1>3 DEF ChainInv, Child
  <1>9. OneUser' /\ Capacity' /\ contLow' \in -1 .. NBuf
    BY <1>1, CapacityFrame DEF ChainInv, OneUser, pvars
  <1> QED  BY <1>4, <1>5, <1>6, <1>7, <1>8, <1>9 DEF ChainInv, Chain

\* Neither does a parent that asks for nothing more.
LEMMA QuitStep ==
    ASSUME TypeOK, ChainInv,
           UNCHANGED <<trackp, owner, users, fd, len, data, puts, gets, done, contLow>>,
           UNCHANGED <<bufIdxReader, rtrack, rpos, rlen, bufIdx, pusers>>,
           rpc' \in {rpc, "killed"},
           ppc' \in {"exit", "reap", "end"} \/ (ppc' = "idle" /\ ending' # "none")
    PROVE  ChainInv'
  <1>1. PICK c \in 0 .. NBuf, u \in {0, 1}, h \in {0, 1} : Chain(c, u, h)
    BY DEF ChainInv
  <1>2. /\ RPlace' = RPlace /\ RTrack' = RTrack /\ Over' = Over
        /\ RNextPlace(u)' = RNextPlace(u) /\ RNextSlot(u)' = RNextSlot(u)
        /\ \A i : At(i)' = At(i)
        /\ \A p : Valid(p)' = Valid(p) /\ Got(p)' = Got(p) /\ Succ(p)' = Succ(p)
    BY DEF RPlace, RTrack, Over, NTracks, RNextPlace, RNextSlot, At, Valid, Got, Succ
  <1>3. ~InTrack' /\ ~Taken' /\ ~Active'
    BY DEF InTrack, Taken, Active
  <1>4. Counts(c, u, h)'
    BY <1>1, <1>2, <1>3 DEF Chain, Counts, NTracks
  <1>5. Owned(c, h)'
    BY <1>1, <1>2, OwnedFrame DEF Chain
  <1>6. Linked(c, u)'
    BY <1>1, <1>2, LinkedFrame DEF Chain
  <1>7. Parent(c, u, h)'
    BY <1>3 DEF Parent
  <1>8. Child'
    BY <1>2 DEF ChainInv, Child
  <1>9. OneUser' /\ Capacity' /\ contLow' \in -1 .. NBuf
    BY DEF ChainInv, OneUser, Capacity
  <1> QED  BY <1>1, <1>4, <1>5, <1>6, <1>7, <1>8, <1>9 DEF ChainInv, Chain

\* Each of the parent's ways out of its work is such a step.
LEMMA PQuitStep ==
    ASSUME TypeOK, ChainInv,
           \/ PFinish \/ PTimeout \/ PUseError \/ PKillFaio \/ PWaitFaio
           \/ PDriveError \/ PInterrupt
           \/ (PScan \/ PCheck) /\ ppc' = "exit"
    PROVE  ChainInv'
  <1>1. /\ UNCHANGED <<trackp, owner, users, fd, len, data, puts, done, contLow>>
        /\ UNCHANGED <<bufIdxReader, rtrack, rpos, rlen, bufIdx, pusers>>
        /\ rpc' \in {rpc, "killed"}
    BY DEF PFinish, PTimeout, PUseError, PKillFaio, PWaitFaio, PDriveError,
           PInterrupt, PScan, PCheck, tvars, slotvars, statvars, rvars
  <1>2. ppc' \in {"exit", "reap", "end"} \/ (ppc' = "idle" /\ ending' # "none")
    BY DEF PFinish, PTimeout, PUseError, PKillFaio, PWaitFaio, PDriveError,
           PInterrupt
  <1>3. gets' = gets
    BY DEF PFinish, PTimeout, PUseError, PKillFaio, PWaitFaio, PDriveError,
           PInterrupt, PScan, PCheck, statvars
  <1> QED  BY <1>1, <1>2, <1>3, QuitStep

-----------------------------------------------------------------------------
(* The parent's steps                                                      *)

\* A step of the parent that leaves the slots and their numbers alone changes
\* at most its own view of them.
LEMMA SameSlots ==
    ASSUME Child, NEW c \in 0 .. NBuf, NEW u \in {0, 1}, NEW h \in {0, 1},
           Chain(c, u, h),
           UNCHANGED <<trackp, owner, fd, len, data, puts, gets, done, bufIdx>>,
           UNCHANGED rvars, Taken' => h = 1,
           ppc' \in {"await", "scan", "low", "wait", "check"} => h = 0
    PROVE  /\ Counts(c, u, h)' /\ Owned(c, h)' /\ Linked(c, u)' /\ Child'
           /\ RNextPlace(u)' = RNextPlace(u) /\ Over' = Over
           /\ \A p : Valid(p)' = Valid(p) /\ Got(p)' = Got(p) /\ Succ(p)' = Succ(p)
  <1>1. UNCHANGED <<rpc, bufIdxReader, rtrack, rpos, rlen>>
    BY DEF rvars
  <1>2. /\ RPlace' = RPlace /\ RTrack' = RTrack /\ Over' = Over
        /\ RNextPlace(u)' = RNextPlace(u) /\ RNextSlot(u)' = RNextSlot(u)
        /\ \A i : At(i)' = At(i)
        /\ \A p : Valid(p)' = Valid(p) /\ Got(p)' = Got(p) /\ Succ(p)' = Succ(p)
    BY <1>1 DEF RPlace, RTrack, Over, NTracks, RNextPlace, RNextSlot, At, Valid,
                Got, Succ
  <1>3. Counts(c, u, h)'
    BY <1>1, <1>2 DEF Chain, Counts, NTracks
  <1>4. Owned(c, h)'
    BY <1>2, OwnedFrame DEF Chain
  <1>5. Linked(c, u)'
    BY <1>2, LinkedFrame DEF Chain
  <1>6. Child'
    BY <1>1, <1>2 DEF Child
  <1> QED  BY <1>2, <1>3, <1>4, <1>5, <1>6

\* The statistics are of what is in the FIFO, where gets may be ahead of puts.
LEMMA Fill ==
    ASSUME TypeOK, NEW c \in 0 .. NBuf, NEW u \in {0, 1}, NEW h \in {0, 1},
           Counts(c, u, h)
    PROVE  puts - gets \in -1 .. NBuf
  BY NBufAssumption DEF Counts, TypeOK, StatsOK

\* Before the parent asks, and between two tracks, its next segment is the first
\* of the track it goes to.
LEMMA BetweenStep ==
    ASSUME TypeOK, ChainInv,
           PAwait \/ (PScan /\ ppc' # "exit") \/ PStartTrack
    PROVE  ChainInv'
  <1>1. /\ trackp \in Jobs /\ ReaderOK /\ BurnerOK /\ NBuf \in Nat
        /\ NTracks \in Nat \ {0} /\ ptrack \in 0 .. NTracks
        /\ \A t \in 1 .. NTracks : trackp[t] \in Track
    BY NBufAssumption, JobTracks DEF TypeOK, BurnerOK
  <1>2. /\ UNCHANGED <<trackp, owner, users, fd, len, data, puts, gets, done>>
        /\ UNCHANGED <<bufIdx, plen, pusers, ending>> /\ UNCHANGED rvars
        /\ contLow' \in {contLow, NBuf}
    <2>1. CASE PAwait
      BY <2>1 DEF PAwait, tvars, slotvars
    <2>2. CASE PScan /\ ppc' # "exit"
      BY <2>2 DEF PScan, tvars, slotvars, statvars, rvars
    <2>3. CASE PStartTrack
      BY <2>3 DEF PStartTrack, tvars, slotvars, statvars, rvars
    <2> QED  BY <2>1, <2>2, <2>3
  <1>3. PICK c \in 0 .. NBuf, u \in {0, 1}, h \in {0, 1} : Chain(c, u, h)
    BY DEF ChainInv
  <1>4. /\ ppc \in {"await", "scan", "idle"} /\ ppc' \in {"scan", "idle", "get"}
        /\ ppc' = "scan" => ppc \in {"await", "scan"}
        /\ ppc = "idle" => ppc' = "get" /\ ending = "none"
    BY DEF PAwait, PScan, PStartTrack
  <1>5. ppc' = "scan" => h = 0
    BY <1>3, <1>4 DEF Chain, Counts
  <1>6. ~Taken' /\ ~Taken
    BY <1>4 DEF Taken
  <1>7. /\ Counts(c, u, h)' /\ Owned(c, h)' /\ Linked(c, u)' /\ Child'
        /\ RNextPlace(u)' = RNextPlace(u) /\ Over' = Over
        /\ \A p : Valid(p)' = Valid(p) /\ Got(p)' = Got(p) /\ Succ(p)' = Succ(p)
    BY <1>2, <1>3, <1>4, <1>5, <1>6, SameSlots DEF ChainInv
  <1>8. PPlace' = PPlace /\ Valid(PPlace)' = Valid(PPlace)
    BY <1>2, <1>4, <1>7 DEF PPlace, InTrack, PAwait, PScan, PStartTrack
  <1>9. ending' = "none" /\ ending = "none"
    BY <1>2, <1>3, <1>4 DEF Chain, Parent
  <1>10. Active /\ Active'
    BY <1>4, <1>9 DEF Active
  <1>11. InTrack' => Valid(PPlace)'
    <2>1. CASE PStartTrack
      <3>1. ptrack < NTracks
        BY <2>1 DEF PStartTrack
      <3>2. Valid(<<ptrack + 1, 0>>)
        BY <1>1, <3>1, TrackFields DEF Valid
      <3> QED  BY <1>4, <1>8, <2>1, <3>2 DEF PPlace, InTrack, PStartTrack
    <2>2. CASE ~PStartTrack
      BY <2>2 DEF InTrack, PAwait, PScan
    <2> QED  BY <2>1, <2>2
  <1>12. Parent(c, u, h)'
    <2>1. Parent(c, u, h)
      BY <1>3 DEF Chain
    <2>2. h = 1 => ppc = "idle" /\ ppc' = "get"
      BY <1>3, <1>4 DEF Chain, Counts
    <2>3. ppc' \in {"await", "scan"} => ptrack' = 0
      BY <1>4, <2>1 DEF Parent, PAwait, PScan, PStartTrack
    <2> QED  BY <1>2, <1>4, <1>6, <1>7, <1>8, <1>9, <1>10, <1>11, <2>1, <2>2, <2>3 DEF Parent
  <1>13. Capacity'
    BY <1>2 DEF Capacity, PTrack, PAwait, PScan, PStartTrack
  <1>14. OneUser' /\ contLow' \in -1 .. NBuf
    BY <1>1, <1>2 DEF ChainInv, OneUser
  <1> QED  BY <1>7, <1>12, <1>13, <1>14 DEF ChainInv, Chain

\* A slot that was handed out has been used up when the parent comes back.
LEMMA ReleaseStep ==
    ASSUME TypeOK, ChainInv, PRelease
    PROVE  ChainInv'
  <1>1. /\ trackp \in Jobs /\ bufIdx \in Slots /\ NBuf \in Nat \ {0}
        /\ owner \in [Slots -> Owners] /\ puts \in Nat /\ gets \in Nat
    BY NBufAssumption DEF TypeOK, BurnerOK, SlotsOK, StatsOK, MinBuffers
  <1>2. /\ UNCHANGED <<trackp, users, fd, len, data, puts, gets, done, contLow>>
        /\ UNCHANGED <<ptrack, ppos, pcap, plen, pusers, ending>> /\ UNCHANGED rvars
        /\ ppc = "get" /\ ppc' = "low"
    BY DEF PRelease, tvars, statvars
  <1>3. PICK c \in 0 .. NBuf, u \in {0, 1}, h \in {0, 1} : Chain(c, u, h)
    BY DEF ChainInv
  <1>4. UNCHANGED <<rpc, bufIdxReader, rtrack, rpos, rlen>>
    BY <1>2 DEF rvars
  <1>5. /\ RPlace' = RPlace /\ RTrack' = RTrack /\ Over' = Over
        /\ RNextPlace(u)' = RNextPlace(u) /\ RNextSlot(u)' = RNextSlot(u)
        /\ \A p : Valid(p)' = Valid(p) /\ Got(p)' = Got(p) /\ Succ(p)' = Succ(p)
    BY <1>2, <1>4 DEF RPlace, RTrack, Over, NTracks, RNextPlace, RNextSlot, Valid,
                      Got, Succ
  <1>6. /\ PPlace' = PPlace /\ InTrack /\ InTrack' /\ ~Taken /\ ~Taken'
        /\ ending = "none" /\ Active
    BY <1>2, <1>3 DEF PPlace, InTrack, Taken, Active, Chain, Parent
  <1>7. Child' /\ Capacity' /\ OneUser' /\ contLow' \in -1 .. NBuf
    BY <1>2, <1>4, <1>5 DEF ChainInv, Child, Capacity, Got, PTrack, OneUser
  <1>8. At(0) = bufIdx /\ At(1) = Next1(bufIdx)
    BY <1>1, AtFacts
  <1>9. CASE h = 0
    <2>1. owner[bufIdx] # "faio"
      <3>1. c > 0 => 0 \in 0 .. c - 1
        OBVIOUS
      <3>2. c = 0 => 0 \in c .. NBuf - 1
        BY <1>1
      <3> QED  BY <1>3, <1>8, <1>9, <3>1, <3>2 DEF Chain, Owned
    <2>2. UNCHANGED <<owner, bufIdx>>
      BY <2>1 DEF PRelease
    <2>3. Counts(c, u, h)' /\ Owned(c, h)' /\ Linked(c, u)'
      BY <1>2, <1>3, <1>6, <1>9, <2>2, SameSlots DEF ChainInv
    <2>4. Parent(c, u, h)'
      <3>1. PPlace = IF c > 0 THEN data[bufIdx] ELSE RNextPlace(u)
        BY <1>3, <1>6, <1>9 DEF Chain, Parent
      <3>2. Valid(PPlace)
        BY <1>3, <1>6 DEF Chain, Parent
      <3> QED  BY <1>2, <1>5, <1>6, <1>9, <2>2, <3>1, <3>2 DEF Parent
    <2> QED  BY <1>7, <2>3, <2>4 DEF ChainInv, Chain
  <1>10. CASE h = 1
    <2>1. c \in 1 .. NBuf /\ c - 1 \in 0 .. NBuf
      BY <1>1, <1>3, <1>10 DEF Chain, Counts
    <2>2. Succ(data[bufIdx]) = PPlace /\ Valid(PPlace)
      BY <1>3, <1>6, <1>10 DEF Chain, Parent
    <2>3. owner[bufIdx] = "faio"
      BY <1>1, <1>2, <1>3, <1>6, <1>10, <2>2, OverInvalid DEF Chain, Parent
    <2>4. /\ bufIdx' = Next1(bufIdx) /\ owner' = [owner EXCEPT ![bufIdx] = "writer"]
      BY <2>3 DEF PRelease
    <2>5. \A i \in 0 .. NBuf - 1 : At(i)' = At(i + 1)
      BY <1>1, <2>4 DEF At, Next1, Slots
    <2>6. \A i \in 0 .. NBuf : At(i) \in Slots
      BY <1>1, AtFacts
    <2>7. \A i \in 1 .. NBuf - 1 : At(i) # bufIdx
      BY <1>1, <1>8, AtFacts
    <2>8. Counts(c - 1, u, 0)'
      <3>1. puts - gets = (c - 1) - u - 0
        BY <1>1, <1>3, <1>10, <2>1 DEF Chain, Counts
      <3>2. RNextSlot(u)' = At(c - 1)'
        <4>1. c - 1 \in 0 .. NBuf - 1 /\ (c - 1) + 1 = c
          BY <1>1, <2>1
        <4> QED  BY <1>3, <1>5, <2>5, <4>1 DEF Chain, Counts
      <3>3. gets # 0
        BY <1>3, <1>10 DEF Chain, Counts
      <3>4. rpc = "mark" => bufIdx' + (c - 1) <= NBuf
        <4>1. rpc = "mark" => bufIdx + c <= NBuf
          BY <1>3 DEF Chain, Counts
        <4> QED  BY <1>1, <2>1, <2>4, <4>1 DEF Next1, Slots
      <3> QED  BY <1>2, <1>3, <1>4, <1>6, <3>1, <3>2, <3>3, <3>4 DEF Chain, Counts, NTracks
    <2>9. Owned(c - 1, 0)'
      <3>1. ASSUME NEW i \in 0 .. c - 2 PROVE (owner[At(i)] = "reader")'
        <4>1. i + 1 \in 1 .. c - 1 /\ i + 1 \in 1 .. NBuf - 1 /\ i \in 0 .. NBuf - 1
          BY <1>1, <2>1
        <4>2. owner[At(i + 1)] = "reader"
          BY <1>3, <4>1 DEF Chain, Owned
        <4>3. At(i)' = At(i + 1) /\ At(i + 1) \in Slots /\ At(i + 1) # bufIdx
          BY <1>1, <2>5, <2>6, <2>7, <4>1
        <4> QED  BY <1>1, <2>4, <4>2, <4>3
      <3>2. ASSUME NEW i \in c - 1 .. NBuf - 1
            PROVE  (\/ owner[At(i)] = "writer"
                    \/ owner[At(i)] = "reader" /\ At(i) = LastSlot /\ RPlace = Over)'
        <4>1. i \in 0 .. NBuf - 1 /\ At(i)' = At(i + 1)
          BY <1>1, <2>1, <2>5
        <4>2. CASE i = NBuf - 1
          <5>1. At(i)' = bufIdx
            BY <1>1, <4>1, <4>2, AtFacts
          <5> QED  BY <1>1, <2>4, <5>1
        <4>3. CASE i # NBuf - 1
          <5>1. i + 1 \in c .. NBuf - 1 /\ i + 1 \in 1 .. NBuf - 1
            BY <1>1, <2>1, <4>3
          <5>2. At(i + 1) \in Slots /\ At(i + 1) # bufIdx
            BY <1>1, <2>6, <2>7, <5>1
          <5>3. \/ owner[At(i + 1)] = "writer"
                \/ owner[At(i + 1)] = "reader" /\ At(i + 1) = LastSlot /\ RPlace = Over
            BY <1>3, <5>1 DEF Chain, Owned
          <5>4. LastSlot' = LastSlot /\ owner'[At(i + 1)] = owner[At(i + 1)]
            BY <1>1, <2>4, <5>2 DEF LastSlot
          <5> QED  BY <1>5, <4>1, <5>3, <5>4
        <4> QED  BY <4>2, <4>3
      <3>3. (c - 1) - 1 = c - 2
        BY <2>1
      <3> QED  BY <3>1, <3>2, <3>3 DEF Owned
    <2>10. Linked(c - 1, u)'
      <3>1. ASSUME NEW i \in 0 .. c - 2 PROVE Segment(At(i))'
        <4>1. i + 1 \in 0 .. c - 1 /\ At(i)' = At(i + 1)
          BY <1>1, <2>1, <2>5
        <4>2. Segment(At(i + 1))
          BY <1>3, <4>1 DEF Chain, Linked
        <4> QED  BY <1>2, <1>5, <4>1, <4>2 DEF Segment
      <3>2. ASSUME NEW i \in 0 .. c - 3 PROVE (data[At(i + 1)] = Succ(data[At(i)]))'
        <4>1. i + 1 \in 0 .. c - 2 /\ At(i)' = At(i + 1) /\ At(i + 1)' = At((i + 1) + 1)
          BY <1>1, <2>1, <2>5
        <4>2. data[At((i + 1) + 1)] = Succ(data[At(i + 1)])
          BY <1>3, <4>1 DEF Chain, Linked
        <4> QED  BY <1>2, <1>5, <4>1, <4>2
      <3>3. c - 1 > 0 => (RNextPlace(u) = Succ(data[At((c - 1) - 1)]))'
        <4>1. c - 1 > 0 => (c - 1) - 1 \in 0 .. NBuf - 1 /\ ((c - 1) - 1) + 1 = c - 1
          BY <1>1, <2>1
        <4>2. c - 1 > 0 => At((c - 1) - 1)' = At(c - 1)
          BY <2>5, <4>1
        <4>3. RNextPlace(u) = Succ(data[At(c - 1)])
          BY <1>3, <2>1 DEF Chain, Linked
        <4> QED  BY <1>2, <1>5, <4>2, <4>3
      <3>4. (c - 1) - 1 = c - 2 /\ (c - 1) - 2 = c - 3
        BY <2>1
      <3> QED  BY <3>1, <3>2, <3>3, <3>4 DEF Linked
    <2>11. Parent(c - 1, u, 0)'
      <3>1. PPlace = IF c - 1 > 0 THEN data[Next1(bufIdx)] ELSE RNextPlace(u)
        <4>1. CASE c - 1 > 0
          <5>1. 0 \in 0 .. c - 2
            BY <2>1, <4>1
          <5>2. data[At(0 + 1)] = Succ(data[At(0)])
            BY <1>3, <5>1 DEF Chain, Linked
          <5> QED  BY <1>8, <2>2, <4>1, <5>2
        <4>2. CASE c = 1
          BY <1>3, <1>8, <2>2, <4>2 DEF Chain, Linked
        <4> QED  BY <2>1, <4>1, <4>2
      <3> QED  BY <1>2, <1>5, <1>6, <2>2, <2>4, <3>1 DEF Parent
    <2> QED  BY <1>7, <2>1, <2>8, <2>9, <2>10, <2>11 DEF ChainInv, Chain
  <1> QED  BY <1>9, <1>10

\* The parent polls its slot.
LEMMA AskStep ==
    ASSUME TypeOK, ChainInv, PLow \/ PWait
    PROVE  ChainInv'
  <1>1. /\ UNCHANGED <<trackp, owner, users, fd, len, data, puts, gets, done>>
        /\ UNCHANGED <<bufIdx, ptrack, ppos, pcap, plen, pusers, ending>>
        /\ UNCHANGED rvars
        /\ ppc \in {"low", "wait"} /\ ppc' \in {"wait", "check"}
        /\ contLow' \in {contLow, puts - gets}
    BY DEF PLow, PWait, tvars, slotvars, statvars
  <1>2. PICK c \in 0 .. NBuf, u \in {0, 1}, h \in {0, 1} : Chain(c, u, h)
    BY DEF ChainInv
  <1>3. h = 0 /\ ~Taken' /\ ~Taken /\ InTrack /\ InTrack'
    BY <1>1, <1>2 DEF Chain, Counts, Taken, InTrack
  <1>4. /\ Counts(c, u, h)' /\ Owned(c, h)' /\ Linked(c, u)' /\ Child'
        /\ RNextPlace(u)' = RNextPlace(u) /\ Over' = Over
        /\ \A p : Valid(p)' = Valid(p) /\ Got(p)' = Got(p) /\ Succ(p)' = Succ(p)
    BY <1>1, <1>2, <1>3, SameSlots DEF ChainInv
  <1>5. Parent(c, u, h)'
    <2>1. PPlace' = PPlace
      BY <1>1, <1>3 DEF PPlace
    <2>2. Active /\ ending = "none"
      BY <1>1, <1>2, <1>3 DEF Active, Chain, Parent
    <2> QED  BY <1>1, <1>2, <1>3, <1>4, <2>1, <2>2 DEF Chain, Parent
  <1>6. Capacity' /\ OneUser'
    BY <1>1 DEF ChainInv, Capacity, Got, PTrack, OneUser
  <1>7. contLow' \in -1 .. NBuf
    BY <1>1, <1>2, Fill DEF ChainInv, Chain
  <1> QED  BY <1>4, <1>5, <1>6, <1>7 DEF ChainInv, Chain

\* A slot that the parent finds in the hands of the reader has the very segment
\* it asks for.
LEMMA CheckFacts ==
    ASSUME TypeOK, SlotOwners, Child, ppc = "check",
           NEW c \in 0 .. NBuf, NEW u \in {0, 1}, NEW h \in {0, 1}, Chain(c, u, h)
    PROVE  /\ c > 0 /\ h = 0 /\ Valid(PPlace) /\ PPlace = <<ptrack, ppos>>
           /\ data[bufIdx] = PPlace /\ Segment(bufIdx)
  <1>1. /\ trackp \in Jobs /\ bufIdx \in Slots /\ NBuf \in Nat \ {0}
        /\ owner[bufIdx] = "reader" /\ NTracks \in Nat
    BY NBufAssumption, JobTracks DEF TypeOK, BurnerOK, MinBuffers, SlotOwners
  <1>2. /\ h = 0 /\ Active /\ InTrack /\ Valid(PPlace)
        /\ PPlace = IF c > 0 THEN data[bufIdx] ELSE RNextPlace(u)
    BY DEF Chain, Counts, Parent, Active, InTrack
  <1>3. At(0) = bufIdx
    BY <1>1, AtFacts
  <1>4. c > 0
    <2>1. SUFFICES ASSUME c = 0 PROVE FALSE
      OBVIOUS
    <2>2. RPlace = Over
      BY <1>1, <1>3, <2>1 DEF Chain, Owned
    <2>3. rtrack = NTracks + 1
      BY <2>2 DEF RPlace, Over
    <2>4. u = 0
      BY <1>1, <2>3 DEF Chain, Counts
    <2> QED  BY <1>1, <1>2, <2>1, <2>2, <2>4, OverInvalid DEF RNextPlace
  <1>5. Segment(bufIdx)
    <2>1. 0 \in 0 .. c - 1
      BY <1>4
    <2> QED  BY <1>3, <2>1 DEF Chain, Linked
  <1> QED  BY <1>2, <1>4, <1>5 DEF PPlace

\* The parent counts the segment it has found.
LEMMA TakeStep ==
    ASSUME TypeOK, SlotOwners, ChainInv, PCheck, ppc' # "exit"
    PROVE  ChainInv'
  <1>1. /\ UNCHANGED <<trackp, owner, users, fd, len, data, puts, done, contLow>>
        /\ UNCHANGED <<bufIdx, ptrack, ppos, pcap, pusers>> /\ UNCHANGED rvars
        /\ ppc = "check" /\ gets \in Nat
    BY DEF PCheck, tvars, slotvars, TypeOK, StatsOK
  <1>2. PICK c \in 0 .. NBuf, u \in {0, 1}, h \in {0, 1} : Chain(c, u, h)
    BY DEF ChainInv
  <1>3. /\ c > 0 /\ h = 0 /\ Valid(PPlace) /\ PPlace = <<ptrack, ppos>>
        /\ data[bufIdx] = PPlace /\ Segment(bufIdx)
    BY <1>1, <1>2, CheckFacts DEF ChainInv
  <1>4. fd[bufIdx] = PTrack.fd
    BY <1>3 DEF Segment, PTrack
  <1>5. /\ ppc' = "users" /\ gets' = gets + 1 /\ plen' = len[bufIdx]
        /\ ending' = ending
    BY <1>4 DEF PCheck
  <1>6. UNCHANGED <<rpc, bufIdxReader, rtrack, rpos, rlen>>
    BY <1>1 DEF rvars
  <1>7. /\ RPlace' = RPlace /\ RTrack' = RTrack /\ Over' = Over
        /\ RNextPlace(u)' = RNextPlace(u) /\ RNextSlot(u)' = RNextSlot(u)
        /\ \A i : At(i)' = At(i)
        /\ \A p : Valid(p)' = Valid(p) /\ Got(p)' = Got(p) /\ Succ(p)' = Succ(p)
    BY <1>1, <1>6 DEF RPlace, RTrack, Over, NTracks, RNextPlace, RNextSlot, At,
                      Valid, Got, Succ
  <1>8. Counts(c, u, 1)'
    <2>1. gets' # 0 /\ puts - gets' = c - u - 1
      BY <1>1, <1>2, <1>3, <1>5, NBufAssumption DEF Chain, Counts, TypeOK, StatsOK
    <2> QED  BY <1>1, <1>2, <1>3, <1>5, <1>6, <1>7, <2>1 DEF Chain, Counts, NTracks
  <1>9. Owned(c, 1)'
    <2>1. Owned(c, 1)
      BY <1>2 DEF Chain, Owned
    <2> QED  BY <1>1, <1>7, <2>1, OwnedFrame
  <1>10. Linked(c, u)'
    BY <1>1, <1>2, <1>7, LinkedFrame DEF Chain
  <1>11. Parent(c, u, 1)'
    <2>1. InTrack /\ InTrack' /\ Taken'
      BY <1>1, <1>5 DEF InTrack, Taken
    <2>2. PPlace' = PPlace /\ ending = "none"
      BY <1>1, <1>2, <2>1 DEF PPlace, Chain, Parent
    <2> QED  BY <1>1, <1>3, <1>5, <1>7, <2>1, <2>2 DEF Parent
  <1>12. Child' /\ OneUser'
    BY <1>1, <1>6, <1>7 DEF ChainInv, Child, OneUser
  <1>13. Capacity' /\ contLow' \in -1 .. NBuf
    BY <1>1, <1>5 DEF ChainInv, Capacity, Got, PTrack
  <1> QED  BY <1>8, <1>9, <1>10, <1>11, <1>12, <1>13 DEF ChainInv, Chain

\* One user is gone, and the slot is the parent's.
LEMMA HandOutStep ==
    ASSUME TypeOK, SlotOwners, ChainInv, PLoadUsers \/ PStoreUsers \/ PSetFaio
    PROVE  ChainInv'
  <1>1. /\ trackp \in Jobs /\ bufIdx \in Slots /\ NBuf \in Nat \ {0}
        /\ owner \in [Slots -> Owners] /\ users \in [Slots -> Int] /\ pusers \in Int
    <2>1. NBuf \in Nat \ {0}
      BY NBufAssumption DEF MinBuffers
    <2>2. trackp \in Jobs /\ bufIdx \in Slots /\ pusers \in Int
      BY DEF TypeOK, BurnerOK
    <2>3. owner \in [Slots -> Owners] /\ users \in [Slots -> Int]
      BY DEF TypeOK, SlotsOK
    <2> QED  BY <2>1, <2>2, <2>3
  <1>2. /\ UNCHANGED <<trackp, fd, len, data, puts, gets, done, contLow>>
        /\ UNCHANGED <<bufIdx, ptrack, ppos, pcap, plen, ending>> /\ UNCHANGED rvars
    BY DEF PLoadUsers, PStoreUsers, PSetFaio, tvars, slotvars, statvars
  <1>3. OneUser'
    <2>1. PLoadUsers => OneUser'
      BY <1>1 DEF PLoadUsers, ChainInv, OneUser, slotvars
    <2>2. PStoreUsers => OneUser'
      BY <1>1 DEF PStoreUsers, ChainInv, OneUser
    <2>3. PSetFaio => OneUser'
      BY <1>1 DEF PSetFaio, ChainInv, OneUser
    <2> QED  BY <2>1, <2>2, <2>3
  <1>4. /\ ppc \in {"users", "dec", "faio"} /\ ppc' \in {"dec", "faio", "use"}
        /\ ppc' = "use" => owner' = [owner EXCEPT ![bufIdx] = "faio"]
        /\ ppc' # "use" => owner' = owner
    <2>1. PStoreUsers => ppc' = "faio"
      BY <1>1 DEF PStoreUsers, ChainInv, OneUser
    <2> QED  BY <2>1 DEF PLoadUsers, PStoreUsers, PSetFaio, slotvars
  <1>5. PICK c \in 0 .. NBuf, u \in {0, 1}, h \in {0, 1} : Chain(c, u, h)
    BY DEF ChainInv
  <1>6. UNCHANGED <<rpc, bufIdxReader, rtrack, rpos, rlen>>
    BY <1>2 DEF rvars
  <1>7. /\ RPlace' = RPlace /\ RTrack' = RTrack /\ Over' = Over
        /\ RNextPlace(u)' = RNextPlace(u) /\ RNextSlot(u)' = RNextSlot(u)
        /\ \A i : At(i)' = At(i)
        /\ \A p : Valid(p)' = Valid(p) /\ Got(p)' = Got(p) /\ Succ(p)' = Succ(p)
    BY <1>2, <1>6 DEF RPlace, RTrack, Over, NTracks, RNextPlace, RNextSlot, At,
                      Valid, Got, Succ
  <1>8. /\ InTrack /\ InTrack' /\ Taken /\ Taken'
        /\ h = 1 /\ c > 0 /\ ending = "none" /\ Active
    <2>1. InTrack /\ InTrack' /\ Taken /\ Taken'
      BY <1>4 DEF InTrack, Taken
    <2> QED  BY <1>4, <1>5, <2>1 DEF Active, Chain, Counts, Parent
  <1>9. Counts(c, u, h)'
    BY <1>2, <1>4, <1>5, <1>6, <1>7, <1>8 DEF Chain, Counts, NTracks
  <1>10. Owned(c, h)'
    <2>1. CASE owner' = owner
      BY <1>2, <1>5, <1>7, <2>1, OwnedFrame DEF Chain
    <2>2. CASE owner' = [owner EXCEPT ![bufIdx] = "faio"]
      <3>1. /\ \A i \in 0 .. NBuf : At(i) \in Slots
            /\ At(0) = bufIdx
            /\ \A i \in 0 .. NBuf - 1 : i # 0 => At(i) # bufIdx
        BY <1>1, AtFacts
      <3>2. \A i \in 0 .. NBuf - 1 :
                owner'[At(i)] = IF i = 0 THEN "faio" ELSE owner[At(i)]
        BY <1>1, <2>2, <3>1
      <3>3. \A i \in 0 .. c - 1 : i \in 0 .. NBuf - 1
        BY <1>1
      <3>4. \A i \in c .. NBuf - 1 : i \in 0 .. NBuf - 1 /\ i # 0
        BY <1>1, <1>8
      <3>5. LastSlot' = LastSlot
        BY DEF LastSlot
      <3>6. ASSUME NEW i \in 0 .. c - 1
            PROVE  owner'[At(i)] = "reader" \/ (i = 0 /\ h = 1 /\ owner'[At(i)] = "faio")
        BY <1>5, <1>8, <3>2, <3>3 DEF Chain, Owned
      <3>7. ASSUME NEW i \in c .. NBuf - 1
            PROVE  \/ owner'[At(i)] = "writer"
                   \/ owner'[At(i)] = "reader" /\ At(i) = LastSlot /\ RPlace = Over
        BY <1>5, <3>2, <3>4 DEF Chain, Owned
      <3> QED  BY <1>7, <3>5, <3>6, <3>7 DEF Owned
    <2> QED  BY <1>4, <2>1, <2>2
  <1>11. Linked(c, u)'
    BY <1>2, <1>5, <1>7, LinkedFrame DEF Chain
  <1>12. Parent(c, u, h)'
    <2>1. PPlace' = PPlace
      BY <1>2, <1>8 DEF PPlace
    <2>2. ppc' = "use" => owner'[bufIdx] = "faio"
      BY <1>1, <1>4
    <2>3. data[bufIdx] = PPlace /\ plen = len[bufIdx] /\ Valid(PPlace)
      BY <1>5, <1>8 DEF Chain, Parent
    <2> QED  BY <1>2, <1>4, <1>7, <1>8, <2>1, <2>2, <2>3 DEF Parent
  <1>13. Child'
    BY <1>2, <1>6, <1>7 DEF ChainInv, Child
  <1>14. Capacity' /\ contLow' \in -1 .. NBuf
    BY <1>2, <1>4 DEF ChainInv, Capacity, Got, PTrack
  <1> QED  BY <1>3, <1>9, <1>10, <1>11, <1>12, <1>13, <1>14 DEF ChainInv, Chain

\* A short transfer is the last one of its file.
LEMMA ShortIsLast ==
    ASSUME trackp \in Jobs, NEW p, Valid(p), Got(p) > 0,
           Got(p) < trackp[p[1]].bpt, MoreToRead(trackp[p[1]], p[2] + Got(p))
    PROVE  Got(<<p[1], p[2] + Got(p)>>) <= 0
  <1> DEFINE tr == trackp[p[1]]
             g == Got(p)
             q == <<p[1], p[2] + g>>
  <1>1. /\ tr \in Track /\ g \in Int /\ p[2] \in Nat
        /\ BytesToRead(tr, p[2], tr.bpt) \in Nat \ {0}
        /\ g < BytesToRead(tr, p[2], tr.bpt) => g = -1 \/ p[2] + g = tr.avail
    BY GotFacts DEF Valid
  <1>2. /\ tr.size \in Int /\ tr.avail \in Nat /\ tr.err \in BOOLEAN /\ tr.bpt \in Nat \ {0}
    BY <1>1, TrackFields
  <1>3. q[1] = p[1] /\ q[2] = p[2] + g
    OBVIOUS
  <1>4. Got(q) = FillBuf(tr, p[2] + g, BytesToRead(tr, p[2] + g, tr.bpt))
    BY <1>3 DEF Got
  <1>5. g > 0 /\ g < tr.bpt /\ MoreToRead(tr, p[2] + g)
    OBVIOUS
  <1> HIDE DEF tr, g, q
  <1>6. p[2] + g = tr.avail
    BY <1>1, <1>2, <1>5 DEF MoreToRead, BytesToRead
  <1>7. BytesToRead(tr, p[2] + g, tr.bpt) > 0
    BY <1>1, <1>2, <1>5 DEF MoreToRead, BytesToRead
  <1>8. BytesToRead(tr, p[2] + g, tr.bpt) \in Int
    BY <1>1, <1>2 DEF BytesToRead
  <1>9. Got(q) <= 0
    BY <1>1, <1>2, <1>4, <1>6, <1>7, <1>8 DEF FillBuf
  <1> QED  BY <1>9 DEF q, g

\* Whole sectors of a transfer are a number of bytes.
LEMMA RoundUpNat ==
    ASSUME NEW tr \in Track, NEW count \in Nat
    PROVE  RoundUp(tr, count) \in Nat
  <1> DEFINE k == (count + tr.sec - 1) \div tr.sec
  <1>1. tr.sec \in Nat \ {0} /\ count + tr.sec - 1 \in Nat
    BY TrackFields
  <1>2. k \in Nat
    BY <1>1
  <1> HIDE DEF k
  <1>3. k * tr.sec \in Nat
    BY <1>1, <1>2
  <1> QED  BY <1>3 DEF RoundUp, k

\* The parent goes on to the place where the child's next segment starts.
LEMMA UsedStep ==
    ASSUME TypeOK, SlotOwners, ChainInv, PUseEOF \/ PWrite
    PROVE  ChainInv'
  <1>1. /\ trackp \in Jobs /\ ptrack \in 1 .. NTracks /\ ppos \in Nat /\ plen \in Int
        /\ PTrack \in Track /\ pcap \in Int
    BY JobTracks DEF TypeOK, BurnerOK, PUseEOF, PWrite, PTrack
  <1>2. /\ UNCHANGED <<trackp, owner, users, fd, len, data, puts, gets, done, contLow>>
        /\ UNCHANGED <<bufIdx, ptrack, plen, pusers, ending>> /\ UNCHANGED rvars
        /\ ppc = "use" /\ ppc' \in {"get", "idle"} /\ plen >= 0
    BY <1>1 DEF PUseEOF, PWrite, tvars, slotvars, statvars
  <1>3. PICK c \in 0 .. NBuf, u \in {0, 1}, h \in {0, 1} : Chain(c, u, h)
    BY DEF ChainInv
  <1>4. InTrack /\ Taken /\ ~Taken'
    BY <1>2 DEF InTrack, Taken
  <1>5. h = 1 /\ c > 0 /\ ending = "none" /\ Active /\ Active'
    BY <1>2, <1>3, <1>4 DEF Active, Chain, Counts, Parent
  <1>6. /\ Counts(c, u, h)' /\ Owned(c, h)' /\ Linked(c, u)' /\ Child'
        /\ RNextPlace(u)' = RNextPlace(u) /\ Over' = Over
        /\ \A p : Valid(p)' = Valid(p) /\ Got(p)' = Got(p) /\ Succ(p)' = Succ(p)
    BY <1>2, <1>3, <1>4, <1>5, SameSlots DEF ChainInv
  <1>7. /\ PPlace = <<ptrack, ppos>> /\ data[bufIdx] = PPlace /\ Valid(PPlace)
        /\ PPlace[1] = ptrack /\ PPlace[2] = ppos
        /\ owner[bufIdx] = "faio" \/ Succ(data[bufIdx]) = Over
    BY <1>2, <1>3, <1>4, <1>5 DEF PPlace, Chain, Parent
  <1>8. plen = Got(PPlace)
    <2>1. At(0) = bufIdx /\ 0 \in 0 .. c - 1
      BY <1>5, AtFacts DEF TypeOK, BurnerOK
    <2> QED  BY <1>3, <1>4, <1>5, <1>7, <2>1 DEF Chain, Parent, Linked, Segment
  <1>9. Succ(PPlace) = IF plen > 0 /\ MoreToRead(PTrack, ppos + plen)
                       THEN <<ptrack, ppos + plen>> ELSE <<ptrack + 1, 0>>
    BY <1>7, <1>8 DEF Succ, PTrack
  <1>10. PPlace' = Succ(PPlace) /\ (InTrack' => Valid(PPlace'))
    <2>1. CASE PUseEOF
      BY <1>1, <1>2, <1>9, <2>1 DEF PUseEOF, PPlace, InTrack
    <2>2. CASE PWrite /\ MoreToRead(PTrack, ppos + plen)
      <3>1. PPlace' = <<ptrack, ppos + plen>> /\ Succ(PPlace) = PPlace' /\ plen > 0
        BY <1>2, <1>9, <2>2 DEF PWrite, PPlace, InTrack
      <3>2. Succ(PPlace) # Over
        BY <1>1, <3>1 DEF Over
      <3> QED  BY <1>1, <1>7, <3>1, <3>2, SuccFacts
    <2>3. CASE PWrite /\ ~MoreToRead(PTrack, ppos + plen)
      BY <1>1, <1>2, <1>9, <2>3 DEF PWrite, PPlace, InTrack
    <2> QED  BY <2>1, <2>2, <2>3
  <1>11. Parent(c, u, h)'
    BY <1>2, <1>4, <1>5, <1>6, <1>7, <1>10 DEF Parent
  <1>12. Capacity'
    <2>1. CASE PWrite /\ ppc' = "get"
      <3>1. MoreToRead(PTrack, ppos + plen) /\ plen > 0 /\ ppos' = ppos + plen
        BY <2>1 DEF PWrite
      <3>2. Clip(PTrack, plen, ppos + plen) = plen
        BY <1>1, <3>1, TrackFields DEF Clip, MoreToRead
      <3>3. pcap' = IF plen < pcap THEN RoundUp(PTrack, plen) ELSE pcap
        BY <2>1, <3>2 DEF PWrite
      <3>4. pcap = PTrack.bpt
        BY <1>1, <1>2, <1>7, <1>8, <3>1 DEF ChainInv, Capacity
      <3>5. PTrack' = PTrack
        BY <1>2 DEF PTrack
      <3>6. CASE plen < pcap
        <4>1. Got(<<ptrack, ppos + plen>>) <= 0
          BY <1>1, <1>7, <1>8, <3>1, <3>4, <3>6, ShortIsLast DEF PTrack
        <4>2. (Got(<<ptrack, ppos>>) <= 0)'
          BY <1>2, <3>1, <4>1 DEF Got
        <4>3. pcap' \in Nat
          BY <1>1, <3>1, <3>3, <3>6, RoundUpNat
        <4> QED  BY <4>2, <4>3 DEF Capacity
      <3>7. CASE ~(plen < pcap)
        BY <3>3, <3>4, <3>5, <3>7 DEF Capacity
      <3> QED  BY <3>6, <3>7
    <2>2. CASE ppc' = "idle"
      BY <2>2 DEF Capacity
    <2>3. PUseEOF => ppc' = "idle"
      BY DEF PUseEOF
    <2> QED  BY <1>2, <2>1, <2>2, <2>3
  <1>13. OneUser' /\ contLow' \in -1 .. NBuf
    BY <1>2 DEF ChainInv, OneUser
  <1> QED  BY <1>6, <1>11, <1>12, <1>13 DEF ChainInv, Chain

-----------------------------------------------------------------------------
(* Parent and child agree                                                  *)

\* At the start nothing is handed over, and both are at the first track.
LEMMA InitChain == Init => ChainInv
  <1> SUFFICES ASSUME Init PROVE ChainInv
    OBVIOUS
  <1>1. /\ trackp \in Jobs /\ NTracks \in Nat \ {0} /\ trackp[1] \in Track
        /\ NBuf \in Nat \ {0}
    BY NBufAssumption, JobTracks DEF Init, MinBuffers
  <1>2. bufIdx \in Slots /\ \A i \in 0 .. NBuf : At(i) \in Slots
    <2>1. bufIdx \in Slots
      BY <1>1 DEF Init, Slots
    <2> QED  BY <2>1, AtFacts
  <1>3. At(0) = 0
    BY <1>1 DEF At, Init
  <1>4. Valid(<<1, 0>>) /\ RPlace = <<1, 0>> /\ PPlace = <<1, 0>> /\ RNextPlace(0) = <<1, 0>>
    BY <1>1, TrackFields DEF Valid, RPlace, PPlace, InTrack, RNextPlace, Init
  <1>5. Counts(0, 0, 0)
    BY <1>1, <1>3 DEF Counts, RNextSlot, Taken, Init
  <1>6. Owned(0, 0)
    BY <1>1, <1>2 DEF Owned, Init
  <1>7. Linked(0, 0)
    BY DEF Linked
  <1>8. Parent(0, 0, 0)
    BY <1>4 DEF Parent, InTrack, Taken, Init
  <1>9. Child
    BY <1>4 DEF Child, Init
  <1>10. OneUser /\ Capacity /\ contLow \in -1 .. NBuf
    BY <1>1 DEF OneUser, Capacity, Init
  <1> QED  BY <1>1, <1>5, <1>6, <1>7, <1>8, <1>9, <1>10 DEF ChainInv, Chain

\* No step of either process breaks the chain of segments between them.
LEMMA ChainStep ==
    TypeOK /\ SlotOwners /\ ChainInv /\ [Next]_vars => ChainInv'
  <1> SUFFICES ASSUME TypeOK, SlotOwners, ChainInv, [Next]_vars PROVE ChainInv'
    OBVIOUS
  <1>1. CASE Reader
    BY <1>1, FillStep, HandOverStep, PutStep, DoneStep, MarkStep DEF Reader
  <1>2. CASE Burner
    <2>1. CASE PAwait \/ (PScan /\ ppc' # "exit") \/ PStartTrack
      BY <2>1, BetweenStep
    <2>2. CASE \/ PFinish \/ PTimeout \/ PUseError \/ PKillFaio \/ PWaitFaio
               \/ (PScan \/ PCheck) /\ ppc' = "exit"
      BY <2>2, PQuitStep
    <2>3. CASE PRelease \/ PLow \/ PWait \/ (PCheck /\ ppc' # "exit")
      BY <2>3, ReleaseStep, AskStep, TakeStep
    <2>4. CASE \/ PLoadUsers \/ PStoreUsers \/ PSetFaio \/ PUseEOF \/ PWrite
      BY <2>4, HandOutStep, UsedStep
    <2> QED  BY <1>2, <2>1, <2>2, <2>3, <2>4 DEF Burner
  <1>3. CASE Fault
    BY <1>3, ChildGoesStep, PQuitStep DEF Fault
  <1>4. CASE UNCHANGED vars
    <2>1. /\ UNCHANGED <<trackp, owner, fd, len, data, users, puts, gets, done, contLow>>
          /\ UNCHANGED rvars /\ UNCHANGED pvars
      BY <1>4 DEF vars, tvars, slotvars, statvars
    <2>2. PICK c \in 0 .. NBuf, u \in {0, 1}, h \in {0, 1} : Chain(c, u, h)
      BY DEF ChainInv
    <2>3. UNCHANGED <<bufIdx, ppc, pusers>>
      BY <2>1 DEF pvars
    <2>4. Counts(c, u, h)' /\ Owned(c, h)' /\ Linked(c, u)' /\ Child'
          /\ RNextPlace(u)' = RNextPlace(u)
      BY <2>1, <2>2, <2>3, SameSlots DEF ChainInv, Chain, Counts, Taken
    <2>5. Parent(c, u, h)'
      BY <2>1, <2>2, <2>4, ParentFrame DEF Chain
    <2>6. OneUser' /\ Capacity' /\ contLow' \in -1 .. NBuf
      BY <2>1, <2>3, CapacityFrame DEF ChainInv, OneUser
    <2> QED  BY <2>4, <2>5, <2>6 DEF ChainInv, Chain
  <1> QED  BY <1>1, <1>2, <1>3, <1>4 DEF Next, Terminated

\* In every run the slots that are handed over hold consecutive segments of the
\* input, from the one the parent takes next to the one before the child's.
THEOREM ChainHolds == Spec => [](TypeOK /\ SlotOwners /\ ChainInv)
  <1>1. TypeOK /\ SlotOwners /\ [Next]_vars => SlotOwners'
    BY OwnersStep
  <1>2. Init => SlotOwners
    BY InitAwait
  <1> QED  BY <1>1, <1>2, InitChain, ChainStep, TypeCorrect, PTL DEF Spec

\* So faio_get_buf() never meets a slot of another file or a longer transfer
\* than it asks for, and its counts are off by one at most.
THEOREM InLockstep == Spec => []Lockstep
  <1>1. TypeOK /\ SlotOwners /\ ChainInv => Lockstep
    <2> SUFFICES ASSUME TypeOK, SlotOwners, ChainInv PROVE Lockstep
      OBVIOUS
    <2>1. PICK c \in 0 .. NBuf, u \in {0, 1}, h \in {0, 1} : Chain(c, u, h)
      BY DEF ChainInv
    <2>2. puts + 1 - gets \in 0 .. NBuf + 1 /\ contLow \in -1 .. NBuf
      <3>1. puts - gets \in -1 .. NBuf
        BY <2>1, Fill DEF Chain
      <3> QED  BY <3>1, NBufAssumption DEF TypeOK, StatsOK, ChainInv
    <2>3. ASSUME ppc = "check"
          PROVE  fd[bufIdx] = PTrack.fd /\ len[bufIdx] <= BytesToRead(PTrack, ppos, pcap)
      <3>1. /\ Valid(PPlace) /\ PPlace = <<ptrack, ppos>>
            /\ data[bufIdx] = PPlace /\ Segment(bufIdx)
        BY <2>1, <2>3, CheckFacts DEF ChainInv
      <3>2. /\ fd[bufIdx] = PTrack.fd /\ len[bufIdx] = Got(PPlace)
            /\ PPlace[1] = ptrack /\ PPlace[2] = ppos
        BY <3>1 DEF Segment, PTrack
      <3>3. /\ Got(PPlace) \in Int /\ PTrack \in Track
            /\ Got(PPlace) <= BytesToRead(PTrack, ppos, PTrack.bpt)
        BY <3>1, <3>2, GotFacts DEF TypeOK, PTrack
      <3>4. pcap = PTrack.bpt \/ (pcap \in Nat /\ Got(PPlace) <= 0)
        BY <2>3, <3>1 DEF ChainInv, Capacity
      <3>5. pcap \in Nat => BytesToRead(PTrack, ppos, pcap) >= 0
        BY <3>1, <3>2, <3>3, TrackFields DEF BytesToRead, Valid, MoreToRead, PTrack
      <3>6. pcap \in Nat => BytesToRead(PTrack, ppos, pcap) \in Int
        BY <3>1, <3>2, <3>3, TrackFields DEF BytesToRead, Valid
      <3>7. Got(PPlace) <= BytesToRead(PTrack, ppos, pcap)
        BY <3>3, <3>4, <3>5, <3>6
      <3> QED  BY <3>2, <3>7
    <2> QED  BY <2>2, <2>3 DEF Lockstep
  <1> QED  BY <1>1, ChainHolds, PTL

-----------------------------------------------------------------------------
(* What is burned                                                          *)

\* Neighbouring runs of bytes make one.
LEMMA ChunkAppend ==
    ASSUME NEW t, NEW n \in Nat, NEW m \in Nat
    PROVE  Chunk(t, 0, n) \o Chunk(t, n, m) = Chunk(t, 0, n + m)
  <1> DEFINE a == Chunk(t, 0, n)
             b == Chunk(t, n, m)
             ab == Chunk(t, 0, n + m)
             B == {t} \X Nat
  <1>1. a \in Seq(B) /\ Len(a) = n /\ \A k \in 1 .. n : a[k] = <<t, k - 1>>
    <2>1. a = [k \in 1 .. n |-> <<t, 0 + k - 1>>] /\ \A k \in 1 .. n : <<t, 0 + k - 1>> \in B
      BY DEF Chunk
    <2> QED  BY <2>1
  <1>2. b \in Seq(B) /\ Len(b) = m /\ \A k \in 1 .. m : b[k] = <<t, n + k - 1>>
    <2>1. b = [k \in 1 .. m |-> <<t, n + k - 1>>] /\ \A k \in 1 .. m : <<t, n + k - 1>> \in B
      BY DEF Chunk
    <2> QED  BY <2>1
  <1>3. ab \in Seq(B) /\ Len(ab) = n + m /\ \A k \in 1 .. n + m : ab[k] = <<t, k - 1>>
    <2>1. /\ ab = [k \in 1 .. n + m |-> <<t, 0 + k - 1>>]
          /\ \A k \in 1 .. n + m : <<t, 0 + k - 1>> \in B
      BY DEF Chunk
    <2> QED  BY <2>1
  <1> HIDE DEF a, b, ab
  <1>4. /\ a \o b \in Seq(B) /\ Len(a \o b) = n + m
        /\ \A k \in 1 .. n + m : (a \o b)[k] = IF k <= n THEN a[k] ELSE b[k - n]
    BY <1>1, <1>2, ConcatProperties
  <1>5. \A k \in 1 .. n + m : (a \o b)[k] = ab[k]
    <2> TAKE k \in 1 .. n + m
    <2>1. CASE k <= n
      <3>1. k \in 1 .. n
        BY <2>1
      <3> QED  BY <1>1, <1>3, <1>4, <2>1, <3>1
    <2>2. CASE ~(k <= n)
      <3>1. k - n \in 1 .. m /\ n + (k - n) - 1 = k - 1
        BY <2>2
      <3>2. b[k - n] = <<t, k - 1>>
        BY <1>2, <3>1
      <3> QED  BY <1>3, <1>4, <2>2, <3>2
    <2> QED  BY <2>1, <2>2
  <1>6. a \o b = ab
    BY <1>3, <1>4, <1>5, SeqEqual
  <1> QED  BY <1>6 DEF a, b, ab

\* An empty run.
LEMMA ChunkNone == \A t, off : Chunk(t, off, 0) = <<>>
  BY DEF Chunk

\* The pieces of the image are sequences of bytes, one for each track.
LEMMA PiecesType ==
    ASSUME trackp \in Jobs
    PROVE  /\ \A t \in 1 .. NTracks : TrackBytes(t) \in Nat
           /\ Pieces \in Seq(Seq(Nat \X Nat)) /\ Len(Pieces) = NTracks
           /\ \A t \in 1 .. NTracks : Pieces[t] = Chunk(t, 0, TrackBytes(t))
           /\ Image(trackp) = FlattenSeq(Pieces)
  <1>1. /\ NTracks \in Nat \ {0} /\ DOMAIN trackp = 1 .. NTracks
        /\ \A t \in 1 .. NTracks : trackp[t] \in Track
    BY JobTracks, JobsAssumption DEF NTracks
  <1>2. \A t \in 1 .. NTracks : TrackBytes(t) \in Nat
    BY <1>1, TrackFields DEF TrackBytes
  <1>3. \A t \in 1 .. NTracks : Chunk(t, 0, TrackBytes(t)) \in Seq(Nat \X Nat)
    BY <1>2, ChunkType
  <1>4. Pieces = [t \in 1 .. NTracks |-> Chunk(t, 0, TrackBytes(t))]
    BY <1>1 DEF Pieces
  <1>5. Pieces \in Seq(Seq(Nat \X Nat)) /\ Len(Pieces) = NTracks
    BY <1>1, <1>3, <1>4
  <1>6. Image(trackp) = FlattenSeq(Pieces)
    BY DEF Image, Pieces, TrackBytes
  <1> QED  BY <1>2, <1>4, <1>5, <1>6

\* The image up to a byte of a track: whole tracks and a part of the next one.
LEMMA ImageUpTo ==
    ASSUME trackp \in Jobs, NEW t \in 1 .. NTracks
    PROVE  /\ FlattenFirst(Pieces, t) =
                  FlattenFirst(Pieces, t - 1) \o Chunk(t, 0, TrackBytes(t))
           /\ FlattenFirst(Pieces, t - 1) \in Seq(Nat \X Nat)
           /\ FlattenFirst(Pieces, t) \in Seq(Nat \X Nat)
           /\ FlattenFirst(Pieces, 0) = <<>>
           /\ FlattenFirst(Pieces, NTracks) = Image(trackp)
  <1>1. NTracks \in Nat /\ t - 1 \in 0 .. NTracks /\ t \in 0 .. NTracks
    BY JobTracks
  <1> HIDE DEF FlattenFirst
  <1> QED  BY <1>1, PiecesType, FlattenUpTo, FlattenType

\* What is burned in the middle of a track is the beginning of the image.
LEMMA PrefixOfImage ==
    ASSUME trackp \in Jobs, NEW t \in 1 .. NTracks, NEW k \in 0 .. TrackBytes(t)
    PROVE  LET b == FlattenFirst(Pieces, t - 1) \o Chunk(t, 0, k)
           IN  /\ b \in Seq(Nat \X Nat)
               /\ \E r \in Seq(Nat \X Nat) : Image(trackp) = b \o r
  <1> DEFINE B == Nat \X Nat
             f == FlattenFirst(Pieces, t - 1)
             m == TrackBytes(t) - k
             x == Chunk(t, 0, k)
             y == Chunk(t, k, m)
  <1>1. TrackBytes(t) \in Nat /\ k \in Nat /\ m \in Nat /\ k + m = TrackBytes(t) /\ t \in Nat
    BY PiecesType, JobTracks
  <1>2. /\ FlattenFirst(Pieces, t) = f \o Chunk(t, 0, TrackBytes(t))
        /\ f \in Seq(B)
    BY ImageUpTo
  <1>3. x \in Seq(B) /\ y \in Seq(B)
    BY <1>1, ChunkType
  <1>4. Chunk(t, 0, TrackBytes(t)) = x \o y
    <2>1. Chunk(t, 0, k) \o Chunk(t, k, m) = Chunk(t, 0, k + m)
      <3> HIDE DEF m
      <3> QED  BY <1>1, ChunkAppend
    <2> QED  BY <1>1, <2>1
  <1>5. PICK r \in Seq(B) : Image(trackp) = FlattenFirst(Pieces, t) \o r
    <2>1. /\ NTracks \in Nat /\ t \in 0 .. Len(Pieces) /\ NTracks \in t .. Len(Pieces)
          /\ Pieces \in Seq(Seq(B))
      BY PiecesType, JobTracks
    <2>2. \E r \in Seq(B) : FlattenFirst(Pieces, NTracks) = FlattenFirst(Pieces, t) \o r
      BY <2>1, FlattenPrefix
    <2> QED  BY <2>2, ImageUpTo
  <1> HIDE DEF f, x, y, B
  <1> DEFINE fx == f \o x
             yr == y \o r
  <1>6. fx \in Seq(B) /\ yr \in Seq(B)
    BY <1>2, <1>3, <1>5, ConcatProperties
  <1>7. fx \o y = f \o (x \o y)
    <2>1. f \in Seq(B)
      BY <1>2
    <2> QED  BY <1>3, <2>1, ConcatAssociative
  <1>8. (fx \o y) \o r = fx \o (y \o r)
    <2> HIDE DEF fx
    <2> QED  BY <1>3, <1>5, <1>6, ConcatAssociative
  <1>9. Image(trackp) = fx \o yr
    BY <1>2, <1>4, <1>5, <1>7, <1>8
  <1> QED  BY <1>6, <1>9 DEF f, x, B

\* What is left to be burned of the track that is in hand.
LEMMA TrackRest ==
    ASSUME TypeOK, ChainInv, BurnedInv, InTrack
    PROVE  /\ trackp \in Jobs /\ ptrack \in 1 .. NTracks /\ ppos \in Nat
           /\ PTrack \in Track
           /\ TrackBytes(ptrack) \in Nat /\ ppos \in 0 .. TrackBytes(ptrack)
           /\ ppos <= PTrack.avail /\ (ppos = 0 \/ MoreToRead(PTrack, ppos))
           /\ ending = "none" /\ Active /\ Valid(PPlace) /\ PPlace = <<ptrack, ppos>>
  <1>1. trackp \in Jobs /\ ptrack \in 1 .. NTracks /\ ppos \in Nat
    BY JobTracks DEF TypeOK, BurnerOK, InTrack
  <1>2. PTrack \in Track /\ TrackBytes(ptrack) \in Nat
    BY <1>1, JobTracks, PiecesType DEF PTrack
  <1>3. ending = "none" /\ Active /\ Valid(PPlace) /\ PPlace = <<ptrack, ppos>>
    BY DEF ChainInv, Chain, Parent, Active, InTrack, PPlace
  <1>4. ppos <= PTrack.avail /\ (ppos = 0 \/ MoreToRead(PTrack, ppos))
    BY <1>1, <1>3 DEF Valid, PTrack
  <1>5. ppos <= TrackBytes(ptrack)
    BY <1>1, <1>2, <1>4, TrackFields DEF TrackBytes, MoreToRead, PTrack
  <1> QED  BY <1>1, <1>2, <1>3, <1>4, <1>5

\* The segment in the parent's hands is the next one of its track.
LEMMA UseFacts ==
    ASSUME TypeOK, ChainInv, ppc = "use"
    PROVE  data[bufIdx] = PPlace /\ plen = Got(PPlace)
  <1>1. InTrack /\ Taken
    BY DEF InTrack, Taken
  <1>2. PICK c \in 0 .. NBuf, u \in {0, 1}, h \in {0, 1} : Chain(c, u, h)
    BY DEF ChainInv
  <1>3. h = 1 /\ c > 0 /\ ending = "none" /\ Active
    BY <1>1, <1>2 DEF Active, Chain, Counts, Parent
  <1>4. data[bufIdx] = PPlace /\ plen = len[bufIdx]
    BY <1>1, <1>2, <1>3 DEF Chain, Parent
  <1>5. At(0) = bufIdx /\ 0 \in 0 .. c - 1
    BY <1>3, AtFacts DEF TypeOK, BurnerOK
  <1> QED  BY <1>2, <1>4, <1>5 DEF Chain, Linked, Segment

\* A transfer to the drive appends the bytes that come next in the track, up to
\* its size, and the last one of a track completes it.
LEMMA WriteBytes ==
    ASSUME TypeOK, ChainInv, BurnedInv, PWrite
    PROVE  \E k \in 0 .. TrackBytes(ptrack) - ppos :
               /\ burned' = FlattenFirst(Pieces, ptrack - 1) \o Chunk(ptrack, 0, ppos + k)
               /\ burned' = burned \o Chunk(ptrack, ppos, k)
               /\ ppc' = "get" => ppos' = ppos + k
               /\ ppc' # "get" => ppc' = "idle" /\ ppos + k = TrackBytes(ptrack)
  <1> DEFINE end == ppos + plen
             count == Clip(PTrack, plen, end)
             f == FlattenFirst(Pieces, ptrack - 1)
  <1>1. ppc = "use" /\ InTrack /\ plen \in Int /\ plen > 0
    BY DEF PWrite, InTrack, TypeOK, BurnerOK
  <1>2. /\ trackp \in Jobs /\ ptrack \in 1 .. NTracks /\ ppos \in Nat /\ PTrack \in Track
        /\ TrackBytes(ptrack) \in Nat /\ ppos <= PTrack.avail
        /\ ppos = 0 \/ MoreToRead(PTrack, ppos)
        /\ Valid(PPlace) /\ PPlace = <<ptrack, ppos>>
    BY <1>1, TrackRest
  <1>3. /\ burned = f \o Chunk(ptrack, 0, ppos) /\ f \in Seq(Nat \X Nat)
    BY <1>1, <1>2, ImageUpTo DEF BurnedInv
  <1>4. /\ PTrack.size \in Int /\ PTrack.avail \in Nat /\ PTrack.bpt \in Nat \ {0}
    BY <1>2, TrackFields
  <1>5. data[bufIdx] = PPlace /\ plen = Got(PPlace) /\ PPlace[1] = ptrack /\ PPlace[2] = ppos
    BY <1>1, <1>2, UseFacts
  <1>6. /\ burned' = burned \o Chunk(ptrack, ppos, count) /\ ppos' = end
        /\ ppc' = IF MoreToRead(PTrack, end) THEN "get" ELSE "idle"
    BY <1>5 DEF PWrite
  <1>7. plen <= PTrack.avail - ppos
    BY <1>2, <1>5, GotFacts DEF PTrack
  <1>8. /\ count \in Nat /\ ppos + count <= TrackBytes(ptrack)
        /\ MoreToRead(PTrack, end) => count = plen
        /\ ~MoreToRead(PTrack, end) => ppos + count = TrackBytes(ptrack)
    <2>1. TrackBytes(ptrack) = IF PTrack.size >= 0 /\ PTrack.size <= PTrack.avail
                               THEN PTrack.size ELSE PTrack.avail
      BY DEF TrackBytes, PTrack
    <2>2. CASE MoreToRead(PTrack, end)
      BY <1>1, <1>2, <1>4, <1>7, <2>1, <2>2 DEF Clip, MoreToRead
    <2>3. CASE ~MoreToRead(PTrack, end)
      BY <1>1, <1>2, <1>4, <1>7, <2>1, <2>3 DEF Clip, MoreToRead
    <2> QED  BY <2>2, <2>3
  <1> HIDE DEF count, f
  <1>9. count \in 0 .. TrackBytes(ptrack) - ppos
    BY <1>2, <1>8
  <1>10. Chunk(ptrack, 0, ppos) \o Chunk(ptrack, ppos, count) = Chunk(ptrack, 0, ppos + count)
    BY <1>2, <1>8, ChunkAppend
  <1>11. burned' = f \o Chunk(ptrack, 0, ppos + count)
    <2> DEFINE x == Chunk(ptrack, 0, ppos)
               y == Chunk(ptrack, ppos, count)
               B == Nat \X Nat
    <2>1. x \in Seq(B) /\ y \in Seq(B) /\ f \in Seq(B)
      BY <1>2, <1>3, <1>8, ChunkType
    <2>2. burned' = (f \o x) \o y /\ x \o y = Chunk(ptrack, 0, ppos + count)
      BY <1>3, <1>6, <1>10
    <2> HIDE DEF x, y, B
    <2>3. (f \o x) \o y = f \o (x \o y)
      BY <2>1, ConcatAssociative
    <2> QED  BY <2>2, <2>3
  <1>12. /\ ppc' = "get" => ppos' = ppos + count
         /\ ppc' # "get" => ppc' = "idle" /\ ppos + count = TrackBytes(ptrack)
    BY <1>6, <1>8
  <1> QED  BY <1>6, <1>9, <1>11, <1>12 DEF f

\* The burned bytes are a beginning of the image, and all of it at the end.
LEMMA BurnedStep ==
    TypeOK /\ SlotOwners /\ ChainInv /\ BurnedInv /\ [Next]_vars => BurnedInv'
  <1> SUFFICES ASSUME TypeOK, SlotOwners, ChainInv, BurnedInv, [Next]_vars
               PROVE  BurnedInv'
    OBVIOUS
  <1>1. trackp \in Jobs /\ ptrack \in 0 .. NTracks /\ NTracks \in Nat \ {0}
    BY JobTracks DEF TypeOK, BurnerOK
  <1>2. trackp' = trackp
    BY DEF Next, Reader, Burner, Fault, Terminated, vars, tvars, RWait, RSetFd,
           RFill, RSetLen, RSetOwner, RSetUsers, RPut, RDone, RTestGets, RMarkLast,
           PAwait, PScan, PStartTrack, PFinish, PRelease, PLow, PWait, PTimeout,
           PCheck, PLoadUsers, PStoreUsers, PSetFaio, PUseError, PUseEOF, PWrite,
           PKillFaio, PWaitFaio, RTimeout, RKilled, PDriveError, PInterrupt
  <1>3. /\ \A n : FlattenFirst(Pieces, n)' = FlattenFirst(Pieces, n)
        /\ \A t : TrackBytes(t)' = TrackBytes(t)
        /\ Image(trackp)' = Image(trackp) /\ NTracks' = NTracks
    BY <1>2 DEF FlattenFirst, Pieces, TrackBytes, NTracks
  <1> HIDE DEF FlattenFirst, Pieces, TrackBytes, Image
  <1>4. CASE PWrite
    <2>1. /\ InTrack /\ ptrack' = ptrack /\ ending' = ending /\ ppc = "use"
          /\ ppc' \in {"get", "idle"}
      BY <1>4 DEF PWrite, InTrack
    <2>2. ending = "none" /\ ptrack \in 1 .. NTracks
      BY <2>1, TrackRest
    <2>3. PICK k \in 0 .. TrackBytes(ptrack) - ppos :
             /\ burned' = FlattenFirst(Pieces, ptrack - 1) \o Chunk(ptrack, 0, ppos + k)
             /\ ppc' = "get" => ppos' = ppos + k
             /\ ppc' # "get" => ppc' = "idle" /\ ppos + k = TrackBytes(ptrack)
      BY <1>4, WriteBytes
    <2>4. FlattenFirst(Pieces, ptrack) =
              FlattenFirst(Pieces, ptrack - 1) \o Chunk(ptrack, 0, TrackBytes(ptrack))
      BY <1>1, <2>2, ImageUpTo
    <2> QED  BY <1>3, <2>1, <2>2, <2>3, <2>4 DEF BurnedInv, InTrack, Active
  <1>5. CASE PUseEOF
    <2>1. /\ ppc = "use" /\ ppc' = "idle" /\ InTrack /\ plen = 0
          /\ UNCHANGED <<ptrack, burned, ending>>
      BY <1>5 DEF PUseEOF, InTrack
    <2>2. /\ ending = "none" /\ ptrack \in 1 .. NTracks /\ ppos \in Nat
          /\ ppos = 0 \/ MoreToRead(PTrack, ppos)
          /\ Valid(PPlace) /\ PPlace = <<ptrack, ppos>> /\ PTrack \in Track
          /\ ppos <= PTrack.avail
      BY <2>1, TrackRest
    <2>3. Got(PPlace) = 0 /\ PPlace[1] = ptrack /\ PPlace[2] = ppos
      BY <2>1, <2>2, UseFacts
    <2>4. ppos = PTrack.avail
      BY <1>1, <2>2, <2>3, GotFacts DEF PTrack
    <2>5. ppos = TrackBytes(ptrack)
      BY <2>2, <2>4, TrackFields DEF TrackBytes, MoreToRead, PTrack
    <2>6. burned = FlattenFirst(Pieces, ptrack - 1) \o Chunk(ptrack, 0, TrackBytes(ptrack))
      BY <2>1, <2>5 DEF BurnedInv
    <2>7. burned = FlattenFirst(Pieces, ptrack)
      BY <1>1, <2>2, <2>6, ImageUpTo
    <2> QED  BY <1>3, <2>1, <2>2, <2>7 DEF BurnedInv, InTrack, Active
  <1>6. CASE PStartTrack
    <2>1. /\ ~InTrack /\ Active /\ ending' = "none" /\ burned' = burned
          /\ ptrack' = ptrack + 1 /\ ppos' = 0 /\ InTrack'
      BY <1>6 DEF PStartTrack, InTrack, Active
    <2>2. burned = FlattenFirst(Pieces, ptrack) /\ (ptrack + 1) - 1 = ptrack
      BY <1>1, <2>1 DEF BurnedInv
    <2>3. /\ ptrack + 1 \in 1 .. NTracks
          /\ FlattenFirst(Pieces, ptrack) \in Seq(Nat \X Nat)
      <3>1. ptrack + 1 \in 1 .. NTracks
        BY <1>1, <1>6 DEF PStartTrack
      <3> QED  BY <1>1, <2>2, <3>1, ImageUpTo
    <2>4. FlattenFirst(Pieces, ptrack) \o Chunk(ptrack + 1, 0, 0) = FlattenFirst(Pieces, ptrack)
      BY <2>3, ChunkNone
    <2> QED  BY <1>3, <2>1, <2>2, <2>4 DEF BurnedInv
  <1>7. CASE PFinish
    <2>1. ending = "none" => burned = Image(trackp)
      <3>1. ending = "none" => ptrack = NTracks /\ burned = FlattenFirst(Pieces, ptrack)
        BY <1>7 DEF PFinish, BurnedInv, Active, InTrack
      <3>2. FlattenFirst(Pieces, NTracks) = Image(trackp)
        BY <1>1, ImageUpTo
      <3> QED  BY <3>1, <3>2
    <2> QED  BY <1>2, <1>3, <1>7, <2>1 DEF PFinish, BurnedInv, InTrack, Active
  <1>8. CASE ~(PWrite \/ PUseEOF \/ PStartTrack \/ PFinish)
    <2>1. burned' = burned /\ ptrack' = ptrack /\ ppos' = ppos
      BY <1>8 DEF Next, Reader, Burner, Fault, Terminated, vars, rvars, pvars, RWait,
           RSetFd, RFill, RSetLen, RSetOwner, RSetUsers, RPut, RDone, RTestGets,
           RMarkLast, PAwait, PScan, PRelease, PLow, PWait, PTimeout,
           PCheck, PLoadUsers, PStoreUsers, PSetFaio, PUseError,
           PKillFaio, PWaitFaio, RTimeout, RKilled, PDriveError, PInterrupt
    <2>2. /\ InTrack' => InTrack
          /\ Active' => Active /\ (InTrack' <=> InTrack)
          /\ ending' = "ok" => ending = "ok"
      BY <1>8 DEF Next, Reader, Burner, Fault, Terminated, vars, rvars, pvars, RWait,
           RSetFd, RFill, RSetLen, RSetOwner, RSetUsers, RPut, RDone, RTestGets,
           RMarkLast, PAwait, PScan, PRelease, PLow, PWait, PTimeout,
           PCheck, PLoadUsers, PStoreUsers, PSetFaio, PUseError,
           PKillFaio, PWaitFaio, RTimeout, RKilled, PDriveError, PInterrupt,
           InTrack, Active
    <2> QED  BY <1>2, <1>3, <2>1, <2>2 DEF BurnedInv
  <1> QED  BY <1>4, <1>5, <1>6, <1>7, <1>8

\* An empty standard input is noticed at the first slot that await_faio() looks at:
\* before that nothing can have been written.
LEMMA PipeStep ==
    TypeOK /\ SlotOwners /\ AwaitInv /\ ChainInv /\ PipeInv /\ [Next]_vars => PipeInv'
  <1> SUFFICES ASSUME TypeOK, SlotOwners, AwaitInv, ChainInv, PipeInv, [Next]_vars
               PROVE  PipeInv'
    OBVIOUS
  <1>1. trackp \in Jobs /\ NTracks \in Nat \ {0} /\ trackp[1] \in Track /\ scan \in 0 .. NBuf
    BY JobTracks DEF TypeOK, BurnerOK
  <1>2. trackp' = trackp
    BY DEF Next, Reader, Burner, Fault, Terminated, vars, tvars, RWait, RSetFd,
           RFill, RSetLen, RSetOwner, RSetUsers, RPut, RDone, RTestGets, RMarkLast,
           PAwait, PScan, PStartTrack, PFinish, PRelease, PLow, PWait, PTimeout,
           PCheck, PLoadUsers, PStoreUsers, PSetFaio, PUseError, PUseEOF, PWrite,
           PKillFaio, PWaitFaio, RTimeout, RKilled, PDriveError, PInterrupt
  <1>3. ppc' \in {"await", "scan"} => gets' = 0
    BY DEF PipeInv, Next, Reader, Burner, Fault, Terminated, vars, statvars, pvars,
           RWait, RSetFd, RFill, RSetLen, RSetOwner, RSetUsers, RPut, RDone,
           RTestGets, RMarkLast, PAwait, PScan, PStartTrack, PFinish, PRelease, PLow,
           PWait, PTimeout, PCheck, PLoadUsers, PStoreUsers, PSetFaio, PUseError,
           PUseEOF, PWrite, PKillFaio, PWaitFaio, RTimeout, RKilled, PDriveError,
           PInterrupt
  <1>4. CASE ~EmptyPipe
    BY <1>2, <1>3, <1>4 DEF PipeInv, EmptyPipe
  <1>5. CASE EmptyPipe
    <2>1. /\ burned = <<>>
          /\ \/ ppc \in {"await", "exit", "reap", "end"}
             \/ ppc = "scan" /\ scan = 0
      BY <1>5 DEF PipeInv
    <2>2. CASE PScan
      <3>1. ppc = "scan" /\ scan = 0 /\ gets = 0 /\ 0 \in Slots
        BY <2>1, <2>2, NBufAssumption DEF PScan, PipeInv, Slots, MinBuffers
      <3>2. PICK c \in 0 .. NBuf, u \in {0, 1}, h \in {0, 1} : Chain(c, u, h)
        BY DEF ChainInv
      <3>3. h = 0 /\ bufIdx = 0 /\ ptrack = 0 /\ ending = "none" /\ Active
        BY <3>1, <3>2 DEF Chain, Counts, Parent, Active
      <3>4. PPlace = <<1, 0>>
        BY <3>1, <3>3 DEF PPlace, InTrack
      <3>5. <<1, 0>> = IF c > 0 THEN data[0] ELSE RNextPlace(u)
        BY <3>2, <3>3, <3>4 DEF Chain, Parent
      <3>6. At(0) = 0
        BY <3>1, <3>3, AtFacts
      <3>7. c > 0
        <4>1. SUFFICES ASSUME c = 0 PROVE FALSE
          BY <3>2
        <4>2. RPlace = Over
          <5>1. done = 1 \/ owner[0] = "reader"
            BY <3>1 DEF AwaitInv, Early, Full
          <5>2. CASE done = 1
            BY <5>2 DEF ChainInv, Child
          <5>3. CASE owner[0] = "reader"
            <6>1. 0 \in c .. NBuf - 1
              BY <3>1, <4>1 DEF Slots
            <6> QED  BY <3>2, <3>6, <5>3, <6>1 DEF Chain, Owned
          <5> QED  BY <5>1, <5>2, <5>3
        <4>3. rtrack = NTracks + 1
          BY <4>2 DEF RPlace, Over
        <4>4. u = 0
          BY <1>1, <3>2, <4>3 DEF Chain, Counts
        <4>5. <<1, 0>> = Over
          BY <3>5, <4>1, <4>2, <4>4 DEF RNextPlace
        <4> QED  BY <1>1, <4>5 DEF Over
      <3>8. Segment(0) /\ data[0] = <<1, 0>>
        <4>1. 0 \in 0 .. c - 1
          BY <3>7
        <4> QED  BY <3>2, <3>5, <3>6, <3>7, <4>1 DEF Chain, Linked
      <3>9. fd[0] = STDIN /\ len[0] = Got(<<1, 0>>) /\ Valid(<<1, 0>>)
        BY <1>5, <3>8 DEF Segment, EmptyPipe
      <3>10. len[0] = 0
        <4> DEFINE tr == trackp[1]
        <4>1. BytesToRead(tr, 0, tr.bpt) \in Nat \ {0}
          BY <1>1, <3>9, GotFacts
        <4>2. Got(<<1, 0>>) = FillBuf(tr, 0, BytesToRead(tr, 0, tr.bpt))
          BY DEF Got
        <4>3. tr.avail = 0 /\ ~tr.err
          BY <1>5 DEF EmptyPipe
        <4> HIDE DEF tr
        <4> QED  BY <3>9, <4>1, <4>2, <4>3 DEF FillBuf
      <3>11. ppc' = "exit" /\ burned' = burned
        BY <2>2, <3>1, <3>9, <3>10 DEF PScan, STDIN
      <3> QED  BY <1>2, <1>3, <2>1, <3>11 DEF PipeInv, EmptyPipe
    <2>3. CASE ~PScan
      <3>1. /\ burned' = burned
            /\ \/ ppc' \in {"await", "exit", "reap", "end"}
               \/ ppc' = "scan" /\ scan' = 0
        <4>1. ppc = "await" => scan = 0
          BY DEF TypeOK, BurnerOK
        <4> QED
          BY <2>1, <2>3, <4>1
             DEF Next, Reader, Burner, Fault, Terminated, vars, pvars, RWait, RSetFd,
                 RFill, RSetLen, RSetOwner, RSetUsers, RPut, RDone, RTestGets,
                 RMarkLast, PAwait, PStartTrack, PFinish, PRelease, PLow, PWait,
                 PTimeout, PCheck, PLoadUsers, PStoreUsers, PSetFaio, PUseError,
                 PUseEOF, PWrite, PKillFaio, PWaitFaio, RTimeout, RKilled,
                 PDriveError, PInterrupt
      <3> QED  BY <1>3, <2>1, <3>1 DEF PipeInv
    <2> QED  BY <2>2, <2>3
  <1> QED  BY <1>4, <1>5

\* After wait_faio() the child does not come back.
LEMMA ReapedStep == Reaped /\ [Next]_vars => Reaped'
  BY DEF Reaped, RAlive, Next, Reader, Burner, Fault, Terminated, vars, rvars, pvars,
         RWait, RSetFd, RFill, RSetLen, RSetOwner, RSetUsers, RPut, RDone, RTestGets,
         RMarkLast, PAwait, PScan, PStartTrack, PFinish, PRelease, PLow, PWait,
         PTimeout, PCheck, PLoadUsers, PStoreUsers, PSetFaio, PUseError, PUseEOF,
         PWrite, PKillFaio, PWaitFaio, RTimeout, RKilled, PDriveError, PInterrupt

\* All of it together, in every run.
THEOREM OrderHolds == Spec => [](BurnedInv /\ PipeInv /\ Reaped)
  <1>1. Init => BurnedInv /\ PipeInv /\ Reaped
    <2> SUFFICES ASSUME Init PROVE BurnedInv /\ PipeInv /\ Reaped
      OBVIOUS
    <2>1. trackp \in Jobs /\ 1 \in 1 .. NTracks
      BY JobTracks DEF Init
    <2>2. FlattenFirst(Pieces, 0) = <<>>
      BY <2>1, ImageUpTo
    <2> QED  BY <2>2 DEF Init, BurnedInv, PipeInv, Reaped, InTrack, Active
  <1>2. TypeOK /\ SlotOwners /\ [Next]_vars => SlotOwners'
    BY OwnersStep
  <1>3. TypeOK /\ SlotOwners /\ AwaitInv /\ [Next]_vars => AwaitInv'
    BY AwaitStep
  <1> QED  BY <1>1, <1>2, <1>3, InitAwait, ChainHolds, BurnedStep, PipeStep, ReapedStep,
              PTL DEF Spec

\* When the parent is through nothing is left running; what it reports as success
\* is the whole image; and an empty pipe leaves the medium untouched.
THEOREM EndsClean == Spec => []CleanEnd
  <1>1. BurnedInv /\ PipeInv /\ Reaped => CleanEnd
    BY DEF BurnedInv, PipeInv, Reaped, CleanEnd, EmptyPipe
  <1> QED  BY <1>1, OrderHolds, PTL

\* The FIFO implements Stream: whatever fails on either side, each transfer to the
\* drive continues the image where the one before it ended.
THEOREM ImplementsStream == Spec => InOrder
  <1>1. Init => Promise!Init
    BY DEF Init, Promise!Init
  <1>2. TypeOK /\ ChainInv /\ BurnedInv /\ [Next]_vars
        => [Promise!Transfer]_<<Image(trackp), burned>>
    <2> SUFFICES ASSUME TypeOK, ChainInv, BurnedInv, [Next]_vars
                 PROVE  [Promise!Transfer]_<<Image(trackp), burned>>
      OBVIOUS
    <2>1. trackp' = trackp /\ (~PWrite => burned' = burned)
      BY DEF Next, Reader, Burner, Fault, Terminated, vars, tvars, pvars, RWait,
             RSetFd, RFill, RSetLen, RSetOwner, RSetUsers, RPut, RDone, RTestGets,
             RMarkLast, PAwait, PScan, PStartTrack, PFinish, PRelease, PLow, PWait,
             PTimeout, PCheck, PLoadUsers, PStoreUsers, PSetFaio, PUseError,
             PUseEOF, PWrite, PKillFaio, PWaitFaio, RTimeout, RKilled, PDriveError,
             PInterrupt
    <2>2. Image(trackp)' = Image(trackp)
      BY <2>1
    <2>3. CASE ~PWrite
      BY <2>1, <2>2, <2>3
    <2>4. CASE PWrite
      <3>1. InTrack
        BY <2>4 DEF PWrite, InTrack
      <3>2. PICK k \in 0 .. TrackBytes(ptrack) - ppos :
               /\ burned' = FlattenFirst(Pieces, ptrack - 1) \o Chunk(ptrack, 0, ppos + k)
               /\ burned' = burned \o Chunk(ptrack, ppos, k)
        BY <2>4, WriteBytes
      <3>3. /\ trackp \in Jobs /\ ptrack \in 1 .. NTracks /\ ppos \in Nat
            /\ TrackBytes(ptrack) \in Nat /\ burned \in Seq(Nat \X Nat)
            /\ ppos + k \in 0 .. TrackBytes(ptrack)
        <4>1. burned \in Seq(Nat \X Nat)
          BY DEF TypeOK, BurnerOK
        <4>2. /\ trackp \in Jobs /\ ptrack \in 1 .. NTracks /\ ppos \in Nat
              /\ TrackBytes(ptrack) \in Nat /\ ppos \in 0 .. TrackBytes(ptrack)
          BY <3>1, TrackRest
        <4> QED  BY <3>2, <4>1, <4>2
      <3> DEFINE b == FlattenFirst(Pieces, ptrack - 1) \o Chunk(ptrack, 0, ppos + k)
                 x == Chunk(ptrack, ppos, k)
      <3>4. b \in Seq(Nat \X Nat) /\ \E r \in Seq(Nat \X Nat) : Image(trackp) = b \o r
        BY <3>3, PrefixOfImage
      <3>5. x \in Seq(Nat \X Nat) /\ Len(x) = k /\ (k = 0 => x = <<>>)
        <4>1. k \in Nat /\ ptrack \in Nat
          BY <3>2, <3>3, JobTracks
        <4> QED  BY <3>3, <4>1, ChunkType, ChunkNone DEF Chunk
      <3>6. burned' = b /\ burned' = burned \o x
        BY <3>2
      <3> HIDE DEF b, x
      <3>7. PICK r \in Seq(Nat \X Nat) : Image(trackp) = b \o r
        BY <3>4
      <3>8. Len(b) = Len(burned) + k /\ Len(Image(trackp)) = Len(b) + Len(r) /\ Len(r) \in Nat
        <4> DEFINE B == Nat \X Nat
        <4>1. b \in Seq(B) /\ x \in Seq(B) /\ burned \in Seq(B) /\ r \in Seq(B)
          BY <3>3, <3>4, <3>5, <3>7
        <4> HIDE DEF B
        <4>2. Len(burned \o x) = Len(burned) + Len(x) /\ Len(b \o r) = Len(b) + Len(r)
          BY <4>1, ConcatProperties
        <4>3. b = burned \o x
          BY <3>6
        <4> QED  BY <3>5, <3>7, <4>1, <4>2, <4>3
      <3>9. CASE k = 0
        BY <2>2, <3>3, <3>5, <3>6, <3>9
      <3>10. CASE k > 0
        <4>1. Len(b) \in Len(burned) + 1 .. Len(Image(trackp))
          BY <3>3, <3>4, <3>8, <3>10
        <4>2. SubSeq(Image(trackp), 1, Len(b)) = b
          BY <3>4, <3>7, <3>8
        <4> QED  BY <2>2, <3>6, <4>1, <4>2 DEF Promise!Transfer
      <3>11. k = 0 \/ k > 0
        BY <3>2, <3>3
      <3> QED  BY <3>9, <3>10, <3>11
    <2> QED  BY <2>3, <2>4
  <1> QED  BY <1>1, <1>2, ChainHolds, OrderHolds, PTL DEF Spec, InOrder, Promise!Spec
=============================================================================
