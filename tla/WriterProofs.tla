---------------------------- MODULE WriterProofs ----------------------------
(***************************************************************************)
(* TrackWriter for every track: any size of the file, known or not, of the *)
(* sectors and of the transfers, any padding, and any order of the drive's *)
(* answers.  The inductive invariant relates the bytes counted to what the *)
(* medium holds (SoFar) and says, per place in the code, how far the input *)
(* has been read and what is left to pad (Progress); after a write of data *)
(* that was cut short the two are apart, and Progress bounds how far.  The *)
(* address of the next write (Address), the write announced as the last    *)
(* (LastTold) and the order of what is recorded (Ordered) rest on it.      *)
(***************************************************************************)
EXTENDS TrackWriter, SeqLemmas

-----------------------------------------------------------------------------
(* The inductive invariant *)

\* The medium has as many sectors of the track as bytes were counted; up to a
\* write of data that was cut short they are the first ones of the goal.
SoFar ==
    /\ bytes = Len(Recorded) * tr.sec
    /\ Len(Recorded) <= Length(tr)
    /\ cut = 0 => Recorded = SubSeq(Goal(tr), 1, Len(Recorded))

\* The bytes that the writes of data were for: those counted, and more after one
\* that was cut short.
Sent(b) == b \in Nat /\ bytes <= b /\ (cut = 0 => b = bytes)

\* All of the data is written when there are that many bytes.
DataEnd(b) == b = DataSecs(tr) * tr.sec

\* Before a transfer: only full ones so far, or one that was cut short by the end
\* of the file.
AtGet(b) ==
    \/ /\ bytesRead = b /\ bytespt = tr.bpt /\ ~islast
       /\ b % tr.bpt = 0
       /\ b <= tr.avail /\ (b = 0 \/ MoreToRead(tr, b))
    \/ /\ bytesRead = tr.avail /\ MoreToRead(tr, bytesRead)
       /\ DataEnd(b) /\ bytespt > 0

\* With a transfer in hand: a full one with more to come, or the last one.
Loaded(b, end, n, last) ==
    /\ b % tr.bpt = 0
    /\ b < end /\ end <= b + tr.bpt /\ end <= tr.avail
    /\ \/ /\ end = b + tr.bpt /\ n = tr.bpt /\ ~last
          /\ MoreToRead(tr, end) /\ b + n <= DataSecs(tr) * tr.sec
       \/ /\ DataEnd(b + n)
          /\ MoreToRead(tr, end) => end = tr.avail /\ n > 0
AtWrite(b) == Loaded(b, bytesRead, bytespt, islast)

AtPad ==
    /\ amt > 0 /\ amt % tr.sec = 0 /\ bytespt > 0
    /\ bytes + amt <= Length(tr) * tr.sec
    /\ cut = 0 => /\ bytes >= DataSecs(tr) * tr.sec
                  /\ bytes + amt = Length(tr) * tr.sec
    /\ "short" \notin tr.faults => ~islast

Progress ==
    /\ pc = "get" => \E b : Sent(b) /\ AtGet(b)
    /\ pc \in {"nwa", "write"} => \E b : Sent(b) /\ AtWrite(b)
    /\ pc = "after" => \E b : Sent(b) /\ DataEnd(b)
    /\ pc = "pad" => AtPad
    /\ pc \in {"close", "gone"} /\ padOK /\ ending \in {"none", "ok"} /\ cut = 0 =>
           bytes = Length(tr) * tr.sec
    /\ pc \notin {"close", "gone"} => ending = "none" /\ padOK
    /\ pc = "close" => ending \in {"none", "error"}
    /\ pc \in {"get", "nwa", "write", "after"} => padsecs = OpenPad(tr)
    /\ pc = "nwa" => tr.mode = "variable"
    /\ asleep => pc \in {"write", "pad"}
    /\ cut # 0 => "short" \in tr.faults
    /\ cut <= Len(medium) + 1

\* Where the next write goes.
Address ==
    /\ tr.mode # "variable" /\ pc \in {"get", "write", "after", "pad"} =>
           startsec = Here
    /\ tr.mode = "variable" /\ "noaddr" \notin tr.faults =>
           /\ pc = "get" => nwa = Here
           /\ pc = "nwa" => \/ nwa = Here
                            \/ retried /\ nwa = startsec /\ Here = startsec + LinkSecs
           /\ pc = "write" => startsec >= Here /\ (~retried => startsec = Here /\ nwa = Here)

\* The last stretch on the medium was announced as the last one.
Told == medium # <<>> /\ medium[Len(medium)].last
NoPad == padsecs = 0 /\ (tr.short \/ DataSecs(tr) >= MinSecs)
LastTold ==
    tr.mode = "track" /\ "short" \notin tr.faults =>
        /\ \A i \in 1 .. Len(medium) - 1 : ~medium[i].last
        /\ Told => lastDone \/ pc = "gone"
        /\ Told => pc \notin {"nwa", "write", "pad"}
        /\ Told /\ pc = "get" => bytesRead = tr.avail /\ MoreToRead(tr, bytesRead)
        /\ Told /\ pc \in {"get", "after"} => NoPad
        /\ pc = "write" /\ islast => NoPad /\ DataEnd(bytes + bytespt)
        /\ islast /\ pc = "get" => Told
        /\ lastDone /\ padOK /\ ending = "none" =>
               Told \/ (pc \in {"write", "pad"} /\ TheLast)
        /\ ending = "ok" /\ padOK /\ tr.teac => Told

-----------------------------------------------------------------------------
(* Arithmetic of whole sectors *)

\* Multiplying by a positive number keeps the order, both ways.
LEMMA Scale ==
    ASSUME NEW a \in Int, NEW b \in Int, NEW c \in Nat \ {0}
    PROVE  /\ a * c \in Int
           /\ a <= b => a * c <= b * c
           /\ a < b <=> a * c < b * c
           /\ a = b <=> a * c = b * c
           /\ a * c + b * c = (a + b) * c
           /\ a * c - b * c = (a - b) * c
           /\ (a + 1) * c = a * c + c
  <1>1. a * c \in Int /\ a * c + b * c = (a + b) * c /\ a * c - b * c = (a - b) * c
        /\ (a + 1) * c = a * c + c /\ b * c \in Int
    OBVIOUS
  <1>2. ASSUME NEW x \in Int, NEW y \in Int, x < y
        PROVE  x * c + c <= y * c
    <2>1. y - x - 1 \in Nat
      BY <1>2
    <2>2. (y - x - 1) * c >= 0
      BY <2>1
    <2>3. (y - x - 1) * c = y * c - x * c - c
      OBVIOUS
    <2> QED  BY <2>2, <2>3
  <1>3. a < b => a * c + c <= b * c
    BY <1>2
  <1>4. b < a => b * c + c <= a * c
    BY <1>2
  <1> QED  BY <1>1, <1>3, <1>4

\* Quotient and rest.
LEMMA DivRest ==
    ASSUME NEW n \in Nat, NEW c \in Nat \ {0}
    PROVE  /\ n \div c \in Nat /\ n % c \in Nat /\ n % c < c
           /\ n = (n \div c) * c + (n % c)
           /\ n % c = 0 => n = (n \div c) * c
  <1>1. n \div c \in Nat /\ n % c \in Nat
    OBVIOUS
  <1>2. n % c < c
    OBVIOUS
  <1>3. n = (n \div c) * c + (n % c)
    OBVIOUS
  <1>4. n % c = 0 => n = (n \div c) * c
    BY <1>1, <1>3
  <1> QED  BY <1>1, <1>2, <1>3, <1>4

\* The quotient is the only number that leaves a rest less than c.
LEMMA DivOnly ==
    ASSUME NEW n \in Nat, NEW c \in Nat \ {0}, NEW q \in Int,
           q * c <= n, n < q * c + c
    PROVE  n \div c = q
  <1> DEFINE d == n \div c
             r == n % c
  <1>1. d \in Nat /\ n = d * c + r /\ r \in Nat /\ r < c
    BY DivRest
  <1> HIDE DEF d, r
  <1>2. d < q => d * c + c <= q * c
    <2>1. d + 1 <= q => (d + 1) * c <= q * c
      BY <1>1, Scale
    <2>2. (d + 1) * c = d * c + c
      BY <1>1, Scale
    <2> QED  BY <1>1, <2>1, <2>2
  <1>3. q < d => q * c + c <= d * c
    <2>1. q + 1 <= d => (q + 1) * c <= d * c
      BY <1>1, Scale
    <2>2. (q + 1) * c = q * c + c
      BY <1>1, Scale
    <2> QED  BY <1>1, <2>1, <2>2
  <1> DEFINE dc == d * c
             qc == q * c
  <1>4. dc \in Int /\ qc \in Int
    BY <1>1, Scale
  <1>5. n = dc + r /\ qc <= n /\ n < qc + c
    BY <1>1, Zenon DEF dc, qc
  <1>6. (d < q => dc + c <= qc) /\ (q < d => qc + c <= dc)
    BY <1>2, <1>3, Zenon DEF dc, qc
  <1> HIDE DEF dc, qc
  <1>7. ~(d < q) /\ ~(q < d)
    BY <1>1, <1>4, <1>5, <1>6
  <1>8. d = q
    BY <1>1, <1>7
  <1> QED  BY <1>8 DEF d

\* A whole multiple.
LEMMA Whole ==
    ASSUME NEW q \in Nat, NEW c \in Nat \ {0}
    PROVE  /\ q * c \in Nat /\ (q * c) \div c = q /\ (q * c) % c = 0
  <1>1. q * c \in Nat
    OBVIOUS
  <1>2. (q * c) \div c = q
    BY <1>1, DivOnly
  <1> DEFINE n == q * c
  <1>3. n = (n \div c) * c + (n % c) /\ n % c \in Nat
    BY <1>1, DivRest
  <1>4. n = n + (n % c)
    BY <1>2, <1>3
  <1> QED  BY <1>1, <1>2, <1>3, <1>4

\* Rounding up to whole multiples: the least one that is enough.
LEMMA Ceil ==
    ASSUME NEW n \in Nat, NEW c \in Nat \ {0}
    PROVE  /\ (n + c - 1) \div c \in Nat
           /\ n <= ((n + c - 1) \div c) * c
           /\ ((n + c - 1) \div c) * c < n + c
  <1> DEFINE d == (n + c - 1) \div c
             r == (n + c - 1) % c
  <1>1. n + c - 1 \in Nat
    OBVIOUS
  <1>2. d \in Nat /\ r \in Nat /\ r < c /\ n + c - 1 = d * c + r
    BY <1>1, DivRest
  <1> HIDE DEF d, r
  <1>3. d * c \in Int
    BY <1>2, Scale
  <1>4. d \in Nat /\ n <= d * c /\ d * c < n + c
    BY <1>2, <1>3
  <1> QED  BY <1>4 DEF d

\* The only multiple of c that reaches n and not n + c is found by the division.
LEMMA CeilOnly ==
    ASSUME NEW n \in Nat, NEW c \in Nat \ {0}, NEW q \in Int,
           n <= q * c, q * c < n + c
    PROVE  (n + c - 1) \div c = q
  <1>1. n + c - 1 \in Nat /\ q * c \in Int
    OBVIOUS
  <1>2. q * c <= n + c - 1 /\ n + c - 1 < q * c + c
    BY <1>1
  <1> QED  BY <1>1, <1>2, DivOnly

\* As far as a stretch of whole multiples goes, n does not get beyond it.
LEMMA DivBounds ==
    ASSUME NEW n \in Nat, NEW c \in Nat \ {0}, NEW q \in Int
    PROVE  /\ n < q * c => n \div c < q
           /\ n >= q * c => n \div c >= q
           /\ n <= q * c => n \div c <= q
  <1> DEFINE d == n \div c
             r == n % c
  <1>1. d \in Nat /\ n = d * c + r /\ r \in Nat /\ r < c
    BY DivRest
  <1> HIDE DEF d, r
  <1>2. /\ d < q <=> d * c < q * c
        /\ q <= d => q * c <= d * c
        /\ q < d <=> q * c < d * c
        /\ d * c \in Int /\ q * c \in Int
    BY <1>1, Scale
  <1>3. d < q => d * c + c <= q * c
    <2>1. d + 1 <= q => (d + 1) * c <= q * c
      BY <1>1, Scale
    <2>2. (d + 1) * c = d * c + c
      BY <1>1, Scale
    <2> QED  BY <1>1, <2>1, <2>2
  <1> DEFINE dc == d * c
             qc == q * c
  <1>4. /\ dc \in Int /\ qc \in Int
        /\ d < q <=> dc < qc
        /\ q <= d => qc <= dc
        /\ q < d <=> qc < dc
        /\ d < q => dc + c <= qc
    BY <1>2, <1>3, Zenon DEF dc, qc
  <1>5. n = dc + r
    BY <1>1, Zenon DEF dc
  <1> HIDE DEF dc, qc
  <1>6. n < qc => d < q
    BY <1>1, <1>4, <1>5
  <1>7. n >= qc => d >= q
    BY <1>1, <1>4, <1>5
  <1>8. n <= qc => d <= q
    BY <1>1, <1>4, <1>5
  <1> QED  BY <1>6, <1>7, <1>8 DEF d, qc

\* The rest of a number that lies less than one multiple above q * c.
LEMMA RestOnly ==
    ASSUME NEW n \in Nat, NEW c \in Nat \ {0}, NEW q \in Int,
           q * c <= n, n < q * c + c
    PROVE  n % c = n - q * c
  <1>1. n \div c = q
    BY DivOnly
  <1>2. n = (n \div c) * c + (n % c) /\ n % c \in Nat
    BY DivRest
  <1>3. q * c \in Int
    BY Scale
  <1> QED  BY <1>1, <1>2, <1>3

\* Sums and differences of whole multiples are whole ones.
LEMMA WholeSum ==
    ASSUME NEW a \in Nat, NEW b \in Nat, NEW c \in Nat \ {0}, a % c = 0, b % c = 0
    PROVE  /\ (a + b) % c = 0
           /\ a >= b => (a - b) % c = 0
           /\ (a + b) \div c = a \div c + b \div c
           /\ a > 0 => a >= c
  <1> DEFINE x == a \div c
             y == b \div c
  <1>1. x \in Nat /\ y \in Nat /\ a = x * c /\ b = y * c
    BY DivRest
  <1> HIDE DEF x, y
  <1>2. a + b = (x + y) * c /\ a - b = (x - y) * c
    BY <1>1, Scale
  <1>3. ((x + y) * c) % c = 0 /\ ((x + y) * c) \div c = x + y
    BY <1>1, Whole
  <1>4. a >= b => x - y \in Nat
    BY <1>1, Scale
  <1>5. a >= b => ((x - y) * c) % c = 0
    BY <1>4, Whole
  <1>6. a > 0 => a >= c
    <2>1. x = 0 => a = 0
      BY <1>1
    <2>2. x >= 1 => 1 * c <= x * c
      BY <1>1, Scale
    <2> QED  BY <1>1, <2>1, <2>2
  <1>7. (a + b) % c = 0 /\ (a >= b => (a - b) % c = 0)
    BY <1>2, <1>3, <1>5
  <1>8. (a + b) \div c = x + y
    BY <1>2, <1>3
  <1> QED  BY <1>6, <1>7, <1>8 DEF x, y

\* A whole multiple of a whole multiple.
LEMMA WholeOf ==
    ASSUME NEW a \in Nat, NEW b \in Nat \ {0}, NEW c \in Nat \ {0},
           a % b = 0, b % c = 0
    PROVE  /\ a % c = 0
           /\ b \div c \in Nat \ {0} /\ b = (b \div c) * c
           /\ a = (a \div b) * (b \div c) * c
           /\ a \div b \in Nat
  <1> DEFINE x == a \div b
             y == b \div c
  <1>1. x \in Nat /\ y \in Nat /\ a = x * b /\ b = y * c
    BY DivRest
  <1> HIDE DEF x, y
  <1>2. a = x * y * c /\ x * y \in Nat
    BY <1>1
  <1>3. (x * y * c) % c = 0
    BY <1>2, Whole
  <1>4. y # 0
    BY <1>1
  <1>5. a % c = 0
    BY <1>2, <1>3
  <1> QED  BY <1>1, <1>2, <1>4, <1>5 DEF x, y

-----------------------------------------------------------------------------
(* The plan of a track *)

\* What the assumption on tracks says of one of them.
LEMMA TrackFacts ==
    ASSUME NEW t \in Tracks
    PROVE  /\ MinSecs \in Nat \ {0}
           /\ t.sec \in Nat \ {0} /\ t.bpt \in Nat \ {0} /\ t.bpt % t.sec = 0
           /\ t.bpt < MinSecs * t.sec
           /\ t.size \in Nat \cup {-1} /\ t.avail \in Nat /\ t.err \in BOOLEAN
           /\ t.pad \in Nat /\ t.short \in BOOLEAN /\ t.teac \in BOOLEAN
           /\ t.mode \in {"track", "fixed", "variable"}
           /\ t.mode # "track" => ~t.short /\ ~t.teac
           /\ DataLen(t) \in Nat
           /\ t.bpt \div t.sec \in Nat \ {0}
           /\ t.bpt = (t.bpt \div t.sec) * t.sec
  <1>1. /\ MinSecs \in Nat \ {0}
        /\ t.sec \in Nat \ {0} /\ t.bpt \in Nat \ {0} /\ t.bpt % t.sec = 0
        /\ t.bpt < MinSecs * t.sec
        /\ t.size \in Nat \cup {-1} /\ t.avail \in Nat /\ t.err \in BOOLEAN
        /\ t.pad \in Nat /\ t.short \in BOOLEAN /\ t.teac \in BOOLEAN
        /\ t.mode \in {"track", "fixed", "variable"}
        /\ t.mode # "track" => ~t.short /\ ~t.teac
    BY WriterAssumption
  <1>2. DataLen(t) \in Nat
    BY <1>1 DEF DataLen
  <1>3. t.bpt \div t.sec \in Nat \ {0} /\ t.bpt = (t.bpt \div t.sec) * t.sec
    <2> DEFINE q == t.bpt \div t.sec
    <2>1. q \in Nat /\ t.bpt = q * t.sec
      BY <1>1, DivRest
    <2> HIDE DEF q
    <2>2. q # 0
      BY <1>1, <2>1
    <2> QED  BY <2>1, <2>2 DEF q
  <1> QED  BY <1>1, <1>2, <1>3

\* The sectors that n bytes fill, and rounding up to them.
LEMMA SecsFacts ==
    ASSUME NEW t \in Tracks, NEW n \in Nat
    PROVE  /\ Secs(t, n) \in Nat
           /\ n <= Secs(t, n) * t.sec /\ Secs(t, n) * t.sec < n + t.sec
           /\ \A q \in Int : n <= q * t.sec /\ q * t.sec < n + t.sec => Secs(t, n) = q
           /\ RoundUp(t, n) = Secs(t, n) * t.sec
           /\ RoundUp(t, n) \in Nat /\ RoundUp(t, n) % t.sec = 0
           /\ RoundUp(t, n) >= n
           /\ n % t.sec = 0 => RoundUp(t, n) = n
  <1>1. t.sec \in Nat \ {0}
    BY TrackFacts
  <1>2. /\ Secs(t, n) \in Nat
        /\ n <= Secs(t, n) * t.sec /\ Secs(t, n) * t.sec < n + t.sec
    BY <1>1, Ceil DEF Secs
  <1>3. ASSUME NEW q \in Int, n <= q * t.sec, q * t.sec < n + t.sec
        PROVE  Secs(t, n) = q
    BY <1>1, <1>3, CeilOnly DEF Secs
  <1>4. RoundUp(t, n) = Secs(t, n) * t.sec
    BY DEF RoundUp, Secs
  <1>5. Secs(t, n) * t.sec \in Nat /\ (Secs(t, n) * t.sec) % t.sec = 0
    BY <1>1, <1>2, Whole
  <1>6. ASSUME n % t.sec = 0 PROVE RoundUp(t, n) = n
    <2> DEFINE q == n \div t.sec
    <2>1. q \in Nat /\ n = q * t.sec
      BY <1>1, <1>6, DivRest
    <2>2. Secs(t, n) = q
      BY <1>1, <1>3, <2>1
    <2> QED  BY <1>4, <2>1, <2>2
  <1> QED  BY <1>2, <1>3, <1>4, <1>5, <1>6

\* Where the data of a track ends on the medium: at the first whole sector, or
\* the first whole packet, that holds all of it.
LEMMA DataEnds ==
    ASSUME NEW t \in Tracks
    PROVE  /\ DataSecs(t) \in Nat
           /\ DataLen(t) <= DataSecs(t) * t.sec
           /\ \A b \in Nat :
                 /\ t.mode # "fixed" /\ b % t.sec = 0
                 /\ DataLen(t) <= b /\ b < DataLen(t) + t.sec
                 => b = DataSecs(t) * t.sec
           /\ \A b \in Nat :
                 /\ t.mode = "fixed" /\ ~(t.size = 0 /\ t.avail > 0) /\ b % t.bpt = 0
                 /\ DataLen(t) <= b /\ b < DataLen(t) + t.bpt
                 => b = DataSecs(t) * t.sec
           /\ t.mode = "fixed" /\ t.size = 0 /\ t.avail > 0
                 => t.bpt = DataSecs(t) * t.sec
           /\ t.mode # "fixed" => DataSecs(t) = Secs(t, DataLen(t))
  <1> DEFINE D == DataLen(t)
             S == t.sec
             B == t.bpt
             spt == B \div S
             q == Secs(t, D)
             p == (q + spt - 1) \div spt
  <1>1. S \in Nat \ {0} /\ B \in Nat \ {0} /\ D \in Nat /\ spt \in Nat \ {0}
        /\ B = spt * S /\ t.size \in Int
    BY TrackFacts
  <1>2. q \in Nat /\ D <= q * S /\ q * S < D + S
        /\ \A k \in Int : D <= k * S /\ k * S < D + S => q = k
    BY <1>1, SecsFacts
  <1>3. p \in Nat /\ q <= p * spt /\ p * spt < q + spt
    BY <1>1, <1>2, Ceil
  <1>4. q * S <= (p * spt) * S
    BY <1>1, <1>2, <1>3, Scale
  <1>5. CASE t.mode # "fixed"
    <2>1. DataSecs(t) = q
      BY <1>5 DEF DataSecs
    <2>2. ASSUME NEW b \in Nat, b % S = 0, D <= b, b < D + S
          PROVE  b = q * S
      <3>1. b \div S \in Nat /\ b = (b \div S) * S
        BY <1>1, <2>2, DivRest
      <3>2. q = b \div S
        BY <1>2, <2>2, <3>1
      <3> QED  BY <3>1, <3>2
    <2> QED  BY <1>2, <1>5, <2>1, <2>2
  <1>6. CASE t.mode = "fixed" /\ t.size = 0 /\ t.avail > 0
    <2>1. DataSecs(t) = spt
      BY <1>6 DEF DataSecs
    <2>2. D = 0
      BY <1>6 DEF DataLen
    <2> QED  BY <1>1, <1>6, <2>1, <2>2
  <1>7. CASE t.mode = "fixed" /\ ~(t.size = 0 /\ t.avail > 0)
    <2>1. DataSecs(t) = p * spt
      BY <1>7 DEF DataSecs
    <2>2. p * spt \in Nat
      BY <1>1, <1>3
    <2>3. D <= (p * spt) * S
      <3> DEFINE x == q * S
                 y == (p * spt) * S
      <3>1. x \in Int /\ y \in Int
        BY <1>1, <1>2, <2>2
      <3>2. D <= x /\ x <= y
        BY <1>2, <1>4
      <3> HIDE DEF x, y
      <3>3. D <= y
        BY <1>1, <3>1, <3>2
      <3> QED  BY <3>3 DEF y
    <2>4. ASSUME NEW b \in Nat, b % B = 0, D <= b, b < D + B
          PROVE  b = (p * spt) * S
      <3> DEFINE m == b \div B
                 k == m * spt
      <3>1. m \in Nat /\ b = m * B
        BY <1>1, <2>4, DivRest
      <3> HIDE DEF m
      <3>2. k \in Nat
        BY <1>1, <3>1
      <3>3. b = k * S
        BY <1>1, <3>1
      <3> HIDE DEF k, q
      <3>4. (q <= k <=> q * S <= k * S) /\ (k < q + spt <=> k * S < (q + spt) * S)
            /\ (q + spt) * S = q * S + spt * S
            /\ (k < q => k + 1 <= q) /\ (k + 1 <= q => (k + 1) * S <= q * S)
            /\ (k + 1) * S = k * S + S
        <4>1. q + spt \in Int /\ k + 1 \in Int /\ k \in Int /\ q \in Int /\ spt \in Int
              /\ S \in Nat \ {0}
          BY <1>1, <1>2, <3>2
        <4> HIDE DEF spt, S
        <4>2. q <= k <=> q * S <= k * S
          <5>1. q <= k <=> ~(k < q)
            BY <1>2, <3>2
          <5>2. k < q <=> k * S < q * S
            BY <4>1, Scale
          <5>3. k * S \in Int /\ q * S \in Int
            BY <4>1, Scale
          <5> QED  BY <5>1, <5>2, <5>3
        <4>3. /\ k < q + spt <=> k * S < (q + spt) * S
              /\ (q + spt) * S = q * S + spt * S
              /\ k + 1 <= q => (k + 1) * S <= q * S
              /\ (k + 1) * S = k * S + S
          BY <4>1, Scale
        <4>4. k < q => k + 1 <= q
          BY <1>2, <3>2
        <4> QED  BY <4>2, <4>3, <4>4
      <3> DEFINE kS == k * S
                 qS == q * S
                 k1 == (k + 1) * S
                 qs == (q + spt) * S
                 qk == q + spt
                 kk == k + 1
      <3>5. kS \in Int /\ qS \in Int /\ k1 \in Int /\ qs \in Int /\ qk \in Int
            /\ kk \in Int
        BY <1>1, <1>2, <3>2
      <3>6. b = kS /\ D <= qS /\ qS < D + S /\ (q <= k <=> qS <= kS)
            /\ (k < qk <=> kS < qs) /\ qs = qS + B
            /\ (k < q => kk <= q) /\ (kk <= q => k1 <= qS) /\ k1 = kS + S
        BY <1>1, <1>2, <3>3, <3>4
      <3> HIDE DEF kS, qS, k1, qs, qk, kk
      <3>7. ~(k < q)
        BY <1>1, <2>4, <3>2, <3>5, <3>6
      <3>8. k < qk
        BY <1>1, <2>4, <3>2, <3>5, <3>6
      <3>9. q <= k
        BY <1>2, <3>2, <3>7
      <3>a. k < q + spt
        BY <3>8 DEF qk
      <3>b. p = m
        <4>1. m \in Int /\ q \in Nat /\ spt \in Nat \ {0}
          BY <1>1, <1>2, <3>1
        <4> HIDE DEF spt, m
        <4>2. q <= m * spt /\ m * spt < q + spt
          BY <3>9, <3>a DEF k
        <4> QED  BY <4>1, <4>2, CeilOnly
      <3> QED  BY <3>3, <3>b DEF k
    <2> QED  BY <1>7, <2>1, <2>2, <2>3, <2>4
  <1>8. t.mode # "fixed" \/ (t.mode = "fixed" /\ t.size = 0 /\ t.avail > 0)
        \/ (t.mode = "fixed" /\ ~(t.size = 0 /\ t.avail > 0))
    OBVIOUS
  <1> QED  BY <1>5, <1>6, <1>7, <1>8

\* The padding opentracks() has set up, and the length of the track.
LEMMA PlannedLength ==
    ASSUME NEW t \in Tracks
    PROVE  /\ OpenPad(t) \in Nat
           /\ Length(t) \in Nat /\ DataSecs(t) <= Length(t)
           /\ Len(Goal(t)) = Length(t)
           /\ Goal(t) \in Seq(Nat \cup {Pad})
  <1>1. MinSecs \in Nat \ {0} /\ t.sec \in Nat \ {0} /\ t.pad \in Nat /\ DataLen(t) \in Nat
        /\ t.size \in Nat \cup {-1}
    BY TrackFacts
  <1>2. DataSecs(t) \in Nat
    BY DataEnds
  <1>3. OpenPad(t) \in Nat
    <2>1. ASSUME t.size > 0 PROVE Secs(t, t.size) \in Nat
      <3>1. t.size \in Nat
        BY <1>1, <2>1
      <3> QED  BY <3>1, SecsFacts
    <2> QED  BY <1>1, <2>1 DEF OpenPad
  <1>4. Length(t) \in Nat /\ DataSecs(t) <= Length(t)
    BY <1>1, <1>2, <1>3 DEF Length
  <1>5. \A k \in 1 .. Length(t) : (k - 1) * t.sec \in Nat
    BY <1>1, <1>4
  <1> QED  BY <1>3, <1>4, <1>5 DEF Goal

-----------------------------------------------------------------------------
(* What the medium holds *)

Stretches == [at : Nat, n : Nat, src : Nat \cup {Pad, Dummy, Linking}, last : BOOLEAN]
Names == Nat \cup {Pad}

\* The sectors of the track in one stretch.
Part(s) == IF s.src >= Pad THEN Sectors(s) ELSE <<>>

\* The sectors of a stretch: as many as it has, none for a dummy or a link.
LEMMA PartType ==
    ASSUME tr \in Tracks, NEW s \in Stretches
    PROVE  /\ Part(s) \in Seq(Names)
           /\ s.src >= Pad => Part(s) = Sectors(s) /\ Len(Part(s)) = s.n
           /\ s.src < Pad => Part(s) = <<>>
  <1>1. tr.sec \in Nat \ {0} /\ DataLen(tr) \in Nat
    BY TrackFacts
  <1>2. s.n \in Nat /\ s.src \in Nat \cup {-1, -2, -3} /\ Pad = -1
    BY DEF Stretches, Pad, Dummy, Linking
  <1>3. ASSUME s.src >= Pad
        PROVE  Part(s) = Sectors(s) /\ Len(Part(s)) = s.n /\ Part(s) \in Seq(Names)
    <2>1. Part(s) = Sectors(s)
      BY <1>3 DEF Part
    <2>2. \A k \in 1 .. s.n : (k - 1) * tr.sec \in Nat
      BY <1>1, <1>2
    <2>3. s.src = Pad \/ s.src \in Nat
      BY <1>2, <1>3
    <2>4. \A k \in 1 .. s.n : (IF s.src = Pad \/ s.src + (k - 1) * tr.sec >= DataLen(tr)
                               THEN Pad ELSE s.src + (k - 1) * tr.sec) \in Names
      BY <2>2, <2>3 DEF Names
    <2>5. Sectors(s) \in Seq(Names) /\ Len(Sectors(s)) = s.n
      BY <1>2, <2>4 DEF Sectors
    <2> QED  BY <2>1, <2>5
  <1>4. ASSUME s.src < Pad PROVE Part(s) = <<>>
    BY <1>2, <1>4 DEF Part
  <1>5. s.src >= Pad \/ s.src < Pad
    BY <1>2
  <1>6. <<>> \in Seq(Names)
    OBVIOUS
  <1> QED  BY <1>2, <1>3, <1>4, <1>5, <1>6

\* A stretch that is burned adds its sectors, and what only links packets none.
LEMMA RecordedAppend ==
    ASSUME tr \in Tracks, NEW m \in Seq(Stretches), NEW s \in Stretches
    PROVE  /\ RecordedOn(m) \in Seq(Names)
           /\ RecordedOn(Append(m, s)) = RecordedOn(m) \o Part(s)
           /\ s.src < Pad => RecordedOn(Append(m, s)) = RecordedOn(m)
  <1> DEFINE F(mm) == [i \in DOMAIN mm |-> Part(mm[i])]
  <1>1. \A mm : RecordedOn(mm) = FlattenSeq(F(mm))
    BY DEF RecordedOn, Part
  <1>2. \A x \in Stretches : Part(x) \in Seq(Names)
    BY PartType
  <1>3. F(m) \in Seq(Seq(Names)) /\ Len(F(m)) = Len(m)
    <2>1. DOMAIN m = 1 .. Len(m) /\ Len(m) \in Nat
      OBVIOUS
    <2>2. \A i \in 1 .. Len(m) : m[i] \in Stretches
      OBVIOUS
    <2>3. \A i \in 1 .. Len(m) : Part(m[i]) \in Seq(Names)
      BY <1>2, <2>2
    <2>4. F(m) = [i \in 1 .. Len(m) |-> Part(m[i])]
      BY <2>1
    <2> DEFINE N == Len(m)
               E == Seq(Names)
               P(i) == Part(m[i])
    <2>5. N \in Nat /\ \A i \in 1 .. N : P(i) \in E
      BY <2>1, <2>3
    <2> HIDE DEF N, E, P
    <2>6. [i \in 1 .. N |-> P(i)] \in Seq(E) /\ Len([i \in 1 .. N |-> P(i)]) = N
      BY <2>5
    <2> QED  BY <2>4, <2>6 DEF N, E, P
  <1>4. F(Append(m, s)) = Append(F(m), Part(s))
    <2>1. Append(m, s) \in Seq(Stretches) /\ Len(Append(m, s)) = Len(m) + 1
          /\ Append(m, s)[Len(m) + 1] = s
          /\ \A i \in 1 .. Len(m) : Append(m, s)[i] = m[i]
      BY AppendProperties
    <2>2. F(Append(m, s)) \in Seq(Seq(Names)) /\ Len(F(Append(m, s))) = Len(m) + 1
      BY <1>2, <2>1
    <2>3. Append(F(m), Part(s)) \in Seq(Seq(Names))
          /\ Len(Append(F(m), Part(s))) = Len(m) + 1
      BY <1>2, <1>3
    <2>4. \A i \in 1 .. Len(m) + 1 : F(Append(m, s))[i] = Append(F(m), Part(s))[i]
      <3>1. Part(s) \in Seq(Names)
        BY <1>2
      <3> QED  BY <1>3, <2>1, <3>1
    <2> QED  BY <2>2, <2>3, <2>4
  <1> HIDE DEF F
  <1>5. FlattenSeq(F(m)) \in Seq(Names)
    BY <1>3, FlattenType
  <1>6. Part(s) \in Seq(Names)
    BY <1>2
  <1>7. FlattenSeq(Append(F(m), Part(s))) = FlattenSeq(F(m)) \o Part(s)
    BY <1>3, <1>6, FlattenAppend
  <1>8. RecordedOn(Append(m, s)) = RecordedOn(m) \o Part(s)
    BY <1>1, <1>4, <1>7
  <1>9. RecordedOn(m) \in Seq(Names)
    BY <1>1, <1>5
  <1>a. ASSUME s.src < Pad PROVE RecordedOn(Append(m, s)) = RecordedOn(m)
    <2>1. Part(s) = <<>>
      BY <1>a, PartType
    <2> QED  BY <1>8, <1>9, <2>1
  <1> QED  BY <1>8, <1>9, <1>a

\* An empty medium holds no sector of the track.
LEMMA RecordedEmpty == RecordedOn(<<>>) = <<>>
  BY FlattenEmpty DEF RecordedOn

\* A beginning of g, and what follows there.
LEMMA Longer ==
    ASSUME NEW E, NEW g \in Seq(E), NEW r \in Seq(E), NEW x \in Seq(E),
           r = SubSeq(g, 1, Len(r)), Len(r) + Len(x) <= Len(g),
           \A k \in 1 .. Len(x) : x[k] = g[Len(r) + k]
    PROVE  r \o x = SubSeq(g, 1, Len(r) + Len(x)) /\ Len(r \o x) = Len(r) + Len(x)
  <1> DEFINE n == Len(r)
             l == Len(x)
             h == SubSeq(g, 1, n + l)
  <1>1. n \in Nat /\ l \in Nat /\ n + l \in Nat /\ Len(g) \in Nat
    OBVIOUS
  <1>2. Len(r \o x) = n + l /\ r \o x \in Seq(E)
        /\ \A i \in 1 .. n + l : (r \o x)[i] = IF i <= n THEN r[i] ELSE x[i - n]
    OBVIOUS
  <1>3. Len(h) = n + l /\ h \in Seq(E) /\ \A i \in 1 .. n + l : h[i] = g[i]
    BY <1>1
  <1>4. \A i \in 1 .. n : r[i] = g[i]
    <2>1. \A i \in 1 .. n : SubSeq(g, 1, n)[i] = g[i]
      BY <1>1
    <2> QED  BY <2>1
  <1>5. \A i \in 1 .. n + l : (r \o x)[i] = h[i]
    <2>1. \A i \in 1 .. n + l : i <= n => i \in 1 .. n
      BY <1>1
    <2>2. \A i \in 1 .. n + l : ~(i <= n) => i - n \in 1 .. l /\ n + (i - n) = i
      BY <1>1
    <2> QED  BY <1>2, <1>3, <1>4, <2>1, <2>2
  <1> DEFINE c == r \o x
  <1>6. c \in Seq(E) /\ h \in Seq(E) /\ Len(c) = n + l /\ Len(h) = n + l
        /\ \A i \in 1 .. n + l : c[i] = h[i]
    BY <1>2, <1>3, <1>5
  <1> HIDE DEF h, c
  <1>7. c = h
    BY <1>6, SeqEqual
  <1> QED  BY <1>2, <1>7 DEF h, c

-----------------------------------------------------------------------------
(* Reading one transfer *)

Asked == BytesToRead(tr, bytesRead, bytespt)
Got == FillBuf(tr, bytesRead, Asked)
Count == Clip(tr, Got, bytesRead + Got)
NextSize == IF Count < bytespt /\ tr.mode # "fixed" THEN RoundUp(tr, Count) ELSE bytespt
NextLast == islast \/ (/\ Count < bytespt \/ ~MoreToRead(tr, bytesRead + Got)
                       /\ NoPadAfter(bytesRead + Got))

\* When the input has run out all of the data is written.
LEMMA InputEnds ==
    ASSUME WTypeOK, NEW b \in Nat, AtGet(b), Got <= 0
    PROVE  Got \in {0, -1} /\ (Got = 0 => DataEnd(b))
  <1> DEFINE S == tr.sec
             B == tr.bpt
             D == DataLen(tr)
  <1>1. /\ S \in Nat \ {0} /\ B \in Nat \ {0} /\ tr.size \in Nat \cup {-1}
        /\ tr.avail \in Nat /\ D \in Nat /\ tr.err \in BOOLEAN
        /\ bytesRead \in Nat /\ bytespt \in Nat
    BY TrackFacts DEF WTypeOK
  <1>2. Got \in {0, -1} /\ (Got = 0 => bytesRead = tr.avail)
    <2>1. Asked > 0 /\ Asked \in Int
      BY <1>1 DEF AtGet, Asked, BytesToRead, MoreToRead
    <2>2. bytesRead <= tr.avail
      BY <1>1 DEF AtGet
    <2>3. bytesRead + Asked > tr.avail
      <3>1. Asked <= tr.avail - bytesRead => Got = Asked
        BY DEF Got, FillBuf
      <3> QED  BY <1>1, <2>1, <3>1
    <2>4. Got = IF tr.err THEN -1 ELSE tr.avail - bytesRead
      BY <1>1, <2>1, <2>3 DEF Got, FillBuf
    <2> QED  BY <1>1, <2>2, <2>4
  <1> SUFFICES ASSUME Got = 0 PROVE DataEnd(b)
    BY <1>2
  <1>m. B % S = 0
    BY TrackFacts DEF WTypeOK
  <1>3. CASE bytesRead = b /\ b % B = 0 /\ (b = 0 \/ MoreToRead(tr, b))
    <2>1. D = b
      BY <1>1, <1>2, <1>3 DEF DataLen, MoreToRead
    <2>2. b % S = 0
      <3>1. b % B = 0
        BY <1>3
      <3> QED  BY <1>1, <1>m, <3>1, WholeOf
    <2>3. ~(tr.size = 0 /\ tr.avail > 0)
      BY <1>1, <1>2, <1>3 DEF MoreToRead
    <2>4. tr \in Tracks
      BY DEF WTypeOK
    <2>5. b = DataSecs(tr) * S
      BY <1>1, <1>3, <2>1, <2>2, <2>3, <2>4, DataEnds
    <2> QED  BY <1>2, <2>5 DEF DataEnd
  <1>4. CASE DataEnd(b)
    BY <1>2, <1>4
  <1> QED  BY <1>3, <1>4 DEF AtGet

\* What has been read is a whole transfer, or the last one.
LEMMA ReadOne ==
    ASSUME WTypeOK, NEW b \in Nat, AtGet(b), Got > 0
    PROVE  /\ bytesRead = b
           /\ Loaded(b, bytesRead + Got, NextSize, NextLast)
           /\ NextSize \in Nat /\ NextSize % tr.sec = 0
           /\ Got \in Nat
           /\ tr.size = 0 => bytesRead + Got <= tr.bpt
           /\ tr.size # 0 => bytesRead + Got <= b + NextSize
           /\ ~islast
  <1> DEFINE S == tr.sec
             B == tr.bpt
             D == DataLen(tr)
             e == bytesRead + Got
  <1>1. /\ S \in Nat \ {0} /\ B \in Nat \ {0} /\ tr.size \in Nat \cup {-1}
        /\ tr.avail \in Nat /\ D \in Nat /\ tr.err \in BOOLEAN
        /\ bytesRead \in Nat /\ bytespt \in Nat
        /\ tr.mode \in {"track", "fixed", "variable"}
    BY TrackFacts DEF WTypeOK
  <1>2. tr \in Tracks
    BY DEF WTypeOK
  <1>m. B % S = 0
    BY TrackFacts DEF WTypeOK
  <1>3. Asked > 0 /\ Asked \in Int
    BY <1>1 DEF AtGet, Asked, BytesToRead, MoreToRead
  <1>4. Got = Asked \/ Got = tr.avail - bytesRead
    BY <1>1, <1>3 DEF Got, FillBuf
  <1>5. bytesRead + Got <= tr.avail /\ Got <= Asked
    BY <1>1, <1>3 DEF Got, FillBuf
  <1>6. bytesRead < tr.avail
    BY <1>1, <1>3, <1>4, <1>5
  <1>7. /\ bytesRead = b /\ bytespt = B /\ ~islast
        /\ b = 0 \/ MoreToRead(tr, b)
    BY <1>1, <1>6 DEF AtGet
  <1>n. b % B = 0
    BY <1>1, <1>6 DEF AtGet
  <1>8. /\ Got \in Nat /\ Got <= B /\ e \in Nat /\ b < e /\ e <= b + B
        /\ Asked = B \/ (tr.size > 0 /\ Asked = tr.size - b)
        /\ tr.size > 0 => e <= tr.size
    BY <1>1, <1>3, <1>4, <1>5, <1>7 DEF Asked, BytesToRead, MoreToRead
  <1>9. b % S = 0
    BY <1>1, <1>m, <1>n, WholeOf
  <1>a. CASE tr.size = 0
    <2>1. b = 0 /\ Count = 0
      BY <1>1, <1>7, <1>8, <1>a DEF MoreToRead, Clip, Count
    <2>2. D = 0 /\ tr.avail > 0
      BY <1>1, <1>6, <1>a DEF DataLen
    <2>3. CASE tr.mode = "fixed"
      <3>1. NextSize = B
        BY <1>7, <2>3 DEF NextSize
      <3>2. B = DataSecs(tr) * S
        BY <1>2, <1>a, <2>2, <2>3, DataEnds
      <3>3. ~MoreToRead(tr, e) /\ b + NextSize = NextSize
        BY <1>1, <1>8, <1>a, <2>1, <3>1 DEF MoreToRead
      <3>4. b < e /\ e <= b + B /\ e <= tr.avail
        BY <1>5, <1>8
      <3>5. Loaded(b, e, NextSize, NextLast)
        BY <1>n, <3>1, <3>2, <3>3, <3>4 DEF Loaded, DataEnd
      <3>6. e <= B
        BY <1>1, <1>8, <2>1
      <3> QED  BY <1>1, <1>7, <1>8, <1>a, <1>m, <3>1, <3>5, <3>6
    <2>4. CASE tr.mode # "fixed"
      <3>1. NextSize = RoundUp(tr, 0)
        BY <1>1, <1>7, <2>1, <2>4 DEF NextSize
      <3>2. 0 % S = 0
        BY <1>1, <1>9, <2>1
      <3>3. RoundUp(tr, 0) = 0
        BY <1>2, <3>2, SecsFacts
      <3>4. 0 = DataSecs(tr) * S
        BY <1>1, <1>2, <2>2, <2>4, <3>2, DataEnds
      <3>5. NextSize = 0 /\ NextSize \in Nat /\ NextSize % S = 0
        BY <3>1, <3>2, <3>3
      <3>6. ~MoreToRead(tr, e) /\ b + NextSize = 0
        BY <1>1, <1>8, <1>a, <2>1, <3>5 DEF MoreToRead
      <3>7. b < e /\ e <= b + B /\ e <= tr.avail
        BY <1>5, <1>8
      <3>8. Loaded(b, e, NextSize, NextLast)
        BY <1>n, <3>4, <3>6, <3>7 DEF Loaded, DataEnd
      <3>9. e <= B
        BY <1>1, <1>8, <2>1
      <3> QED  BY <1>7, <1>8, <1>a, <3>5, <3>8, <3>9
    <2> QED  BY <2>3, <2>4
  <1>b. CASE tr.size # 0
    <2>1. Count = Got
      BY <1>1, <1>8, <1>b DEF Clip, Count
    <2>2. CASE Got = B /\ MoreToRead(tr, e)
      <3>0. ~(Count < bytespt)
        BY <1>1, <1>7, <2>1, <2>2
      <3>1. NextSize = B /\ ~NextLast
        BY <1>7, <2>2, <3>0 DEF NextSize, NextLast
      <3>2. e <= D
        BY <1>1, <1>5, <1>8, <1>b, <2>2 DEF DataLen, MoreToRead
      <3>3. D <= DataSecs(tr) * S /\ DataSecs(tr) * S \in Int
        BY <1>1, <1>2, DataEnds
      <3> DEFINE dS == DataSecs(tr) * S
      <3> HIDE DEF dS
      <3>4. b + B <= dS
        BY <1>1, <1>7, <2>2, <3>2, <3>3 DEF dS
      <3>5. Loaded(b, e, B, NextLast)
        BY <1>1, <1>5, <1>7, <1>8, <2>2, <3>1, <3>4, <1>n DEF Loaded, dS
      <3>6. e <= b + NextSize
        BY <1>8, <3>1
      <3> QED  BY <1>1, <1>7, <1>8, <1>b, <1>m, <3>1, <3>5, <3>6
    <2>3. CASE ~(Got = B /\ MoreToRead(tr, e))
      <3>1. e = D
        <4>1. e = b + Got
          BY <1>7
        <4> HIDE DEF e
        <4>2. CASE Got = tr.avail - bytesRead
          <5>1. e = tr.avail
            BY <1>1, <1>7, <4>1, <4>2
          <5> QED  BY <1>1, <1>8, <1>b, <5>1 DEF DataLen
        <4>3. CASE Got = Asked /\ Asked # B
          <5>1. e = tr.size /\ tr.size > 0
            BY <1>1, <1>7, <1>8, <4>1, <4>3
          <5> QED  BY <1>1, <1>5, <5>1 DEF DataLen, e
        <4>4. CASE Got = Asked /\ Asked = B
          <5>1. e = tr.size /\ tr.size > 0
            BY <1>1, <1>8, <1>b, <2>3, <4>1, <4>4 DEF MoreToRead
          <5> QED  BY <1>1, <1>5, <5>1 DEF DataLen, e
        <4> QED  BY <1>4, <4>2, <4>3, <4>4
      <3>2. /\ NextSize \in Nat /\ NextSize % S = 0 /\ Got <= NextSize
            /\ DataEnd(b + NextSize)
        <4>1. CASE tr.mode = "fixed"
          <5>1. NextSize = B
            BY <1>7, <4>1 DEF NextSize
          <5>2. (b + B) % B = 0
            <6>1. B % B = 0
              BY <1>1, Scale, Whole
            <6> QED  BY <1>1, <1>n, <6>1, WholeSum
          <5>3. D <= b + B /\ b + B < D + B
            BY <1>1, <1>8, <3>1
          <5>4. b + B = DataSecs(tr) * S
            BY <1>1, <1>2, <1>b, <4>1, <5>2, <5>3, DataEnds
          <5> QED  BY <1>1, <1>8, <1>m, <5>1, <5>4 DEF DataEnd
        <4>2. CASE tr.mode # "fixed"
          <5>1. NextSize = RoundUp(tr, Got)
            <6>1. Got < B => NextSize = RoundUp(tr, Got)
              BY <1>7, <2>1, <4>2 DEF NextSize
            <6>2. Got = B => NextSize = B
              BY <1>1, <1>7, <2>1 DEF NextSize
            <6>3. Got = B => RoundUp(tr, Got) = B
              BY <1>1, <1>2, <1>m, SecsFacts
            <6> QED  BY <1>1, <1>8, <6>1, <6>2, <6>3
          <5>2. NextSize \in Nat /\ NextSize % S = 0 /\ Got <= NextSize
                /\ NextSize < Got + S
            <6> DEFINE r == RoundUp(tr, Got)
            <6>1. r = Secs(tr, Got) * S /\ r \in Nat /\ r % S = 0
                  /\ Got <= r /\ r < Got + S
              BY <1>2, <1>8, SecsFacts
            <6> QED  BY <5>1, <6>1
          <5>3. (b + NextSize) % S = 0
            BY <1>1, <1>9, <5>2, WholeSum
          <5>4. D <= b + NextSize /\ b + NextSize < D + S
            <6>1. D = b + Got
              BY <1>7, <3>1
            <6> HIDE DEF D
            <6>2. NextSize \in Nat /\ Got <= NextSize /\ NextSize < Got + S
              BY <5>2
            <6> QED  BY <1>1, <1>8, <6>1, <6>2
          <5>5. b + NextSize = DataSecs(tr) * S
            BY <1>1, <1>2, <4>2, <5>2, <5>3, <5>4, DataEnds
          <5> QED  BY <5>2, <5>5 DEF DataEnd
        <4> QED  BY <4>1, <4>2
      <3>3. MoreToRead(tr, e) => e = tr.avail
        BY <1>1, <1>b, <3>1 DEF DataLen, MoreToRead
      <3>4. NextSize > 0
        BY <1>1, <1>8, <3>2
      <3> QED  BY <1>1, <1>5, <1>7, <1>8, <1>b, <3>2, <3>3, <3>4, <1>n DEF Loaded
    <2> QED  BY <2>2, <2>3
  <1> QED  BY <1>a, <1>b

-----------------------------------------------------------------------------
(* Padding and burning *)

PadNeed == IF /\ Packet \/ ~tr.short
              /\ bytes \div tr.sec < MinSecs /\ padsecs + bytes \div tr.sec < MinSecs
           THEN MinSecs - bytes \div tr.sec ELSE padsecs

\* The padding brings the track to the length that is wanted, and never beyond.
LEMMA PadPlan ==
    ASSUME WTypeOK, NEW b, Sent(b), DataEnd(b), padsecs = OpenPad(tr),
           NEW r \in Nat, bytes = r * tr.sec
    PROVE  /\ PadNeed \in Nat
           /\ bytes + PadNeed * tr.sec <= Length(tr) * tr.sec
           /\ cut = 0 => bytes + PadNeed * tr.sec = Length(tr) * tr.sec
           /\ (PadNeed * tr.sec) % tr.sec = 0
           /\ PadNeed > 0 => PadNeed * tr.sec > 0
           /\ PadNeed = 0 /\ cut = 0 => bytes = Length(tr) * tr.sec
           /\ tr.mode = "track" /\ NoPad /\ cut = 0 => PadNeed = 0
  <1> DEFINE S == tr.sec
             d == DataSecs(tr)
             L == Length(tr)
  <1>1. tr \in Tracks
    BY DEF WTypeOK
  <1>2. /\ S \in Nat \ {0} /\ MinSecs \in Nat \ {0}
        /\ tr.mode # "track" => ~tr.short
        /\ d \in Nat /\ padsecs \in Nat /\ bytes = r * S /\ L \in Nat
    BY <1>1, TrackFacts, DataEnds, PlannedLength
  <1>3. bytes \div S = r
    <2>1. (r * S) \div S = r
      BY <1>2, Whole
    <2> QED  BY <1>2, <2>1
  <1>4. PadNeed = IF ~tr.short /\ r < MinSecs /\ padsecs + r < MinSecs
                  THEN MinSecs - r ELSE padsecs
    BY <1>2, <1>3 DEF PadNeed, Packet
  <1>5. r <= d /\ (cut = 0 => r = d)
    <2> DEFINE rS == r * S
               dS == d * S
    <2>1. rS \in Int /\ dS \in Int /\ (d < r <=> dS < rS) /\ (r = d <=> rS = dS)
      BY <1>2, Scale
    <2>2. bytes = rS /\ b = dS /\ bytes <= b /\ (cut = 0 => b = bytes)
      BY <1>2 DEF Sent, DataEnd
    <2> HIDE DEF rS, dS, d
    <2> QED  BY <1>2, <2>1, <2>2
  <1>6. /\ PadNeed \in Nat /\ r + PadNeed <= L /\ (cut = 0 => r + PadNeed = L)
        /\ tr.mode = "track" /\ NoPad /\ cut = 0 => PadNeed = 0
    <2>1. L = d + IF tr.short \/ padsecs >= MinSecs - d THEN padsecs ELSE MinSecs - d
      BY DEF Length
    <2>2. NoPad => padsecs = 0 /\ (tr.short \/ d >= MinSecs)
      BY DEF NoPad
    <2> HIDE DEF d, L
    <2>3. PadNeed \in Nat
      BY <1>2, <1>4
    <2>4. r + PadNeed <= L
      BY <1>2, <1>4, <1>5, <2>1
    <2>5. cut = 0 => r + PadNeed = L
      BY <1>2, <1>4, <1>5, <2>1
    <2>6. tr.mode = "track" /\ NoPad /\ cut = 0 => PadNeed = 0
      BY <1>2, <1>4, <1>5, <2>2
    <2> QED  BY <2>3, <2>4, <2>5, <2>6
  <1> DEFINE n == PadNeed
             nS == n * S
             LS == L * S
             sS == (r + n) * S
  <1>7. /\ nS \in Int /\ LS \in Int /\ sS \in Int /\ sS = bytes + nS /\ bytes \in Int
        /\ (L < r + n <=> LS < sS) /\ (r + n = L <=> sS = LS)
        /\ (0 < n <=> 0 < nS) /\ nS % S = 0
    <2>1. nS \in Int /\ LS \in Int /\ sS \in Int /\ r + n \in Int
      BY <1>2, <1>6, Scale
    <2>2. (r + n) * S = r * S + n * S
      BY <1>2, <1>6, Scale
    <2>3. (L < r + n <=> L * S < (r + n) * S) /\ (r + n = L <=> (r + n) * S = L * S)
      BY <1>2, <2>1, Scale
    <2>4. (0 < n <=> 0 * S < n * S) /\ 0 * S = 0
      BY <1>2, <1>6, Scale
    <2>5. nS % S = 0
      BY <1>2, <1>6, Whole
    <2>6. bytes \in Int
      BY DEF WTypeOK
    <2> QED  BY <1>2, <2>1, <2>2, <2>3, <2>4, <2>5, <2>6
  <1> HIDE DEF n, L
  <1>8. r + n \in Int /\ n \in Nat /\ L \in Int
    BY <1>2, <1>6 DEF n
  <1>9. r + n <= L /\ (cut = 0 => r + n = L)
    BY <1>6 DEF n
  <1>b. /\ nS \in Int /\ LS \in Int /\ sS \in Int /\ sS = bytes + nS /\ bytes \in Int
        /\ (L < r + n <=> LS < sS) /\ (r + n = L <=> sS = LS)
        /\ (0 < n <=> 0 < nS)
    BY <1>7
  <1> HIDE DEF nS, LS, sS
  <1>c. ~(L < r + n) /\ (cut = 0 => r + n = L)
    BY <1>8, <1>9
  <1>d. bytes + nS <= LS /\ (cut = 0 => bytes + nS = LS)
    BY <1>b, <1>c
  <1>e. n = 0 => nS <= 0
    BY <1>b, <1>8
  <1>f. n = 0 => nS >= 0
    BY <1>2 DEF nS
  <1>a. /\ bytes + nS <= LS /\ (cut = 0 => bytes + nS = LS)
        /\ n > 0 => nS > 0
        /\ n = 0 /\ cut = 0 => bytes = LS
    BY <1>8, <1>b, <1>d, <1>e, <1>f
  <1> QED  BY <1>6, <1>7, <1>a DEF n, nS, LS, L

\* One write of the padding.
LEMMA PadOne ==
    ASSUME WTypeOK, AtPad
    PROVE  /\ PadSize \in Nat /\ PadSize % tr.sec = 0 /\ 0 < PadSize /\ PadSize <= amt
           /\ amt - PadSize \in Nat /\ (amt - PadSize) % tr.sec = 0
           /\ (amt - PadSize <= 0) <=> (amt - PadSize = 0)
           /\ PadSize = (PadSize \div tr.sec) * tr.sec /\ PadSize \div tr.sec \in Nat
  <1> DEFINE S == tr.sec
  <1>1. tr \in Tracks
    BY DEF WTypeOK
  <1>2. S \in Nat \ {0} /\ amt \in Nat /\ amt > 0 /\ bytespt \in Nat /\ bytespt > 0
    BY <1>1, TrackFacts DEF WTypeOK, AtPad
  <1>3. amt % S = 0 /\ bytespt % S = 0
    BY DEF WTypeOK, AtPad
  <1>4. RoundUp(tr, amt) = amt
    BY <1>1, <1>2, <1>3, SecsFacts
  <1>5. PadSize \in Nat /\ 0 < PadSize /\ PadSize <= amt
    BY <1>2, <1>4 DEF PadSize
  <1>6. PadSize % S = 0
    BY <1>3, <1>4 DEF PadSize
  <1>7. (amt - PadSize) % S = 0
    BY <1>2, <1>3, <1>5, <1>6, WholeSum
  <1>8. PadSize = (PadSize \div S) * S /\ PadSize \div S \in Nat
    BY <1>2, <1>5, <1>6, DivRest
  <1>9. amt - PadSize \in Nat /\ ((amt - PadSize <= 0) <=> (amt - PadSize = 0))
    BY <1>2, <1>5
  <1> QED  BY <1>5, <1>6, <1>7, <1>8, <1>9

Burns(new) == \/ medium' = Append(medium, new)
              \/ \E l \in Stretches : /\ l.src = Linking
                                      /\ medium' = Append(Append(medium, new), l)

\* What is burned adds its sectors to those of the track.
LEMMA BurnsPart ==
    ASSUME WTypeOK, tr' = tr, NEW new \in Stretches, Burns(new)
    PROVE  /\ Recorded' = Recorded \o Part(new)
           /\ medium' \in Seq(Stretches) /\ medium' # <<>>
  <1> DEFINE r == Recorded
             x == Part(new)
  <1>1. tr \in Tracks /\ medium \in Seq(Stretches)
    BY DEF WTypeOK, Stretches
  <1>2. r \in Seq(Names) /\ RecordedOn(Append(medium, new)) = r \o x
    BY <1>1, RecordedAppend DEF Recorded
  <1>3. Recorded' = RecordedOn(medium')
    <2>1. DataLen(tr)' = DataLen(tr)
      OBVIOUS
    <2> QED  BY <2>1 DEF Recorded, RecordedOn, Sectors
  <1> HIDE DEF r, x
  <1>4. RecordedOn(medium') = r \o x /\ medium' \in Seq(Stretches) /\ medium' # <<>>
    <2>1. Append(medium, new) \in Seq(Stretches) /\ Append(medium, new) # <<>>
      BY <1>1, AppendProperties
    <2>2. CASE medium' = Append(medium, new)
      BY <1>2, <2>1, <2>2
    <2>3. ASSUME NEW l \in Stretches, l.src = Linking,
                 medium' = Append(Append(medium, new), l)
          PROVE  /\ RecordedOn(medium') = r \o x
                 /\ medium' \in Seq(Stretches) /\ medium' # <<>>
      <3>1. l.src < Pad
        BY <2>3 DEF Linking, Pad
      <3>2. RecordedOn(Append(Append(medium, new), l)) = RecordedOn(Append(medium, new))
        BY <1>1, <2>1, <3>1, RecordedAppend
      <3>3. /\ Append(Append(medium, new), l) \in Seq(Stretches)
            /\ Append(Append(medium, new), l) # <<>>
        BY <2>1
      <3> QED  BY <1>2, <2>3, <3>2, <3>3
    <2> QED  BY <2>2, <2>3 DEF Burns
  <1> QED  BY <1>3, <1>4 DEF r, x

\* What is burned next goes on with the track.
LEMMA BurnOne ==
    ASSUME WTypeOK, SoFar, tr' = tr, NEW new \in Stretches, Burns(new),
           bytes' = bytes + new.n * tr.sec,
           bytes + new.n * tr.sec <= Length(tr) * tr.sec,
           new.src >= Pad, cut' = 0 => cut = 0,
           cut = 0 => new.src = bytes \/ (new.src = Pad /\ DataLen(tr) <= bytes)
    PROVE  /\ SoFar' /\ medium' \in Seq(Stretches) /\ medium' # <<>>
           /\ cut = 0 => Recorded' = SubSeq(Goal(tr), 1, Len(Recorded'))
  <1> DEFINE S == tr.sec
             L == Length(tr)
             r == Recorded
             n == new.n
             x == Part(new)
             g == Goal(tr)
  <1>1. tr \in Tracks /\ medium \in Seq(Stretches) /\ bytes \in Nat
    BY DEF WTypeOK, Stretches
  <1>2. S \in Nat \ {0} /\ DataLen(tr) \in Nat
    BY <1>1, TrackFacts
  <1>3. L \in Nat /\ Len(g) = L /\ g \in Seq(Names)
    BY <1>1, PlannedLength DEF Names
  <1>4. n \in Nat /\ new.src >= Pad /\ Pad = -1
    BY <1>1 DEF Stretches, Pad
  <1>5. x \in Seq(Names) /\ x = Sectors(new) /\ Len(x) = n
    BY <1>1, <1>4, PartType
  <1>6. r \in Seq(Names) /\ RecordedOn(Append(medium, new)) = r \o x
    BY <1>1, RecordedAppend DEF Recorded
  <1>9. Recorded' = r \o x /\ medium' \in Seq(Stretches) /\ medium' # <<>>
    BY BurnsPart
  <1>a. /\ bytes = Len(r) * S /\ Len(r) <= L /\ Len(r) \in Nat
        /\ cut = 0 => r = SubSeq(g, 1, Len(r))
    BY <1>6 DEF SoFar
  <1> HIDE DEF r, g, x, L, n
  <1>b. (Len(r) + n) * S = bytes + n * S
    BY <1>2, <1>4, <1>a, Scale
  <1>c. Len(r) + n <= L
    <2>1. L < Len(r) + n <=> L * S < (Len(r) + n) * S
      BY <1>2, <1>3, <1>4, <1>a, Scale
    <2>2. L * S \in Int /\ bytes + n * S \in Int /\ bytes + n * S <= L * S
      BY <1>1, <1>2, <1>3, <1>4 DEF n, L
    <2> QED  BY <1>3, <1>4, <1>a, <1>b, <2>1, <2>2
  <1>d. ASSUME cut = 0, NEW k \in 1 .. Len(x)
        PROVE  x[k] = g[Len(r) + k]
    <2> DEFINE off == (k - 1) * S
               j == Len(r) + k
               place == (j - 1) * S
    <2>1. k \in 1 .. n /\ k - 1 \in Nat /\ off \in Nat
      BY <1>2, <1>4, <1>5
    <2>2. place = bytes + off
      <3>1. j - 1 = Len(r) + (k - 1)
        BY <1>a, <2>1
      <3>2. (Len(r) + (k - 1)) * S = Len(r) * S + (k - 1) * S
        BY <1>2, <1>a, <2>1, Scale
      <3> QED  BY <1>a, <3>1, <3>2
    <2>3. j \in 1 .. L
      BY <1>3, <1>4, <1>a, <1>c, <2>1
    <2>4. g[j] = IF place < DataLen(tr) THEN place ELSE Pad
      BY <2>3 DEF g, Goal, L
    <2>5. x[k] = IF new.src = Pad \/ new.src + off >= DataLen(tr) THEN Pad
                 ELSE new.src + off
      BY <1>5, <2>1 DEF Sectors, n
    <2> HIDE DEF off, j, place
    <2>6. x[k] = g[j]
      BY <1>1, <1>2, <1>4, <1>d, <2>1, <2>2, <2>4, <2>5
    <2> QED  BY <2>6 DEF j
  <1>e. /\ Len(r \o x) = Len(r) + n
        /\ cut = 0 => r \o x = SubSeq(g, 1, Len(r) + n)
    <2>1. Len(r \o x) = Len(r) + n
      BY <1>5, <1>6
    <2>2. ASSUME cut = 0 PROVE r \o x = SubSeq(g, 1, Len(r) + n)
      <3>1. \A k \in 1 .. Len(x) : x[k] = g[Len(r) + k]
        BY <1>d, <2>2
      <3>2. g \in Seq(Names) /\ r \in Seq(Names) /\ x \in Seq(Names)
            /\ r = SubSeq(g, 1, Len(r)) /\ Len(r) + Len(x) <= Len(g)
        BY <1>3, <1>5, <1>6, <1>a, <1>c, <2>2
      <3>3. r \o x = SubSeq(g, 1, Len(r) + Len(x))
        BY <3>1, <3>2, Longer
      <3> QED  BY <1>5, <3>3
    <2> QED  BY <2>1, <2>2
  <1>f. /\ bytes' = Len(r \o x) * S
        /\ Len(r \o x) <= L
        /\ cut = 0 => r \o x = SubSeq(g, 1, Len(r \o x))
    BY <1>b, <1>c, <1>e DEF n
  <1>g. Recorded' = r \o x /\ Goal(tr)' = g /\ Length(tr)' = L /\ tr.sec' = S
    BY <1>9 DEF g, L
  <1>h. SoFar'
    BY <1>f, <1>g DEF SoFar
  <1>i. cut = 0 => Recorded' = SubSeq(Goal(tr), 1, Len(Recorded'))
    BY <1>f, <1>g DEF g
  <1> QED  BY <1>9, <1>h, <1>i

\* The drive burns a stretch, with or without a link behind it.
LEMMA BurnedBurns ==
    ASSUME WTypeOK, NEW new \in Stretches, Burned(new)
    PROVE  /\ Burns(new) /\ startsec' = startsec + new.n
           /\ tr.mode # "variable" => medium' = Append(medium, new)
           /\ \/ medium' = Append(medium, new) /\ nwa' = startsec'
              \/ \E l \in Stretches :
                    /\ l.at = startsec' /\ l.n = LinkSecs /\ l.src = Linking
                    /\ medium' = Append(Append(medium, new), l)
                    /\ nwa' = startsec' + LinkSecs
           /\ startsec' \in Nat /\ nwa' \in Nat
  <1> DEFINE end == startsec + new.n
             l == [at |-> end, n |-> LinkSecs, src |-> Linking, last |-> FALSE]
  <1>1. startsec \in Nat /\ new.n \in Nat /\ medium \in Seq(Stretches)
    BY DEF WTypeOK, Stretches
  <1>2. end \in Nat /\ startsec' = end
    BY <1>1 DEF Burned
  <1>3. l \in Stretches /\ l.src = Linking /\ l.n = LinkSecs /\ l.at = end
    BY <1>2 DEF Stretches, LinkSecs
  <1> HIDE DEF l, end
  <1>4. medium \o <<new, l>> = Append(Append(medium, new), l)
    BY <1>1, <1>3
  <1>5. \/ medium' = Append(medium, new) /\ nwa' = end
        \/ /\ tr.mode = "variable"
           /\ medium' = Append(Append(medium, new), l) /\ nwa' = end + LinkSecs
    BY <1>4 DEF Burned, end, l
  <1>6. nwa' \in Nat
    BY <1>2, <1>5 DEF LinkSecs
  <1>7. Burns(new)
    BY <1>3, <1>5 DEF Burns
  <1>8. tr.mode # "variable" => medium' = Append(medium, new)
    BY <1>5
  <1>9. \/ medium' = Append(medium, new) /\ nwa' = startsec'
        \/ \E k \in Stretches :
              /\ k.at = startsec' /\ k.n = LinkSecs /\ k.src = Linking
              /\ medium' = Append(Append(medium, new), k)
              /\ nwa' = startsec' + LinkSecs
    BY <1>2, <1>3, <1>5
  <1> QED  BY <1>2, <1>6, <1>7, <1>8, <1>9 DEF end

\* Nothing that counts is burned.
LEMMA StillSoFar ==
    ASSUME WTypeOK, SoFar, tr' = tr, bytes' = bytes, cut' = 0 => cut = 0,
           \/ medium' = medium
           \/ \E l \in Stretches : l.src < Pad /\ medium' = Append(medium, l)
    PROVE  SoFar' /\ medium' \in Seq(Stretches) /\ Recorded' = Recorded
  <1>1. tr \in Tracks /\ medium \in Seq(Stretches)
    BY DEF WTypeOK, Stretches
  <1>2. Recorded' = RecordedOn(medium')
    <2>1. DataLen(tr)' = DataLen(tr)
      OBVIOUS
    <2> QED  BY <2>1 DEF Recorded, RecordedOn, Sectors
  <1>3. RecordedOn(medium') = RecordedOn(medium) /\ medium' \in Seq(Stretches)
    <2>1. ASSUME NEW l \in Stretches, l.src < Pad, medium' = Append(medium, l)
          PROVE  RecordedOn(medium') = RecordedOn(medium) /\ medium' \in Seq(Stretches)
      <3>1. RecordedOn(Append(medium, l)) = RecordedOn(medium)
        BY <1>1, <2>1, RecordedAppend
      <3> QED  BY <1>1, <2>1, <3>1
    <2> QED  BY <1>1, <2>1
  <1>4. Recorded' = Recorded
    BY <1>2, <1>3 DEF Recorded
  <1>5. Goal(tr)' = Goal(tr) /\ Length(tr)' = Length(tr)
    OBVIOUS
  <1>6. SoFar'
    BY <1>4, <1>5 DEF SoFar
  <1> QED  BY <1>3, <1>4, <1>6

\* Of a stretch the drive takes all, or a first part.
LEMMA TakenBurns ==
    ASSUME WTypeOK, NEW new \in Stretches, NEW k \in 0 .. new.n, Taken(new, k)
    PROVE  \/ k = 0 /\ new.n > 0 /\ nwa' = Here /\ UNCHANGED <<startsec, medium>>
           \/ \E s \in Stretches :
                 /\ s.at = new.at /\ s.n = k /\ s.src = new.src /\ s.last = new.last
                 /\ k = new.n => s = new
                 /\ Burned(s)
  <1> DEFINE s == [new EXCEPT !.n = k]
  <1>1. /\ s \in Stretches /\ s.at = new.at /\ s.n = k /\ s.src = new.src
        /\ s.last = new.last /\ (k = new.n => s = new)
    BY DEF Stretches
  <1> HIDE DEF s
  <1>2. CASE k = 0 /\ new.n > 0
    BY <1>2 DEF Taken
  <1>3. CASE ~(k = 0 /\ new.n > 0)
    <2>1. Burned(s)
      BY <1>3 DEF Taken, s
    <2> QED  BY <1>1, <2>1
  <1> QED  BY <1>2, <1>3

\* What is burned is added to what is there.
LEMMA BurnsLonger ==
    ASSUME WTypeOK, NEW new \in Stretches, Burns(new)
    PROVE  /\ medium' \in Seq(Stretches) /\ Len(medium') \in Nat
           /\ Len(medium) \in Nat /\ Len(medium) <= Len(medium')
           /\ \A i \in 1 .. Len(medium) : medium'[i] = medium[i]
  <1>1. medium \in Seq(Stretches) /\ Len(medium) \in Nat
    BY DEF WTypeOK, Stretches
  <1> DEFINE one == Append(medium, new)
  <1>2. /\ one \in Seq(Stretches) /\ Len(one) = Len(medium) + 1
        /\ \A i \in 1 .. Len(medium) : one[i] = medium[i]
    BY <1>1, AppendProperties
  <1>3. CASE medium' = one
    BY <1>1, <1>2, <1>3
  <1>4. ASSUME NEW l \in Stretches, medium' = Append(one, l)
        PROVE  /\ medium' \in Seq(Stretches) /\ Len(medium') = Len(medium) + 2
               /\ \A i \in 1 .. Len(medium) : medium'[i] = medium[i]
    <2> HIDE DEF one
    <2>1. /\ medium' \in Seq(Stretches) /\ Len(medium') = Len(one) + 1
          /\ \A i \in 1 .. Len(one) : medium'[i] = one[i]
      BY <1>2, <1>4, AppendProperties
    <2> QED  BY <1>1, <1>2, <2>1
  <1> HIDE DEF one
  <1>5. medium' = one \/ \E l \in Stretches : medium' = Append(one, l)
    BY DEF Burns, one
  <1> QED  BY <1>1, <1>3, <1>4, <1>5

\* Also when the drive takes a first part of it, or nothing.
LEMMA TakenLonger ==
    ASSUME WTypeOK, NEW new \in Stretches, NEW k \in 0 .. new.n, Taken(new, k)
    PROVE  /\ medium' \in Seq(Stretches) /\ Len(medium') \in Nat
           /\ Len(medium) \in Nat /\ Len(medium) <= Len(medium')
           /\ \A i \in 1 .. Len(medium) : medium'[i] = medium[i]
  <1>1. medium \in Seq(Stretches) /\ Len(medium) \in Nat
    BY DEF WTypeOK, Stretches
  <1>2. CASE medium' = medium
    BY <1>1, <1>2
  <1>3. ASSUME NEW s \in Stretches, Burned(s)
        PROVE  /\ medium' \in Seq(Stretches) /\ Len(medium') \in Nat
               /\ Len(medium) \in Nat /\ Len(medium) <= Len(medium')
               /\ \A i \in 1 .. Len(medium) : medium'[i] = medium[i]
    BY <1>3, BurnedBurns, BurnsLonger
  <1> QED  BY <1>2, <1>3, TakenBurns

\* A stretch that is taken whole is on the medium.
LEMMA TakenWhole ==
    ASSUME WTypeOK, NEW new \in Stretches, Taken(new, new.n), tr.mode # "variable"
    PROVE  medium' = Append(medium, new)
  <1>1. new.n \in Nat /\ [new EXCEPT !.n = new.n] = new
    BY DEF Stretches
  <1>2. Burned(new)
    BY <1>1 DEF Taken
  <1> QED  BY <1>2, BurnedBurns

\* The written part ends at some sector.
LEMMA HereNat ==
    ASSUME medium \in Seq(Stretches)
    PROVE  Here \in Nat
  <1>1. CASE medium = <<>>
    BY <1>1 DEF Here
  <1>2. CASE medium # <<>>
    <2>1. medium[Len(medium)] \in Stretches
      BY <1>2
    <2>2. medium[Len(medium)].at \in Nat /\ medium[Len(medium)].n \in Nat
      BY <2>1 DEF Stretches
    <2> QED  BY <1>2, <2>2 DEF Here
  <1> QED  BY <1>1, <1>2

\* Nor does anything else take away from what is there.
LEMMA AddedLonger ==
    ASSUME WTypeOK, medium' = medium \/ \E l \in Stretches : medium' = Append(medium, l)
    PROVE  /\ medium' \in Seq(Stretches) /\ Len(medium') \in Nat
           /\ Len(medium) \in Nat /\ Len(medium) <= Len(medium') /\ cut \in Nat
           /\ cut <= Len(medium) + 1 => cut <= Len(medium') + 1
           /\ \A i \in 1 .. Len(medium) : medium'[i] = medium[i]
  <1>1. medium \in Seq(Stretches) /\ Len(medium) \in Nat /\ cut \in Nat
    BY DEF WTypeOK, Stretches
  <1>2. CASE medium' = medium
    BY <1>1, <1>2
  <1>3. ASSUME NEW l \in Stretches, medium' = Append(medium, l)
        PROVE  /\ medium' \in Seq(Stretches) /\ Len(medium') = Len(medium) + 1
               /\ \A i \in 1 .. Len(medium) : medium'[i] = medium[i]
    BY <1>1, <1>3, AppendProperties
  <1> QED  BY <1>1, <1>2, <1>3

\* How many sectors the medium has of the track.
LEMMA CountedIs ==
    ASSUME WTypeOK
    PROVE  Recorded \in Seq(Names) /\ Len(Recorded) \in Nat
  <1>1. tr \in Tracks /\ medium \in Seq(Stretches)
    BY DEF WTypeOK, Stretches
  <1>2. [at |-> 0, n |-> 0, src |-> Pad, last |-> FALSE] \in Stretches
    BY DEF Stretches
  <1>3. Recorded \in Seq(Names)
    BY <1>1, <1>2, RecordedAppend DEF Recorded
  <1> QED  BY <1>3

-----------------------------------------------------------------------------
(* The steps of a track *)

BaseInv == WTypeOK /\ SoFar /\ Progress

\* What stays the same for as long as the track does.
LEMMA SameTrack ==
    ASSUME tr' = tr
    PROVE  /\ DataSecs(tr)' = DataSecs(tr) /\ Length(tr)' = Length(tr)
           /\ OpenPad(tr)' = OpenPad(tr) /\ DataLen(tr)' = DataLen(tr)
           /\ \A p \in Int : MoreToRead(tr, p)' = MoreToRead(tr, p)
  BY DEF MoreToRead

\* Every state of a run has the types, and every step keeps the track.
LEMMA TypeParts ==
    ASSUME WTypeOK
    PROVE  /\ tr \in Tracks /\ bytes \in Nat /\ bytesRead \in Nat /\ bytespt \in Nat
           /\ padsecs \in Nat /\ startsec \in Nat /\ nwa \in Nat /\ amt \in Int
           /\ islast \in BOOLEAN /\ medium \in Seq(Stretches) /\ cut \in Nat
           /\ tr.sec \in Nat \ {0} /\ tr.bpt \in Nat \ {0}
           /\ tr.avail \in Nat /\ tr.size \in Int
  BY TrackFacts DEF WTypeOK, Stretches

\* No step changes the track.
LEMMA TrackStays ==
    ASSUME [WNext]_wvars
    PROVE  tr' = tr
  BY DEF WNext, Get, NextAddress, Write, ShortWrite, Writes, WriteError, Busy, Again,
         PadStart, PadWrite, PadShort, Pads, PadError, Close, WDone, wvars

\* BaseInv holds when a track begins.
LEMMA BaseInit ==
    ASSUME WInit
    PROVE  BaseInv
  <1>1. tr \in Tracks
    BY DEF WInit
  <1>2. /\ tr.sec \in Nat \ {0} /\ tr.bpt \in Nat \ {0} /\ tr.avail \in Nat
        /\ OpenPad(tr) \in Nat /\ Length(tr) \in Nat /\ Goal(tr) \in Seq(Names)
    BY <1>1, TrackFacts, PlannedLength DEF Names
  <1>3. tr.bpt % tr.sec = 0
    BY <1>1, TrackFacts
  <1>4. WTypeOK
    <2>1. medium = <<>> /\ pc = "get" /\ padsecs = OpenPad(tr) /\ bytespt = tr.bpt
      BY DEF WInit
    <2>2. medium \in Seq([at : Nat, n : Nat, src : Nat \cup {Pad, Dummy, Linking},
                          last : BOOLEAN])
      BY <2>1
    <2>3. /\ padsecs \in Nat /\ bytesRead \in Nat /\ bytes \in Nat /\ bytespt \in Nat
          /\ startsec \in Nat /\ amt \in Int /\ nwa \in Nat /\ cut \in Nat
      BY <1>2 DEF WInit
    <2>4. /\ islast \in BOOLEAN /\ retried \in BOOLEAN /\ asleep \in BOOLEAN
          /\ lastDone \in BOOLEAN /\ padOK \in BOOLEAN /\ ending = "none"
      BY DEF WInit
    <2>5. bytespt % tr.sec = 0
      BY <1>3, <2>1
    <2> QED  BY <1>1, <2>1, <2>2, <2>3, <2>4, <2>5 DEF WTypeOK
  <1>5. Recorded = <<>>
    BY RecordedEmpty DEF Recorded, WInit
  <1>6. SoFar
    <2>1. bytes = 0 /\ 0 * tr.sec = 0
      BY <1>2 DEF WInit
    <2>2. SubSeq(Goal(tr), 1, 0) = <<>>
      BY <1>2
    <2> QED  BY <1>2, <1>5, <2>1, <2>2 DEF SoFar
  <1>7. 0 % tr.bpt = 0
    <2>1. 0 * tr.bpt = 0
      BY <1>2
    <2> QED  BY <1>2, <2>1, Whole
  <1>8. Sent(0) /\ AtGet(0)
    BY <1>2, <1>7 DEF AtGet, Sent, WInit
  <1>9. Progress
    BY <1>8 DEF Progress, WInit
  <1> QED  BY <1>4, <1>6, <1>9 DEF BaseInv

\* Get keeps BaseInv: what was read is what the next write carries.
LEMMA BaseGet ==
    ASSUME BaseInv, Get
    PROVE  BaseInv'
  <1>1. pc = "get" /\ WTypeOK /\ SoFar /\ padsecs = OpenPad(tr)
        /\ ending = "none" /\ padOK /\ ~asleep
        /\ (cut # 0 => "short" \in tr.faults) /\ cut <= Len(medium) + 1
    BY DEF Get, BaseInv, Progress
  <1>b. PICK b : Sent(b) /\ AtGet(b)
    BY <1>1 DEF BaseInv, Progress
  <1>c. b \in Nat
    BY <1>b DEF Sent
  <1>2. UNCHANGED <<tr, padsecs, bytes, startsec, amt, asleep, lastDone, nwa,
                    medium, padOK, cut>>
    BY DEF Get
  <1>d. Sent(b)'
    BY <1>2, <1>b DEF Sent
  <1>3. \/ /\ Got <= 0
           /\ pc' = IF Got < 0 THEN "gone" ELSE "after"
           /\ ending' = IF Got < 0 THEN "readerr" ELSE ending
           /\ UNCHANGED <<bytesRead, bytespt, islast, retried>>
        \/ /\ Got > 0
           /\ bytesRead' = bytesRead + Got
           /\ islast' = NextLast
           /\ bytespt' = NextSize
           /\ retried' = FALSE
           /\ pc' = IF tr.mode = "variable" THEN "nwa" ELSE "write"
           /\ UNCHANGED ending
    BY DEF Get, Got, Asked, Count, NextSize, NextLast
  <1>4. SoFar' /\ medium' \in Seq(Stretches)
    BY <1>1, <1>2, StillSoFar
  <1>5. CASE Got <= 0
    <2>1. Got \in {0, -1} /\ (Got = 0 => DataEnd(b))
      BY <1>1, <1>5, <1>b, <1>c, InputEnds
    <2>2. /\ pc' = IF Got < 0 THEN "gone" ELSE "after"
          /\ ending' = IF Got < 0 THEN "readerr" ELSE ending
          /\ UNCHANGED <<bytesRead, bytespt, islast, retried>>
      BY <1>3, <1>5, <2>1
    <2>3. WTypeOK'
      BY <1>1, <1>2, <1>4, <2>1, <2>2 DEF WTypeOK
    <2>4. Progress'
      <3>1. Got = 0 => DataEnd(b)'
        BY <1>2, <2>1 DEF DataEnd
      <3>2. (pc = "after")' => Sent(b)' /\ DataEnd(b)'
        BY <1>d, <2>1, <2>2, <3>1
      <3> QED  BY <1>1, <1>2, <2>1, <2>2, <3>2 DEF Progress
    <2> QED  BY <1>4, <2>3, <2>4 DEF BaseInv
  <1>6. CASE Got > 0
    <2>1. /\ Loaded(b, bytesRead + Got, NextSize, NextLast)
          /\ NextSize \in Nat /\ NextSize % tr.sec = 0
          /\ Got \in Nat
      BY <1>1, <1>6, <1>b, <1>c, ReadOne
    <2>2. /\ bytesRead' = bytesRead + Got
          /\ islast' = NextLast
          /\ bytespt' = NextSize
          /\ retried' = FALSE
          /\ pc' = IF tr.mode = "variable" THEN "nwa" ELSE "write"
          /\ UNCHANGED ending
      BY <1>3, <1>6, <2>1
    <2>3. NextLast \in BOOLEAN
      BY <1>1 DEF NextLast, WTypeOK, NoPadAfter
    <2>4. bytesRead + Got \in Nat
      BY <1>1, <2>1 DEF WTypeOK
    <2>5. WTypeOK'
      BY <1>1, <1>2, <1>4, <2>1, <2>2, <2>3, <2>4 DEF WTypeOK
    <2>6. AtWrite(b)'
      BY <1>2, <2>1, <2>2 DEF AtWrite, Loaded, DataEnd, MoreToRead
    <2>7. Progress'
      BY <1>1, <1>2, <1>d, <2>2, <2>6 DEF Progress
    <2> QED  BY <1>4, <2>5, <2>7 DEF BaseInv
  <1>7. Got <= 0 \/ Got > 0
    BY <1>3
  <1> QED  BY <1>5, <1>6, <1>7

\* The bytes in hand come from where the last write of data has ended.
LEMMA SourceIs ==
    ASSUME WTypeOK, NEW b \in Nat, AtWrite(b)
    PROVE  Source = b
  <1> DEFINE B == tr.bpt
             m == b \div B
  <1>1. B \in Nat \ {0} /\ bytesRead \in Nat
    BY TypeParts
  <1>2. b % B = 0
    BY DEF AtWrite, Loaded
  <1>3. b < bytesRead /\ bytesRead <= b + B
    BY DEF AtWrite, Loaded
  <1>4. m \in Nat /\ b = m * B
    BY <1>1, <1>2, DivRest
  <1> HIDE DEF m
  <1>5. CASE bytesRead = b + B
    <2>1. B % B = 0
      <3>1. 1 * B = B
        BY <1>1
      <3>2. (1 * B) % B = 0
        BY <1>1, Whole
      <3> QED  BY <3>1, <3>2
    <2>2. bytesRead % B = 0
      <3>1. (b + B) % B = 0
        BY <1>1, <1>2, <2>1, WholeSum
      <3> QED  BY <1>5, <3>1
    <2> DEFINE r == bytesRead % B
    <2>3. Source = bytesRead - IF r = 0 THEN B ELSE r
      BY DEF Source
    <2>4. r = 0
      BY <2>2
    <2> HIDE DEF r
    <2>5. Source = bytesRead - B
      BY <2>3, <2>4, Zenon
    <2> QED  BY <1>1, <1>5, <2>5
  <1>6. CASE bytesRead < b + B
    <2> DEFINE r == bytesRead % B
    <2>0. m * B <= bytesRead /\ bytesRead < m * B + B /\ m \in Int
      <3> DEFINE mB == m * B
      <3>1. mB = b
        BY <1>4
      <3> HIDE DEF mB
      <3>2. mB <= bytesRead /\ bytesRead < mB + B
        BY <1>1, <1>3, <1>6, <3>1
      <3> QED  BY <1>4, <3>2 DEF mB
    <2>1. r = bytesRead - m * B
      BY <1>1, <2>0, RestOnly
    <2>2. r = bytesRead - b
      BY <1>4, <2>1
    <2>3. Source = bytesRead - IF r = 0 THEN B ELSE r
      BY DEF Source
    <2> HIDE DEF r
    <2>4. r # 0
      BY <1>1, <1>3, <2>2
    <2> QED  BY <1>1, <2>2, <2>3, <2>4
  <1> QED  BY <1>1, <1>3, <1>5, <1>6

\* A write of data leaves the input where the next transfer starts, however much of
\* it the drive takes.
LEMMA WriteMoves ==
    ASSUME WTypeOK, NEW b \in Nat, AtWrite(b),
           UNCHANGED <<tr, bytesRead, bytespt, islast>>,
           pc' = IF MoreToRead(tr, bytesRead) THEN "get" ELSE "after"
    PROVE  (pc = "get")' => AtGet(b + bytespt)'
  <1> DEFINE c == b + bytespt
  <1>1. tr.bpt \in Nat \ {0} /\ bytesRead \in Nat /\ bytespt \in Nat
    BY TypeParts
  <1> SUFFICES ASSUME MoreToRead(tr, bytesRead) PROVE AtGet(c)'
    OBVIOUS
  <1>2. CASE bytesRead = b + tr.bpt /\ bytespt = tr.bpt /\ ~islast
    <2>1. c = bytesRead
      BY <1>2
    <2>2. b % tr.bpt = 0
      BY DEF AtWrite, Loaded
    <2>3. tr.bpt % tr.bpt = 0
      <3>1. 1 * tr.bpt = tr.bpt
        BY <1>1
      <3>2. (1 * tr.bpt) % tr.bpt = 0
        BY <1>1, Whole
      <3> QED  BY <3>1, <3>2
    <2>4. bytesRead % tr.bpt = 0
      <3>1. (b + tr.bpt) % tr.bpt = 0
        BY <1>1, <2>2, <2>3, WholeSum
      <3> QED  BY <1>2, <3>1
    <2>5. bytesRead <= tr.avail
      BY DEF AtWrite, Loaded
    <2> QED  BY <1>2, <2>1, <2>4, <2>5 DEF AtGet, MoreToRead
  <1>3. CASE DataEnd(b + bytespt) /\ bytesRead = tr.avail /\ bytespt > 0
    <2>1. DataEnd(c)'
      BY <1>3 DEF DataEnd
    <2> QED  BY <1>3, <2>1 DEF AtGet, MoreToRead
  <1> QED  BY <1>2, <1>3 DEF AtWrite, Loaded

\* A write of data keeps BaseInv, however much of it the drive takes: the stretch
\* burned is the next one of the track, or the track is cut from there on.
LEMMA BaseWrites ==
    ASSUME BaseInv, NEW k \in 0 .. bytespt \div tr.sec, Writes(k),
           \/ k = bytespt \div tr.sec /\ cut' = cut
           \/ /\ "short" \in tr.faults
              /\ cut' = IF cut = 0 THEN Len(medium') + 1 ELSE cut
    PROVE  BaseInv' /\ (cut = 0 => Recorded' = SubSeq(Goal(tr), 1, Len(Recorded')))
  <1> DEFINE n == bytespt \div tr.sec
             new == Stretch(Source, n, islast)
  <1>1. /\ pc = "write" /\ ~asleep /\ Taken(new, k) /\ bytes' = bytes + k * tr.sec
        /\ lastDone' = (lastDone \/ TheLast)
        /\ pc' = IF MoreToRead(tr, bytesRead) THEN "get" ELSE "after"
        /\ UNCHANGED <<tr, padsecs, bytesRead, bytespt, islast, amt, retried, asleep,
                       padOK, ending>>
    BY DEF Writes
  <1>2. WTypeOK /\ SoFar /\ padsecs = OpenPad(tr) /\ ending = "none" /\ padOK
        /\ (cut # 0 => "short" \in tr.faults) /\ cut <= Len(medium) + 1
    BY <1>1 DEF BaseInv, Progress
  <1>x. PICK b : Sent(b) /\ AtWrite(b)
    BY <1>1 DEF BaseInv, Progress
  <1>y. b \in Nat /\ bytes <= b /\ (cut = 0 => b = bytes)
    BY <1>x DEF Sent
  <1>3. /\ tr \in Tracks /\ bytes \in Nat /\ bytespt \in Nat /\ bytesRead \in Nat
        /\ startsec \in Nat /\ islast \in BOOLEAN /\ tr.sec \in Nat \ {0}
        /\ tr.bpt \in Nat \ {0} /\ nwa \in Nat /\ medium \in Seq(Stretches)
        /\ cut \in Nat
    BY <1>2, TypeParts
  <1>4. bytespt % tr.sec = 0
    BY <1>2 DEF WTypeOK
  <1>5. n \in Nat /\ n * tr.sec = bytespt
    BY <1>3, <1>4, DivRest
  <1>6. Source = b
    BY <1>2, <1>x, <1>y, SourceIs
  <1>k. k \in 0 .. n
    OBVIOUS
  <1> DEFINE kS == k * tr.sec
  <1>l. kS \in Nat /\ kS <= bytespt /\ (k = n => kS = bytespt) /\ (k = 0 => kS = 0)
    <2> HIDE DEF n
    <2>1. k \in Nat /\ k <= n
      BY <1>5, <1>k
    <2>2. k * tr.sec <= n * tr.sec /\ k * tr.sec \in Int
      BY <1>3, <1>5, <2>1, Scale
    <2>3. k * tr.sec \in Nat
      BY <1>3, <2>1, Whole
    <2>4. k = 0 => k * tr.sec = 0
      BY <1>3
    <2> QED  BY <1>5, <2>2, <2>3, <2>4
  <1>m. \/ k = n /\ cut' = cut
        \/ /\ "short" \in tr.faults
           /\ cut' = IF cut = 0 THEN Len(medium') + 1 ELSE cut
    OBVIOUS
  <1> HIDE DEF n
  <1>7. new \in Stretches /\ new.n = n /\ new.src = b /\ new.last = islast
        /\ new.at = startsec
    BY <1>3, <1>5, <1>6, <1>y DEF Stretch, Stretches
  <1> HIDE DEF new
  <1>8. /\ Len(medium') \in Nat /\ Len(medium) \in Nat /\ Len(medium) <= Len(medium')
        /\ medium' \in Seq(Stretches)
    BY <1>1, <1>2, <1>7, <1>k, TakenLonger
  <1>c. cut' = 0 => cut = 0 /\ k = n
    BY <1>3, <1>8, <1>m
  <1>9. bytes + kS <= Length(tr) * tr.sec
    <2> DEFINE x == DataSecs(tr) * tr.sec
               y == Length(tr) * tr.sec
    <2>1. DataSecs(tr) \in Int /\ Length(tr) \in Int /\ DataSecs(tr) <= Length(tr)
      BY <1>3, DataEnds, PlannedLength
    <2>2. x \in Int /\ y \in Int /\ x <= y
      BY <1>3, <2>1, Scale
    <2>3. b + bytespt = x \/ b + bytespt <= x
      BY <1>x DEF AtWrite, Loaded, DataEnd
    <2> HIDE DEF x, y, kS
    <2>4. bytes + kS <= y
      BY <1>3, <1>l, <1>y, <2>2, <2>3
    <2> QED  BY <2>4 DEF y
  <1>a. /\ SoFar' /\ medium' \in Seq(Stretches) /\ startsec' \in Nat /\ nwa' \in Nat
        /\ cut = 0 => Recorded' = SubSeq(Goal(tr), 1, Len(Recorded'))
    <2>1. CASE k = 0 /\ nwa' = Here /\ UNCHANGED <<startsec, medium>>
      <3>1. bytes' = bytes
        BY <1>1, <1>3, <1>l, <2>1
      <3>2. SoFar' /\ medium' \in Seq(Stretches) /\ Recorded' = Recorded
        BY <1>1, <1>2, <1>c, <2>1, <3>1, StillSoFar
      <3>3. cut = 0 => Recorded = SubSeq(Goal(tr), 1, Len(Recorded))
        BY <1>2 DEF SoFar
      <3>4. Here \in Nat
        BY <1>3, HereNat
      <3>5. Recorded' = Recorded /\ Goal(tr)' = Goal(tr)
        BY <1>1, <3>2
      <3> QED  BY <1>3, <2>1, <3>2, <3>3, <3>4, <3>5
    <2>2. ASSUME NEW s \in Stretches, s.at = new.at, s.n = k, s.src = new.src,
                 Burned(s)
          PROVE  /\ SoFar' /\ medium' \in Seq(Stretches)
                 /\ startsec' \in Nat /\ nwa' \in Nat
                 /\ cut = 0 => Recorded' = SubSeq(Goal(tr), 1, Len(Recorded'))
      <3>1. Burns(s) /\ startsec' \in Nat /\ nwa' \in Nat
        BY <1>2, <2>2, BurnedBurns
      <3>2. s.src >= Pad /\ (cut = 0 => s.src = bytes)
        BY <1>7, <1>y, <2>2 DEF Pad
      <3>3. bytes' = bytes + s.n * tr.sec /\ bytes + s.n * tr.sec <= Length(tr) * tr.sec
        BY <1>1, <1>9, <2>2
      <3> QED  BY <1>1, <1>2, <1>c, <3>1, <3>2, <3>3, BurnOne
    <2> QED  BY <1>1, <1>2, <1>7, <1>k, <2>1, <2>2, TakenBurns
  <1>b. lastDone' \in BOOLEAN
    BY <1>1, <1>2 DEF WTypeOK, TheLast
  <1>d. bytes' \in Nat /\ pc' \in {"get", "after"}
    BY <1>1, <1>3, <1>l
  <1>e. /\ cut' \in Nat /\ (cut' # 0 => "short" \in tr.faults) /\ cut' <= Len(medium') + 1
    BY <1>2, <1>3, <1>8, <1>m
  <1>f. WTypeOK'
    BY <1>1, <1>2, <1>a, <1>b, <1>d, <1>e DEF WTypeOK, Stretches
  <1> DEFINE c == b + bytespt
  <1>g. Sent(c)'
    <2>1. bytes' = bytes + kS /\ bytespt' = bytespt
      BY <1>1
    <2> HIDE DEF kS
    <2>2. c \in Nat /\ bytes' <= c /\ (cut' = 0 => c = bytes')
      BY <1>3, <1>c, <1>l, <1>y, <2>1
    <2>3. c' = c
      BY <2>1
    <2> HIDE DEF c
    <2> QED  BY <2>2, <2>3 DEF Sent
  <1>h. (pc = "get")' => AtGet(c)'
    BY <1>1, <1>2, <1>x, <1>y, WriteMoves
  <1>i. (pc = "after")' => DataEnd(c)'
    <2> SUFFICES ASSUME ~MoreToRead(tr, bytesRead) PROVE DataEnd(c)'
      BY <1>1
    <2>1. DataEnd(b + bytespt)
      BY <1>x DEF AtWrite, Loaded
    <2> QED  BY <1>1, <2>1 DEF DataEnd
  <1> HIDE DEF c
  <1>j. Progress'
    BY <1>1, <1>2, <1>d, <1>e, <1>g, <1>h, <1>i DEF Progress
  <1> QED  BY <1>a, <1>f, <1>j DEF BaseInv

\* A write of data is one of some part of it.
LEMMA WriteOf ==
    ASSUME BaseInv, Write \/ ShortWrite
    PROVE  \E k \in 0 .. bytespt \div tr.sec :
              /\ Writes(k)
              /\ \/ k = bytespt \div tr.sec /\ cut' = cut
                 \/ /\ "short" \in tr.faults
                    /\ cut' = IF cut = 0 THEN Len(medium') + 1 ELSE cut
  <1> DEFINE n == bytespt \div tr.sec
  <1>1. n \in Nat
    <2>1. bytespt \in Nat /\ tr.sec \in Nat \ {0}
      BY TypeParts DEF BaseInv
    <2> QED  BY <2>1, DivRest
  <1>2. CASE Write
    BY <1>1, <1>2 DEF Write
  <1>3. CASE ShortWrite
    <2>1. PICK k \in 0 .. n - 1 : Writes(k)
      BY <1>3 DEF ShortWrite
    <2>2. "short" \in tr.faults /\ cut' = IF cut = 0 THEN Len(medium') + 1 ELSE cut
      BY <1>3 DEF ShortWrite
    <2>3. k \in 0 .. n
      BY <1>1
    <2> QED  BY <2>1, <2>2, <2>3
  <1> QED  BY <1>2, <1>3

\* Both kinds keep BaseInv.
LEMMA BaseWrite ==
    ASSUME BaseInv, Write \/ ShortWrite
    PROVE  BaseInv' /\ (cut = 0 => Recorded' = SubSeq(Goal(tr), 1, Len(Recorded')))
  <1>1. PICK k \in 0 .. bytespt \div tr.sec :
              /\ Writes(k)
              /\ \/ k = bytespt \div tr.sec /\ cut' = cut
                 \/ /\ "short" \in tr.faults
                    /\ cut' = IF cut = 0 THEN Len(medium') + 1 ELSE cut
    BY WriteOf
  <1> QED  BY <1>1, BaseWrites

\* The start of the padding keeps BaseInv.
LEMMA BasePadStart ==
    ASSUME BaseInv, PadStart
    PROVE  BaseInv'
  <1>1. WTypeOK /\ SoFar /\ padsecs = OpenPad(tr) /\ pc = "after"
        /\ ending = "none" /\ padOK /\ ~asleep
        /\ (cut # 0 => "short" \in tr.faults) /\ cut <= Len(medium) + 1
    BY DEF BaseInv, Progress, PadStart
  <1>x. PICK b : Sent(b) /\ DataEnd(b)
    BY <1>1 DEF BaseInv, Progress
  <1>2. /\ padsecs' = PadNeed
        /\ pc' = IF PadNeed > 0 THEN "pad" ELSE "close"
        /\ amt' = PadNeed * tr.sec /\ bytespt' = tr.bpt /\ islast' = FALSE
        /\ UNCHANGED <<tr, bytesRead, bytes, startsec, retried, asleep, lastDone,
                       nwa, medium, padOK, cut, ending>>
    BY DEF PadStart, PadNeed
  <1> DEFINE r == Len(Recorded)
  <1>y. r \in Nat /\ bytes = r * tr.sec
    BY <1>1, CountedIs DEF SoFar
  <1> HIDE DEF r
  <1>3. /\ PadNeed \in Nat
        /\ bytes + PadNeed * tr.sec <= Length(tr) * tr.sec
        /\ cut = 0 => bytes + PadNeed * tr.sec = Length(tr) * tr.sec
        /\ (PadNeed * tr.sec) % tr.sec = 0
        /\ PadNeed > 0 => PadNeed * tr.sec > 0
        /\ PadNeed = 0 /\ cut = 0 => bytes = Length(tr) * tr.sec
    BY <1>1, <1>x, <1>y, PadPlan
  <1>4. SoFar' /\ medium' \in Seq(Stretches)
    BY <1>1, <1>2, StillSoFar
  <1>5. tr \in Tracks /\ tr.sec \in Nat \ {0} /\ tr.bpt \in Nat \ {0} /\ bytes \in Nat
    BY <1>1, TypeParts
  <1>6. tr.bpt % tr.sec = 0
    BY <1>5, TrackFacts
  <1>7. amt' \in Int
    BY <1>2, <1>3, <1>5
  <1>8. WTypeOK'
    BY <1>1, <1>2, <1>3, <1>5, <1>6, <1>7 DEF WTypeOK
  <1>9. (pc = "pad")' => AtPad'
    <2> SUFFICES ASSUME PadNeed > 0 PROVE AtPad'
      BY <1>2
    <2>1. cut = 0 => bytes >= DataSecs(tr) * tr.sec
      BY <1>5, <1>x DEF DataEnd, Sent
    <2>2. amt' > 0 /\ bytespt' > 0 /\ bytes' + amt' <= Length(tr) * tr.sec
          /\ (cut = 0 => bytes' + amt' = Length(tr) * tr.sec)
      BY <1>2, <1>3, <1>5
    <2>3. amt' % tr.sec = 0
      BY <1>2, <1>3
    <2> QED  BY <1>2, <2>1, <2>2, <2>3 DEF AtPad
  <1>a. (pc = "close")' /\ cut' = 0 => bytes' = Length(tr)' * (tr.sec)'
    BY <1>2, <1>3
  <1>b. Progress'
    BY <1>1, <1>2, <1>9, <1>a DEF Progress
  <1> QED  BY <1>4, <1>8, <1>b DEF BaseInv

\* A write of padding keeps BaseInv, however much of it the drive takes.
LEMMA BasePads ==
    ASSUME BaseInv, NEW k \in 0 .. PadSize \div tr.sec, Pads(k),
           k = PadSize \div tr.sec \/ "short" \in tr.faults
    PROVE  BaseInv'
  <1> DEFINE n == PadSize \div tr.sec
             new == Stretch(Pad, n, TheLast)
  <1>1. /\ pc = "pad" /\ ~asleep /\ Taken(new, k) /\ islast' = TheLast
        /\ lastDone' = (lastDone \/ TheLast)
        /\ bytes' = bytes + k * tr.sec /\ bytespt' = PadSize
        /\ amt' = amt - k * tr.sec
        /\ pc' = IF amt' > 0 THEN "pad" ELSE "close"
        /\ UNCHANGED <<tr, padsecs, bytesRead, retried, asleep, padOK, cut, ending>>
    BY DEF Pads
  <1>2. WTypeOK /\ SoFar /\ AtPad /\ ending = "none" /\ padOK
        /\ (cut # 0 => "short" \in tr.faults) /\ cut <= Len(medium) + 1
    BY <1>1 DEF BaseInv, Progress
  <1>3. /\ tr \in Tracks /\ bytes \in Nat /\ amt \in Int
        /\ startsec \in Nat /\ islast \in BOOLEAN /\ tr.sec \in Nat \ {0}
        /\ medium \in Seq(Stretches) /\ cut \in Nat
    BY <1>2, TypeParts
  <1>4. /\ PadSize \in Nat /\ 0 < PadSize /\ PadSize <= amt
        /\ amt - PadSize \in Nat
        /\ (amt - PadSize <= 0) <=> (amt - PadSize = 0)
    BY <1>2, PadOne
  <1>n. PadSize = n * tr.sec /\ n \in Nat
    BY <1>2, PadOne
  <1>k. k \in 0 .. n /\ (k = n \/ "short" \in tr.faults)
    OBVIOUS
  <1>5. PadSize % tr.sec = 0 /\ amt % tr.sec = 0
    BY <1>2, PadOne DEF AtPad
  <1>6. TheLast \in BOOLEAN
        /\ ("short" \notin tr.faults => (TheLast <=> amt - PadSize <= 0))
    BY <1>1, <1>2, <1>3 DEF TheLast, AtPad
  <1> DEFINE kS == k * tr.sec
  <1> HIDE DEF n
  <1>l. kS \in Nat /\ kS <= PadSize /\ (k = n => kS = PadSize) /\ (k = 0 => kS = 0)
        /\ kS % tr.sec = 0
    <2>1. k \in Nat /\ k <= n
      BY <1>n, <1>k
    <2>2. k * tr.sec <= n * tr.sec
      BY <1>3, <1>n, <2>1, Scale
    <2>3. k * tr.sec \in Nat /\ (k * tr.sec) % tr.sec = 0
      BY <1>3, <2>1, Whole
    <2>4. k = 0 => k * tr.sec = 0
      BY <1>3
    <2> QED  BY <1>n, <2>2, <2>3, <2>4
  <1>m. bytes' = bytes + kS /\ amt' = amt - kS
    BY <1>1
  <1> HIDE DEF kS
  <1>t. amt' \in Nat /\ amt' % tr.sec = 0
    <2>1. amt \in Nat /\ kS <= amt
      BY <1>3, <1>4, <1>l
    <2>2. (amt - kS) % tr.sec = 0
      BY <1>3, <1>5, <1>l, <2>1, WholeSum
    <2> QED  BY <1>l, <1>m, <2>1, <2>2
  <1>7. new \in Stretches /\ new.n = n /\ new.src = Pad
    BY <1>3, <1>6, <1>n DEF Stretch, Stretches
  <1> HIDE DEF new
  <1>8. /\ Len(medium') \in Nat /\ Len(medium) \in Nat /\ Len(medium) <= Len(medium')
        /\ medium' \in Seq(Stretches)
    BY <1>1, <1>2, <1>7, <1>k, TakenLonger
  <1> DEFINE x == DataSecs(tr) * tr.sec
             y == Length(tr) * tr.sec
  <1>9. x \in Int /\ y \in Int /\ DataLen(tr) <= x /\ DataLen(tr) \in Int
    BY <1>3, DataEnds, PlannedLength, TrackFacts
  <1>a. bytes + amt <= y /\ (cut = 0 => bytes >= x /\ bytes + amt = y)
    BY <1>2 DEF AtPad
  <1> HIDE DEF x, y
  <1>b. /\ bytes + kS <= y /\ bytes' + amt' <= y
        /\ cut = 0 => /\ DataLen(tr) <= bytes /\ bytes' >= x /\ bytes' + amt' = y
    BY <1>3, <1>4, <1>9, <1>a, <1>l, <1>m
  <1>c. SoFar' /\ startsec' \in Nat /\ nwa' \in Nat
    <2>1. CASE k = 0 /\ nwa' = Here /\ UNCHANGED <<startsec, medium>>
      <3>1. bytes' = bytes
        BY <1>3, <1>l, <1>m, <2>1
      <3>2. SoFar'
        BY <1>1, <1>2, <2>1, <3>1, StillSoFar
      <3>3. Here \in Nat
        BY <1>3, HereNat
      <3> QED  BY <1>3, <2>1, <3>2, <3>3
    <2>2. ASSUME NEW s \in Stretches, s.n = k, s.src = new.src, Burned(s)
          PROVE  SoFar' /\ startsec' \in Nat /\ nwa' \in Nat
      <3>1. Burns(s) /\ startsec' \in Nat /\ nwa' \in Nat
        BY <1>2, <2>2, BurnedBurns
      <3>2. s.src = Pad /\ s.src >= Pad
        BY <1>7, <2>2 DEF Pad
      <3>3. bytes' = bytes + s.n * tr.sec /\ bytes + s.n * tr.sec <= Length(tr) * tr.sec
        BY <1>b, <1>m, <2>2 DEF kS, y
      <3> QED  BY <1>1, <1>2, <1>b, <3>1, <3>2, <3>3, BurnOne
    <2> QED  BY <1>1, <1>2, <1>7, <1>k, <2>1, <2>2, TakenBurns
  <1>d. bytes' \in Nat /\ pc' \in {"pad", "close"}
    BY <1>1, <1>3, <1>l, <1>m
  <1>e. WTypeOK'
    <2>1. bytespt' % tr.sec = 0 /\ bytespt' \in Nat /\ amt' \in Int
      BY <1>1, <1>4, <1>5, <1>t
    <2>2. lastDone' \in BOOLEAN /\ islast' \in BOOLEAN
      BY <1>1, <1>2, <1>6 DEF WTypeOK
    <2> QED  BY <1>1, <1>2, <1>8, <1>c, <1>d, <2>1, <2>2 DEF WTypeOK, Stretches
  <1>f. (pc = "pad")' => AtPad'
    <2> SUFFICES ASSUME amt' > 0 PROVE AtPad'
      BY <1>1
    <2>1. "short" \notin tr.faults => ~islast'
      <3> SUFFICES ASSUME "short" \notin tr.faults PROVE ~islast'
        OBVIOUS
      <3>1. kS = PadSize
        BY <1>k, <1>l
      <3>2. amt - PadSize > 0
        BY <1>m, <3>1
      <3>3. ~(amt - PadSize <= 0)
        BY <1>3, <1>4, <3>2
      <3> QED  BY <1>1, <1>6, <3>3
    <2>2. bytespt' > 0
      BY <1>1, <1>4
    <2> QED  BY <1>1, <1>b, <1>t, <2>1, <2>2 DEF AtPad, x, y
  <1>g. (pc = "close")' /\ cut = 0 => bytes' = y
    <2> SUFFICES ASSUME ~(amt' > 0), cut = 0 PROVE bytes' = y
      BY <1>1
    <2>1. amt' = 0
      BY <1>t
    <2> QED  BY <1>9, <1>b, <1>d, <2>1
  <1>h. (pc = "close")' /\ cut' = 0 => bytes' = Length(tr)' * (tr.sec)'
    BY <1>1, <1>g DEF y
  <1>j. cut' <= Len(medium') + 1 /\ (cut' # 0 => "short" \in (tr.faults)')
    BY <1>1, <1>2, <1>3, <1>8
  <1>i. Progress'
    BY <1>1, <1>2, <1>d, <1>f, <1>h, <1>j DEF Progress
  <1> QED  BY <1>c, <1>e, <1>i DEF BaseInv

\* A write of padding is one of some part of it.
LEMMA PadOf ==
    ASSUME BaseInv, PadWrite \/ PadShort
    PROVE  \E k \in 0 .. PadSize \div tr.sec :
              Pads(k) /\ (k = PadSize \div tr.sec \/ "short" \in tr.faults)
  <1> DEFINE n == PadSize \div tr.sec
  <1>1. n \in Nat
    <2>1. pc = "pad"
      BY DEF PadWrite, PadShort, Pads
    <2> QED  BY <2>1, PadOne DEF BaseInv, Progress
  <1>2. CASE PadWrite
    BY <1>1, <1>2 DEF PadWrite
  <1>3. CASE PadShort
    <2>1. "short" \in tr.faults
      BY <1>3 DEF PadShort
    <2>2. PICK k \in 0 .. n - 1 : Pads(k)
      BY <1>3 DEF PadShort
    <2>3. k \in 0 .. n
      BY <1>1
    <2> QED  BY <2>1, <2>2, <2>3
  <1> QED  BY <1>2, <1>3

\* Both kinds keep BaseInv.
LEMMA BasePadWrite ==
    ASSUME BaseInv, PadWrite \/ PadShort
    PROVE  BaseInv'
  <1>1. PICK k \in 0 .. PadSize \div tr.sec :
              Pads(k) /\ (k = PadSize \div tr.sec \/ "short" \in tr.faults)
    BY PadOf
  <1> QED  BY <1>1, BasePads

\* Asking the drive for the next address keeps BaseInv.
LEMMA BaseNextAddress ==
    ASSUME BaseInv, NextAddress
    PROVE  BaseInv'
  <1>1. /\ pc = "nwa" /\ pc' = "write" /\ startsec' \in {startsec, startsec + LinkSecs, nwa}
        /\ UNCHANGED <<tr, padsecs, bytesRead, bytes, bytespt, islast, amt, retried,
                       asleep, lastDone, nwa, medium, padOK, cut, ending>>
    BY DEF NextAddress
  <1>2. WTypeOK /\ SoFar /\ padsecs = OpenPad(tr) /\ ending = "none" /\ padOK
        /\ ~asleep /\ (cut # 0 => "short" \in tr.faults) /\ cut <= Len(medium) + 1
    BY <1>1 DEF BaseInv, Progress
  <1>x. PICK b : Sent(b) /\ AtWrite(b)
    BY <1>1 DEF BaseInv, Progress
  <1>3. SoFar' /\ medium' \in Seq(Stretches)
    BY <1>1, <1>2, StillSoFar
  <1>4. startsec' \in Nat
    BY <1>1, <1>2 DEF WTypeOK, LinkSecs
  <1>5. WTypeOK'
    BY <1>1, <1>2, <1>4 DEF WTypeOK
  <1>6. Sent(b)' /\ AtWrite(b)'
    BY <1>1, <1>x DEF Sent, AtWrite, Loaded, DataEnd, MoreToRead
  <1>7. Progress'
    BY <1>1, <1>2, <1>6 DEF Progress
  <1> QED  BY <1>3, <1>5, <1>7 DEF BaseInv

\* A write that failed keeps BaseInv.
LEMMA BaseWriteError ==
    ASSUME BaseInv, WriteError
    PROVE  BaseInv'
  <1>1. /\ pc = "write" /\ ~asleep /\ lastDone' = (lastDone \/ TheLast)
        /\ UNCHANGED <<tr, padsecs, bytesRead, bytes, bytespt, startsec, islast, amt,
                       asleep, padOK, cut>>
    BY DEF WriteError
  <1>2. WTypeOK /\ SoFar /\ padsecs = OpenPad(tr) /\ ending = "none" /\ padOK
        /\ (cut # 0 => "short" \in tr.faults) /\ cut <= Len(medium) + 1
    BY <1>1 DEF BaseInv, Progress
  <1>x. PICK b : Sent(b) /\ AtWrite(b)
    BY <1>1 DEF BaseInv, Progress
  <1>3. \/ /\ tr.mode = "variable" /\ retried' = TRUE /\ pc' = "nwa" /\ ending' = ending
           /\ \/ UNCHANGED <<medium, nwa>>
              \/ /\ medium' = Append(medium, Stretch(Linking, LinkSecs, FALSE))
                 /\ nwa' \in {startsec, startsec + LinkSecs}
        \/ /\ pc' = "close" /\ ending' = "error" /\ UNCHANGED <<retried, medium, nwa>>
    BY DEF WriteError
  <1>4. startsec \in Nat /\ nwa \in Nat /\ islast \in BOOLEAN
    BY <1>2, TypeParts
  <1>5. /\ Stretch(Linking, LinkSecs, FALSE) \in Stretches
        /\ Stretch(Linking, LinkSecs, FALSE).src < Pad
    BY <1>4 DEF Stretch, Stretches, Linking, LinkSecs, Pad
  <1>6. \/ medium' = medium
        \/ \E l \in Stretches : l.src < Pad /\ medium' = Append(medium, l)
    BY <1>3, <1>5
  <1>7. SoFar' /\ medium' \in Seq(Stretches)
    BY <1>1, <1>2, <1>6, StillSoFar
  <1>8. nwa' \in Nat /\ retried' \in BOOLEAN /\ pc' \in {"nwa", "close"}
        /\ ending' \in {"none", "error"}
    <2>1. startsec + LinkSecs \in Nat
      BY <1>4 DEF LinkSecs
    <2>2. nwa' \in {nwa, startsec, startsec + LinkSecs}
      BY <1>3
    <2>3. retried \in BOOLEAN
      BY <1>2 DEF WTypeOK
    <2>4. retried' \in BOOLEAN
      BY <1>3, <2>3
    <2>5. pc' \in {"nwa", "close"} /\ ending' \in {"none", "error"}
      BY <1>2, <1>3
    <2> QED  BY <1>4, <2>1, <2>2, <2>4, <2>5
  <1>9. lastDone' \in BOOLEAN
    BY <1>1, <1>2 DEF TheLast, WTypeOK
  <1>a. WTypeOK'
    BY <1>1, <1>2, <1>7, <1>8, <1>9 DEF WTypeOK, Stretches
  <1>b. Sent(b)' /\ AtWrite(b)'
    BY <1>1, <1>x DEF Sent, AtWrite, Loaded, DataEnd, MoreToRead
  <1>d. cut' <= Len(medium') + 1
    BY <1>1, <1>2, <1>6, AddedLonger
  <1>c. Progress'
    BY <1>1, <1>2, <1>3, <1>b, <1>d DEF Progress
  <1> QED  BY <1>7, <1>a, <1>c DEF BaseInv

\* The steps that only wait, sleep, close or end keep BaseInv.
LEMMA BaseRest ==
    ASSUME BaseInv, Busy \/ Again \/ PadError \/ Close \/ WDone \/ UNCHANGED wvars
    PROVE  BaseInv'
  <1>1. WTypeOK /\ SoFar /\ Progress
    BY DEF BaseInv
  <1>2. UNCHANGED <<tr, padsecs, bytesRead, bytes, bytespt, startsec, islast, amt,
                    retried, nwa, cut>>
    BY DEF Busy, Again, PadError, Close, WDone, wvars
  <1>3. startsec \in Nat /\ islast \in BOOLEAN
    BY <1>1, TypeParts
  <1>4. /\ Stretch(Dummy, 1, TRUE) \in Stretches
        /\ Stretch(Dummy, 1, TRUE).src < Pad
    BY <1>3 DEF Stretch, Stretches, Dummy, Pad
  <1>5. \/ medium' = medium
        \/ medium' = Append(medium, Stretch(Dummy, 1, TRUE))
    BY DEF Busy, Again, PadError, Close, WDone, wvars
  <1>6. \/ medium' = medium
        \/ \E l \in Stretches : l.src < Pad /\ medium' = Append(medium, l)
    BY <1>4, <1>5
  <1>7. SoFar' /\ medium' \in Seq(Stretches)
    BY <1>1, <1>2, <1>6, StillSoFar
  <1>8. lastDone' \in BOOLEAN
    BY <1>1 DEF WTypeOK, Busy, Again, PadError, Close, WDone, wvars, TheLast
  <1>9. asleep' \in BOOLEAN /\ padOK' \in BOOLEAN
    BY <1>1 DEF WTypeOK, Busy, Again, PadError, Close, WDone, wvars
  <1>a. pc' \in {pc, "close", "gone"} /\ ending' \in {ending, "ok", "error"}
    BY DEF Busy, Again, PadError, Close, WDone, wvars
  <1>b. WTypeOK'
    BY <1>1, <1>2, <1>7, <1>8, <1>9, <1>a DEF WTypeOK, Stretches
  <1>c. /\ (\E b : Sent(b) /\ AtGet(b)) => (\E b : Sent(b) /\ AtGet(b))'
        /\ (\E b : Sent(b) /\ AtWrite(b)) => (\E b : Sent(b) /\ AtWrite(b))'
        /\ (\E b : Sent(b) /\ DataEnd(b)) => (\E b : Sent(b) /\ DataEnd(b))'
        /\ AtPad => AtPad'
    BY <1>2 DEF Sent, AtGet, AtWrite, AtPad, Loaded, DataEnd, MoreToRead
  <1>j. cut <= Len(medium) + 1 => cut' <= Len(medium') + 1
    BY <1>1, <1>2, <1>6, AddedLonger
  <1>d. OpenPad(tr)' = OpenPad(tr) /\ Length(tr)' = Length(tr)
    BY <1>2
  <1> SUFFICES Progress'
    BY <1>7, <1>b DEF BaseInv
  <1>e. CASE Busy
    BY <1>1, <1>2, <1>c, <1>d, <1>j, <1>e DEF Progress, Busy
  <1>f. CASE Again
    BY <1>1, <1>2, <1>c, <1>d, <1>j, <1>f DEF Progress, Again
  <1>g. CASE PadError
    BY <1>1, <1>2, <1>d, <1>j, <1>g DEF Progress, PadError
  <1>h. CASE Close
    BY <1>1, <1>2, <1>d, <1>j, <1>h DEF Progress, Close
  <1>i. CASE WDone \/ UNCHANGED wvars
    BY <1>1, <1>2, <1>c, <1>d, <1>i, <1>j DEF Progress, WDone, wvars
  <1> QED  BY <1>e, <1>f, <1>g, <1>h, <1>i

\* Every step of a track keeps what is on the medium in step with what was read
\* and with the padding that is left.
LEMMA BaseStep ==
    ASSUME BaseInv, [WNext]_wvars
    PROVE  BaseInv'
  BY BaseGet, BaseNextAddress, BaseWrite, BaseWriteError, BasePadStart,
     BasePadWrite, BaseRest, Zenon DEF WNext

\* For every track, medium and order of the drive's answers the medium holds as many
\* sectors of the track as bytes were counted, and never more than it shall have; up
\* to a write of data that was cut short they are the first ones of the goal.
THEOREM BaseHolds == WSpec => []BaseInv
  <1>1. WInit => BaseInv
    BY BaseInit
  <1>2. BaseInv /\ [WNext]_wvars => BaseInv'
    BY BaseStep
  <1> QED  BY <1>1, <1>2, PTL DEF WSpec

-----------------------------------------------------------------------------
(* The address of the next write *)

\* The written part ends where the last stretch does.
LEMMA HereIs ==
    ASSUME NEW m \in Seq(Stretches), NEW s \in Stretches
    PROVE  /\ Append(m, s) # <<>> /\ Append(m, s)[Len(Append(m, s))] = s
           /\ Append(m, s) \in Seq(Stretches)
           /\ Len(Append(m, s)) = Len(m) + 1
           /\ \A i \in 1 .. Len(m) : Append(m, s)[i] = m[i]
           /\ medium' = Append(m, s) => Here' = s.at + s.n
  <1>1. /\ Append(m, s) # <<>> /\ Append(m, s)[Len(Append(m, s))] = s
        /\ Append(m, s) \in Seq(Stretches) /\ Len(Append(m, s)) = Len(m) + 1
        /\ \A i \in 1 .. Len(m) : Append(m, s)[i] = m[i]
    BY AppendProperties
  <1>2. ASSUME medium' = Append(m, s) PROVE Here' = s.at + s.n
    <2>1. medium' # <<>> /\ medium'[Len(medium')] = s
      BY <1>1, <1>2
    <2>2. Here' = medium'[Len(medium')].at + medium'[Len(medium')].n
      BY <2>1 DEF Here
    <2> QED  BY <2>1, <2>2
  <1> QED  BY <1>1, <1>2

\* A write at startsec leaves the drive ready at the next address.
LEMMA BurnedHere ==
    ASSUME WTypeOK, NEW new \in Stretches, new.at = startsec, Burned(new)
    PROVE  /\ startsec' \in Nat /\ nwa' = Here'
           /\ tr.mode # "variable" => startsec' = Here'
  <1>1. medium \in Seq(Stretches) /\ startsec \in Nat
    BY TypeParts
  <1>2. /\ startsec' = startsec + new.n /\ startsec' \in Nat
        /\ tr.mode # "variable" => medium' = Append(medium, new)
        /\ \/ medium' = Append(medium, new) /\ nwa' = startsec'
           \/ \E l \in Stretches :
                 /\ l.at = startsec' /\ l.n = LinkSecs /\ l.src = Linking
                 /\ medium' = Append(Append(medium, new), l)
                 /\ nwa' = startsec' + LinkSecs
    BY BurnedBurns
  <1>3. medium' = Append(medium, new) => Here' = startsec'
    BY <1>1, <1>2, HereIs
  <1>4. ASSUME NEW l \in Stretches, l.at = startsec', l.n = LinkSecs,
               medium' = Append(Append(medium, new), l), nwa' = startsec' + LinkSecs
        PROVE  nwa' = Here'
    <2>1. Append(medium, new) \in Seq(Stretches)
      BY <1>1, HereIs
    <2>2. Here' = l.at + l.n
      BY <1>4, <2>1, HereIs
    <2> QED  BY <1>4, <2>2
  <1> QED  BY <1>2, <1>3, <1>4

\* Also when the drive takes a part of it, or nothing.
LEMMA TakenHere ==
    ASSUME WTypeOK, NEW new \in Stretches, new.at = startsec, NEW k \in 0 .. new.n,
           Taken(new, k), tr.mode # "variable" => startsec = Here
    PROVE  nwa' = Here' /\ (tr.mode # "variable" => startsec' = Here')
  <1>1. CASE nwa' = Here /\ UNCHANGED <<startsec, medium>>
    <2>1. Here' = Here
      BY <1>1 DEF Here
    <2> QED  BY <1>1, <2>1
  <1>2. ASSUME NEW s \in Stretches, s.at = new.at, Burned(s)
        PROVE  nwa' = Here' /\ (tr.mode # "variable" => startsec' = Here')
    BY <1>2, BurnedHere
  <1> QED  BY <1>1, <1>2, TakenBurns

\* Writing goes on right behind what is there, or where the drive says; after an
\* error a packet is written again behind the link, also when the drive has not
\* moved its address.
LEMMA AddressStep ==
    ASSUME BaseInv, Address, [WNext]_wvars
    PROVE  Address'
  <1>1. WTypeOK /\ startsec \in Nat /\ nwa \in Nat /\ medium \in Seq(Stretches)
        /\ bytes \in Nat /\ bytespt \in Nat /\ bytesRead \in Nat /\ islast \in BOOLEAN
        /\ tr.sec \in Nat \ {0} /\ amt \in Int
    BY TypeParts DEF BaseInv
  <1>2. tr' = tr
    BY TrackStays
  <1>3. medium' = medium => Here' = Here
    BY DEF Here
  <1>4. CASE Get
    <2>1. /\ pc = "get" /\ startsec' = startsec /\ medium' = medium /\ nwa' = nwa
          /\ \/ pc' \in {"gone", "after"} /\ retried' = retried
             \/ /\ retried' = FALSE
                /\ pc' = IF tr.mode = "variable" THEN "nwa" ELSE "write"
      BY <1>4 DEF Get
    <2> QED  BY <1>2, <1>3, <2>1 DEF Address
  <1>5. CASE NextAddress
    <2>1. /\ pc = "nwa" /\ pc' = "write" /\ retried' = retried /\ medium' = medium
          /\ nwa' = nwa
          /\ \/ startsec' = IF retried /\ nwa = startsec THEN startsec + LinkSecs
                                                         ELSE nwa
             \/ "noaddr" \in tr.faults
      BY <1>5 DEF NextAddress
    <2>2. tr.mode = "variable"
      BY <2>1 DEF BaseInv, Progress
    <2>3. ASSUME "noaddr" \notin tr.faults
          PROVE  startsec' >= Here /\ (~retried => startsec' = Here /\ nwa = Here)
      <3>1. \/ nwa = Here
            \/ retried /\ nwa = startsec /\ Here = startsec + LinkSecs
        BY <2>1, <2>2, <2>3 DEF Address
      <3>2. startsec' = IF retried /\ nwa = startsec THEN startsec + LinkSecs ELSE nwa
        BY <2>1, <2>3
      <3>3. LinkSecs = 7
        BY DEF LinkSecs
      <3>4. startsec + LinkSecs \in Nat /\ startsec + LinkSecs >= startsec
        BY <1>1, <3>3
      <3>5. CASE retried /\ nwa = startsec
        BY <1>1, <3>1, <3>2, <3>4, <3>5
      <3>6. CASE ~(retried /\ nwa = startsec)
        BY <1>1, <3>1, <3>2, <3>6
      <3> QED  BY <3>5, <3>6
    <2> QED  BY <1>2, <1>3, <2>1, <2>2, <2>3 DEF Address
  <1>6. CASE Write \/ ShortWrite
    <2> DEFINE n == bytespt \div tr.sec
               new == Stretch(Source, n, islast)
    <2>1. PICK k \in 0 .. n : Writes(k)
      BY <1>6, WriteOf
    <2>2. pc = "write" /\ Taken(new, k) /\ pc' \in {"get", "after"}
      BY <2>1 DEF Writes
    <2>3. PICK b : Sent(b) /\ AtWrite(b)
      BY <2>2 DEF BaseInv, Progress
    <2>4. Source \in Nat /\ n \in Nat
      BY <1>1, <2>3, SourceIs, DivRest DEF Sent
    <2> HIDE DEF n
    <2>5. new \in Stretches /\ new.at = startsec /\ new.n = n
      BY <1>1, <2>4 DEF Stretch, Stretches
    <2> HIDE DEF new
    <2>6. tr.mode # "variable" => startsec = Here
      BY <2>2 DEF Address
    <2>7. nwa' = Here' /\ (tr.mode # "variable" => startsec' = Here')
      BY <1>1, <2>1, <2>2, <2>5, <2>6, TakenHere
    <2> QED  BY <1>2, <2>2, <2>7 DEF Address
  <1>7. CASE WriteError
    <2>1. /\ pc = "write" /\ startsec' = startsec
          /\ \/ /\ tr.mode = "variable" /\ ~retried /\ retried' = TRUE /\ pc' = "nwa"
                /\ \/ UNCHANGED <<medium, nwa>>
                   \/ /\ medium' = Append(medium, Stretch(Linking, LinkSecs, FALSE))
                      /\ nwa' \in {startsec, startsec + LinkSecs}
             \/ pc' = "close"
      BY <1>7 DEF WriteError
    <2>2. Stretch(Linking, LinkSecs, FALSE) \in Stretches
          /\ Stretch(Linking, LinkSecs, FALSE).at = startsec
          /\ Stretch(Linking, LinkSecs, FALSE).n = LinkSecs
      BY <1>1 DEF Stretch, Stretches, LinkSecs, Linking
    <2>3. medium' = Append(medium, Stretch(Linking, LinkSecs, FALSE)) =>
              Here' = startsec + LinkSecs
      BY <1>1, <2>2, HereIs
    <2> QED  BY <1>2, <1>3, <2>1, <2>3 DEF Address
  <1>8. CASE Busy \/ Again \/ WDone \/ UNCHANGED wvars
    <2>1. UNCHANGED <<tr, pc, startsec, medium, nwa, retried>>
      BY <1>8 DEF Busy, Again, WDone, wvars
    <2> QED  BY <1>3, <2>1 DEF Address
  <1>9. CASE PadStart
    <2>1. /\ pc = "after" /\ pc' \in {"pad", "close"}
          /\ UNCHANGED <<startsec, medium, nwa>>
      BY <1>9 DEF PadStart
    <2> QED  BY <1>2, <1>3, <2>1 DEF Address
  <1>a. CASE PadWrite \/ PadShort
    <2> DEFINE n == PadSize \div tr.sec
               new == Stretch(Pad, n, TheLast)
    <2>1. PICK k \in 0 .. n : Pads(k)
      BY <1>a, PadOf
    <2>2. pc = "pad" /\ Taken(new, k) /\ pc' \in {"pad", "close"}
      BY <2>1 DEF Pads
    <2>3. AtPad
      BY <2>2 DEF BaseInv, Progress
    <2>4. n \in Nat /\ TheLast \in BOOLEAN
      BY <1>1, <2>3, PadOne DEF TheLast
    <2> HIDE DEF n
    <2>5. new \in Stretches /\ new.at = startsec /\ new.n = n
      BY <1>1, <2>4 DEF Stretch, Stretches
    <2> HIDE DEF new
    <2>6. tr.mode # "variable" => startsec = Here
      BY <2>2 DEF Address
    <2>7. nwa' = Here' /\ (tr.mode # "variable" => startsec' = Here')
      BY <1>1, <2>1, <2>2, <2>5, <2>6, TakenHere
    <2> QED  BY <1>2, <2>2, <2>7 DEF Address
  <1>b. CASE PadError \/ Close
    <2>1. pc' \in {"close", "gone"}
      BY <1>b DEF PadError, Close
    <2> QED  BY <2>1 DEF Address
  <1> QED  BY <1>4, <1>5, <1>6, <1>7, <1>8, <1>9, <1>a, <1>b DEF WNext

-----------------------------------------------------------------------------
(* The write that is announced as the last *)

\* A transfer that is announced as the last leaves no padding.
LEMMA NextLastMeans ==
    ASSUME WTypeOK, AtGet(bytes), Got > 0, NextLast, tr.mode = "track"
    PROVE  NoPad /\ bytes + NextSize = DataSecs(tr) * tr.sec
  <1> DEFINE S == tr.sec
             e == bytesRead + Got
             d == DataSecs(tr)
  <1>1. /\ bytesRead = bytes /\ NextSize \in Nat /\ Got \in Nat
        /\ Loaded(bytes, e, NextSize, NextLast)
        /\ tr.size = 0 => e <= tr.bpt
        /\ tr.size # 0 => e <= bytes + NextSize
        /\ ~islast
    BY TypeParts, ReadOne
  <1>2. /\ tr \in Tracks /\ bytes \in Nat /\ bytesRead \in Nat /\ S \in Nat \ {0}
        /\ tr.bpt \in Nat
    BY TypeParts
  <1>3. MinSecs \in Nat /\ tr.bpt < MinSecs * S /\ d \in Nat
    BY <1>2, TrackFacts, DataEnds
  <1>4. padsecs = 0 /\ (tr.short \/ e \div S >= MinSecs)
    BY <1>1 DEF NextLast, NoPadAfter, Packet
  <1>5. bytes + NextSize = d * S
    BY <1>1 DEF Loaded, DataEnd
  <1>6. ASSUME e \div S >= MinSecs PROVE d >= MinSecs
    <2> DEFINE mS == MinSecs * S
               dS == d * S
    <2>1. mS \in Int /\ dS \in Int /\ e \in Nat
      BY <1>1, <1>2, <1>3, Scale
    <2>2. e < mS => e \div S < MinSecs
      BY <1>2, <1>3, <2>1, DivBounds
    <2>3. e \div S \in Int
      BY <1>2, <2>1, DivRest
    <2>4. ~(e < mS)
      BY <1>3, <1>6, <2>2, <2>3
    <2>5. d < MinSecs <=> dS < mS
      BY <1>2, <1>3, Scale
    <2>6. tr.bpt < mS /\ bytes + NextSize = dS
      BY <1>3, <1>5
    <2> HIDE DEF mS, dS, e, d
    <2>7. tr.size # 0
      BY <1>1, <1>2, <2>1, <2>4, <2>6
    <2>8. ~(dS < mS)
      BY <1>1, <1>2, <2>1, <2>4, <2>6, <2>7
    <2> QED  BY <1>3, <2>5, <2>8
  <1> QED  BY <1>4, <1>5, <1>6 DEF NoPad

\* With a drive that takes its writes whole, at most one write of a track is announced
\* as the last, and nothing is written behind it.
LEMMA LastStep ==
    ASSUME BaseInv, LastTold, [WNext]_wvars
    PROVE  LastTold'
  <1>1. WTypeOK /\ Progress /\ startsec \in Nat /\ medium \in Seq(Stretches)
        /\ bytes \in Nat /\ bytespt \in Nat /\ bytesRead \in Nat /\ islast \in BOOLEAN
        /\ tr.sec \in Nat \ {0} /\ amt \in Int /\ tr \in Tracks
    BY TypeParts DEF BaseInv
  <1>2. tr' = tr
    BY TrackStays
  <1>3. SUFFICES ASSUME tr.mode = "track", "short" \notin tr.faults PROVE LastTold'
    BY <1>2 DEF LastTold
  \* The bytes counted are those the writes were for.
  <1>x. cut = 0 /\ \A b : Sent(b) => b = bytes
    BY <1>1, <1>3 DEF Progress, Sent
  <1>4. /\ \A i \in 1 .. Len(medium) - 1 : ~medium[i].last
        /\ Told => lastDone \/ pc = "gone"
        /\ Told => pc \notin {"nwa", "write", "pad"}
        /\ Told /\ pc = "get" => bytesRead = tr.avail /\ MoreToRead(tr, bytesRead)
        /\ Told /\ pc \in {"get", "after"} => NoPad
        /\ pc = "write" /\ islast => NoPad /\ DataEnd(bytes + bytespt)
        /\ islast /\ pc = "get" => Told
        /\ lastDone /\ padOK /\ ending = "none" =>
               Told \/ (pc \in {"write", "pad"} /\ TheLast)
        /\ ending = "ok" /\ padOK /\ tr.teac => Told
    BY <1>3 DEF LastTold
  <1>5. ASSUME medium' = medium PROVE Told' = Told
    BY <1>5 DEF Told
  <1>6. ASSUME padsecs' = padsecs PROVE NoPad' = NoPad
    BY <1>2, <1>6 DEF NoPad
  \* What a stretch behind the others means for them.
  <1>7. ASSUME NEW s \in Stretches, medium' = Append(medium, s), ~Told
        PROVE  /\ \A i \in 1 .. Len(medium') - 1 : ~medium'[i].last
               /\ Told' = s.last
    <2>1. /\ medium' # <<>> /\ medium'[Len(medium')] = s
          /\ Len(medium') = Len(medium) + 1
          /\ \A i \in 1 .. Len(medium) : medium'[i] = medium[i]
      BY <1>1, <1>7, HereIs
    <2>2. \A i \in 1 .. Len(medium) : ~medium[i].last
      <3>1. Len(medium) \in Nat /\ (medium = <<>> <=> Len(medium) = 0)
        BY <1>1
      <3>2. medium # <<>> => ~medium[Len(medium)].last
        BY <1>7 DEF Told
      <3> QED  BY <1>4, <3>1, <3>2
    <2>3. Len(medium) \in Nat
      BY <1>1
    <2>4. s.last \in BOOLEAN
      BY DEF Stretches
    <2>5. Told' = s.last
      BY <2>1, <2>4 DEF Told
    <2> QED  BY <2>1, <2>2, <2>3, <2>5
  <1>a. CASE Get
    <2>1. /\ pc = "get" /\ AtGet(bytes) /\ ending = "none" /\ padOK
          /\ UNCHANGED <<padsecs, bytes, lastDone, medium, padOK>>
      <3>1. /\ pc = "get" /\ UNCHANGED <<padsecs, bytes, lastDone, medium, padOK>>
        BY <1>a DEF Get
      <3>2. \E b : Sent(b) /\ AtGet(b)
        BY <1>1, <3>1 DEF Progress
      <3> QED  BY <1>1, <1>x, <3>1, <3>2 DEF Progress
    <2>2. \/ /\ Got <= 0 /\ UNCHANGED <<bytesRead, bytespt, islast>>
             /\ \/ Got = 0 /\ pc' = "after" /\ ending' = ending
                \/ pc' = "gone" /\ ending' = "readerr"
          \/ /\ Got > 0 /\ bytesRead' = bytesRead + Got /\ islast' = NextLast
             /\ bytespt' = NextSize /\ pc' = "write" /\ ending' = ending
      <3>1. Got <= 0 => Got \in {0, -1}
        BY <1>1, <2>1, InputEnds
      <3>2. \/ /\ Got <= 0 /\ UNCHANGED <<bytesRead, bytespt, islast>>
               /\ pc' = IF Got < 0 THEN "gone" ELSE "after"
               /\ ending' = IF Got < 0 THEN "readerr" ELSE ending
            \/ /\ Got > 0 /\ bytesRead' = bytesRead + Got /\ islast' = NextLast
               /\ bytespt' = NextSize /\ pc' = "write" /\ ending' = ending
        BY <1>3, <1>a DEF Get, Got, Asked, Count, NextSize, NextLast
      <3> QED  BY <3>1, <3>2
    <2>3. Told' = Told /\ NoPad' = NoPad
      BY <1>5, <1>6, <2>1
    <2>4. CASE Got <= 0
      <3>1. /\ UNCHANGED <<bytesRead, bytespt, islast>>
            /\ \/ pc' = "after" /\ ending' = ending
               \/ pc' = "gone" /\ ending' = "readerr"
        BY <1>1, <2>1, <2>2, <2>4, InputEnds
      <3> QED  BY <1>2, <1>4, <2>1, <2>3, <3>1 DEF LastTold
    <2>5. CASE Got > 0
      <3>1. /\ bytesRead' = bytesRead + Got /\ islast' = NextLast
            /\ bytespt' = NextSize /\ pc' = "write" /\ ending' = ending
        BY <1>1, <2>1, <2>2, <2>5, ReadOne
      <3>2. Got \in Nat /\ bytesRead + Got <= tr.avail
        BY <1>1, <2>1, <2>5, ReadOne DEF Loaded
      <3>3. ~Told
        <4>1. tr.avail \in Nat
          BY <1>1, TrackFacts
        <4> QED  BY <1>1, <1>4, <2>1, <2>5, <3>2, <4>1
      <3>4. ~lastDone
        BY <1>4, <2>1, <3>3
      <3>5. NextLast => NoPad /\ bytes + NextSize = DataSecs(tr) * tr.sec
        BY <1>1, <1>3, <2>1, <2>5, NextLastMeans
      <3>6. islast' => NoPad' /\ DataEnd(bytes + bytespt)'
        BY <1>2, <2>1, <2>3, <3>1, <3>5 DEF DataEnd
      <3> QED  BY <1>2, <1>4, <2>1, <2>3, <3>1, <3>3, <3>4, <3>6 DEF LastTold
    <2> QED  BY <2>2, <2>4, <2>5
  <1>b. CASE NextAddress
    BY <1>1, <1>3, <1>b DEF NextAddress, Progress
  <1>c. CASE Write \/ ShortWrite
    <2> DEFINE n == bytespt \div tr.sec
               new == Stretch(Source, n, islast)
    <2>0. Writes(n)
      BY <1>3, <1>c, WriteOf
    <2>1. /\ pc = "write" /\ Taken(new, n) /\ bytes' = bytes + n * tr.sec
          /\ lastDone' = (lastDone \/ TheLast)
          /\ pc' = IF MoreToRead(tr, bytesRead) THEN "get" ELSE "after"
          /\ UNCHANGED <<padsecs, bytesRead, bytespt, islast, padOK, ending>>
      BY <2>0 DEF Writes
    <2>2. AtWrite(bytes) /\ ending = "none" /\ padOK
      <3>1. \E b : Sent(b) /\ AtWrite(b)
        BY <1>1, <2>1 DEF Progress
      <3> QED  BY <1>1, <1>x, <2>1, <3>1 DEF Progress
    <2>3. Source = bytes /\ n \in Nat
      BY <1>1, <2>2, SourceIs, DivRest
    <2> HIDE DEF n
    <2>4. new \in Stretches /\ new.last = islast /\ new.n = n /\ n \in 0 .. n
      BY <1>1, <2>3 DEF Stretch, Stretches
    <2> HIDE DEF new
    <2>5. medium' = Append(medium, new)
      BY <1>1, <1>3, <2>1, <2>4, TakenWhole
    <2>6. ~Told
      BY <1>4, <2>1
    <2>7. /\ \A i \in 1 .. Len(medium') - 1 : ~medium'[i].last
          /\ Told' = islast
      BY <1>7, <2>4, <2>5, <2>6
    <2>8. TheLast = islast /\ (lastDone => islast)
      <3>1. TheLast = islast
        BY <2>1 DEF TheLast
      <3> QED  BY <1>4, <2>1, <2>2, <2>6, <3>1
    <2>9. NoPad' = NoPad
      BY <1>6, <2>1
    <2>a. islast => NoPad /\ (MoreToRead(tr, bytesRead) => bytesRead = tr.avail)
      BY <1>4, <2>1, <2>2 DEF AtWrite, Loaded
    <2>b. MoreToRead(tr, bytesRead)' = MoreToRead(tr, bytesRead)
      BY <1>2, <2>1 DEF MoreToRead
    <2> QED  BY <1>2, <2>1, <2>2, <2>7, <2>8, <2>9, <2>a, <2>b DEF LastTold
  <1>d. CASE WriteError
    <2>1. /\ pc = "write" /\ pc' = "close" /\ ending' = "error"
          /\ lastDone' = (lastDone \/ TheLast)
          /\ UNCHANGED <<medium, padOK, padsecs>>
      BY <1>3, <1>d DEF WriteError
    <2>2. Told' = Told
      BY <1>5, <2>1
    <2> QED  BY <1>2, <1>4, <2>1, <2>2 DEF LastTold
  <1>e. CASE Busy
    <2>1. /\ pc \in {"write", "pad"} /\ lastDone' = (lastDone \/ TheLast)
          /\ UNCHANGED <<tr, pc, padsecs, bytesRead, bytes, bytespt, islast, amt, medium,
                         padOK, ending>>
      BY <1>e DEF Busy
    <2>2. Told' = Told /\ NoPad' = NoPad
      BY <1>5, <1>6, <2>1
    <2>3. TheLast' = TheLast
      BY <2>1 DEF TheLast, PadSize, RoundUp
    <2>4. DataEnd(bytes + bytespt)' = DataEnd(bytes + bytespt)
      BY <2>1 DEF DataEnd
    <2> QED  BY <1>2, <1>4, <2>1, <2>2, <2>3, <2>4 DEF LastTold
  <1>f. CASE Again \/ WDone \/ UNCHANGED wvars
    <2>1. UNCHANGED <<tr, pc, padsecs, bytesRead, bytes, bytespt, islast, amt, medium,
                      padOK, ending, lastDone>>
      BY <1>f DEF Again, WDone, wvars
    <2>2. Told' = Told /\ NoPad' = NoPad
      BY <1>5, <1>6, <2>1
    <2>3. TheLast' = TheLast
      BY <2>1 DEF TheLast, PadSize, RoundUp
    <2>4. DataEnd(bytes + bytespt)' = DataEnd(bytes + bytespt)
      BY <2>1 DEF DataEnd
    <2>5. MoreToRead(tr, bytesRead)' = MoreToRead(tr, bytesRead)
      BY <2>1 DEF MoreToRead
    <2> QED  BY <1>2, <1>4, <2>1, <2>2, <2>3, <2>4, <2>5 DEF LastTold
  <1>g. CASE PadStart
    <2>1. /\ pc = "after" /\ padsecs = OpenPad(tr)
          /\ pc' = IF PadNeed > 0 THEN "pad" ELSE "close"
          /\ islast' = FALSE
          /\ UNCHANGED <<lastDone, medium, padOK, ending>>
      BY <1>1, <1>g DEF PadStart, PadNeed, Progress
    <2>6. PICK b : Sent(b) /\ DataEnd(b)
      BY <1>1, <2>1 DEF Progress
    <2>7. bytes = Len(Recorded) * tr.sec /\ Len(Recorded) \in Nat
      BY <1>1, CountedIs DEF BaseInv, SoFar
    <2>2. Told' = Told
      BY <1>5, <2>1
    <2>3. NoPad => PadNeed = 0
      <3> DEFINE r == Len(Recorded)
      <3>1. r \in Nat /\ bytes = r * tr.sec
        BY <2>7
      <3> HIDE DEF r
      <3> QED  BY <1>1, <1>3, <1>x, <2>1, <2>6, <3>1, PadPlan
    <2>4. Told => pc' = "close"
      BY <1>4, <2>1, <2>3
    <2>5. lastDone /\ padOK /\ ending = "none" => Told
      BY <1>4, <2>1
    <2> QED  BY <1>2, <1>4, <2>1, <2>2, <2>4, <2>5 DEF LastTold
  <1>h. CASE PadWrite \/ PadShort
    <2> DEFINE n == PadSize \div tr.sec
               new == Stretch(Pad, n, TheLast)
    <2>0. Pads(n)
      BY <1>3, <1>h, PadOf
    <2>a. /\ pc = "pad" /\ Taken(new, n)
          /\ islast' = TheLast /\ lastDone' = (lastDone \/ TheLast)
          /\ amt' = amt - n * tr.sec /\ bytespt' = PadSize
          /\ pc' = IF amt' > 0 THEN "pad" ELSE "close"
          /\ UNCHANGED <<padsecs, padOK, ending>>
      BY <2>0 DEF Pads
    <2>b. AtPad /\ ending = "none" /\ padOK
      BY <1>1, <2>a DEF Progress
    <2>c. PadSize = n * tr.sec /\ n \in Nat /\ n \in 0 .. n
      BY <1>1, <2>b, PadOne
    <2>1. /\ pc = "pad" /\ AtPad /\ ending = "none" /\ padOK
          /\ islast' = TheLast /\ lastDone' = (lastDone \/ TheLast)
          /\ amt' = amt - PadSize
          /\ pc' = IF amt' > 0 THEN "pad" ELSE "close"
          /\ UNCHANGED <<padsecs, padOK, ending>>
      BY <2>a, <2>b, <2>c
    <2>2. /\ amt - PadSize \in Nat
          /\ (TheLast <=> amt - PadSize = 0) /\ TheLast \in BOOLEAN
      <3>1. ~islast
        BY <1>3, <2>b DEF AtPad
      <3> QED  BY <1>1, <2>1, <3>1, PadOne DEF TheLast
    <2> HIDE DEF n
    <2>3. new \in Stretches /\ new.last = TheLast /\ new.n = n
      BY <1>1, <2>2, <2>c DEF Stretch, Stretches
    <2> HIDE DEF new
    <2>4. medium' = Append(medium, new)
      BY <1>1, <1>3, <2>a, <2>c, <2>3, TakenWhole
    <2>5. ~Told
      BY <1>4, <2>1
    <2>6. /\ \A i \in 1 .. Len(medium') - 1 : ~medium'[i].last
          /\ Told' = TheLast
      BY <1>7, <2>3, <2>4, <2>5
    <2>7. lastDone => TheLast
      BY <1>4, <2>1, <2>5
    <2>8. TheLast => pc' = "close"
      BY <2>1, <2>2
    <2> QED  BY <1>2, <2>1, <2>6, <2>7, <2>8 DEF LastTold
  <1>i. CASE PadError
    <2>1. /\ pc = "pad" /\ pc' = "close" /\ padOK' = FALSE
          /\ lastDone' = (lastDone \/ TheLast)
          /\ UNCHANGED <<medium, ending>>
      BY <1>i DEF PadError
    <2>2. Told' = Told
      BY <1>5, <2>1
    <2> QED  BY <1>2, <1>4, <2>1, <2>2 DEF LastTold
  <1>j. CASE Close
    <2>1. /\ pc = "close" /\ pc' = "gone" /\ ending \in {"none", "error"}
          /\ UNCHANGED <<padOK, lastDone, islast>>
          /\ ending' \in {"ok", "error"}
          /\ \/ /\ tr.teac /\ ~lastDone
                /\ medium' = Append(medium, Stretch(Dummy, 1, TRUE))
             \/ /\ medium' = medium
                /\ \/ ~(tr.teac /\ ~lastDone)
                      /\ ending' = IF ending = "none" THEN "ok" ELSE ending
                   \/ ending' = "error"
      BY <1>1, <1>j DEF Close, Progress
    <2>2. CASE medium' = Append(medium, Stretch(Dummy, 1, TRUE)) /\ ~lastDone
      <3>1. ~Told
        BY <1>4, <2>1, <2>2
      <3>2. Stretch(Dummy, 1, TRUE) \in Stretches /\ Stretch(Dummy, 1, TRUE).last = TRUE
        BY <1>1 DEF Stretch, Stretches, Dummy
      <3>3. /\ \A i \in 1 .. Len(medium') - 1 : ~medium'[i].last
            /\ Told' = TRUE
        BY <1>7, <2>2, <3>1, <3>2
      <3> QED  BY <1>2, <2>1, <3>3 DEF LastTold
    <2>3. CASE /\ medium' = medium
               /\ \/ ~(tr.teac /\ ~lastDone)
                     /\ ending' = IF ending = "none" THEN "ok" ELSE ending
                  \/ ending' = "error"
      <3>1. Told' = Told
        BY <1>5, <2>3
      <3>2. ending' = "ok" /\ padOK' /\ tr.teac => Told
        BY <1>4, <2>1, <2>3
      <3> QED  BY <1>2, <1>4, <2>1, <2>3, <3>1, <3>2 DEF LastTold
    <2> QED  BY <2>1, <2>2, <2>3
  <1> QED  BY <1>a, <1>b, <1>c, <1>d, <1>e, <1>f, <1>g, <1>h, <1>i, <1>j DEF WNext

-----------------------------------------------------------------------------
(* No sector of the input twice *)

\* What is recorded comes from before byte b of the input; zeroes stand only where
\* that has ended.
Below(b) == \A i \in DOMAIN Recorded :
                IF Recorded[i] = Pad THEN DataLen(tr) <= b ELSE Recorded[i] < b

Ordered ==
    /\ OnceEach
    /\ pc = "get" => \E b \in Nat : AtGet(b) /\ Below(b)
    /\ pc \in {"nwa", "write"} => \E b \in Nat : AtWrite(b) /\ Below(b)

\* Sectors that follow those recorded keep the order.
LEMMA OrderKept ==
    ASSUME NEW r \in Seq(Names), NEW x \in Seq(Names), NEW d \in Nat,
           \A j \in DOMAIN r : \A i \in 1 .. j - 1 : r[j] # Pad => r[i] # Pad /\ r[i] < r[j],
           NEW b \in Nat, \A i \in DOMAIN r : IF r[i] = Pad THEN d <= b ELSE r[i] < b,
           NEW S \in Nat \ {0},
           \A k \in 1 .. Len(x) : x[k] = IF b + (k - 1) * S >= d THEN Pad
                                         ELSE b + (k - 1) * S,
           NEW c \in Nat, b + Len(x) * S <= c
    PROVE  LET y == r \o x IN
           /\ \A j \in DOMAIN y : \A i \in 1 .. j - 1 :
                  y[j] # Pad => y[i] # Pad /\ y[i] < y[j]
           /\ \A i \in DOMAIN y : IF y[i] = Pad THEN d <= c ELSE y[i] < c
  <1> DEFINE y == r \o x
             n == Len(r)
             l == Len(x)
             off(k) == b + (k - 1) * S
  <1>1. /\ n \in Nat /\ l \in Nat /\ DOMAIN r = 1 .. n /\ DOMAIN y = 1 .. n + l
        /\ \A i \in 1 .. n : y[i] = r[i] /\ r[i] \in Names
        /\ \A i \in 1 .. n + l : i > n => y[i] = x[i - n] /\ i - n \in 1 .. l
    BY DEF Names
  <1>2. ASSUME NEW k \in 1 .. l
        PROVE  /\ off(k) \in Nat /\ b <= off(k) /\ off(k) < c
               /\ x[k] = IF off(k) >= d THEN Pad ELSE off(k)
    <2>1. k - 1 \in Nat /\ k - 1 < l
      BY <1>1
    <2>2. (k - 1) * S \in Nat /\ (k - 1) * S < l * S
      BY <1>1, <2>1, Scale, Whole
    <2>3. l * S \in Nat
      BY <1>1
    <2> DEFINE p == (k - 1) * S
               q == l * S
    <2>4. p \in Nat /\ q \in Nat /\ p < q /\ b + q <= c
      BY <2>2, <2>3
    <2>5. off(k) = b + p
      OBVIOUS
    <2> HIDE DEF p, q
    <2>6. off(k) \in Nat /\ b <= off(k) /\ off(k) < c
      BY <2>4, <2>5
    <2> QED  BY <2>6
  <1>3. ASSUME NEW i \in 1 .. l, NEW j \in 1 .. l, i < j
        PROVE  off(i) < off(j)
    <2>1. i - 1 < j - 1 /\ i - 1 \in Int /\ j - 1 \in Int
      BY <1>1, <1>3
    <2>2. (i - 1) * S < (j - 1) * S /\ (i - 1) * S \in Int /\ (j - 1) * S \in Int
      BY <2>1, Scale
    <2> QED  BY <2>2
  <1>4. Pad = -1
    BY DEF Pad
  <1>b. b <= c
    <2>1. l * S \in Nat
      BY <1>1
    <2> QED  BY <2>1
  <1> HIDE DEF y, off, n, l
  <1>5. ASSUME NEW i \in 1 .. n + l
        PROVE  IF y[i] = Pad THEN d <= c ELSE y[i] < c
    <2>1. CASE i <= n
      <3>1. i \in 1 .. n /\ y[i] = r[i] /\ r[i] \in Nat \cup {-1}
        BY <1>1, <1>4, <2>1 DEF Names
      <3>2. IF r[i] = Pad THEN d <= b ELSE r[i] < b
        BY <1>1, <3>1
      <3> QED  BY <1>b, <1>4, <3>1, <3>2
    <2>2. CASE i > n
      <3>1. y[i] = x[i - n] /\ i - n \in 1 .. l
        BY <1>1, <2>2
      <3> QED  BY <1>2, <1>4, <3>1
    <2> QED  BY <1>1, <2>1, <2>2
  <1>6. ASSUME NEW j \in 1 .. n + l, NEW i \in 1 .. j - 1, y[j] # Pad
        PROVE  y[i] # Pad /\ y[i] < y[j]
    <2>1. CASE j <= n
      <3>1. j \in 1 .. n /\ i \in 1 .. n /\ y[j] = r[j] /\ y[i] = r[i]
        BY <1>1, <2>1
      <3> QED  BY <1>1, <1>6, <3>1
    <2>2. CASE j > n
      <3>1. y[j] = x[j - n] /\ j - n \in 1 .. l
        BY <1>1, <2>2
      <3>2. y[j] = off(j - n) /\ off(j - n) < d /\ b <= off(j - n) /\ off(j - n) \in Nat
        BY <1>2, <1>4, <1>6, <3>1
      <3>3. CASE i <= n
        <4>1. i \in 1 .. n /\ y[i] = r[i] /\ r[i] \in Nat \cup {-1}
          BY <1>1, <1>4, <3>3 DEF Names
        <4>2. IF r[i] = Pad THEN d <= b ELSE r[i] < b
          BY <1>1, <4>1
        <4> QED  BY <1>4, <3>2, <4>1, <4>2
      <3>4. CASE i > n
        <4>1. i \in 1 .. n + l /\ y[i] = x[i - n] /\ i - n \in 1 .. l /\ i - n < j - n
          BY <1>1, <2>2, <3>4
        <4>2. off(i - n) < off(j - n) /\ off(i - n) \in Nat
              /\ x[i - n] = IF off(i - n) >= d THEN Pad ELSE off(i - n)
          BY <1>2, <1>3, <3>1, <4>1
        <4>3. y[i] = off(i - n)
          BY <3>2, <4>1, <4>2
        <4> QED  BY <1>4, <3>2, <4>2, <4>3
      <3> QED  BY <1>1, <3>3, <3>4
    <2> QED  BY <1>1, <2>1, <2>2
  <1>7. /\ \A j \in DOMAIN y : \A i \in 1 .. j - 1 : y[j] # Pad => y[i] # Pad /\ y[i] < y[j]
        /\ \A i \in DOMAIN y : IF y[i] = Pad THEN d <= c ELSE y[i] < c
    BY <1>1, <1>5, <1>6
  <1> QED  BY <1>7 DEF y

\* Zeroes behind what is recorded keep it as well.
LEMMA OrderPadded ==
    ASSUME NEW r \in Seq(Names), NEW x \in Seq(Names),
           \A j \in DOMAIN r : \A i \in 1 .. j - 1 : r[j] # Pad => r[i] # Pad /\ r[i] < r[j],
           \A k \in 1 .. Len(x) : x[k] = Pad
    PROVE  LET y == r \o x IN
           \A j \in DOMAIN y : \A i \in 1 .. j - 1 : y[j] # Pad => y[i] # Pad /\ y[i] < y[j]
  <1> DEFINE y == r \o x
             n == Len(r)
             l == Len(x)
  <1>1. /\ n \in Nat /\ l \in Nat /\ DOMAIN r = 1 .. n /\ DOMAIN y = 1 .. n + l
        /\ \A i \in 1 .. n : y[i] = r[i]
        /\ \A i \in 1 .. n + l : i > n => y[i] = x[i - n] /\ i - n \in 1 .. l
    OBVIOUS
  <1> HIDE DEF y, n, l
  <1>2. ASSUME NEW j \in 1 .. n + l, NEW i \in 1 .. j - 1, y[j] # Pad
        PROVE  y[i] # Pad /\ y[i] < y[j]
    <2>1. j <= n
      <3> SUFFICES ASSUME j > n PROVE FALSE
        BY <1>1
      <3>1. y[j] = x[j - n] /\ j - n \in 1 .. l
        BY <1>1
      <3> QED  BY <1>2, <3>1 DEF l
    <2>2. j \in 1 .. n /\ i \in 1 .. n /\ y[j] = r[j] /\ y[i] = r[i]
      BY <1>1, <2>1
    <2> QED  BY <1>1, <1>2, <2>2
  <1>3. \A j \in DOMAIN y : \A i \in 1 .. j - 1 : y[j] # Pad => y[i] # Pad /\ y[i] < y[j]
    BY <1>1, <1>2
  <1> QED  BY <1>3 DEF y

\* What a write adds to the track: the sectors of the part that is taken.
LEMMA TakenPart ==
    ASSUME WTypeOK, tr' = tr, NEW new \in Stretches, NEW k \in 0 .. new.n, Taken(new, k),
           new.src >= Pad
    PROVE  \E x \in Seq(Names) :
              /\ Recorded' = Recorded \o x /\ Len(x) = k
              /\ \A m \in 1 .. k : x[m] =
                     IF new.src = Pad \/ new.src + (m - 1) * tr.sec >= DataLen(tr)
                     THEN Pad ELSE new.src + (m - 1) * tr.sec
  <1>1. tr \in Tracks /\ k \in Nat /\ new.n \in Nat
    BY DEF WTypeOK, Stretches
  <1>2. CASE k = 0 /\ UNCHANGED medium
    <2>1. Recorded' = Recorded
      BY <1>2 DEF Recorded, RecordedOn, Sectors, DataLen
    <2>2. Recorded \o <<>> = Recorded
      BY CountedIs
    <2>3. <<>> \in Seq(Names) /\ Len(<<>>) = 0
      OBVIOUS
    <2>4. Recorded' = Recorded \o <<>> /\ Len(<<>>) = k /\ <<>> \in Seq(Names)
      BY <1>2, <2>1, <2>2, <2>3
    <2>5. 1 .. k = {}
      BY <1>2
    <2> HIDE DEF Names
    <2> QED  BY <2>4, <2>5, Zenon
  <1>3. ASSUME NEW s \in Stretches, s.n = k, s.src = new.src, Burned(s)
        PROVE  \E x \in Seq(Names) :
                  /\ Recorded' = Recorded \o x /\ Len(x) = k
                  /\ \A m \in 1 .. k : x[m] =
                         IF new.src = Pad \/ new.src + (m - 1) * tr.sec >= DataLen(tr)
                         THEN Pad ELSE new.src + (m - 1) * tr.sec
    <2>1. Burns(s)
      BY <1>3, BurnedBurns
    <2>2. Recorded' = Recorded \o Part(s)
      BY <2>1, BurnsPart
    <2>3. Part(s) \in Seq(Names) /\ Part(s) = Sectors(s) /\ Len(Part(s)) = k
      BY <1>1, <1>3, PartType
    <2>4. \A m \in 1 .. k : Sectors(s)[m] =
              IF new.src = Pad \/ new.src + (m - 1) * tr.sec >= DataLen(tr)
              THEN Pad ELSE new.src + (m - 1) * tr.sec
      BY <1>3 DEF Sectors
    <2> QED  BY <2>2, <2>3, <2>4
  <1> QED  BY <1>2, <1>3, TakenBurns

\* Every step keeps the order of what is recorded.
LEMMA OrderedStep ==
    ASSUME BaseInv, BaseInv', Ordered, [WNext]_wvars
    PROVE  Ordered'
  <1>1. /\ WTypeOK /\ SoFar /\ bytes \in Nat /\ startsec \in Nat /\ bytespt \in Nat
        /\ tr.sec \in Nat \ {0} /\ islast \in BOOLEAN /\ amt \in Int /\ tr \in Tracks
        /\ Recorded \in Seq(Names)
    BY TypeParts, CountedIs DEF BaseInv
  <1>2. tr' = tr /\ DataLen(tr)' = DataLen(tr)
    BY TrackStays
  <1>d. DataLen(tr) \in Nat
    BY <1>1, TrackFacts
  <1>3. ASSUME Recorded' = Recorded
        PROVE  OnceEach' /\ \A b \in Nat : Below(b) => Below(b)'
    BY <1>2, <1>3 DEF Ordered, OnceEach, Below
  <1>4. CASE Get
    <2>1. /\ pc = "get" /\ UNCHANGED <<tr, bytes, medium, cut>>
          /\ \/ Got <= 0 /\ pc' \in {"gone", "after"}
             \/ /\ Got > 0 /\ bytesRead' = bytesRead + Got /\ islast' = NextLast
                /\ bytespt' = NextSize /\ pc' \in {"nwa", "write"}
      BY <1>4 DEF Get, Got, Asked, Count, NextSize, NextLast
    <2>2. PICK b \in Nat : AtGet(b) /\ Below(b)
      BY <2>1 DEF Ordered
    <2>3. Recorded' = Recorded
      BY <1>1, <2>1, StillSoFar
    <2>4. CASE Got <= 0 /\ pc' \in {"gone", "after"}
      BY <1>3, <2>3, <2>4 DEF Ordered
    <2>5. CASE /\ Got > 0 /\ bytesRead' = bytesRead + Got /\ islast' = NextLast
               /\ bytespt' = NextSize /\ pc' \in {"nwa", "write"}
      <3>1. Loaded(b, bytesRead + Got, NextSize, NextLast)
        BY <1>1, <2>2, <2>5, ReadOne
      <3>2. AtWrite(b)'
        BY <2>1, <2>5, <3>1 DEF AtWrite, Loaded, DataEnd, MoreToRead
      <3>3. Below(b)'
        BY <1>3, <2>2, <2>3
      <3> QED  BY <1>3, <2>3, <2>5, <3>2, <3>3 DEF Ordered
    <2> QED  BY <2>1, <2>4, <2>5
  <1>5. CASE Write \/ ShortWrite
    <2> DEFINE n == bytespt \div tr.sec
               new == Stretch(Source, n, islast)
    <2>1. PICK k \in 0 .. n : Writes(k)
      BY <1>5, WriteOf
    <2>2. /\ pc = "write" /\ Taken(new, k)
          /\ pc' = IF MoreToRead(tr, bytesRead) THEN "get" ELSE "after"
          /\ UNCHANGED <<tr, bytesRead, bytespt, islast>>
      BY <2>1 DEF Writes
    <2>3. PICK b \in Nat : AtWrite(b) /\ Below(b)
      BY <2>2 DEF Ordered
    <2>4. Source = b /\ n \in Nat /\ bytespt = n * tr.sec
      <3>1. bytespt % tr.sec = 0
        BY <1>1 DEF WTypeOK
      <3> QED  BY <1>1, <2>3, <3>1, SourceIs, DivRest
    <2>5. (pc = "get")' => AtGet(b + bytespt)'
      BY <1>1, <2>2, <2>3, WriteMoves
    <2> HIDE DEF n
    <2>6. new \in Stretches /\ new.n = n /\ new.src = b
      BY <1>1, <2>4 DEF Stretch, Stretches
    <2> HIDE DEF new
    <2>7. new.src >= Pad /\ new.src # Pad
      BY <2>3, <2>6 DEF Pad
    <2>8. PICK x \in Seq(Names) :
              /\ Recorded' = Recorded \o x /\ Len(x) = k
              /\ \A m \in 1 .. k : x[m] =
                     IF new.src = Pad \/ new.src + (m - 1) * tr.sec >= DataLen(tr)
                     THEN Pad ELSE new.src + (m - 1) * tr.sec
      BY <1>1, <1>2, <2>1, <2>2, <2>6, <2>7, TakenPart
    <2>9. \A m \in 1 .. Len(x) : x[m] = IF b + (m - 1) * tr.sec >= DataLen(tr) THEN Pad
                                        ELSE b + (m - 1) * tr.sec
      BY <2>6, <2>7, <2>8
    <2>10. b + Len(x) * tr.sec <= b + bytespt /\ b + bytespt \in Nat
      <3>1. k \in Nat /\ k <= n
        BY <2>1, <2>4
      <3>2. k * tr.sec <= n * tr.sec /\ k * tr.sec \in Int
        BY <1>1, <2>4, <3>1, Scale
      <3> QED  BY <1>1, <2>4, <2>8, <3>2
    <2>11. /\ \A j \in DOMAIN (Recorded \o x) : \A i \in 1 .. j - 1 :
                 (Recorded \o x)[j] # Pad =>
                     (Recorded \o x)[i] # Pad /\ (Recorded \o x)[i] < (Recorded \o x)[j]
           /\ \A i \in DOMAIN (Recorded \o x) :
                 IF (Recorded \o x)[i] = Pad THEN DataLen(tr) <= b + bytespt
                 ELSE (Recorded \o x)[i] < b + bytespt
      <3>1. /\ \A j \in DOMAIN Recorded : \A i \in 1 .. j - 1 :
                   Recorded[j] # Pad => Recorded[i] # Pad /\ Recorded[i] < Recorded[j]
            /\ \A i \in DOMAIN Recorded :
                   IF Recorded[i] = Pad THEN DataLen(tr) <= b ELSE Recorded[i] < b
        BY <2>3 DEF Ordered, OnceEach, Below
      <3> DEFINE r == Recorded
                 d == DataLen(tr)
                 S == tr.sec
                 c == b + bytespt
      <3>2. /\ r \in Seq(Names) /\ d \in Nat /\ S \in Nat \ {0} /\ c \in Nat
            /\ b + Len(x) * S <= c
            /\ \A j \in DOMAIN r : \A i \in 1 .. j - 1 :
                   r[j] # Pad => r[i] # Pad /\ r[i] < r[j]
            /\ \A i \in DOMAIN r : IF r[i] = Pad THEN d <= b ELSE r[i] < b
            /\ \A m \in 1 .. Len(x) : x[m] = IF b + (m - 1) * S >= d THEN Pad
                                             ELSE b + (m - 1) * S
        BY <1>1, <1>d, <2>9, <2>10, <3>1
      <3> HIDE DEF r, d, S, c
      <3>3. LET y == r \o x IN
            /\ \A j \in DOMAIN y : \A i \in 1 .. j - 1 :
                   y[j] # Pad => y[i] # Pad /\ y[i] < y[j]
            /\ \A i \in DOMAIN y : IF y[i] = Pad THEN d <= c ELSE y[i] < c
        BY <3>2, OrderKept
      <3> QED  BY <3>3 DEF r, d, c
    <2>12. OnceEach'
      BY <2>8, <2>11 DEF OnceEach
    <2>13. Below(b + bytespt)'
      BY <1>2, <2>2, <2>8, <2>11 DEF Below
    <2>14. pc' \in {"get", "after"} /\ (b + bytespt)' = b + bytespt
      BY <2>2
    <2> DEFINE c == b + bytespt
    <2>15. c \in Nat /\ (AtGet(b + bytespt)' => AtGet(c)') /\ Below(c)'
      BY <2>10, <2>13
    <2>16. (pc = "get")' => (\E e \in Nat : AtGet(e) /\ Below(e))'
      BY <2>5, <2>10, <2>13, <2>14
    <2> QED  BY <2>12, <2>14, <2>16 DEF Ordered
  <1>6. CASE PadWrite \/ PadShort
    <2> DEFINE n == PadSize \div tr.sec
               new == Stretch(Pad, n, TheLast)
    <2>1. PICK k \in 0 .. n : Pads(k)
      BY <1>6, PadOf
    <2>2. pc = "pad" /\ Taken(new, k) /\ pc' \in {"pad", "close"}
      BY <2>1 DEF Pads
    <2>3. n \in Nat /\ TheLast \in BOOLEAN
      <3>1. AtPad
        BY <2>2 DEF BaseInv, Progress
      <3> QED  BY <1>1, <3>1, PadOne DEF TheLast
    <2> HIDE DEF n
    <2>4. new \in Stretches /\ new.n = n /\ new.src = Pad /\ new.src >= Pad
      BY <1>1, <2>3 DEF Stretch, Stretches, Pad
    <2> HIDE DEF new
    <2>5. PICK x \in Seq(Names) :
              /\ Recorded' = Recorded \o x /\ Len(x) = k
              /\ \A m \in 1 .. k : x[m] =
                     IF new.src = Pad \/ new.src + (m - 1) * tr.sec >= DataLen(tr)
                     THEN Pad ELSE new.src + (m - 1) * tr.sec
      BY <1>1, <1>2, <2>1, <2>2, <2>4, TakenPart
    <2>6. \A m \in 1 .. Len(x) : x[m] = Pad
      BY <2>4, <2>5
    <2>7. \A j \in DOMAIN Recorded : \A i \in 1 .. j - 1 :
              Recorded[j] # Pad => Recorded[i] # Pad /\ Recorded[i] < Recorded[j]
      BY DEF Ordered, OnceEach
    <2>8. OnceEach'
      <3> DEFINE r == Recorded
      <3>1. /\ r \in Seq(Names)
            /\ \A j \in DOMAIN r : \A i \in 1 .. j - 1 :
                   r[j] # Pad => r[i] # Pad /\ r[i] < r[j]
        BY <1>1, <2>7
      <3> HIDE DEF r
      <3>2. LET y == r \o x IN
            \A j \in DOMAIN y : \A i \in 1 .. j - 1 : y[j] # Pad => y[i] # Pad /\ y[i] < y[j]
        BY <2>6, <3>1, OrderPadded
      <3>3. Recorded' = r \o x
        BY <2>5 DEF r
      <3> QED  BY <3>2, <3>3 DEF OnceEach
    <2> QED  BY <2>2, <2>8 DEF Ordered
  <1>7. CASE NextAddress \/ Busy \/ Again \/ PadStart \/ PadError \/ WDone
             \/ UNCHANGED wvars \/ WriteError \/ Close
    <2>1. /\ UNCHANGED <<bytes, cut, bytesRead>>
          /\ \/ medium' = medium
             \/ medium' = Append(medium, Stretch(Linking, LinkSecs, FALSE))
             \/ medium' = Append(medium, Stretch(Dummy, 1, TRUE))
          /\ \/ pc' = pc /\ UNCHANGED <<islast, bytespt>>
             \/ /\ pc \in {"nwa", "write"} /\ pc' \in {"nwa", "write"}
                /\ UNCHANGED <<islast, bytespt>>
             \/ pc' \in {"pad", "close", "gone"}
      BY <1>7 DEF NextAddress, Busy, Again, PadStart, PadError, WDone, wvars, WriteError,
                  Close
    <2>2. /\ Stretch(Linking, LinkSecs, FALSE) \in Stretches
          /\ Stretch(Linking, LinkSecs, FALSE).src < Pad
          /\ Stretch(Dummy, 1, TRUE) \in Stretches
          /\ Stretch(Dummy, 1, TRUE).src < Pad
      BY <1>1 DEF Stretch, Stretches, Linking, LinkSecs, Dummy, Pad
    <2>3. Recorded' = Recorded
      BY <1>1, <1>2, <2>1, <2>2, StillSoFar
    <2>4. OnceEach' /\ \A b \in Nat : Below(b) => Below(b)'
      BY <1>3, <2>3
    <2>5. ASSUME NEW b \in Nat, UNCHANGED <<islast, bytespt>>
          PROVE  (AtGet(b) => AtGet(b)') /\ (AtWrite(b) => AtWrite(b)')
      BY <1>2, <2>1, <2>5 DEF AtGet, AtWrite, Loaded, DataEnd, MoreToRead
    <2>6. (pc = "get")' => (\E b \in Nat : AtGet(b) /\ Below(b))'
      <3> SUFFICES ASSUME pc' = "get" PROVE \E b \in Nat : AtGet(b)' /\ Below(b)'
        OBVIOUS
      <3>1. pc = "get" /\ UNCHANGED <<islast, bytespt>>
        BY <2>1
      <3> QED  BY <2>4, <2>5, <3>1 DEF Ordered
    <2>7. (pc \in {"nwa", "write"})' => (\E b \in Nat : AtWrite(b) /\ Below(b))'
      <3> SUFFICES ASSUME pc' \in {"nwa", "write"}
                   PROVE  \E b \in Nat : AtWrite(b)' /\ Below(b)'
        OBVIOUS
      <3>1. pc \in {"nwa", "write"} /\ UNCHANGED <<islast, bytespt>>
        BY <2>1
      <3> QED  BY <2>4, <2>5, <3>1 DEF Ordered
    <2> QED  BY <2>4, <2>6, <2>7 DEF Ordered
  <1> QED  BY <1>4, <1>5, <1>6, <1>7 DEF WNext

-----------------------------------------------------------------------------
(* Theorems *)

\* The writing of a track is type correct for every set of tracks: sizes are whole
\* sectors, and nothing is counted below zero.
THEOREM WriterTypeCorrect == WSpec => []WTypeOK
  <1>1. BaseInv => WTypeOK
    BY DEF BaseInv
  <1> QED  BY <1>1, BaseHolds, PTL

\* A track that write_track_data() and pad_track() have written without an error has
\* every sector of its data, and its padding, for every size of the file, of the
\* sectors and of the transfers, unless the drive has taken data in part; what it
\* takes in part of the padding is made up for.
THEOREM EndsCompleteHolds == WSpec => []EndsComplete
  <1>1. BaseInv => EndsComplete
    <2> SUFFICES ASSUME BaseInv, ending = "ok", padOK, cut = 0 PROVE Recorded = Goal(tr)
      BY DEF EndsComplete
    <2>1. tr \in Tracks /\ tr.sec \in Nat \ {0} /\ medium \in Seq(Stretches)
      BY TypeParts DEF BaseInv
    <2>2. bytes = Length(tr) * tr.sec
      BY DEF BaseInv, Progress
    <2>3. Length(tr) \in Nat /\ Len(Goal(tr)) = Length(tr) /\ Goal(tr) \in Seq(Names)
      BY <2>1, PlannedLength DEF Names
    <2>4. Len(Recorded) \in Nat
      <3>1. [at |-> 0, n |-> 0, src |-> Pad, last |-> FALSE] \in Stretches
        BY DEF Stretches
      <3>2. Recorded \in Seq(Names)
        BY <2>1, <3>1, RecordedAppend DEF Recorded
      <3> QED  BY <3>2
    <2>5. bytes = Len(Recorded) * tr.sec /\ Recorded = SubSeq(Goal(tr), 1, Len(Recorded))
      BY DEF BaseInv, SoFar
    <2>6. Len(Recorded) = Length(tr)
      <3> DEFINE a == Len(Recorded)
                 b == Length(tr)
      <3>1. a \in Int /\ b \in Int /\ tr.sec \in Nat \ {0} /\ a * tr.sec = b * tr.sec
        BY <2>1, <2>2, <2>3, <2>4, <2>5
      <3> HIDE DEF a, b
      <3>2. a = b
        BY <3>1, Scale
      <3> QED  BY <3>2 DEF a, b
    <2>7. SubSeq(Goal(tr), 1, Len(Goal(tr))) = Goal(tr)
      BY <2>3
    <2> QED  BY <2>3, <2>5, <2>6, <2>7
  <1> QED  BY <1>1, BaseHolds, PTL

\* The sectors of more bytes are as many or more.
LEMMA SecsMonotone ==
    ASSUME NEW u \in Tracks, NEW n \in Nat, NEW m \in Nat, n <= m
    PROVE  Secs(u, n) <= Secs(u, m)
  <1> DEFINE a == Secs(u, n)
             b == Secs(u, m)
             S == u.sec
  <1>1. S \in Nat \ {0}
    BY TrackFacts
  <1>2. a \in Nat /\ b \in Nat /\ a * S < n + S /\ m <= b * S
    BY SecsFacts
  <1> HIDE DEF a, b, S
  <1>3. b < a => b + 1 <= a /\ (b + 1 <= a => (b + 1) * S <= a * S)
    BY <1>1, <1>2, Scale
  <1>4. (b + 1) * S = b * S + S
    BY <1>1, <1>2, Scale
  <1> DEFINE aS == a * S
             bS == b * S
             cS == (b + 1) * S
  <1>5. aS \in Int /\ bS \in Int /\ aS < n + S /\ m <= bS /\ cS = bS + S
        /\ (b < a => cS <= aS)
    BY <1>1, <1>2, <1>3, <1>4
  <1> HIDE DEF aS, bS, cS
  <1>6. ~(b < a)
    BY <1>1, <1>5
  <1> QED  BY <1>2, <1>6 DEF a, b

\* Where the track shall end is not behind what checktsize() had planned with, and
\* right there when the file has the announced size.
LEMMA GoalAnnounced ==
    ASSUME NEW u \in Tracks, u.mode = "track", u.size >= 0
    PROVE  /\ Length(u) + RunOut(u) <= Announced(u)
           /\ DataLen(u) = u.size => Length(u) + RunOut(u) = Announced(u)
           /\ RunOut(u) \in Nat
  <1>1. /\ u.size \in Nat /\ u.avail \in Nat /\ MinSecs \in Nat /\ OpenPad(u) \in Nat
        /\ DataLen(u) \in Nat
    BY TrackFacts, PlannedLength
  <1>2. DataLen(u) <= u.size
    BY <1>1 DEF DataLen
  <1> DEFINE d == Secs(u, DataLen(u))
             s == Secs(u, u.size)
             o == OpenPad(u)
  <1>3. DataSecs(u) = d
    BY DataEnds
  <1>4. d \in Nat /\ s \in Nat /\ d <= s /\ (DataLen(u) = u.size => d = s)
    BY <1>1, <1>2, SecsFacts, SecsMonotone
  <1>5. RunOut(u) \in Nat
    BY DEF RunOut
  <1>6. Length(u) = d + IF u.short \/ o >= MinSecs - d THEN o ELSE MinSecs - d
    BY <1>3 DEF Length
  <1>7. Announced(u) = RunOut(u) + IF ~u.short /\ s + o < MinSecs THEN MinSecs ELSE s + o
    BY DEF Announced
  <1>8. o \in Nat
    BY <1>1
  <1> HIDE DEF d, s, o
  <1>9. Length(u) + RunOut(u) <= Announced(u)
    BY <1>1, <1>4, <1>5, <1>6, <1>7, <1>8
  <1>a. d = s => Length(u) + RunOut(u) = Announced(u)
    BY <1>1, <1>4, <1>5, <1>6, <1>7, <1>8
  <1> QED  BY <1>4, <1>5, <1>9, <1>a

\* A track of known size never reaches beyond where checktsize() had planned the next
\* one, or the lead-out, to start, and ends there when its file has the announced size
\* and all of it is written.
THEOREM LengthPlannedHolds == WSpec => []LengthPlanned
  <1>1. BaseInv /\ EndsComplete => LengthPlanned
    <2> SUFFICES ASSUME BaseInv, EndsComplete, tr.mode = "track", tr.size >= 0
                 PROVE  /\ Len(Recorded) + RunOut(tr) <= Announced(tr)
                        /\ ending = "ok" /\ padOK /\ cut = 0 /\ DataLen(tr) = tr.size =>
                               Len(Recorded) + RunOut(tr) = Announced(tr)
      BY DEF LengthPlanned
    <2>1. WTypeOK /\ tr \in Tracks
      BY DEF BaseInv, WTypeOK
    <2>2. /\ Length(tr) + RunOut(tr) <= Announced(tr)
          /\ DataLen(tr) = tr.size => Length(tr) + RunOut(tr) = Announced(tr)
          /\ RunOut(tr) \in Nat
      BY <2>1, GoalAnnounced
    <2>3. Length(tr) \in Nat /\ Len(Goal(tr)) = Length(tr)
      BY <2>1, PlannedLength
    <2>4. Len(Recorded) \in Nat /\ Len(Recorded) <= Length(tr)
      BY <2>1, CountedIs DEF BaseInv, SoFar
    <2>5. Announced(tr) \in Int
      <3>1. OpenPad(tr) \in Nat /\ MinSecs \in Nat /\ tr.size \in Nat
        BY <2>1, PlannedLength, TrackFacts
      <3>2. Secs(tr, tr.size) \in Nat
        BY <2>1, <3>1, SecsFacts
      <3> QED  BY <2>2, <3>1, <3>2 DEF Announced
    <2>6. Len(Recorded) + RunOut(tr) <= Announced(tr)
      BY <2>2, <2>3, <2>4, <2>5
    <2>7. ASSUME ending = "ok", padOK, cut = 0, DataLen(tr) = tr.size
          PROVE  Len(Recorded) + RunOut(tr) = Announced(tr)
      <3>1. Recorded = Goal(tr)
        BY <2>7 DEF EndsComplete
      <3> QED  BY <2>2, <2>3, <2>7, <3>1
    <2> QED  BY <2>6, <2>7
  <1> QED  BY <1>1, BaseHolds, EndsCompleteHolds, PTL

\* No write lands on top of what is burned already, for every drive and every order
\* of its errors; on a track without packets it goes right behind that.
THEOREM AtTheEndHolds == WSpec => []AtTheEnd
  <1>1. WInit => Address
    BY DEF WInit, Address, Here
  <1>2. BaseInv /\ Address /\ [WNext]_wvars => Address'
    BY AddressStep
  <1>3. Address => AtTheEnd
    BY DEF Address, AtTheEnd
  <1> QED  BY <1>1, <1>2, <1>3, BaseHolds, PTL DEF WSpec

\* For every track and a drive that takes its writes whole at most one write is
\* announced as the last, nothing is written behind it, and the TEAC is always told.
THEOREM LastWriteHolds == WSpec => []LastWrite
  <1>1. WInit => LastTold
    BY DEF WInit, LastTold, Told
  <1>2. BaseInv /\ LastTold /\ [WNext]_wvars => LastTold'
    BY LastStep
  <1>3. BaseInv /\ LastTold => LastWrite
    <2> SUFFICES ASSUME BaseInv, LastTold, "short" \notin tr.faults PROVE LastWrite
      BY DEF LastWrite
    <2>1. medium \in Seq(Stretches) /\ tr \in Tracks
      BY TypeParts DEF BaseInv
    <2>2. tr.teac => tr.mode = "track"
      BY <2>1, TrackFacts
    <2>3. tr.mode = "track" => \A i \in 1 .. Len(medium) - 1 : ~medium[i].last
      BY DEF LastTold
    <2>4. DOMAIN medium = 1 .. Len(medium) /\ Len(medium) \in Nat
      BY <2>1
    <2>5. ending = "ok" /\ padOK /\ tr.teac => Told
      BY <2>2 DEF LastTold
    <2> QED  BY <2>3, <2>4, <2>5 DEF LastWrite, Told
  <1> QED  BY <1>1, <1>2, <1>3, BaseHolds, PTL DEF WSpec

\* A step never takes back what was burned or counted; a write of data that is cut
\* short is noted once, and what the medium has up to then belongs to the goal.
LEMMA StepGrows ==
    ASSUME BaseInv, BaseInv', [WNext]_wvars
    PROVE  /\ bytes <= bytes'
           /\ Len(medium) <= Len(medium')
           /\ \A i \in 1 .. Len(medium) : medium'[i] = medium[i]
           /\ cut # 0 => cut' = cut
           /\ cut = 0 => cut' \in {0, Len(medium') + 1}
           /\ cut = 0 => Recorded' = SubSeq(Goal(tr), 1, Len(Recorded'))
  <1>1. /\ WTypeOK /\ bytes \in Nat /\ startsec \in Nat /\ bytespt \in Nat
        /\ tr.sec \in Nat \ {0} /\ islast \in BOOLEAN /\ amt \in Int
    BY TypeParts DEF BaseInv
  <1>2. CASE Write \/ ShortWrite
    <2> DEFINE n == bytespt \div tr.sec
               new == Stretch(Source, n, islast)
    <2>1. PICK k \in 0 .. n :
              /\ Writes(k)
              /\ \/ k = n /\ cut' = cut
                 \/ cut' = IF cut = 0 THEN Len(medium') + 1 ELSE cut
      BY <1>2, WriteOf
    <2>2. pc = "write" /\ Taken(new, k) /\ bytes' = bytes + k * tr.sec
      BY <2>1 DEF Writes
    <2>3. PICK b : Sent(b) /\ AtWrite(b)
      BY <2>2 DEF BaseInv, Progress
    <2>4. Source \in Nat /\ n \in Nat
      BY <1>1, <2>3, SourceIs, DivRest DEF Sent
    <2> HIDE DEF n
    <2>5. new \in Stretches /\ new.n = n
      BY <1>1, <2>4 DEF Stretch, Stretches
    <2> HIDE DEF new
    <2>6. /\ Len(medium) <= Len(medium')
          /\ \A i \in 1 .. Len(medium) : medium'[i] = medium[i]
      BY <1>1, <2>1, <2>2, <2>5, TakenLonger
    <2>7. k * tr.sec \in Nat
      BY <1>1, <2>1, <2>4, Whole
    <2>8. bytes <= bytes'
      BY <1>1, <2>2, <2>7
    <2>9. cut = 0 => Recorded' = SubSeq(Goal(tr), 1, Len(Recorded'))
      BY <1>2, BaseWrite
    <2>10. (cut # 0 => cut' = cut) /\ (cut = 0 => cut' \in {0, Len(medium') + 1})
      BY <2>1
    <2> QED  BY <2>6, <2>8, <2>9, <2>10
  <1>3. CASE PadWrite \/ PadShort
    <2> DEFINE n == PadSize \div tr.sec
               new == Stretch(Pad, n, TheLast)
    <2>1. PICK k \in 0 .. n : Pads(k)
      BY <1>3, PadOf
    <2>2. pc = "pad" /\ Taken(new, k) /\ bytes' = bytes + k * tr.sec /\ UNCHANGED <<tr, cut>>
      BY <2>1 DEF Pads
    <2>3. AtPad
      BY <2>2 DEF BaseInv, Progress
    <2>4. n \in Nat /\ TheLast \in BOOLEAN
      BY <1>1, <2>3, PadOne DEF TheLast
    <2> HIDE DEF n
    <2>5. new \in Stretches /\ new.n = n
      BY <1>1, <2>4 DEF Stretch, Stretches
    <2> HIDE DEF new
    <2>6. /\ Len(medium) <= Len(medium')
          /\ \A i \in 1 .. Len(medium) : medium'[i] = medium[i]
      BY <1>1, <2>1, <2>2, <2>5, TakenLonger
    <2>7. k * tr.sec \in Nat
      BY <1>1, <2>1, <2>4, Whole
    <2>8. bytes <= bytes'
      BY <1>1, <2>2, <2>7
    <2>9. cut = 0 => Recorded' = SubSeq(Goal(tr), 1, Len(Recorded'))
      BY <2>2 DEF BaseInv, SoFar
    <2> QED  BY <2>2, <2>6, <2>8, <2>9
  <1>4. CASE /\ UNCHANGED <<tr, bytes, cut>>
             /\ \/ medium' = medium
                \/ \E l \in Stretches : medium' = Append(medium, l)
    <2>1. /\ Len(medium) <= Len(medium')
          /\ \A i \in 1 .. Len(medium) : medium'[i] = medium[i]
      BY <1>1, <1>4, AddedLonger
    <2>2. cut = 0 => Recorded' = SubSeq(Goal(tr), 1, Len(Recorded'))
      BY <1>4 DEF BaseInv, SoFar
    <2> QED  BY <1>1, <1>4, <2>1, <2>2
  <1>5. CASE Get \/ NextAddress \/ Busy \/ Again \/ PadStart \/ PadError \/ WDone
             \/ UNCHANGED wvars
    <2>1. UNCHANGED <<tr, bytes, cut, medium>>
      BY <1>5 DEF Get, NextAddress, Busy, Again, PadStart, PadError, WDone, wvars
    <2> QED  BY <1>4, <2>1
  <1>6. CASE WriteError \/ Close
    <2>1. /\ UNCHANGED <<tr, bytes, cut>>
          /\ \/ medium' = medium
             \/ medium' = Append(medium, Stretch(Linking, LinkSecs, FALSE))
             \/ medium' = Append(medium, Stretch(Dummy, 1, TRUE))
      BY <1>6 DEF WriteError, Close
    <2>2. /\ Stretch(Linking, LinkSecs, FALSE) \in Stretches
          /\ Stretch(Dummy, 1, TRUE) \in Stretches
      BY <1>1 DEF Stretch, Stretches, Linking, LinkSecs, Dummy
    <2> QED  BY <1>4, <2>1, <2>2
  <1> QED  BY <1>2, <1>3, <1>5, <1>6 DEF WNext

\* The medium implements Stream up to a write of data that is cut short: whatever else
\* fails, is cut short or is written again, the sectors of the track only ever grow by
\* the next ones it shall have.
THEOREM TrackInOrder == WSpec => InOrder
  <1>1. ASSUME WInit PROVE Wanted!Init
    <2>1. Followed = <<>>
      BY <1>1, RecordedEmpty DEF WInit, Recorded, Followed
    <2> QED  BY <2>1 DEF Wanted!Init
  <1>2. ASSUME BaseInv, BaseInv', [WNext]_wvars
        PROVE  [Wanted!Transfer]_<<Goal(tr), Followed>>
    <2>1. tr' = tr
      BY <1>2, TrackStays
    <2>2. Goal(tr)' = Goal(tr) /\ Length(tr)' = Length(tr) /\ (tr.sec)' = tr.sec
      BY <2>1
    <2>3. /\ tr \in Tracks /\ medium \in Seq(Stretches) /\ Len(medium) \in Nat
          /\ medium' \in Seq(Stretches) /\ Len(medium') \in Nat
          /\ tr.sec \in Nat \ {0} /\ bytes \in Nat /\ cut \in Nat
          /\ Recorded \in Seq(Names) /\ Len(Recorded) \in Nat
      <3>1. WTypeOK /\ WTypeOK'
        BY <1>2 DEF BaseInv
      <3>2. medium' \in Seq(Stretches)
        BY <3>1 DEF WTypeOK, Stretches
      <3> QED  BY <3>1, <3>2, TypeParts, CountedIs
    <2>4. /\ bytes <= bytes'
          /\ Len(medium) <= Len(medium')
          /\ \A i \in 1 .. Len(medium) : medium'[i] = medium[i]
          /\ cut # 0 => cut' = cut
          /\ cut = 0 => cut' \in {0, Len(medium') + 1}
          /\ cut = 0 => Recorded' = SubSeq(Goal(tr), 1, Len(Recorded'))
      BY <1>2, StepGrows
    <2>6. /\ Recorded' = RecordedOn(medium')
          /\ cut' # 0 => Followed' = RecordedOn(SubSeq(medium', 1, cut' - 1))
          /\ cut' = 0 => Followed' = Recorded'
      <3>1. DataLen(tr)' = DataLen(tr)
        BY <2>1
      <3> QED  BY <2>1, <3>1 DEF Followed, Recorded, RecordedOn, Sectors
    <2>7. CASE cut # 0
      <3>1. cut - 1 \in 0 .. Len(medium) /\ cut' = cut
        BY <1>2, <2>3, <2>4, <2>7 DEF BaseInv, Progress
      <3>2. SubSeq(medium', 1, cut - 1) = SubSeq(medium, 1, cut - 1)
        <4> DEFINE x == SubSeq(medium', 1, cut - 1)
                   y == SubSeq(medium, 1, cut - 1)
        <4>1. /\ x \in Seq(Stretches) /\ Len(x) = cut - 1
              /\ \A i \in 1 .. cut - 1 : x[i] = medium'[i]
          BY <2>3, <2>4, <3>1
        <4>2. /\ y \in Seq(Stretches) /\ Len(y) = cut - 1
              /\ \A i \in 1 .. cut - 1 : y[i] = medium[i]
          BY <2>3, <3>1
        <4> HIDE DEF x, y
        <4>3. \A i \in 1 .. cut - 1 : x[i] = y[i]
          BY <2>3, <2>4, <3>1, <4>1, <4>2
        <4>4. x = y
          BY <4>1, <4>2, <4>3, SeqEqual
        <4> QED  BY <4>4 DEF x, y
      <3>3. Followed' = Followed
        BY <2>6, <2>7, <3>1, <3>2 DEF Followed
      <3> QED  BY <2>2, <3>3
    <2>8. CASE cut = 0
      <3>1. Followed = Recorded
        BY <2>8 DEF Followed
      <3>2. Followed' = Recorded'
        <4>1. CASE cut' = 0
          BY <2>6, <4>1
        <4>2. CASE cut' # 0
          <5>1. cut' - 1 = Len(medium')
            BY <2>3, <2>4, <2>8, <4>2
          <5>2. SubSeq(medium', 1, Len(medium')) = medium'
            BY <2>3
          <5> QED  BY <2>6, <4>2, <5>1, <5>2
        <4> QED  BY <4>1, <4>2
      <3>3. /\ bytes = Len(Recorded) * tr.sec /\ Recorded = SubSeq(Goal(tr), 1, Len(Recorded))
            /\ bytes' = Len(Recorded') * tr.sec /\ Len(Recorded') <= Length(tr)
            /\ Recorded' = SubSeq(Goal(tr), 1, Len(Recorded'))
        BY <1>2, <2>1, <2>2, <2>4, <2>8 DEF BaseInv, SoFar
      <3>4. Recorded' \in Seq(Names)
        <4>1. [at |-> 0, n |-> 0, src |-> Pad, last |-> FALSE] \in Stretches
          BY DEF Stretches
        <4> QED  BY <2>3, <2>6, <4>1, RecordedAppend
      <3>5. Len(Goal(tr)) = Length(tr) /\ Length(tr) \in Nat
        BY <2>3, PlannedLength
      <3> DEFINE a == Len(Recorded)
                 b == Len(Recorded')
      <3>6. a \in Nat /\ b \in Nat
        BY <2>3, <3>4
      <3>7. a <= b
        <4>0. tr.sec \in Nat \ {0} /\ a \in Int /\ b \in Int
          BY <2>3, <3>6
        <4> HIDE DEF a, b
        <4>1. b < a <=> b * tr.sec < a * tr.sec
          BY <4>0, Scale
        <4>2. a * tr.sec \in Int /\ b * tr.sec \in Int
          BY <2>3, <3>6, Scale
        <4>3. a * tr.sec <= b * tr.sec
          BY <2>4, <3>3 DEF a, b
        <4> QED  BY <3>6, <4>1, <4>2, <4>3
      <3>8. CASE a = b
        BY <2>2, <3>1, <3>2, <3>3, <3>8
      <3>9. CASE a < b
        <4>1. b \in Len(Followed) + 1 .. Len(Goal(tr))
          BY <3>1, <3>3, <3>5, <3>6, <3>9
        <4>2. Wanted!Transfer
          BY <2>2, <3>2, <3>3, <4>1 DEF Wanted!Transfer
        <4> QED  BY <4>2
      <3> QED  BY <3>6, <3>7, <3>8, <3>9
    <2> QED  BY <2>7, <2>8
  <1> QED  BY <1>1, <1>2, BaseHolds, PTL DEF WSpec, InOrder, Wanted!Spec

\* For every track and whatever the drive leaves out of its writes, no sector of the
\* input is written twice, or behind one that follows it, or behind the padding.
THEOREM OnceEachHolds == WSpec => []OnceEach
  <1>1. WInit => Ordered
    <2> SUFFICES ASSUME WInit PROVE Ordered
      OBVIOUS
    <2>1. Recorded = <<>>
      BY RecordedEmpty DEF Recorded, WInit
    <2>2. DOMAIN Recorded = {}
      BY <2>1
    <2>3. tr.bpt \in Nat \ {0} /\ tr.avail \in Nat
      BY TrackFacts DEF WInit
    <2>4. 0 % tr.bpt = 0
      <3>1. 0 * tr.bpt = 0
        BY <2>3
      <3> QED  BY <2>3, <3>1, Whole
    <2>5. AtGet(0)
      BY <2>3, <2>4 DEF AtGet, WInit
    <2> QED  BY <2>2, <2>5 DEF Ordered, OnceEach, Below, WInit
  <1>2. BaseInv /\ BaseInv' /\ Ordered /\ [WNext]_wvars => Ordered'
    BY OrderedStep
  <1>3. Ordered => OnceEach
    BY DEF Ordered
  <1> QED  BY <1>1, <1>2, <1>3, BaseHolds, PTL DEF WSpec

=============================================================================
