---------------------------- MODULE RScsiProofs ----------------------------
(***************************************************************************)
(* RScsi for every program of calls, every size of the buffers and of the  *)
(* connection, and every way these cut what is sent.  The request under    *)
(* way is at any moment a row of segments: what the server has taken, its  *)
(* buffer, the connection, and what the client has still to write; the     *)
(* answer likewise, the other way.  CallInv says so (OnTheWay and          *)
(* OnTheWayBack), and how far each side is in the call (Places, Parsing,   *)
(* Understanding).  Hence each side finds at its head what it expects: a   *)
(* request is handled whole and an answer read whole, and nothing of the   *)
(* one before is left over.                                                *)
(***************************************************************************)
EXTENDS RScsi, SequenceTheorems, TLAPS

-----------------------------------------------------------------------------
(* Segments *)

\* s is the part of r behind its first off elements.
At(s, r, off) ==
    off + Len(s) <= Len(r) /\ \A i \in 1 .. Len(s) : s[i] = r[off + i]

\* Nothing is part of everything.
LEMMA AtNothing ==
    ASSUME NEW r, NEW off \in Nat, off <= Len(r)
    PROVE  At(<<>>, r, off)
  BY DEF At

\* The first element of a segment, and the rest.
LEMMA AtHead ==
    ASSUME NEW T, NEW s \in Seq(T), NEW r \in Seq(T), NEW off \in Nat,
           s # <<>>, At(s, r, off)
    PROVE  /\ Head(s) = r[off + 1] /\ Head(s) \in T /\ off + 1 <= Len(r)
           /\ Tail(s) \in Seq(T) /\ Len(Tail(s)) = Len(s) - 1
           /\ At(Tail(s), r, off + 1)
  <1>1. Len(s) \in Nat /\ Len(s) >= 1 /\ Len(r) \in Nat
    BY EmptySeq
  <1>2. /\ Tail(s) \in Seq(T) /\ Len(Tail(s)) = Len(s) - 1
        /\ \A i \in 1 .. Len(s) - 1 : Tail(s)[i] = s[i + 1]
        /\ Head(s) = s[1] /\ Head(s) \in T
    BY <1>1, HeadTailProperties
  <1>3. \A i \in 1 .. Len(s) - 1 : i + 1 \in 1 .. Len(s)
    BY <1>1
  <1>4. \A i \in 1 .. Len(s) - 1 : s[i + 1] = r[off + (i + 1)] /\ off + (i + 1) = (off + 1) + i
    BY <1>1, <1>3 DEF At
  <1>5. At(Tail(s), r, off + 1)
    BY <1>1, <1>2, <1>4 DEF At
  <1> QED
    BY <1>1, <1>2, <1>5 DEF At

\* A part of a segment.
LEMMA AtPart ==
    ASSUME NEW T, NEW s \in Seq(T), NEW r \in Seq(T), NEW off \in Nat,
           At(s, r, off), NEW a \in 0 .. Len(s), NEW b \in a .. Len(s)
    PROVE  /\ SubSeq(s, a + 1, b) \in Seq(T) /\ Len(SubSeq(s, a + 1, b)) = b - a
           /\ At(SubSeq(s, a + 1, b), r, off + a)
  <1>1. Len(s) \in Nat /\ Len(r) \in Nat /\ a \in Nat /\ b \in Nat /\ b <= Len(s)
    OBVIOUS
  <1>2. /\ SubSeq(s, a + 1, b) \in Seq(T) /\ Len(SubSeq(s, a + 1, b)) = b - a
        /\ \A i \in 1 .. b - a : SubSeq(s, a + 1, b)[i] = s[a + i]
    <2>1. \A i \in a + 1 .. b : s[i] \in T
      BY <1>1
    <2>2. Len(SubSeq(s, a + 1, b)) = b - a
      BY <1>1
    <2>3. \A i \in 1 .. b - a : SubSeq(s, a + 1, b)[i] = s[a + i]
      BY <1>1
    <2>4. SubSeq(s, a + 1, b) \in Seq(T)
      BY <1>1, <2>1
    <2> QED
      BY <2>2, <2>3, <2>4
  <1>3. \A i \in 1 .. b - a : a + i \in 1 .. Len(s) /\ off + (a + i) = (off + a) + i
    BY <1>1
  <1>4. \A i \in 1 .. b - a : s[a + i] = r[(off + a) + i]
    BY <1>3 DEF At
  <1> QED
    BY <1>1, <1>2, <1>4 DEF At

\* Two segments, one behind the other.
LEMMA AtBoth ==
    ASSUME NEW T, NEW s \in Seq(T), NEW u \in Seq(T), NEW r \in Seq(T), NEW off \in Nat,
           At(s, r, off), At(u, r, off + Len(s))
    PROVE  /\ s \o u \in Seq(T) /\ Len(s \o u) = Len(s) + Len(u)
           /\ At(s \o u, r, off)
  <1>1. Len(s) \in Nat /\ Len(u) \in Nat /\ Len(r) \in Nat
    OBVIOUS
  <1>2. /\ s \o u \in Seq(T) /\ Len(s \o u) = Len(s) + Len(u)
        /\ \A i \in 1 .. Len(s) + Len(u) :
              (s \o u)[i] = IF i <= Len(s) THEN s[i] ELSE u[i - Len(s)]
    BY ConcatProperties
  <1>3. ASSUME NEW i \in 1 .. Len(s) + Len(u) PROVE (s \o u)[i] = r[off + i]
    <2>1. CASE i <= Len(s)
      BY <1>1, <1>2, <2>1 DEF At
    <2>2. CASE ~(i <= Len(s))
      <3>1. i - Len(s) \in 1 .. Len(u) /\ (off + Len(s)) + (i - Len(s)) = off + i
        BY <1>1, <2>2
      <3> QED
        BY <1>2, <2>2, <3>1 DEF At
    <2> QED
      BY <2>1, <2>2
  <1> QED
    BY <1>1, <1>2, <1>3 DEF At

\* One more element of the whole.
LEMMA AtNext ==
    ASSUME NEW T, NEW s \in Seq(T), NEW r \in Seq(T), NEW off \in Nat,
           At(s, r, off), off + Len(s) + 1 <= Len(r)
    PROVE  LET t == r[off + Len(s) + 1] IN
           /\ Append(s, t) \in Seq(T) /\ Len(Append(s, t)) = Len(s) + 1
           /\ At(Append(s, t), r, off)
  <1>1. Len(s) \in Nat /\ Len(r) \in Nat
    OBVIOUS
  <1> DEFINE t == r[off + Len(s) + 1]
  <1>2. off + Len(s) + 1 \in 1 .. Len(r)
    BY <1>1
  <1>3. t \in T
    BY <1>2
  <1> HIDE DEF t
  <1>4. /\ Append(s, t) \in Seq(T) /\ Len(Append(s, t)) = Len(s) + 1
        /\ \A i \in 1 .. Len(s) : Append(s, t)[i] = s[i]
        /\ Append(s, t)[Len(s) + 1] = t
    BY <1>3, AppendProperties
  <1>5. \A i \in 1 .. Len(s) + 1 : i \in 1 .. Len(s) \/ i = Len(s) + 1
    BY <1>1
  <1>6. off + (Len(s) + 1) = off + Len(s) + 1
    BY <1>1
  <1>7. \A i \in 1 .. Len(s) + 1 : Append(s, t)[i] = r[off + i]
    BY <1>4, <1>5, <1>6 DEF At, t
  <1>8. At(Append(s, t), r, off)
    BY <1>1, <1>4, <1>7 DEF At
  <1> QED
    BY <1>4, <1>8 DEF t

\* A segment as long as the whole is the whole.
LEMMA AtWhole ==
    ASSUME NEW T, NEW s \in Seq(T), NEW r \in Seq(T), At(s, r, 0), Len(s) = Len(r)
    PROVE  s = r
  <1>1. \A i \in 1 .. Len(s) : s[i] = r[i]
    BY DEF At
  <1> QED
    BY <1>1, SeqEqual

\* Where nothing is left of the whole there is nothing.
LEMMA AtEnd ==
    ASSUME NEW T, NEW s \in Seq(T), NEW r \in Seq(T), NEW off \in Nat,
           At(s, r, off), off >= Len(r)
    PROVE  s = <<>> /\ Len(s) = 0
  <1>1. Len(s) \in Nat /\ Len(r) \in Nat
    OBVIOUS
  <1> QED
    BY <1>1, EmptySeq DEF At

-----------------------------------------------------------------------------
(* Requests and answers *)

\* The meanings a token may have.
LEMMA NamesAre ==
    /\ Commands \subseteq Names
    /\ {"A", "E", "text", "xlen", "xtext", "arg", "bus", "chan", "tgt", "lun"}
           \subseteq Names
    /\ {"size", "flags", "cdb_len", "sense_len", "timeout", "cdb", "data"}
           \subseteq Names
    /\ {"error", "errno", "scb", "sense_count", "sense", "in", "str"} \subseteq Names
  BY DEF Names

\* A token.
LEMMA OneToken ==
    ASSUME NEW t \in {"cmd", "line", "byte"}, NEW op \in Names, NEW n \in Int
    PROVE  /\ Tok(t, op, n) \in Token /\ Tok(t, op, n).t = t
           /\ Tok(t, op, n).op = op /\ Tok(t, op, n).n = n
  BY DEF Tok, Token

\* A line is a token.
LEMMA OneLine ==
    ASSUME NEW op \in Names, NEW n \in Int
    PROVE  /\ Line(op, n) \in Token /\ Line(op, n).op = op /\ Line(op, n).n = n
  BY OneToken DEF Line

\* n units of bytes are n tokens.
LEMMA BytesAre ==
    ASSUME NEW op \in Names, NEW n \in Nat
    PROVE  /\ Bytes(op, n) \in Tokens /\ Len(Bytes(op, n)) = n
           /\ \A i \in 1 .. n : Bytes(op, n)[i] = Tok("byte", op, i)
  <1>1. \A i \in 1 .. n : Tok("byte", op, i) \in Token
    BY OneToken
  <1> QED
    BY <1>1 DEF Bytes, Tokens

\* The values of tokens are natural numbers.
Counted(s) == \A i \in 1 .. Len(s) : s[i].n \in Nat

\* Tokens behind tokens.
LEMMA Behind ==
    ASSUME NEW s \in Tokens, NEW u \in Tokens, NEW l \in Nat, Len(s) = l,
           NEW m \in Nat, Len(u) = m
    PROVE  /\ s \o u \in Tokens /\ Len(s \o u) = l + m
           /\ \A i \in 1 .. l : (s \o u)[i] = s[i]
           /\ \A i \in 1 .. m : (s \o u)[l + i] = u[i]
           /\ Counted(s) /\ Counted(u) => Counted(s \o u)
  <1> DEFINE z == s \o u
  <1>1. /\ z \in Seq(Token) /\ Len(z) = Len(s) + Len(u)
        /\ \A i \in 1 .. Len(s) + Len(u) :
              z[i] = IF i <= Len(s) THEN s[i] ELSE u[i - Len(s)]
    BY ConcatProperties DEF Tokens
  <1> HIDE DEF z
  <1>2. \A i \in 1 .. l : z[i] = s[i]
    BY <1>1
  <1>3. \A i \in 1 .. m : z[l + i] = u[i]
    <2>1. \A i \in 1 .. m : l + i \in 1 .. l + m /\ ~(l + i <= l) /\ (l + i) - l = i
      OBVIOUS
    <2> QED
      BY <1>1, <2>1
  <1>6. z \in Tokens /\ Len(z) = l + m
    BY <1>1 DEF Tokens
  <1>7. ASSUME Counted(s), Counted(u), NEW i \in 1 .. l + m PROVE z[i].n \in Nat
    <2>1. CASE i <= l
      BY <1>2, <1>7, <2>1 DEF Counted
    <2>2. CASE ~(i <= l)
      <3>1. i - l \in 1 .. m /\ l + (i - l) = i
        BY <2>2
      <3> QED
        BY <1>3, <1>7, <3>1 DEF Counted
    <2> QED
      BY <2>1, <2>2
  <1>8. Counted(s) /\ Counted(u) => Counted(z)
    BY <1>6, <1>7 DEF Counted
  <1> QED
    BY <1>2, <1>3, <1>6, <1>8 DEF z

\* The lines of a request, and what the server makes of them.
LEMMA ArgumentsShape ==
    ASSUME NEW c \in Calls
    PROVE  LET a == Arguments(c) IN
           /\ a \in Tokens /\ Len(a) = Lines(c.op)
           /\ Counted(a)
           /\ c.op = "S" => /\ a[1].n = c.out + c.in /\ a[3].n = c.cdb
                            /\ a[2].n = IF c.in > 0 THEN 1 ELSE 0
  <1>0. /\ c.op \in Commands /\ c.n \in Nat /\ c.cdb \in Nat /\ c.out \in Nat /\ c.in \in Nat
        /\ c.out + c.in \in Nat
    BY DEF Calls
  <1> DEFINE f == IF c.in > 0 THEN 1 ELSE 0
  <1>f. f \in Nat
    OBVIOUS
  <1> HIDE DEF f
  <1> DEFINE OK(l, n) == l \in Token /\ l.n = n /\ n \in Nat
  <1>1. CASE c.op = "S"
    <2> DEFINE l1 == Line("size", c.out + c.in)
               l2 == Line("flags", f)
               l3 == Line("cdb_len", c.cdb)
               l4 == Line("sense_len", 0)
               l5 == Line("timeout", 0)
    <2>0. Arguments(c) = <<l1, l2, l3, l4, l5>> /\ Lines(c.op) = 5
      BY <1>1 DEF Arguments, Lines, f
    <2>1. OK(l1, c.out + c.in)
      BY <1>0, NamesAre, OneLine
    <2>2. OK(l2, f)
      BY <1>f, NamesAre, OneLine
    <2>3. OK(l3, c.cdb)
      BY <1>0, NamesAre, OneLine
    <2>4. OK(l4, 0)
      BY NamesAre, OneLine
    <2>5. OK(l5, 0)
      BY NamesAre, OneLine
    <2> HIDE DEF l1, l2, l3, l4, l5
    <2> QED
      BY <2>0, <2>1, <2>2, <2>3, <2>4, <2>5 DEF f, Tokens, Counted
  <1>2. CASE c.op = "T"
    <2> DEFINE l1 == Line("bus", 0)
               l2 == Line("chan", 0)
               l3 == Line("tgt", c.n)
               l4 == Line("lun", 0)
    <2>0. Arguments(c) = <<l1, l2, l3, l4>> /\ Lines(c.op) = 4 /\ c.op # "S"
      BY <1>2 DEF Arguments, Lines
    <2>1. OK(l1, 0)
      BY NamesAre, OneLine
    <2>2. OK(l2, 0)
      BY NamesAre, OneLine
    <2>3. OK(l3, c.n)
      BY <1>0, NamesAre, OneLine
    <2>4. OK(l4, 0)
      BY NamesAre, OneLine
    <2> HIDE DEF l1, l2, l3, l4
    <2> QED
      BY <2>0, <2>1, <2>2, <2>3, <2>4 DEF Tokens, Counted
  <1>3. CASE c.op = "B"
    <2> DEFINE l1 == Line("bus", c.n)
               l2 == Line("chan", 0)
    <2>0. Arguments(c) = <<l1, l2>> /\ Lines(c.op) = 2 /\ c.op # "S"
      BY <1>3 DEF Arguments, Lines
    <2>1. OK(l1, c.n)
      BY <1>0, NamesAre, OneLine
    <2>2. OK(l2, 0)
      BY NamesAre, OneLine
    <2> HIDE DEF l1, l2
    <2> QED
      BY <2>0, <2>1, <2>2 DEF Tokens, Counted
  <1>4. CASE c.op \notin {"S", "T", "B"}
    <2> DEFINE l1 == Line("arg", c.n)
    <2>0. Arguments(c) = <<l1>> /\ Lines(c.op) = 1 /\ c.op # "S"
      BY <1>4 DEF Arguments, Lines
    <2>1. OK(l1, c.n)
      BY <1>0, NamesAre, OneLine
    <2> HIDE DEF l1
    <2> QED
      BY <2>0, <2>1 DEF Tokens, Counted
  <1> QED
    BY <1>1, <1>2, <1>3, <1>4

\* Units of bytes.
LEMMA ManyBytes ==
    ASSUME NEW op \in Names, NEW n \in Nat
    PROVE  /\ Bytes(op, n) \in Tokens /\ Len(Bytes(op, n)) = n
           /\ Counted(Bytes(op, n))
  <1>1. \A i \in 1 .. n : Tok("byte", op, i).n \in Nat
    BY OneToken
  <1> QED
    BY <1>1, BytesAre DEF Counted

\* A request begins with the character of its command; its lines say how many raw
\* bytes follow, when the command moves its data one way.
LEMMA RequestShape ==
    ASSUME NEW c \in Calls
    PROVE  LET r == Request(c) IN
           /\ r \in Tokens /\ r[1] = Tok("cmd", c.op, 0)
           /\ Len(r) >= 1 + Lines(c.op) /\ Lines(c.op) \in Nat /\ Lines(c.op) >= 1
           /\ Counted(r)
           /\ c.op # "S" => Len(r) = 1 + Lines(c.op)
           /\ c.op = "S" =>
                 /\ Lines(c.op) = 5
                 /\ r[2].n = c.out + c.in /\ r[4].n = c.cdb
                 /\ r[3].n = IF c.in > 0 THEN 1 ELSE 0
                 /\ Len(r) = 6 + r[4].n + IF r[3].n = 0 THEN r[2].n ELSE 0
  <1>0. /\ c.op \in Commands /\ c.n \in Nat /\ c.cdb \in Nat /\ c.out \in Nat /\ c.in \in Nat
        /\ c.out = 0 \/ c.in = 0
    BY DEF Calls
  <1> DEFINE a == Arguments(c)
             h == <<Tok("cmd", c.op, 0)>>
             s == h \o a
             l == Lines(c.op)
  <1>1. /\ a \in Tokens /\ Len(a) = l
        /\ Counted(a)
        /\ c.op = "S" => /\ a[1].n = c.out + c.in /\ a[3].n = c.cdb
                         /\ a[2].n = IF c.in > 0 THEN 1 ELSE 0
    BY ArgumentsShape
  <1>2. l \in Nat /\ l >= 1 /\ (c.op = "S" => l = 5)
    BY DEF Lines
  <1>3. Tok("cmd", c.op, 0) \in Token /\ Tok("cmd", c.op, 0).n = 0
    BY <1>0, NamesAre, OneToken
  <1>4. h \in Tokens /\ Len(h) = 1 /\ h[1] = Tok("cmd", c.op, 0) /\ h[1].n = 0
    BY <1>3 DEF Tokens
  <1> HIDE DEF a, h, l
  <1>5. /\ s \in Tokens /\ Len(s) = 1 + l /\ s[1] = h[1]
        /\ \A i \in 1 .. l : s[1 + i] = a[i]
        /\ Counted(s)
    <2>1. Counted(h)
      BY <1>4 DEF Counted
    <2>2. /\ s \in Tokens /\ Len(s) = 1 + l
          /\ \A i \in 1 .. 1 : s[i] = h[i]
          /\ \A i \in 1 .. l : s[1 + i] = a[i]
          /\ Counted(h) /\ Counted(a) => Counted(s)
      <3>1. Len(h) = 1 /\ Len(a) = l
        BY <1>1, <1>4
      <3> QED
        BY <1>1, <1>2, <1>4, <3>1, Behind
    <2> QED
      BY <1>1, <2>1, <2>2
  <1> HIDE DEF s
  <1>8. CASE c.op # "S"
    <2>1. Request(c) = s \o <<>>
      BY <1>8 DEF Request, s, h, a
    <2>2. Request(c) = s
      BY <1>5, <2>1, ConcatEmptySeq DEF Tokens
    <2> QED
      BY <1>2, <1>4, <1>5, <1>8, <2>2 DEF l
  <1>9. CASE c.op = "S"
    <2> DEFINE y == Bytes("cdb", c.cdb)
               x == Bytes("data", c.out)
               w == y \o x
               r == s \o w
    <2>1. Request(c) = r
      BY <1>9 DEF Request, s, h, a
    <2>2. /\ y \in Tokens /\ Len(y) = c.cdb /\ Counted(y)
          /\ x \in Tokens /\ Len(x) = c.out /\ Counted(x)
      BY <1>0, NamesAre, ManyBytes
    <2> HIDE DEF y, x
    <2>3. /\ w \in Tokens /\ Len(w) = c.cdb + c.out
          /\ Counted(w)
      BY <1>0, <2>2, Behind
    <2> HIDE DEF w
    <2> DEFINE m == c.cdb + c.out
    <2>m. m \in Nat
      BY <1>0
    <2>6. l = 5 /\ Len(s) = 6
      BY <1>2, <1>5, <1>9
    <2>7. /\ r \in Tokens /\ Len(r) = 6 + m
          /\ \A i \in 1 .. 6 : r[i] = s[i]
          /\ Counted(r)
      <3> DEFINE k == 6
      <3> HIDE DEF m
      <3>1. w \in Tokens /\ Len(w) = m /\ s \in Tokens /\ Len(s) = k /\ k \in Nat
        BY <1>5, <2>3, <2>6 DEF m
      <3> HIDE DEF k
      <3>2. /\ r \in Tokens /\ Len(r) = k + m
            /\ \A i \in 1 .. k : r[i] = s[i]
            /\ Counted(s) /\ Counted(w) => Counted(r)
        BY <2>m, <3>1, Behind
      <3> QED
        BY <1>5, <2>3, <3>2 DEF k
    <2> HIDE DEF r
    <2>9. /\ r[1] = s[1] /\ r[2] = a[1] /\ r[3] = a[2] /\ r[4] = a[3]
      BY <1>5, <2>6, <2>7
    <2>10. /\ r[2].n = c.out + c.in /\ r[4].n = c.cdb
           /\ r[3].n = IF c.in > 0 THEN 1 ELSE 0
      BY <1>1, <1>9, <2>9
    <2>11. Len(r) = 6 + r[4].n + IF r[3].n = 0 THEN r[2].n ELSE 0
      BY <1>0, <2>7, <2>10
    <2> QED
      BY <1>4, <1>5, <1>9, <2>1, <2>6, <2>m, <2>7, <2>9, <2>10, <2>11 DEF l
  <1> QED
    BY <1>8, <1>9

-----------------------------------------------------------------------------
(* What of the call in progress is where *)

\* What the server has heard of a request it has not handled, and the client
\* read of an answer it has not returned.
Heard == IF spc \in {"lines", "look", "bytes", "do"} THEN heard ELSE <<>>
Read == IF cpc \in {"lines", "elines", "bytes", "ebytes"} THEN read ELSE <<>>

\* The request that may be under way, and the answer that may be.
Asking == \/ Len(handled) < Len(results)
          \/ Len(handled) = Len(results) /\ cpc \in {"send", "status"}
Asked == IF Asking THEN Request(script[Len(handled) + 1]) ELSE <<>>
Giving == Len(handled) > Len(results)
Given == IF Giving THEN answers[Len(results) + 1] ELSE <<>>

Typed ==
    /\ RmTypeOK
    /\ script \in Seq(Calls)
    /\ results \in Seq([ok : BOOLEAN, answer : Tokens, lost : BOOLEAN])
    /\ handled \in Seq(Tokens) /\ answers \in Seq(Tokens)

\* The server is at most one request ahead of the results, and that only while
\* the client waits for its answer; as long as the connection is up it is not
\* behind them either.
Places ==
    /\ Len(results) <= Len(script)
    /\ cpc \notin {"idle", "gone"} => Len(results) < Len(script)
    /\ Len(answers) = Len(handled)
    /\ Len(handled) <= Len(results) + 1
    /\ cpc \in {"idle", "send", "gone"} => Len(handled) <= Len(results)
    /\ up => Len(handled) >= Len(results)
    /\ up => cpc # "gone" /\ spc \notin {"last", "gone"}

\* The request is cut into the part the server has taken, its buffer, the
\* connection, and what the client has still to write.
OnTheWay ==
    /\ At(Heard, Asked, 0)
    /\ At(sbuf, Asked, Len(Heard))
    /\ At(c2s, Asked, Len(Heard) + Len(sbuf))
    /\ Len(handled) = Len(results) =>
          Len(Heard) + Len(sbuf) + Len(c2s) + Len(crest) <= Len(Asked)
    /\ up => /\ At(crest, Asked, Len(Heard) + Len(sbuf) + Len(c2s))
             /\ Len(Heard) + Len(sbuf) + Len(c2s) + Len(crest) = Len(Asked)
    /\ cpc = "send" => Len(crest) <= Len(Request(Current))

\* The answer, likewise.
OnTheWayBack ==
    /\ At(Read, Given, 0)
    /\ At(cbuf, Given, Len(Read))
    /\ At(s2c, Given, Len(Read) + Len(cbuf))
    /\ up => /\ At(srest, Given, Len(Read) + Len(cbuf) + Len(s2c))
             /\ Len(Read) + Len(cbuf) + Len(s2c) + Len(srest) = Len(Given)
             /\ spc # "answer" => srest = <<>>
             /\ spc = "answer" => srest # <<>>
    /\ cpc \in {"send", "status"} => read = <<>>

\* How far the server is in a request ...
Parsing ==
    LET c == script[Len(handled) + 1] IN
    /\ spc \in {"lines", "look", "bytes", "do"} => sop = c.op /\ Len(heard) >= 1
    /\ spc = "lines" => sleft >= 1 /\ Len(heard) + sleft = 1 + Lines(c.op)
    /\ spc = "look" => Len(heard) = 1 + Lines(c.op)
    /\ spc = "bytes" => sleft >= 1 /\ Len(heard) + sleft = Len(Request(c))
                        /\ sop = "S" /\ Len(heard) >= 6
    /\ spc = "do" => Len(heard) = Len(Request(c))

\* ... and the client in an answer.
Understanding ==
    LET c == script[Len(results) + 1] IN
    /\ cpc \in {"lines", "bytes"} => read[1].op = "A"
    /\ cpc \in {"elines", "ebytes"} => read[1].op = "E"
    /\ cpc \in {"lines", "elines", "bytes", "ebytes"} => Len(read) >= 1 /\ cleft >= 1
    /\ cpc = "lines" => MoreLines(c) > 0 /\ Len(read) + cleft = 1 + MoreLines(c)
    /\ cpc = "elines" => Len(read) + cleft = 3
    /\ cpc \in {"bytes", "ebytes"} => Len(read) + cleft = Len(Given)

\* An answer is as long as its lines say.
Shaped(c, a) ==
    \/ /\ Len(a) >= 3 /\ a[1].op = "E" /\ a[3].n >= 0 /\ Len(a) = 3 + a[3].n
    \/ /\ Len(a) >= 1 + MoreLines(c) /\ a[1].op = "A"
       /\ AnswerBytes(c, a) >= 0 /\ Len(a) = 1 + MoreLines(c) + AnswerBytes(c, a)

WellShaped == \A j \in DOMAIN answers : Shaped(script[j], answers[j])

CallInv ==
    /\ Typed /\ Places /\ OnTheWay /\ OnTheWayBack
    /\ Parsing /\ Understanding /\ WellShaped

-----------------------------------------------------------------------------
(* Answers *)

\* An answer the client understands.
Proper(c, a) == a \in Tokens /\ a # <<>> /\ Shaped(c, a)

\* The answer of a handler that failed.
LEMMA ErrorProper ==
    ASSUME NEW c, NEW x \in Nat
    PROVE  Proper(c, Error(x))
  <1> DEFINE l1 == Line("E", 0)
             l2 == Line("text", 0)
             l3 == Line("xlen", x)
             s == <<l1, l2, l3>>
             u == Bytes("xtext", x)
             a == s \o u
             k == 3
  <1>1. l1 \in Token /\ l1.op = "E" /\ l2 \in Token /\ l3 \in Token /\ l3.n = x
    BY NamesAre, OneLine
  <1>2. u \in Tokens /\ Len(u) = x
    BY NamesAre, ManyBytes
  <1> HIDE DEF l1, l2, l3, u
  <1>3. s \in Tokens /\ Len(s) = k /\ k \in Nat /\ s[1] = l1 /\ s[3] = l3
    BY <1>1 DEF Tokens
  <1> HIDE DEF s, k
  <1>4. a \in Tokens /\ Len(a) = k + x /\ \A i \in 1 .. k : a[i] = s[i]
    BY <1>2, <1>3, Behind
  <1> HIDE DEF a
  <1>5. a \in Tokens /\ Len(a) = 3 + x /\ a[1] = l1 /\ a[3] = l3
    BY <1>3, <1>4 DEF k
  <1>6. Error(x) = a
    BY DEF Error, a, s, u, l1, l2, l3
  <1>7. Shaped(c, a)
    BY <1>1, <1>5 DEF Shaped
  <1>8. a # <<>>
    BY <1>5
  <1> QED
    BY <1>5, <1>6, <1>7, <1>8 DEF Proper

\* The answer of one line.
LEMMA PlainProper ==
    ASSUME NEW c \in Calls, c.op \notin {"S", "O", "V"}, NEW n \in Int
    PROVE  Proper(c, <<Line("A", n)>>)
  <1> DEFINE l1 == Line("A", n)
             a == <<l1>>
  <1>1. l1 \in Token /\ l1.op = "A"
    BY NamesAre, OneLine
  <1> HIDE DEF l1
  <1>2. a \in Tokens /\ Len(a) = 1 /\ a[1] = l1 /\ a # <<>>
    BY <1>1 DEF Tokens
  <1> HIDE DEF a
  <1>3. MoreLines(c) = 0 /\ AnswerBytes(c, a) = 0
    BY DEF MoreLines, AnswerBytes
  <1>4. Shaped(c, a)
    BY <1>1, <1>2, <1>3 DEF Shaped
  <1> QED
    BY <1>2, <1>4 DEF Proper, a, l1

\* The answer to "V", with the text it tells.
LEMMA VersionProper ==
    ASSUME NEW c \in Calls, c.op = "V"
    PROVE  Proper(c, <<Line("A", 1)>> \o Bytes("str", 1))
  <1> DEFINE l1 == Line("A", 1)
             s == <<l1>>
             u == Bytes("str", 1)
             a == s \o u
             k == 1
  <1>1. l1 \in Token /\ l1.op = "A" /\ l1.n = 1
    BY NamesAre, OneLine
  <1>2. u \in Tokens /\ Len(u) = k /\ k \in Nat
    BY NamesAre, ManyBytes
  <1> HIDE DEF l1, u
  <1>3. s \in Tokens /\ Len(s) = k /\ s[1] = l1
    BY <1>1 DEF Tokens
  <1> HIDE DEF s, k
  <1>4. a \in Tokens /\ Len(a) = k + k /\ \A i \in 1 .. k : a[i] = s[i]
    BY <1>2, <1>3, Behind
  <1> HIDE DEF a
  <1>5. a \in Tokens /\ Len(a) = 2 /\ a[1] = l1 /\ a # <<>>
    BY <1>3, <1>4 DEF k
  <1>6. MoreLines(c) = 0 /\ AnswerBytes(c, a) = 1
    BY <1>1, <1>5 DEF MoreLines, AnswerBytes
  <1>7. Shaped(c, a)
    BY <1>1, <1>5, <1>6 DEF Shaped
  <1> QED
    BY <1>5, <1>7 DEF Proper, a, s, u, l1

\* The answer to "O", with the address that was opened.
LEMMA OpenProper ==
    ASSUME NEW c \in Calls, c.op = "O"
    PROVE  Proper(c, <<Line("A", 0), Line("bus", 0), Line("chan", 0), Line("tgt", 0),
                       Line("lun", 0)>>)
  <1> DEFINE l1 == Line("A", 0)
             l2 == Line("bus", 0)
             l3 == Line("chan", 0)
             l4 == Line("tgt", 0)
             l5 == Line("lun", 0)
             a == <<l1, l2, l3, l4, l5>>
  <1>1. l1 \in Token /\ l1.op = "A" /\ l2 \in Token /\ l3 \in Token /\ l4 \in Token
        /\ l5 \in Token
    BY NamesAre, OneLine
  <1> HIDE DEF l1, l2, l3, l4, l5
  <1>2. a \in Tokens /\ Len(a) = 5 /\ a[1] = l1 /\ a # <<>>
    BY <1>1 DEF Tokens
  <1> HIDE DEF a
  <1>3. MoreLines(c) = 4 /\ AnswerBytes(c, a) = 0
    BY DEF MoreLines, AnswerBytes
  <1>4. Shaped(c, a)
    BY <1>1, <1>2, <1>3 DEF Shaped
  <1> QED
    BY <1>2, <1>4 DEF Proper, a, l1, l2, l3, l4, l5

\* The answer to a SCSI command: the data are there when the client waits for them.
LEMMA ReplyProper ==
    ASSUME NEW c \in Calls, c.op = "S", Arg(2) = IF c.in > 0 THEN 1 ELSE 0,
           NEW n \in Nat, NEW sense \in Nat
    PROVE  Proper(c, Reply(n, sense))
  <1> DEFINE l1 == Line("A", n)
             l2 == Line("error", 0)
             l3 == Line("errno", 0)
             l4 == Line("scb", 0)
             l5 == Line("sense_count", sense)
             s == <<l1, l2, l3, l4, l5>>
             u == Bytes("sense", sense)
             d == IF Arg(2) = 1 THEN Bytes("in", n) ELSE <<>>
             m == IF c.in > 0 THEN n ELSE 0
             k == 5
             z == s \o u
             a == z \o d
  <1>0. c.in \in Nat
    BY DEF Calls
  <1>1. l1 \in Token /\ l1.op = "A" /\ l1.n = n /\ l2 \in Token /\ l3 \in Token
        /\ l4 \in Token /\ l5 \in Token /\ l5.n = sense
    BY NamesAre, OneLine
  <1>2. u \in Tokens /\ Len(u) = sense
    BY NamesAre, ManyBytes
  <1>3. d \in Tokens /\ Len(d) = m /\ m \in Nat
    <2>1. CASE c.in > 0
      <3>1. Bytes("in", n) \in Tokens /\ Len(Bytes("in", n)) = n
        BY NamesAre, ManyBytes
      <3> QED
        BY <2>1, <3>1
    <2>2. CASE ~(c.in > 0)
      <3>1. d = <<>> /\ m = 0
        BY <2>2
      <3> HIDE DEF d, m
      <3> QED
        BY <3>1 DEF Tokens
    <2> QED
      BY <2>1, <2>2
  <1> HIDE DEF l1, l2, l3, l4, l5, u, d
  <1>4. s \in Tokens /\ Len(s) = k /\ k \in Nat /\ s[1] = l1 /\ s[5] = l5
    BY <1>1 DEF Tokens
  <1> HIDE DEF s, k
  <1>5. z \in Tokens /\ Len(z) = k + sense /\ \A i \in 1 .. k : z[i] = s[i]
    BY <1>2, <1>4, Behind
  <1> HIDE DEF z, m
  <1> DEFINE l == k + sense
  <1>6. l \in Nat /\ Len(z) = l
    BY <1>4, <1>5
  <1> HIDE DEF l
  <1>7. a \in Tokens /\ Len(a) = l + m /\ \A i \in 1 .. l : a[i] = z[i]
    BY <1>3, <1>5, <1>6, Behind
  <1> HIDE DEF a
  <1>8. a \in Tokens /\ Len(a) = 5 + sense + m /\ a[1] = l1 /\ a[5] = l5 /\ a # <<>>
    <2>1. 1 \in 1 .. l /\ 5 \in 1 .. l /\ 1 \in 1 .. k /\ 5 \in 1 .. k /\ l + m # 0
      BY <1>3, <1>4 DEF k, l
    <2>2. a[1] = s[1] /\ a[5] = s[5]
      BY <1>5, <1>7, <2>1
    <2> QED
      BY <1>4, <1>7, <2>1, <2>2 DEF k, l
  <1>9. MoreLines(c) = 4 /\ AnswerBytes(c, a) = sense + m /\ sense + m \in Nat
    BY <1>1, <1>3, <1>8 DEF MoreLines, AnswerBytes, m
  <1>10. Shaped(c, a)
    BY <1>1, <1>3, <1>8, <1>9 DEF Shaped
  <1>11. Reply(n, sense) = a
    BY DEF Reply, a, z, d, u, s, l1, l2, l3, l4, l5
  <1> QED
    BY <1>8, <1>10, <1>11 DEF Proper

-----------------------------------------------------------------------------
(* Where the two sides are *)

\* The types, one by one.
LEMMA Types ==
    ASSUME Typed
    PROVE  /\ crest \in Tokens /\ srest \in Tokens /\ cbuf \in Tokens /\ sbuf \in Tokens
           /\ read \in Tokens /\ heard \in Tokens /\ c2s \in Tokens /\ s2c \in Tokens
           /\ Heard \in Tokens /\ Read \in Tokens
           /\ cleft \in Nat /\ sleft \in Nat /\ bufsize \in Nat /\ buf \in Nat
           /\ sop \in Commands /\ up \in BOOLEAN /\ device \in BOOLEAN
           /\ Len(script) \in Nat /\ Len(results) \in Nat
           /\ Len(handled) \in Nat /\ Len(answers) \in Nat
           /\ \A j \in 1 .. Len(script) : script[j] \in Calls
           /\ \A j \in 1 .. Len(answers) : answers[j] \in Tokens
           /\ Len(crest) \in Nat /\ Len(srest) \in Nat /\ Len(cbuf) \in Nat
           /\ Len(sbuf) \in Nat /\ Len(read) \in Nat /\ Len(heard) \in Nat
           /\ Len(c2s) \in Nat /\ Len(s2c) \in Nat /\ Len(Heard) \in Nat
           /\ Len(Read) \in Nat
  <1>1. /\ crest \in Tokens /\ srest \in Tokens /\ cbuf \in Tokens /\ sbuf \in Tokens
        /\ read \in Tokens /\ heard \in Tokens /\ c2s \in Tokens /\ s2c \in Tokens
    BY DEF Typed, RmTypeOK
  <1>2. /\ cleft \in Nat /\ sleft \in Nat /\ bufsize \in Nat /\ buf \in Nat
        /\ sop \in Commands /\ up \in BOOLEAN /\ device \in BOOLEAN
    BY DEF Typed, RmTypeOK
  <1>3. <<>> \in Tokens
    BY DEF Tokens
  <1>4. Heard \in Tokens /\ Read \in Tokens
    BY <1>1, <1>3 DEF Heard, Read
  <1>5. /\ \A j \in 1 .. Len(script) : script[j] \in Calls
        /\ \A j \in 1 .. Len(answers) : answers[j] \in Tokens
        /\ Len(script) \in Nat /\ Len(results) \in Nat
        /\ Len(handled) \in Nat /\ Len(answers) \in Nat
    <2> HIDE DEF Tokens, Calls
    <2> QED
      BY DEF Typed
  <1>6. \A s \in Tokens : Len(s) \in Nat
    BY DEF Tokens
  <1> QED
    BY <1>1, <1>2, <1>4, <1>5, <1>6

\* A request that is under way is the next one of the program.
LEMMA TheRequest ==
    ASSUME Typed, Places
    PROVE  /\ Asked \in Tokens /\ Len(Asked) \in Nat
           /\ ~Asking => Asked = <<>> /\ Len(Asked) = 0
           /\ Asking => /\ Len(handled) + 1 \in 1 .. Len(script)
                        /\ script[Len(handled) + 1] \in Calls
                        /\ Asked = Request(script[Len(handled) + 1])
                        /\ Len(handled) <= Len(results)
                        /\ ~Giving
  <1> DEFINE h == Len(handled)
  <1>1. Len(script) \in Nat /\ h \in Nat /\ Len(results) \in Nat
        /\ \A j \in 1 .. Len(script) : script[j] \in Calls
    BY Types
  <1>2. <<>> \in Tokens /\ Len(<<>>) = 0
    BY DEF Tokens
  <1>3. ASSUME Asking PROVE h + 1 \in 1 .. Len(script) /\ h <= Len(results) /\ ~Giving
    BY <1>1, <1>3 DEF Asking, Giving, Places
  <1>4. ASSUME Asking PROVE Asked \in Tokens
    <2>1. script[h + 1] \in Calls
      BY <1>1, <1>3, <1>4
    <2> QED
      BY <1>4, <2>1, RequestShape DEF Asked
  <1>5. Asked \in Tokens
    BY <1>2, <1>4 DEF Asked
  <1>6. \A s \in Tokens : Len(s) \in Nat
    BY DEF Tokens
  <1> QED
    BY <1>1, <1>2, <1>3, <1>5, <1>6 DEF Asked

\* An answer that is under way is the answer to the call in progress.
LEMMA TheAnswer ==
    ASSUME Typed, Places, WellShaped
    PROVE  /\ Given \in Tokens /\ Len(Given) \in Nat
           /\ ~Giving => Given = <<>> /\ Len(Given) = 0
           /\ Giving => /\ Len(handled) = Len(results) + 1
                        /\ Len(results) + 1 \in 1 .. Len(script)
                        /\ Len(results) + 1 \in 1 .. Len(answers)
                        /\ Current \in Calls
                        /\ Given = answers[Len(results) + 1]
                        /\ Shaped(Current, Given)
                        /\ ~Asking
  <1> DEFINE k == Len(results)
  <1>1. Len(script) \in Nat /\ Len(handled) \in Nat /\ k \in Nat /\ Len(answers) \in Nat
        /\ (\A j \in 1 .. Len(script) : script[j] \in Calls)
        /\ (\A j \in 1 .. Len(answers) : answers[j] \in Tokens)
    BY Types
  <1>2. <<>> \in Tokens /\ Len(<<>>) = 0
    BY DEF Tokens
  <1>3. \A s \in Tokens : Len(s) \in Nat
    BY DEF Tokens
  <1>4. ASSUME Giving PROVE /\ Len(handled) = k + 1 /\ k < Len(script)
                            /\ Len(answers) = k + 1 /\ ~Asking
    BY <1>1, <1>4 DEF Giving, Asking, Places
  <1>5. ASSUME Giving
        PROVE  /\ Given = answers[k + 1] /\ answers[k + 1] \in Tokens
               /\ Current \in Calls /\ Shaped(Current, Given)
    <2>1. k + 1 \in 1 .. Len(answers) /\ k + 1 \in 1 .. Len(script)
      BY <1>1, <1>4, <1>5
    <2>2. DOMAIN answers = 1 .. Len(answers)
      BY DEF Typed
    <2>3. Shaped(script[k + 1], answers[k + 1])
      BY <2>1, <2>2 DEF WellShaped
    <2> QED
      BY <1>1, <1>5, <2>1, <2>3 DEF Given, Current
  <1>6. Given \in Tokens
    BY <1>2, <1>5 DEF Given
  <1> QED
    BY <1>1, <1>2, <1>3, <1>4, <1>5, <1>6 DEF Given

\* Where nothing is asked the server and the connection to it have nothing of it.
LEMMA NothingAsked ==
    ASSUME Typed, Places, OnTheWay, Parsing, ~Asking
    PROVE  Heard = <<>> /\ sbuf = <<>> /\ c2s = <<>>
           /\ spc \notin {"lines", "look", "bytes", "do"}
           /\ (up => crest = <<>>)
  <1>1. Asked = <<>> /\ Len(Asked) = 0
    BY TheRequest
  <1>2. /\ Heard \in Tokens /\ sbuf \in Tokens /\ c2s \in Tokens /\ crest \in Tokens
        /\ Len(Heard) \in Nat /\ Len(sbuf) \in Nat /\ Len(c2s) \in Nat /\ Len(crest) \in Nat
    BY Types
  <1>3. Len(Heard) = 0 /\ Len(sbuf) = 0 /\ Len(c2s) = 0 /\ (up => Len(crest) = 0)
    BY <1>1, <1>2 DEF OnTheWay, At
  <1>4. \A s \in Tokens : Len(s) = 0 => s = <<>>
    BY EmptySeq DEF Tokens
  <1>5. Heard = <<>> /\ sbuf = <<>> /\ c2s = <<>> /\ (up => crest = <<>>)
    BY <1>2, <1>3, <1>4
  <1>6. spc \notin {"lines", "look", "bytes", "do"}
    <2> SUFFICES ASSUME spc \in {"lines", "look", "bytes", "do"} PROVE FALSE
      OBVIOUS
    <2>1. Heard = heard /\ Len(heard) = 0
      BY <1>3 DEF Heard
    <2> QED
      BY <2>1 DEF Parsing
  <1> QED
    BY <1>5, <1>6

\* Where no answer is given the client and the connection to it have nothing of it.
LEMMA NothingGiven ==
    ASSUME Typed, Places, OnTheWayBack, Understanding, WellShaped, ~Giving
    PROVE  Read = <<>> /\ cbuf = <<>> /\ s2c = <<>>
           /\ cpc \notin {"lines", "elines", "bytes", "ebytes"}
           /\ (up => srest = <<>> /\ spc # "answer")
  <1>1. Given = <<>> /\ Len(Given) = 0
    BY TheAnswer
  <1>2. /\ Read \in Tokens /\ cbuf \in Tokens /\ s2c \in Tokens /\ srest \in Tokens
        /\ Len(Read) \in Nat /\ Len(cbuf) \in Nat /\ Len(s2c) \in Nat /\ Len(srest) \in Nat
    BY Types
  <1>3. Len(Read) = 0 /\ Len(cbuf) = 0 /\ Len(s2c) = 0 /\ (up => Len(srest) = 0)
    BY <1>1, <1>2 DEF OnTheWayBack, At
  <1>4. \A s \in Tokens : Len(s) = 0 => s = <<>>
    BY EmptySeq DEF Tokens
  <1>5. Read = <<>> /\ cbuf = <<>> /\ s2c = <<>> /\ (up => srest = <<>>)
    BY <1>2, <1>3, <1>4
  <1>6. cpc \notin {"lines", "elines", "bytes", "ebytes"}
    BY <1>3 DEF Read, Understanding
  <1>7. up => spc # "answer"
    BY <1>5 DEF OnTheWayBack
  <1> QED
    BY <1>5, <1>6, <1>7

-----------------------------------------------------------------------------
(* The steps of the client *)

\* Nothing is a part of everything.
LEMMA Nothing ==
    /\ <<>> \in Tokens /\ Len(<<>>) = 0
    /\ \A r \in Tokens : At(<<>>, r, 0)
    /\ \A r \in Tokens : Len(r) \in Nat /\ At(r, r, 0)
  <1>1. \A r \in Tokens : Len(r) \in Nat
    BY DEF Tokens
  <1>2. <<>> \in Tokens /\ Len(<<>>) = 0
    BY DEF Tokens
  <1>3. \A r \in Tokens : At(<<>>, r, 0) /\ At(r, r, 0)
    BY <1>1 DEF At
  <1> QED
    BY <1>1, <1>2, <1>3

\* The first message of a call: the whole request is still to be written.
LEMMA CallStep ==
    ASSUME CallInv, Call
    PROVE  CallInv'
  <1> DEFINE h == Len(handled)
             k == Len(results)
             r == Request(Current)
  <1>0. Typed /\ Places /\ OnTheWay /\ OnTheWayBack /\ Parsing /\ Understanding /\ WellShaped
    BY DEF CallInv
  <1>1. /\ cpc = "idle" /\ k < Len(script) /\ crest' = r /\ read' = <<>> /\ cpc' = "send"
        /\ UNCHANGED <<script, cleft, cbuf, results, c2s, s2c, up, svars>>
    BY DEF Call
  <1>2. /\ handled' = handled /\ answers' = answers /\ heard' = heard /\ spc' = spc
        /\ sbuf' = sbuf /\ srest' = srest /\ sop' = sop /\ sleft' = sleft
        /\ bufsize' = bufsize /\ buf' = buf /\ device' = device
    BY <1>1 DEF svars, dvars
  <1>3. Current \in Calls /\ r \in Tokens /\ r # <<>> /\ h \in Nat /\ k \in Nat
        /\ Len(script) \in Nat /\ Len(r) \in Nat
    <2>1. Len(script) \in Nat /\ k \in Nat /\ h \in Nat
      BY <1>0, Types
    <2>2. Current \in Calls
      BY <1>0, <1>1, <2>1, Types DEF Current
    <2>3. r \in Tokens /\ Len(r) >= 1 + Lines(Current.op) /\ Lines(Current.op) \in Nat
      BY <2>2, RequestShape
    <2>4. Len(r) \in Nat
      BY <2>3, Nothing
    <2> QED
      BY <2>1, <2>2, <2>3, <2>4, Nothing
  <1>4. Heard' = Heard /\ Read' = Read /\ Given' = Given /\ Current' = Current
        /\ Read = <<>> /\ Read' = <<>>
    BY <1>1, <1>2 DEF Heard, Read, Given, Giving, Current
  <1>5. h <= k
    BY <1>0, <1>1 DEF Places
  <1>t. Typed'
    <2>1. crest' \in Tokens /\ read' \in Tokens
      BY <1>1, <1>3, Nothing
    <2>2. RmTypeOK'
      BY <1>0, <1>1, <1>2, <1>3, <2>1 DEF Typed, RmTypeOK
    <2> QED
      BY <1>0, <1>1, <1>2, <2>2 DEF Typed
  <1>p. Places'
    BY <1>0, <1>1, <1>2, <1>3 DEF Places
  <1>w. OnTheWay'
    <2>1. CASE h < k
      <3>1. Asked' = Asked
        BY <1>1, <1>2, <2>1 DEF Asked, Asking
      <3>2. ~up
        BY <1>0, <1>3, <2>1 DEF Places
      <3>3. h # k
        BY <1>3, <2>1
      <3> QED
        BY <1>0, <1>1, <1>2, <1>3, <1>4, <3>1, <3>2, <3>3 DEF OnTheWay
    <2>2. CASE ~(h < k)
      <3>1. h = k
        BY <1>3, <1>5, <2>2
      <3>2. ~Asking
        BY <1>1, <1>3, <3>1 DEF Asking
      <3>3. Heard = <<>> /\ sbuf = <<>> /\ c2s = <<>>
        BY <1>0, <3>2, NothingAsked
      <3>4. Asked' = r
        BY <1>1, <1>2, <3>1 DEF Asked, Asking, Current
      <3>5. /\ At(<<>>, r, 0) /\ At(r, r, 0) /\ Len(<<>>) = 0
        BY <1>3, Nothing
      <3> QED
        BY <1>1, <1>2, <1>3, <1>4, <3>3, <3>4, <3>5 DEF OnTheWay
    <2> QED
      BY <2>1, <2>2
  <1>b. OnTheWayBack'
    BY <1>0, <1>1, <1>2, <1>4 DEF OnTheWayBack
  <1>g. Parsing'
    BY <1>0, <1>1, <1>2 DEF Parsing
  <1>u. Understanding'
    BY <1>1 DEF Understanding
  <1>s. WellShaped'
    BY <1>0, <1>1, <1>2 DEF WellShaped
  <1> QED
    BY <1>t, <1>p, <1>w, <1>b, <1>g, <1>u, <1>s DEF CallInv

\* What a writer puts on the connection, and what it keeps.
LEMMA Written ==
    ASSUME NEW chan \in Tokens, Len(chan) <= Room, NEW rest \in Tokens,
           NEW r \in Tokens, NEW off \in Nat, At(chan, r, off), At(rest, r, off + Len(chan))
    PROVE  /\ Sent(chan, rest) \in Tokens /\ Unsent(chan, rest) \in Tokens
           /\ Len(Sent(chan, rest)) <= Room
           /\ Len(Sent(chan, rest)) + Len(Unsent(chan, rest)) = Len(chan) + Len(rest)
           /\ At(Sent(chan, rest), r, off)
           /\ At(Unsent(chan, rest), r, off + Len(Sent(chan, rest)))
  <1> DEFINE f == Fitting(chan, rest)
             x == SubSeq(rest, 1, f)
             y == SubSeq(rest, f + 1, Len(rest))
             z == chan \o x
  <1>1. Len(chan) \in Nat /\ Len(rest) \in Nat /\ Room \in Nat
    BY RemoteAssumption DEF Tokens
  <1>2. f \in 0 .. Len(rest) /\ Len(chan) + f <= Room
    BY <1>1 DEF Fitting, Smaller
  <1> HIDE DEF f
  <1>3. /\ x \in Seq(Token) /\ Len(x) = f /\ At(x, r, off + Len(chan))
        /\ y \in Seq(Token) /\ Len(y) = Len(rest) - f /\ At(y, r, (off + Len(chan)) + f)
    <2>1. off + Len(chan) \in Nat /\ 0 \in 0 .. Len(rest) /\ f \in 0 .. Len(rest)
          /\ Len(rest) \in f .. Len(rest) /\ f - 0 = f /\ 0 + 1 = 1
          /\ (off + Len(chan)) + 0 = off + Len(chan)
      BY <1>1, <1>2
    <2> DEFINE o == off + Len(chan)
    <2>2. o \in Nat /\ At(rest, r, o) /\ o + 0 = o /\ rest \in Seq(Token) /\ r \in Seq(Token)
      BY <2>1 DEF Tokens
    <2> HIDE DEF o
    <2>3. /\ SubSeq(rest, 0 + 1, f) \in Seq(Token) /\ Len(SubSeq(rest, 0 + 1, f)) = f - 0
          /\ At(SubSeq(rest, 0 + 1, f), r, o + 0)
      BY <2>1, <2>2, AtPart
    <2>4. /\ SubSeq(rest, f + 1, Len(rest)) \in Seq(Token)
          /\ Len(SubSeq(rest, f + 1, Len(rest))) = Len(rest) - f
          /\ At(SubSeq(rest, f + 1, Len(rest)), r, o + f)
      BY <2>1, <2>2, AtPart
    <2> QED
      BY <2>1, <2>2, <2>3, <2>4 DEF o
  <1> HIDE DEF x, y
  <1>4. z \in Seq(Token) /\ Len(z) = Len(chan) + Len(x) /\ At(z, r, off)
    BY <1>3, AtBoth DEF Tokens
  <1>5. Sent(chan, rest) = z /\ Unsent(chan, rest) = y
    BY DEF Sent, Unsent, z, x, y, f
  <1> HIDE DEF z
  <1>6. (off + Len(chan)) + f = off + Len(z)
    BY <1>1, <1>2, <1>3, <1>4
  <1>7. Len(z) <= Room /\ Len(z) + Len(y) = Len(chan) + Len(rest)
    BY <1>1, <1>2, <1>3, <1>4
  <1> QED
    BY <1>3, <1>4, <1>5, <1>6, <1>7 DEF Tokens

\* A write of the client: a part of the request goes to the connection.
LEMMA SendStep ==
    ASSUME CallInv, Send
    PROVE  CallInv'
  <1> DEFINE h == Len(handled)
             k == Len(results)
  <1>0. Typed /\ Places /\ OnTheWay /\ OnTheWayBack /\ Parsing /\ Understanding /\ WellShaped
    BY DEF CallInv
  <1>1. /\ cpc = "send" /\ cpc' = (IF crest' = <<>> THEN "status" ELSE "send")
        /\ UNCHANGED <<script, cleft, cbuf, read, results, s2c, up, svars>>
    BY DEF Send
  <1>2. /\ handled' = handled /\ answers' = answers /\ heard' = heard /\ spc' = spc
        /\ sbuf' = sbuf /\ srest' = srest /\ sop' = sop /\ sleft' = sleft
        /\ bufsize' = bufsize /\ buf' = buf /\ device' = device
    BY <1>1 DEF svars, dvars
  <1>3. Heard' = Heard /\ Read' = Read /\ Given' = Given /\ Current' = Current /\ Asked' = Asked
    BY <1>1, <1>2 DEF Heard, Read, Given, Giving, Current, Asked, Asking
  <1>4. /\ h \in Nat /\ k \in Nat /\ Len(Heard) \in Nat /\ Len(sbuf) \in Nat
        /\ Len(c2s) \in Nat /\ Len(crest) \in Nat /\ crest \in Tokens /\ c2s \in Tokens
        /\ Asked \in Tokens /\ Len(Asked) \in Nat /\ Len(c2s) <= Room /\ read \in Tokens
    BY <1>0, Types, TheRequest DEF Typed, RmTypeOK
  <1>5. Len(Request(Current)) \in Nat
    <2>1. Current \in Calls
      BY <1>0, <1>1, Types DEF Places, Current
    <2> QED
      BY <2>1, RequestShape, Nothing
  <1>6. /\ crest' \in Tokens /\ c2s' \in Tokens /\ Len(c2s') <= Room
        /\ Len(crest') \in Nat /\ Len(c2s') \in Nat
        /\ Len(c2s') + Len(crest') <= Len(c2s) + Len(crest)
        /\ Len(crest') <= Len(crest)
        /\ At(c2s', Asked, Len(Heard) + Len(sbuf))
        /\ up => /\ At(crest', Asked, Len(Heard) + Len(sbuf) + Len(c2s'))
                 /\ Len(c2s') + Len(crest') = Len(c2s) + Len(crest)
    <2>1. CASE up
      <3>1. c2s' = Sent(c2s, crest) /\ crest' = Unsent(c2s, crest)
        BY <2>1 DEF Send
      <3> DEFINE o == Len(Heard) + Len(sbuf)
      <3>2. o \in Nat /\ At(c2s, Asked, o) /\ At(crest, Asked, o + Len(c2s))
        BY <1>0, <1>4, <2>1 DEF OnTheWay
      <3> HIDE DEF o
      <3>3. /\ c2s' \in Tokens /\ crest' \in Tokens /\ Len(c2s') <= Room
            /\ Len(c2s') + Len(crest') = Len(c2s) + Len(crest)
            /\ At(c2s', Asked, o) /\ At(crest', Asked, o + Len(c2s'))
        BY <1>4, <3>1, <3>2, Written
      <3>4. Len(crest') \in Nat /\ Len(c2s') \in Nat
        BY <3>3, Nothing
      <3>5. Len(crest') <= Len(crest)
        <4>1. /\ Len(crest') = Len(crest) - Fitting(c2s, crest)
              /\ Fitting(c2s, crest) \in 0 .. Len(crest)
          <5>1. Room \in Nat
            BY RemoteAssumption
          <5>2. Fitting(c2s, crest) \in 0 .. Len(crest)
            BY <1>4, <5>1 DEF Fitting, Smaller
          <5> QED
            BY <1>4, <3>1, <5>2 DEF Unsent
        <4> QED
          BY <1>4, <4>1
      <3> QED
        BY <3>3, <3>4, <3>5 DEF o
    <2>2. CASE ~up
      <3>1. c2s' = c2s /\ crest' = <<>>
        BY <2>2 DEF Send
      <3> QED
        BY <1>0, <1>4, <2>2, <3>1, Nothing DEF OnTheWay
    <2> QED
      BY <1>0, <2>1, <2>2, Types
  <1>t. Typed'
    <2>1. RmTypeOK'
      BY <1>0, <1>1, <1>2, <1>6 DEF Typed, RmTypeOK
    <2> QED
      BY <1>0, <1>1, <1>2, <2>1 DEF Typed
  <1>p. Places'
    BY <1>0, <1>1, <1>2, <1>4 DEF Places
  <1>w. OnTheWay'
    <2>1. At(Heard, Asked, 0) /\ At(sbuf, Asked, Len(Heard))
      BY <1>0 DEF OnTheWay
    <2>2. h = k => Len(Heard) + Len(sbuf) + Len(c2s') + Len(crest') <= Len(Asked)
      BY <1>0, <1>4, <1>6 DEF OnTheWay
    <2>3. up => Len(Heard) + Len(sbuf) + Len(c2s') + Len(crest') = Len(Asked)
      BY <1>0, <1>4, <1>6 DEF OnTheWay
    <2>4. Len(crest') <= Len(Request(Current))
      BY <1>0, <1>1, <1>4, <1>5, <1>6 DEF OnTheWay
    <2> QED
      BY <1>1, <1>2, <1>3, <1>6, <2>1, <2>2, <2>3, <2>4 DEF OnTheWay
  <1>b. OnTheWayBack'
    BY <1>0, <1>1, <1>2, <1>3 DEF OnTheWayBack
  <1>g. Parsing'
    BY <1>0, <1>1, <1>2 DEF Parsing
  <1>u. Understanding'
    BY <1>1 DEF Understanding
  <1>s. WellShaped'
    BY <1>0, <1>1, <1>2 DEF WellShaped
  <1> QED
    BY <1>t, <1>p, <1>w, <1>b, <1>g, <1>u, <1>s DEF CallInv

\* The connection is gone and the call returns what there is.
LEMMA ReadNothingStep ==
    ASSUME CallInv, ReadNothing
    PROVE  CallInv'
  <1> DEFINE h == Len(handled)
             k == Len(results)
  <1>0. Typed /\ Places /\ OnTheWay /\ OnTheWayBack /\ Parsing /\ Understanding /\ WellShaped
    BY DEF CallInv
  <1>1. /\ cpc \notin {"idle", "send", "gone"} /\ cbuf = <<>> /\ s2c = <<>> /\ ~up
        /\ cpc' = "idle" /\ cleft' = cleft
        /\ UNCHANGED <<script, crest, cbuf, read, c2s, s2c, up, svars>>
    BY DEF ReadNothing, Return
  <1>2. /\ handled' = handled /\ answers' = answers /\ heard' = heard /\ spc' = spc
        /\ sbuf' = sbuf /\ srest' = srest /\ sop' = sop /\ sleft' = sleft
        /\ bufsize' = bufsize /\ buf' = buf /\ device' = device
    BY <1>1 DEF svars, dvars
  <1>3. PICK ok \in BOOLEAN :
          results' = Append(results, [ok |-> ok, answer |-> read, lost |-> TRUE])
    BY DEF ReadNothing, Return
  <1>4. h \in Nat /\ k \in Nat /\ read \in Tokens /\ crest \in Tokens /\ Len(script) \in Nat
    BY <1>0, Types
  <1>5. /\ results' \in Seq([ok : BOOLEAN, answer : Tokens, lost : BOOLEAN])
        /\ Len(results') = k + 1
    BY <1>0, <1>3, <1>4 DEF Typed
  <1>6. k < Len(script) /\ h <= k + 1
    BY <1>0, <1>1 DEF Places
  <1>7. Heard' = Heard /\ Read' = <<>> /\ crest = <<>>
    BY <1>0, <1>1, <1>2 DEF Heard, Read, Typed, RmTypeOK
  <1>8. ~Giving' /\ Given' = <<>>
    BY <1>2, <1>4, <1>5, <1>6 DEF Giving, Given
  <1>9. Asked' = Asked
    <2>1. CASE h = k + 1
      BY <1>1, <1>2, <1>4, <1>5, <2>1 DEF Asked, Asking
    <2>2. CASE h = k
      <3>1. ~Giving
        BY <1>4, <2>2 DEF Giving
      <3>2. cpc = "status"
        BY <1>0, <1>1, <3>1, NothingGiven DEF Typed, RmTypeOK
      <3> QED
        BY <1>1, <1>2, <1>4, <1>5, <2>2, <3>2 DEF Asked, Asking
    <2>3. CASE h < k
      BY <1>1, <1>2, <1>4, <1>5, <2>3 DEF Asked, Asking
    <2> QED
      BY <1>4, <1>6, <2>1, <2>2, <2>3
  <1>t. Typed'
    <2>1. RmTypeOK'
      BY <1>0, <1>1, <1>2 DEF Typed, RmTypeOK
    <2> QED
      BY <1>0, <1>1, <1>2, <1>5, <2>1 DEF Typed
  <1>p. Places'
    BY <1>0, <1>1, <1>2, <1>4, <1>5, <1>6 DEF Places
  <1>w. OnTheWay'
    <2>1. ASSUME h = k + 1
          PROVE  Len(Heard) + Len(sbuf) + Len(c2s) + Len(crest) <= Len(Asked)
      <3>1. ~Asking
        BY <1>4, <2>1 DEF Asking
      <3>2. Heard = <<>> /\ sbuf = <<>> /\ c2s = <<>> /\ Asked = <<>>
        BY <1>0, <3>1, NothingAsked, TheRequest
      <3> QED
        BY <1>7, <3>2, Nothing
    <2> QED
      BY <1>0, <1>1, <1>2, <1>4, <1>5, <1>7, <1>9, <2>1 DEF OnTheWay
  <1>b. OnTheWayBack'
    BY <1>1, <1>7, <1>8, Nothing DEF OnTheWayBack
  <1>g. Parsing'
    BY <1>0, <1>1, <1>2 DEF Parsing
  <1>u. Understanding'
    BY <1>1 DEF Understanding
  <1>s. WellShaped'
    BY <1>0, <1>1, <1>2 DEF WellShaped
  <1> QED
    BY <1>t, <1>p, <1>w, <1>b, <1>g, <1>u, <1>s DEF CallInv

\* The client ends.
LEMMA LeaveStep ==
    ASSUME CallInv, Leave
    PROVE  CallInv'
  <1>0. Typed /\ Places /\ OnTheWay /\ OnTheWayBack /\ Parsing /\ Understanding /\ WellShaped
    BY DEF CallInv
  <1>1. /\ cpc = "idle" /\ cpc' = "gone" /\ up' = FALSE
        /\ UNCHANGED <<script, crest, cleft, cbuf, read, results, c2s, s2c, svars>>
    BY DEF Leave
  <1>2. /\ handled' = handled /\ answers' = answers /\ heard' = heard /\ spc' = spc
        /\ sbuf' = sbuf /\ srest' = srest /\ sop' = sop /\ sleft' = sleft
        /\ bufsize' = bufsize /\ buf' = buf /\ device' = device
    BY <1>1 DEF svars, dvars
  <1>3. Heard' = Heard /\ Read' = Read /\ Given' = Given /\ Asked' = Asked
    BY <1>1, <1>2 DEF Heard, Read, Given, Giving, Asked, Asking
  <1>t. Typed'
    <2>1. RmTypeOK'
      BY <1>0, <1>1, <1>2 DEF Typed, RmTypeOK
    <2> QED
      BY <1>0, <1>1, <1>2, <2>1 DEF Typed
  <1>p. Places'
    BY <1>0, <1>1, <1>2 DEF Places
  <1>w. OnTheWay'
    BY <1>0, <1>1, <1>2, <1>3 DEF OnTheWay
  <1>b. OnTheWayBack'
    BY <1>0, <1>1, <1>2, <1>3 DEF OnTheWayBack
  <1>g. Parsing'
    BY <1>0, <1>1, <1>2 DEF Parsing
  <1>u. Understanding'
    BY <1>1 DEF Understanding
  <1>s. WellShaped'
    BY <1>0, <1>1, <1>2 DEF WellShaped
  <1> QED
    BY <1>t, <1>p, <1>w, <1>b, <1>g, <1>u, <1>s DEF CallInv

\* The beginning of what was on its way is all that still arrives.
LEMMA Prefix ==
    ASSUME NEW s \in Tokens, NEW r \in Tokens, NEW off \in Nat, At(s, r, off),
           NEW i \in 0 .. Len(s)
    PROVE  /\ SubSeq(s, 1, i) \in Tokens /\ Len(SubSeq(s, 1, i)) = i
           /\ At(SubSeq(s, 1, i), r, off)
  <1>1. s \in Seq(Token) /\ r \in Seq(Token) /\ Len(s) \in Nat
    BY DEF Tokens
  <1>2. 0 \in 0 .. Len(s) /\ i \in 0 .. Len(s) /\ 0 + 1 = 1 /\ i - 0 = i /\ off + 0 = off
    BY <1>1
  <1>3. /\ SubSeq(s, 0 + 1, i) \in Seq(Token) /\ Len(SubSeq(s, 0 + 1, i)) = i - 0
        /\ At(SubSeq(s, 0 + 1, i), r, off + 0)
    BY <1>1, <1>2, AtPart
  <1> QED
    BY <1>2, <1>3 DEF Tokens

\* The connection breaks down.
LEMMA LoseStep ==
    ASSUME CallInv, Lose
    PROVE  CallInv'
  <1>0. Typed /\ Places /\ OnTheWay /\ OnTheWayBack /\ Parsing /\ Understanding /\ WellShaped
    BY DEF CallInv
  <1>1. up' = FALSE /\ UNCHANGED <<script, cvars, svars>>
    BY DEF Lose
  <1>2. /\ handled' = handled /\ answers' = answers /\ heard' = heard /\ spc' = spc
        /\ sbuf' = sbuf /\ srest' = srest /\ sop' = sop /\ sleft' = sleft
        /\ bufsize' = bufsize /\ buf' = buf /\ device' = device
        /\ cpc' = cpc /\ crest' = crest /\ cleft' = cleft /\ cbuf' = cbuf
        /\ read' = read /\ results' = results /\ script' = script
    BY <1>1 DEF cvars, svars, dvars
  <1>3. Heard' = Heard /\ Read' = Read /\ Given' = Given /\ Asked' = Asked /\ Current' = Current
    BY <1>2 DEF Heard, Read, Given, Giving, Asked, Asking, Current
  <1>4. /\ Len(Heard) \in Nat /\ Len(sbuf) \in Nat /\ Len(c2s) \in Nat /\ Len(crest) \in Nat
        /\ Len(Read) \in Nat /\ Len(cbuf) \in Nat /\ Len(s2c) \in Nat
        /\ c2s \in Tokens /\ s2c \in Tokens /\ Asked \in Tokens /\ Given \in Tokens
        /\ Len(Asked) \in Nat /\ Len(c2s) <= Room /\ Len(s2c) <= Room /\ Room \in Nat
    BY <1>0, Types, TheRequest, TheAnswer, RemoteAssumption DEF Typed, RmTypeOK
  <1>5. /\ c2s' \in Tokens /\ Len(c2s') \in Nat /\ Len(c2s') <= Len(c2s)
        /\ At(c2s', Asked, Len(Heard) + Len(sbuf))
    <2>1. PICK i \in 0 .. Len(c2s) : c2s' = SubSeq(c2s, 1, i)
      BY DEF Lose
    <2> DEFINE o == Len(Heard) + Len(sbuf)
    <2>2. o \in Nat /\ At(c2s, Asked, o)
      BY <1>0, <1>4 DEF OnTheWay
    <2> HIDE DEF o
    <2>3. c2s' \in Tokens /\ Len(c2s') = i /\ At(c2s', Asked, o)
      BY <1>4, <2>1, <2>2, Prefix
    <2> QED
      BY <1>4, <2>3 DEF o
  <1>6. /\ s2c' \in Tokens /\ Len(s2c') \in Nat /\ Len(s2c') <= Len(s2c)
        /\ At(s2c', Given, Len(Read) + Len(cbuf))
    <2>1. PICK i \in 0 .. Len(s2c) : s2c' = SubSeq(s2c, 1, i)
      BY DEF Lose
    <2> DEFINE o == Len(Read) + Len(cbuf)
    <2>2. o \in Nat /\ At(s2c, Given, o)
      BY <1>0, <1>4 DEF OnTheWayBack
    <2> HIDE DEF o
    <2>3. s2c' \in Tokens /\ Len(s2c') = i /\ At(s2c', Given, o)
      BY <1>4, <2>1, <2>2, Prefix
    <2> QED
      BY <1>4, <2>3 DEF o
  <1>t. Typed'
    <2>2. Len(c2s') <= Room /\ Len(s2c') <= Room
      BY <1>4, <1>5, <1>6
    <2>3. {crest, srest, cbuf, sbuf, read, heard, c2s', s2c'} \subseteq Tokens
      BY <1>0, <1>5, <1>6 DEF Typed, RmTypeOK
    <2>4. {up', device} \subseteq BOOLEAN
      BY <1>0, <1>1, Types
    <2>1. RmTypeOK'
      BY <1>0, <1>2, <2>2, <2>3, <2>4 DEF Typed, RmTypeOK
    <2> QED
      BY <1>0, <1>1, <1>2, <2>1 DEF Typed
  <1>p. Places'
    BY <1>0, <1>1, <1>2 DEF Places
  <1>w. OnTheWay'
    <2>1. Len(handled) = Len(results) =>
             Len(Heard) + Len(sbuf) + Len(c2s') + Len(crest) <= Len(Asked)
      BY <1>0, <1>4, <1>5 DEF OnTheWay
    <2> QED
      BY <1>0, <1>1, <1>2, <1>3, <1>5, <2>1 DEF OnTheWay
  <1>b. OnTheWayBack'
    BY <1>0, <1>1, <1>2, <1>3, <1>6 DEF OnTheWayBack
  <1>g. Parsing'
    BY <1>0, <1>1, <1>2 DEF Parsing
  <1>u. Understanding'
    BY <1>0, <1>2, <1>3 DEF Understanding
  <1>s. WellShaped'
    BY <1>0, <1>1, <1>2 DEF WellShaped
  <1> QED
    BY <1>t, <1>p, <1>w, <1>b, <1>g, <1>u, <1>s DEF CallInv

\* One token has been taken out of a buffer b and the connection ch before it; it is
\* the next one of r, and what follows in r is in the buffer and the connection left.
OneTaken(b, ch, b2, ch2, t, r, off) ==
    /\ t \in Token /\ off + 1 <= Len(r) /\ t = r[off + 1]
    /\ b2 \in Tokens /\ ch2 \in Tokens /\ Len(b2) < BufSize /\ Len(ch2) <= Len(ch)
    /\ Len(b2) + Len(ch2) + 1 = Len(b) + Len(ch)
    /\ At(b2, r, off + 1) /\ At(ch2, r, off + 1 + Len(b2))

\* The buffer has a token.
LEMMA FromBuffer ==
    ASSUME NEW b \in Tokens, NEW ch \in Tokens, NEW r \in Tokens, NEW off \in Nat,
           At(b, r, off), At(ch, r, off + Len(b)), b # <<>>, Len(b) < BufSize
    PROVE  OneTaken(b, ch, Tail(b), ch, Head(b), r, off)
  <1>1. b \in Seq(Token) /\ r \in Seq(Token) /\ Len(b) \in Nat /\ Len(ch) \in Nat
        /\ BufSize \in Nat
    BY RemoteAssumption DEF Tokens
  <1>2. /\ Head(b) = r[off + 1] /\ Head(b) \in Token /\ off + 1 <= Len(r)
        /\ Tail(b) \in Seq(Token) /\ Len(Tail(b)) = Len(b) - 1
        /\ At(Tail(b), r, off + 1)
    BY <1>1, AtHead
  <1>3. off + Len(b) = off + 1 + (Len(b) - 1)
    BY <1>1
  <1> HIDE DEF Tokens
  <1>4. Tail(b) \in Tokens
    BY <1>2 DEF Tokens
  <1> DEFINE b2 == Tail(b)
  <1>5. Len(b2) = Len(b) - 1 /\ b2 \in Tokens /\ At(b2, r, off + 1)
    BY <1>2, <1>4
  <1> HIDE DEF b2
  <1>6. At(ch, r, off + 1 + Len(b2))
    BY <1>3, <1>5
  <1>7. OneTaken(b, ch, b2, ch, Head(b), r, off)
    BY <1>1, <1>2, <1>5, <1>6 DEF OneTaken
  <1> QED
    BY <1>7 DEF b2

\* The buffer is empty and gets a fill.
LEMMA FromFill ==
    ASSUME NEW ch \in Tokens, NEW r \in Tokens, NEW off \in Nat, At(ch, r, off),
           NEW n \in Fills(ch)
    PROVE  OneTaken(<<>>, ch, SubSeq(ch, 2, n), SubSeq(ch, n + 1, Len(ch)), Head(ch), r, off)
  <1>1. ch \in Seq(Token) /\ r \in Seq(Token) /\ Len(ch) \in Nat
        /\ BufSize \in Nat
    BY RemoteAssumption DEF Tokens
  <1>2. n \in 1 .. Len(ch) /\ n <= BufSize
    BY <1>1 DEF Fills, Smaller
  <1>3. ch # <<>>
    BY <1>1, <1>2
  <1>4. Head(ch) = r[off + 1] /\ Head(ch) \in Token /\ off + 1 <= Len(r)
    BY <1>1, <1>3, AtHead
  <1>5. 1 \in 0 .. Len(ch) /\ n \in 1 .. Len(ch) /\ 1 + 1 = 2
        /\ n \in 0 .. Len(ch) /\ Len(ch) \in n .. Len(ch)
    BY <1>1, <1>2
  <1> DEFINE x == SubSeq(ch, 2, n)
             y == SubSeq(ch, n + 1, Len(ch))
  <1>6. x \in Seq(Token) /\ Len(x) = n - 1 /\ At(x, r, off + 1)
    <2>1. /\ SubSeq(ch, 1 + 1, n) \in Seq(Token) /\ Len(SubSeq(ch, 1 + 1, n)) = n - 1
          /\ At(SubSeq(ch, 1 + 1, n), r, off + 1)
      BY <1>1, <1>5, AtPart
    <2> QED
      BY <1>5, <2>1
  <1>7. y \in Seq(Token) /\ Len(y) = Len(ch) - n /\ At(y, r, off + n)
    BY <1>1, <1>5, AtPart
  <1> HIDE DEF x, y
  <1>8. off + n = off + 1 + Len(x)
    BY <1>2, <1>6
  <1>9. x \in Tokens /\ y \in Tokens
    BY <1>6, <1>7 DEF Tokens
  <1>10. Len(<<>>) = 0
    OBVIOUS
  <1>11. Len(x) < BufSize /\ Len(y) <= Len(ch) /\ Len(x) + Len(y) + 1 = 0 + Len(ch)
    BY <1>1, <1>2, <1>6, <1>7
  <1>12. At(y, r, off + 1 + Len(x))
    BY <1>7, <1>8
  <1>13. OneTaken(<<>>, ch, x, y, Head(ch), r, off)
    BY <1>4, <1>6, <1>9, <1>10, <1>11, <1>12 DEF OneTaken
  <1> QED
    BY <1>13 DEF x, y

\* The buffer is empty and the token is taken from the connection.
LEMMA FromConnection ==
    ASSUME NEW ch \in Tokens, NEW r \in Tokens, NEW off \in Nat, At(ch, r, off),
           ch # <<>>
    PROVE  OneTaken(<<>>, ch, <<>>, Tail(ch), Head(ch), r, off)
  <1>1. ch \in Seq(Token) /\ r \in Seq(Token) /\ Len(ch) \in Nat /\ Len(r) \in Nat
        /\ BufSize \in Nat /\ BufSize > 0
    BY RemoteAssumption DEF Tokens
  <1>2. /\ Head(ch) = r[off + 1] /\ Head(ch) \in Token /\ off + 1 <= Len(r)
        /\ Tail(ch) \in Seq(Token) /\ Len(Tail(ch)) = Len(ch) - 1
        /\ At(Tail(ch), r, off + 1)
    BY <1>1, AtHead
  <1> DEFINE y == Tail(ch)
             e == <<>>
  <1>3. y \in Tokens /\ Len(y) = Len(ch) - 1 /\ At(y, r, off + 1)
    BY <1>2 DEF Tokens
  <1>4. e \in Tokens /\ Len(e) = 0 /\ At(e, r, off + 1)
    <2>1. off + 1 \in Nat
      OBVIOUS
    <2> QED
      BY <1>1, <1>2, <2>1, AtNothing, Nothing
  <1> HIDE DEF y, e
  <1>5. off + 1 = off + 1 + Len(e)
    BY <1>4
  <1>6. At(y, r, off + 1 + Len(e))
    BY <1>3, <1>5
  <1>7. OneTaken(e, ch, e, y, Head(ch), r, off)
    BY <1>1, <1>2, <1>3, <1>4, <1>6 DEF OneTaken
  <1> QED
    BY <1>7 DEF y, e

\* The client takes the next token of the answer it was given.
LEMMA ClientTakes ==
    ASSUME CallInv, ReadLine \/ ReadBytes
    PROVE  /\ Giving /\ cpc \in {"status", "lines", "elines", "bytes", "ebytes"}
           /\ Len(read) \in Nat /\ At(read, Given, 0)
           /\ \E t \in Token : Take(t) /\ OneTaken(cbuf, s2c, cbuf', s2c', t, Given, Len(read))
           /\ UNCHANGED <<script, crest, c2s, up, svars>>
  <1>0. Typed /\ Places /\ OnTheWay /\ OnTheWayBack /\ Parsing /\ Understanding /\ WellShaped
    BY DEF CallInv
  <1>1. cpc \in {"status", "lines", "elines", "bytes", "ebytes"}
    BY DEF ReadLine, ReadBytes
  <1>2. UNCHANGED <<script, crest, c2s, up, svars>>
    BY DEF ReadLine, ReadBytes
  <1>3. read = Read
    BY <1>0, <1>1 DEF Read, OnTheWayBack
  <1>4. /\ cbuf \in Tokens /\ s2c \in Tokens /\ Given \in Tokens /\ Len(read) \in Nat
        /\ Len(cbuf) < BufSize
    BY <1>0, Types, TheAnswer DEF Typed, RmTypeOK
  <1>5. At(read, Given, 0) /\ At(cbuf, Given, Len(read)) /\ At(s2c, Given, Len(read) + Len(cbuf))
    BY <1>0, <1>3 DEF OnTheWayBack
  <1>6. cbuf = <<>> => At(s2c, Given, Len(read))
    <2>1. Len(read) + 0 = Len(read)
      BY <1>4
    <2> QED
      BY <1>5, <2>1, Nothing
  <1>7. \/ cbuf # <<>> /\ Take(Head(cbuf)) /\ cbuf' = Tail(cbuf) /\ s2c' = s2c
        \/ /\ cbuf = <<>>
           /\ \E n \in Fills(s2c) : /\ Take(Head(s2c)) /\ cbuf' = SubSeq(s2c, 2, n)
                                    /\ s2c' = SubSeq(s2c, n + 1, Len(s2c))
        \/ cbuf = <<>> /\ s2c # <<>> /\ Take(Head(s2c)) /\ s2c' = Tail(s2c) /\ cbuf' = cbuf
    BY DEF ReadLine, ReadBytes
  <1>8. \E t \in Token : Take(t) /\ OneTaken(cbuf, s2c, cbuf', s2c', t, Given, Len(read))
    <2>1. CASE cbuf # <<>> /\ Take(Head(cbuf)) /\ cbuf' = Tail(cbuf) /\ s2c' = s2c
      <3>1. OneTaken(cbuf, s2c, cbuf', s2c', Head(cbuf), Given, Len(read))
        BY <1>4, <1>5, <2>1, FromBuffer
      <3> QED
        BY <2>1, <3>1 DEF OneTaken
    <2>2. CASE /\ cbuf = <<>>
               /\ \E n \in Fills(s2c) : /\ Take(Head(s2c)) /\ cbuf' = SubSeq(s2c, 2, n)
                                        /\ s2c' = SubSeq(s2c, n + 1, Len(s2c))
      <3>1. PICK n \in Fills(s2c) : /\ Take(Head(s2c)) /\ cbuf' = SubSeq(s2c, 2, n)
                                    /\ s2c' = SubSeq(s2c, n + 1, Len(s2c))
        BY <2>2
      <3>2. OneTaken(cbuf, s2c, cbuf', s2c', Head(s2c), Given, Len(read))
        BY <1>4, <1>6, <2>2, <3>1, FromFill
      <3> QED
        BY <3>1, <3>2 DEF OneTaken
    <2>3. CASE cbuf = <<>> /\ s2c # <<>> /\ Take(Head(s2c)) /\ s2c' = Tail(s2c) /\ cbuf' = cbuf
      <3>1. OneTaken(cbuf, s2c, cbuf', s2c', Head(s2c), Given, Len(read))
        BY <1>4, <1>6, <2>3, FromConnection
      <3> QED
        BY <2>3, <3>1 DEF OneTaken
    <2> QED
      BY <1>7, <2>1, <2>2, <2>3
  <1>9. Giving
    <2> SUFFICES ASSUME ~Giving PROVE FALSE
      OBVIOUS
    <2>1. Len(Given) = 0
      BY <1>0, TheAnswer
    <2>2. Len(read) + 1 <= Len(Given)
      BY <1>8 DEF OneTaken
    <2> QED
      BY <1>4, <2>1, <2>2
  <1> QED
    BY <1>1, <1>2, <1>4, <1>5, <1>8, <1>9

\* The client makes of the token what the answer means: it either goes on, with what
\* is still to come of the answer, or has all of it and returns.
LEMMA Understands ==
    ASSUME CallInv, Giving, NEW t \in Token, Take(t),
           Len(read) \in Nat, At(read, Given, 0), t = Given[Len(read) + 1],
           Len(read) + 1 <= Len(Given), script' = script,
           NEW answer, answer = Append(read, t)
    PROVE  /\ read' = answer /\ answer \in Tokens /\ Len(answer) = Len(read) + 1
           /\ At(answer, Given, 0)
           /\ \/ /\ results' = results
                 /\ cpc' \in {"lines", "elines", "bytes", "ebytes"}
                 /\ cleft' \in Nat /\ cleft' >= 1
                 /\ cpc' \in {"lines", "bytes"} => answer[1].op = "A"
                 /\ cpc' \in {"elines", "ebytes"} => answer[1].op = "E"
                 /\ cpc' = "lines" => /\ MoreLines(Current) > 0
                                      /\ Len(answer) + cleft' = 1 + MoreLines(Current)
                 /\ cpc' = "elines" => Len(answer) + cleft' = 3
                 /\ cpc' \in {"bytes", "ebytes"} => Len(answer) + cleft' = Len(Given)
              \/ /\ cpc' = "idle" /\ cleft' = cleft /\ answer = Given
                 /\ \E ok \in BOOLEAN :
                       results' = Append(results, [ok |-> ok, answer |-> answer, lost |-> FALSE])
  <1> DEFINE a == Given
             m == MoreLines(Current)
             n == Len(read)
  <1>0. Typed /\ Places /\ OnTheWay /\ OnTheWayBack /\ Parsing /\ Understanding /\ WellShaped
    BY DEF CallInv
  <1>1. read \in Tokens /\ a \in Tokens /\ Len(a) \in Nat /\ n \in Nat /\ cleft \in Nat
        /\ Current \in Calls /\ Shaped(Current, a)
    BY <1>0, Types, TheAnswer
  <1>2. read' = answer
    BY DEF Take
  <1>3. answer \in Tokens /\ Len(answer) = n + 1 /\ At(answer, a, 0)
    <2>1. read \in Seq(Token) /\ a \in Seq(Token) /\ 0 \in Nat /\ 0 + n + 1 <= Len(a)
          /\ 0 + n + 1 = n + 1
      BY <1>1 DEF Tokens
    <2>2. /\ Append(read, a[0 + n + 1]) \in Seq(Token)
          /\ Len(Append(read, a[0 + n + 1])) = n + 1
          /\ At(Append(read, a[0 + n + 1]), a, 0)
      BY <2>1, AtNext
    <2> QED
      BY <2>1, <2>2 DEF Tokens
  <1>4. \A i \in 1 .. n + 1 : answer[i] = a[i] /\ i \in 1 .. Len(a)
    BY <1>1, <1>3 DEF At
  <1>5. Len(answer) = Len(a) => answer = a
    BY <1>1, <1>3, AtWhole DEF Tokens
  <1>6. \A i \in 1 .. Len(a) : a[i] \in Token /\ a[i].n \in Int
    <2>1. \A i \in 1 .. Len(a) : a[i] \in Token
      BY <1>1 DEF Tokens
    <2> QED
      BY <2>1 DEF Token
  <1>7. m \in Nat /\ (m > 0 <=> Current.op \in {"S", "O"}) /\ (m > 0 => m = 4)
    BY DEF MoreLines
  <1> DEFINE w == AnswerBytes(Current, a)
  <1>8. ASSUME a[1].op = "A" PROVE w \in Nat /\ Len(a) = 1 + m + w
    <2>1. Len(a) >= 1 + m /\ w >= 0 /\ Len(a) = 1 + m + w
      BY <1>1, <1>8 DEF Shaped
    <2>2. w \in Int
      <3>1. 1 \in 1 .. Len(a)
        BY <1>1, <1>7, <2>1
      <3>2. Current.op = "S" => 5 \in 1 .. Len(a)
        BY <1>1, <1>7, <2>1
      <3> QED
        BY <1>6, <3>1, <3>2 DEF AnswerBytes
    <2> QED
      BY <2>1, <2>2
  <1>9. ASSUME a[1].op = "E" PROVE a[3].n \in Nat /\ Len(a) = 3 + a[3].n /\ 3 \in 1 .. Len(a)
    BY <1>1, <1>6, <1>9 DEF Shaped
  <1>10. a[1].op = "A" \/ a[1].op = "E"
    BY <1>1 DEF Shaped
  <1> DEFINE b == AnswerBytes(Current, answer)
  <1>11. ASSUME n + 1 = 1 + m PROVE b = w
    <2>1. answer[1] = a[1]
      BY <1>1, <1>4
    <2>2. Current.op = "S" => answer[5] = a[5]
      BY <1>1, <1>4, <1>7, <1>11
    <2> QED
      BY <2>1, <2>2 DEF AnswerBytes
  <1>12. answer[1] = a[1]
    BY <1>1, <1>4
  <1>13. ASSUME NEW ok \in BOOLEAN, NEW g \in Nat, Bulk(answer, ok, g), n + 1 + g = Len(a)
         PROVE  \/ /\ g > 0 /\ cleft' = g /\ cpc' = (IF ok THEN "bytes" ELSE "ebytes")
                   /\ results' = results
                \/ /\ cpc' = "idle" /\ cleft' = cleft /\ answer = a
                   /\ \E o \in BOOLEAN :
                         results' = Append(results, [ok |-> o, answer |-> answer, lost |-> FALSE])
    <2>1. CASE g > 0
      BY <1>13, <2>1 DEF Bulk
    <2>2. CASE ~(g > 0)
      <3>1. answer = a
        BY <1>1, <1>3, <1>5, <1>13, <2>2
      <3>2. Return(ok /\ answer[1].n >= 0, answer, FALSE)
        BY <1>13, <2>2 DEF Bulk
      <3>3. (ok /\ answer[1].n >= 0) \in BOOLEAN
        OBVIOUS
      <3> QED
        BY <3>1, <3>2, <3>3 DEF Return
    <2> QED
      BY <2>1, <2>2
  <1> DEFINE Goes ==
                 /\ results' = results
                 /\ cpc' \in {"lines", "elines", "bytes", "ebytes"}
                 /\ cleft' \in Nat /\ cleft' >= 1
                 /\ cpc' \in {"lines", "bytes"} => answer[1].op = "A"
                 /\ cpc' \in {"elines", "ebytes"} => answer[1].op = "E"
                 /\ cpc' = "lines" => m > 0 /\ Len(answer) + cleft' = 1 + m
                 /\ cpc' = "elines" => Len(answer) + cleft' = 3
                 /\ cpc' \in {"bytes", "ebytes"} => Len(answer) + cleft' = Len(a)
             Comes ==
                 /\ cpc' = "idle" /\ cleft' = cleft /\ answer = a
                 /\ \E ok \in BOOLEAN :
                       results' = Append(results, [ok |-> ok, answer |-> answer, lost |-> FALSE])
  <1>20. Goes \/ Comes
    <2>1. CASE /\ cpc = "status" /\ t.op = "A" /\ m > 0 /\ cleft' = m
               /\ cpc' = "lines" /\ results' = results
      <3>1. n = 0
        BY <1>0, <2>1, Nothing DEF OnTheWayBack
      <3>2. answer[1].op = "A"
        BY <1>1, <1>12, <2>1, <3>1
      <3> QED
        BY <1>3, <1>7, <2>1, <3>1, <3>2
    <2>2. CASE cpc = "status" /\ t.op = "A" /\ ~(m > 0) /\ Bulk(answer, TRUE, b)
      <3>1. n = 0 /\ m = 0
        BY <1>0, <1>7, <2>2, Nothing DEF OnTheWayBack
      <3>2. answer[1].op = "A" /\ a[1].op = "A"
        BY <1>1, <1>12, <2>2, <3>1
      <3>3. b = w /\ w \in Nat /\ n + 1 + w = Len(a)
        BY <1>8, <1>11, <3>1, <3>2
      <3> HIDE DEF b, w
      <3>4. \/ w > 0 /\ cleft' = w /\ cpc' = "bytes" /\ results' = results
            \/ Comes
        BY <1>13, <2>2, <3>3
      <3>5. CASE w > 0 /\ cleft' = w /\ cpc' = "bytes" /\ results' = results
        <4>1. cleft' \in Nat /\ cleft' >= 1 /\ Len(answer) + cleft' = Len(a)
          BY <1>1, <1>3, <3>3, <3>5
        <4> QED
          BY <3>2, <3>5, <4>1
      <3> QED
        BY <3>4, <3>5
    <2>3. CASE cpc = "status" /\ t.op = "E" /\ cleft' = 2 /\ cpc' = "elines" /\ results' = results
      <3>1. n = 0
        BY <1>0, <2>3, Nothing DEF OnTheWayBack
      <3>2. answer[1].op = "E"
        BY <1>1, <1>12, <2>3, <3>1
      <3> QED
        BY <1>3, <2>3, <3>1, <3>2
    <2>4. CASE cpc = "status" /\ t.op \notin {"A", "E"}
      <3>1. n = 0
        BY <1>0, <2>4, Nothing DEF OnTheWayBack
      <3> QED
        BY <1>1, <1>10, <2>4, <3>1
    <2>5. CASE /\ cpc \in {"lines", "elines", "bytes", "ebytes"} /\ cleft > 1
               /\ cleft' = cleft - 1 /\ UNCHANGED <<cpc, results>>
      <3>1. n >= 1 /\ (cpc \in {"lines", "bytes"} => read[1].op = "A")
            /\ (cpc \in {"elines", "ebytes"} => read[1].op = "E")
        BY <1>0, <2>5 DEF Understanding
      <3>2. read[1] = a[1]
        BY <1>1, <3>1 DEF At
      <3>3. /\ cpc = "lines" => m > 0 /\ n + cleft = 1 + m
            /\ cpc = "elines" => n + cleft = 3
            /\ cpc \in {"bytes", "ebytes"} => n + cleft = Len(a)
        BY <1>0, <2>5 DEF Understanding, Current
      <3>4. cleft' \in Nat /\ cleft' >= 1 /\ n + 1 + cleft' = n + cleft
        BY <1>1, <2>5
      <3> QED
        BY <1>3, <1>12, <2>5, <3>1, <3>2, <3>3, <3>4
    <2>6. CASE cpc = "lines" /\ cleft = 1 /\ Bulk(answer, TRUE, b)
      <3>1. n >= 1 /\ read[1].op = "A" /\ n + cleft = 1 + m
        BY <1>0, <2>6 DEF Understanding, Current
      <3>2. answer[1].op = "A" /\ a[1].op = "A"
        BY <1>1, <1>12, <3>1 DEF At
      <3>3. b = w /\ w \in Nat /\ n + 1 + w = Len(a)
        BY <1>1, <1>7, <1>8, <1>11, <2>6, <3>1, <3>2
      <3> HIDE DEF b, w
      <3>4. \/ w > 0 /\ cleft' = w /\ cpc' = "bytes" /\ results' = results
            \/ Comes
        BY <1>13, <2>6, <3>3
      <3>5. CASE w > 0 /\ cleft' = w /\ cpc' = "bytes" /\ results' = results
        <4>1. cleft' \in Nat /\ cleft' >= 1 /\ Len(answer) + cleft' = Len(a)
          BY <1>1, <1>3, <3>3, <3>5
        <4> QED
          BY <3>2, <3>5, <4>1
      <3> QED
        BY <3>4, <3>5
    <2>7. CASE cpc = "elines" /\ cleft = 1 /\ Bulk(answer, FALSE, t.n)
      <3>1. n >= 1 /\ read[1].op = "E" /\ n + cleft = 3
        BY <1>0, <2>7 DEF Understanding
      <3>2. answer[1].op = "E" /\ a[1].op = "E"
        BY <1>1, <1>12, <3>1 DEF At
      <3>3. n = 2 /\ n + 1 = 3
        <4>1. cleft = 1 /\ n \in Nat /\ n + cleft = 3
          BY <1>1, <2>7, <3>1
        <4> HIDE DEF n
        <4> QED
          BY <4>1
      <3>4. t.n \in Nat /\ n + 1 + t.n = Len(a)
        BY <1>9, <3>2, <3>3
      <3>5. \/ t.n > 0 /\ cleft' = t.n /\ cpc' = "ebytes" /\ results' = results
            \/ Comes
        BY <1>13, <2>7, <3>4
      <3>6. CASE t.n > 0 /\ cleft' = t.n /\ cpc' = "ebytes" /\ results' = results
        <4>1. cleft' \in Nat /\ cleft' >= 1 /\ Len(answer) + cleft' = Len(a)
          BY <1>1, <1>3, <3>4, <3>6
        <4> QED
          BY <3>2, <3>6, <4>1
      <3> QED
        BY <3>5, <3>6
    <2>8. CASE cpc \in {"bytes", "ebytes"} /\ cleft = 1 /\ Return(cpc = "bytes", answer, FALSE)
      <3>1. n + cleft = Len(a)
        BY <1>0, <2>8 DEF Understanding
      <3>2. answer = a
        BY <1>3, <1>5, <2>8, <3>1
      <3>3. (cpc = "bytes") \in BOOLEAN
        OBVIOUS
      <3> QED
        BY <2>8, <3>2, <3>3 DEF Return
    <2> QED
      BY <1>2, <2>1, <2>2, <2>3, <2>4, <2>5, <2>6, <2>7, <2>8 DEF Take
  <1> QED
    BY <1>2, <1>3, <1>20

\* A read of the client keeps the invariant; a call that returns returns the answer.
LEMMA TakeStep ==
    ASSUME CallInv, ReadLine \/ ReadBytes
    PROVE  /\ CallInv' /\ handled' = handled /\ answers' = answers /\ script' = script
           /\ \/ results' = results
              \/ /\ Giving
                 /\ \E ok \in BOOLEAN :
                       results' = Append(results, [ok |-> ok, answer |-> Given, lost |-> FALSE])
  <1> DEFINE h == Len(handled)
             k == Len(results)
             a == Given
             n == Len(read)
  <1>0. Typed /\ Places /\ OnTheWay /\ OnTheWayBack /\ Parsing /\ Understanding /\ WellShaped
    BY DEF CallInv
  <1>1. /\ Giving /\ cpc \in {"status", "lines", "elines", "bytes", "ebytes"}
        /\ n \in Nat /\ At(read, a, 0)
        /\ \E t \in Token : Take(t) /\ OneTaken(cbuf, s2c, cbuf', s2c', t, a, n)
        /\ UNCHANGED <<script, crest, c2s, up, svars>>
    BY ClientTakes
  <1>2. /\ handled' = handled /\ answers' = answers /\ heard' = heard /\ spc' = spc
        /\ sbuf' = sbuf /\ srest' = srest /\ sop' = sop /\ sleft' = sleft
        /\ bufsize' = bufsize /\ buf' = buf /\ device' = device /\ script' = script
        /\ crest' = crest /\ c2s' = c2s /\ up' = up
    BY <1>1 DEF svars, dvars
  <1>3. PICK t \in Token : Take(t) /\ OneTaken(cbuf, s2c, cbuf', s2c', t, a, n)
    BY <1>1
  <1> DEFINE answer == Append(read, t)
             Goes ==
                 /\ results' = results
                 /\ cpc' \in {"lines", "elines", "bytes", "ebytes"}
                 /\ cleft' \in Nat /\ cleft' >= 1
                 /\ cpc' \in {"lines", "bytes"} => answer[1].op = "A"
                 /\ cpc' \in {"elines", "ebytes"} => answer[1].op = "E"
                 /\ cpc' = "lines" => /\ MoreLines(Current) > 0
                                      /\ Len(answer) + cleft' = 1 + MoreLines(Current)
                 /\ cpc' = "elines" => Len(answer) + cleft' = 3
                 /\ cpc' \in {"bytes", "ebytes"} => Len(answer) + cleft' = Len(a)
             Comes ==
                 /\ cpc' = "idle" /\ cleft' = cleft /\ answer = a
                 /\ \E ok \in BOOLEAN :
                       results' = Append(results, [ok |-> ok, answer |-> answer, lost |-> FALSE])
  <1>4. /\ read' = answer /\ answer \in Tokens /\ Len(answer) = n + 1 /\ At(answer, a, 0)
        /\ Goes \/ Comes
    <2>1. t = a[n + 1] /\ n + 1 <= Len(a)
      BY <1>3 DEF OneTaken
    <2> QED
      BY <1>1, <1>2, <1>3, <2>1, Understands
  <1> HIDE DEF answer
  <1>5. /\ cbuf' \in Tokens /\ s2c' \in Tokens /\ Len(cbuf') < BufSize /\ Len(s2c') <= Len(s2c)
        /\ Len(cbuf') + Len(s2c') + 1 = Len(cbuf) + Len(s2c)
        /\ At(cbuf', a, n + 1) /\ At(s2c', a, n + 1 + Len(cbuf'))
        /\ Len(cbuf') \in Nat /\ Len(s2c') \in Nat
    BY <1>3, Nothing DEF OneTaken
  <1>6. /\ h = k + 1 /\ k + 1 \in 1 .. Len(script) /\ ~Asking /\ a \in Tokens /\ Len(a) \in Nat
        /\ h \in Nat /\ k \in Nat /\ Len(script) \in Nat /\ Len(s2c) \in Nat /\ Len(cbuf) \in Nat
        /\ Len(srest) \in Nat /\ Len(s2c) <= Room /\ Room \in Nat /\ srest \in Tokens
    BY <1>0, <1>1, Types, TheAnswer, RemoteAssumption DEF Typed, RmTypeOK
  <1>7. /\ Heard = <<>> /\ sbuf = <<>> /\ c2s = <<>> /\ crest = <<>>
        /\ spc \notin {"lines", "look", "bytes", "do"} /\ Asked = <<>>
    BY <1>0, <1>1, <1>6, NothingAsked, TheRequest DEF Typed, RmTypeOK
  <1>8. Heard' = <<>> /\ Len(s2c') <= Room
    BY <1>2, <1>5, <1>6, <1>7 DEF Heard
  <1>9. read = Read /\ Len(Read) = n
    BY <1>0, <1>1 DEF Read, OnTheWayBack
  <1>g. Parsing'
    BY <1>2, <1>7 DEF Parsing
  <1>s. WellShaped'
    BY <1>0, <1>2 DEF WellShaped
  <1>10. CASE Goes
    <2>1. Giving' /\ Given' = a /\ ~Asking' /\ Asked' = <<>> /\ Read' = answer
          /\ Current' = Current /\ Len(results') = k
      BY <1>1, <1>2, <1>4, <1>6, <1>10 DEF Giving, Given, Asking, Asked, Read, Current
    <2>t. Typed'
      <3>1. {crest, srest, cbuf', sbuf, read', heard, c2s, s2c'} \subseteq Tokens
        BY <1>0, <1>4, <1>5 DEF Typed, RmTypeOK
      <3>2. RmTypeOK'
        BY <1>0, <1>2, <1>5, <1>7, <1>8, <1>10, <3>1 DEF Typed, RmTypeOK
      <3> QED
        BY <1>0, <1>2, <1>10, <3>2 DEF Typed
    <2>p. Places'
      BY <1>0, <1>2, <1>6, <1>10 DEF Places
    <2>w. OnTheWay'
      BY <1>2, <1>6, <1>7, <1>8, <1>10, <2>1, Nothing DEF OnTheWay
    <2>b. OnTheWayBack'
      <3>1. ASSUME up
            PROVE  At(srest, a, n + 1 + Len(cbuf') + Len(s2c'))
                   /\ n + 1 + Len(cbuf') + Len(s2c') + Len(srest) = Len(a)
                   /\ (spc # "answer" => srest = <<>>) /\ (spc = "answer" => srest # <<>>)
        <4>1. n + 1 + Len(cbuf') + Len(s2c') = n + Len(cbuf) + Len(s2c)
          <5>1. /\ n \in Nat /\ Len(cbuf) \in Nat /\ Len(s2c) \in Nat
                /\ Len(cbuf') \in Nat /\ Len(s2c') \in Nat
                /\ Len(cbuf') + Len(s2c') + 1 = Len(cbuf) + Len(s2c)
            BY <1>1, <1>5, <1>6
          <5> HIDE DEF n
          <5> QED
            BY <5>1
        <4>2. /\ At(srest, a, n + Len(cbuf) + Len(s2c))
              /\ n + Len(cbuf) + Len(s2c) + Len(srest) = Len(a)
              /\ (spc # "answer" => srest = <<>>) /\ (spc = "answer" => srest # <<>>)
          BY <1>0, <1>9, <3>1 DEF OnTheWayBack
        <4> QED
          BY <4>1, <4>2
      <3> QED
        BY <1>2, <1>4, <1>5, <1>10, <2>1, <3>1 DEF OnTheWayBack
    <2>u. Understanding'
      <3>1. Current = script[k + 1]
        BY DEF Current
      <3> QED
        BY <1>1, <1>2, <1>4, <1>10, <2>1, <3>1 DEF Understanding
    <2> QED
      BY <1>2, <1>10, <1>g, <1>s, <2>t, <2>p, <2>w, <2>b, <2>u DEF CallInv
  <1>11. CASE Comes
    <2>1. PICK ok \in BOOLEAN :
              results' = Append(results, [ok |-> ok, answer |-> answer, lost |-> FALSE])
      BY <1>11
    <2>2. /\ results' \in Seq([ok : BOOLEAN, answer : Tokens, lost : BOOLEAN])
          /\ Len(results') = k + 1
      BY <1>0, <1>4, <2>1 DEF Typed
    <2>3. ~Giving' /\ Given' = <<>> /\ ~Asking' /\ Asked' = <<>> /\ Read' = <<>>
      BY <1>2, <1>6, <1>11, <2>2 DEF Giving, Given, Asking, Asked, Read
    <2>4. n + 1 = Len(a)
      BY <1>4, <1>11
    <2>5. cbuf' = <<>> /\ s2c' = <<>>
      <3>1. Len(cbuf') = 0 /\ Len(s2c') = 0
        BY <1>5, <1>6, <2>4 DEF At
      <3> QED
        BY <1>5, <3>1, EmptySeq DEF Tokens
    <2>6. up => srest = <<>> /\ spc # "answer"
      <3> SUFFICES ASSUME up PROVE srest = <<>> /\ spc # "answer"
        OBVIOUS
      <3>1. n + Len(cbuf) + Len(s2c) + Len(srest) = Len(a)
        BY <1>0, <1>9 DEF OnTheWayBack
      <3>2. Len(cbuf) + Len(s2c) >= 1
        BY <1>5
      <3>3. Len(srest) = 0
        BY <1>1, <1>6, <2>4, <3>1, <3>2
      <3>4. srest = <<>>
        BY <1>6, <3>3, EmptySeq DEF Tokens
      <3> QED
        BY <1>0, <3>4 DEF OnTheWayBack
    <2>t. Typed'
      <3>1. {crest, srest, cbuf', sbuf, read', heard, c2s, s2c'} \subseteq Tokens
        BY <1>0, <1>4, <1>5 DEF Typed, RmTypeOK
      <3>2. RmTypeOK'
        BY <1>0, <1>2, <1>5, <1>7, <1>8, <1>11, <3>1 DEF Typed, RmTypeOK
      <3> QED
        BY <1>0, <1>2, <2>2, <3>2 DEF Typed
    <2>p. Places'
      BY <1>0, <1>2, <1>6, <1>11, <2>2 DEF Places
    <2>w. OnTheWay'
      BY <1>2, <1>6, <1>7, <1>8, <1>11, <2>3, Nothing DEF OnTheWay
    <2>b. OnTheWayBack'
      BY <1>2, <1>11, <2>3, <2>5, <2>6, Nothing DEF OnTheWayBack
    <2>u. Understanding'
      BY <1>11 DEF Understanding
    <2>7. CallInv'
      BY <1>g, <1>s, <2>t, <2>p, <2>w, <2>b, <2>u DEF CallInv
    <2>8. results' = Append(results, [ok |-> ok, answer |-> a, lost |-> FALSE])
      BY <1>11, <2>1
    <2> QED
      BY <1>1, <1>2, <2>7, <2>8
  <1> QED
    BY <1>4, <1>10, <1>11

-----------------------------------------------------------------------------
(* The steps of the server *)

\* The server takes the next token of the request that is under way.
LEMMA ServerTakes ==
    ASSUME CallInv, Hear \/ HearBytes
    PROVE  /\ Asking /\ Len(Heard) \in Nat
           /\ \E t \in Token :
                 /\ OneTaken(sbuf, c2s, sbuf', c2s', t, Asked, Len(Heard))
                 /\ Hear => Listen(t)
                 /\ HearBytes => heard' = Append(heard, t)
           /\ UNCHANGED <<script, cvars, s2c, up, dvars>>
  <1>0. Typed /\ Places /\ OnTheWay /\ OnTheWayBack /\ Parsing /\ Understanding /\ WellShaped
    BY DEF CallInv
  <1>1. UNCHANGED <<script, cvars, s2c, up, dvars>>
    BY DEF Hear, HearBytes
  <1>2. /\ sbuf \in Tokens /\ c2s \in Tokens /\ Asked \in Tokens /\ Len(Heard) \in Nat
        /\ Len(sbuf) < BufSize
    BY <1>0, Types, TheRequest DEF Typed, RmTypeOK
  <1> DEFINE n == Len(Heard)
  <1>3. At(sbuf, Asked, n) /\ At(c2s, Asked, n + Len(sbuf)) /\ n \in Nat
    BY <1>0, <1>2 DEF OnTheWay
  <1> HIDE DEF n
  <1>4. sbuf = <<>> => At(c2s, Asked, n)
    <2>1. n + 0 = n
      BY <1>3
    <2> QED
      BY <1>3, <2>1, Nothing
  <1> DEFINE Takes(t) == /\ Hear => Listen(t)
                         /\ HearBytes => heard' = Append(heard, t)
  <1>5. \/ sbuf # <<>> /\ Takes(Head(sbuf)) /\ sbuf' = Tail(sbuf) /\ c2s' = c2s
        \/ /\ sbuf = <<>>
           /\ \E i \in Fills(c2s) : /\ Takes(Head(c2s)) /\ sbuf' = SubSeq(c2s, 2, i)
                                    /\ c2s' = SubSeq(c2s, i + 1, Len(c2s))
        \/ sbuf = <<>> /\ c2s # <<>> /\ Takes(Head(c2s)) /\ c2s' = Tail(c2s) /\ sbuf' = sbuf
    <2>1. CASE Hear
      <3>1. ~HearBytes
        BY <2>1 DEF Hear, HearBytes
      <3> QED
        BY <2>1, <3>1 DEF Hear
    <2>2. CASE HearBytes
      <3>1. ~Hear
        BY <2>2 DEF Hear, HearBytes
      <3> QED
        BY <2>2, <3>1 DEF HearBytes
    <2> QED
      BY <2>1, <2>2
  <1> HIDE DEF Takes
  <1>6. \E t \in Token : Takes(t) /\ OneTaken(sbuf, c2s, sbuf', c2s', t, Asked, n)
    <2>1. CASE sbuf # <<>> /\ Takes(Head(sbuf)) /\ sbuf' = Tail(sbuf) /\ c2s' = c2s
      <3>1. OneTaken(sbuf, c2s, sbuf', c2s', Head(sbuf), Asked, n)
        BY <1>2, <1>3, <2>1, FromBuffer
      <3> QED
        BY <2>1, <3>1 DEF OneTaken
    <2>2. CASE /\ sbuf = <<>>
               /\ \E i \in Fills(c2s) : /\ Takes(Head(c2s)) /\ sbuf' = SubSeq(c2s, 2, i)
                                        /\ c2s' = SubSeq(c2s, i + 1, Len(c2s))
      <3>1. PICK i \in Fills(c2s) : /\ Takes(Head(c2s)) /\ sbuf' = SubSeq(c2s, 2, i)
                                    /\ c2s' = SubSeq(c2s, i + 1, Len(c2s))
        BY <2>2
      <3>2. OneTaken(sbuf, c2s, sbuf', c2s', Head(c2s), Asked, n)
        BY <1>2, <1>3, <1>4, <2>2, <3>1, FromFill
      <3> QED
        BY <3>1, <3>2 DEF OneTaken
    <2>3. CASE sbuf = <<>> /\ c2s # <<>> /\ Takes(Head(c2s)) /\ c2s' = Tail(c2s) /\ sbuf' = sbuf
      <3>1. OneTaken(sbuf, c2s, sbuf', c2s', Head(c2s), Asked, n)
        BY <1>2, <1>3, <1>4, <2>3, FromConnection
      <3> QED
        BY <2>3, <3>1 DEF OneTaken
    <2> QED
      BY <1>5, <2>1, <2>2, <2>3
  <1>7. Asking
    <2> SUFFICES ASSUME ~Asking PROVE FALSE
      OBVIOUS
    <2>1. Len(Asked) = 0
      BY <1>0, TheRequest
    <2>2. n + 1 <= Len(Asked)
      BY <1>6 DEF OneTaken
    <2> QED
      BY <1>3, <2>1, <2>2
  <1> QED
    BY <1>1, <1>2, <1>6, <1>7 DEF Takes, n

\* What it has heard is still the beginning of the request.
LEMMA HeardStep ==
    ASSUME CallInv, Asking, NEW t \in Token,
           OneTaken(sbuf, c2s, sbuf', c2s', t, Asked, Len(Heard)),
           heard' = Append(Heard, t), spc' \in {"lines", "look", "bytes", "do"},
           spc \in {"idle", "lines", "bytes"}, sop' \in Commands, sleft' \in Nat,
           srest' = srest, UNCHANGED <<script, cvars, s2c, up, dvars>>,
           At(Append(Heard, t), Asked, 0) /\ Len(Append(Heard, t)) = Len(Heard) + 1 => Parsing'
    PROVE  CallInv'
  <1> DEFINE n == Len(Heard)
             h == Len(handled)
             k == Len(results)
  <1>0. Typed /\ Places /\ OnTheWay /\ OnTheWayBack /\ Parsing /\ Understanding /\ WellShaped
    BY DEF CallInv
  <1>1. /\ handled' = handled /\ answers' = answers /\ cpc' = cpc /\ crest' = crest
        /\ cleft' = cleft /\ cbuf' = cbuf /\ read' = read /\ results' = results
        /\ bufsize' = bufsize /\ buf' = buf /\ device' = device /\ script' = script
        /\ s2c' = s2c /\ up' = up
    BY DEF cvars, dvars
  <1>2. Read' = Read /\ Given' = Given /\ Current' = Current /\ Asked' = Asked
    BY <1>1 DEF Read, Given, Giving, Current, Asked, Asking
  <1>3. /\ n \in Nat /\ Len(sbuf) \in Nat /\ Len(c2s) \in Nat /\ Len(crest) \in Nat
        /\ Heard \in Tokens /\ Asked \in Tokens /\ Len(Asked) \in Nat /\ Len(c2s) <= Room
        /\ Room \in Nat
    BY <1>0, Types, TheRequest, RemoteAssumption DEF Typed, RmTypeOK
  <1>4. /\ sbuf' \in Tokens /\ c2s' \in Tokens /\ Len(sbuf') < BufSize /\ Len(c2s') <= Len(c2s)
        /\ Len(sbuf') + Len(c2s') + 1 = Len(sbuf) + Len(c2s)
        /\ At(sbuf', Asked, n + 1) /\ At(c2s', Asked, n + 1 + Len(sbuf'))
        /\ Len(sbuf') \in Nat /\ Len(c2s') \in Nat /\ t = Asked[n + 1] /\ n + 1 <= Len(Asked)
    BY Nothing DEF OneTaken
  <1> DEFINE z == Append(Heard, t)
  <1>5. z \in Tokens /\ Len(z) = n + 1 /\ At(z, Asked, 0)
    <2>1. /\ Heard \in Seq(Token) /\ Asked \in Seq(Token) /\ 0 \in Nat /\ 0 + n + 1 = n + 1
          /\ At(Heard, Asked, 0) /\ 0 + n + 1 <= Len(Asked)
      BY <1>0, <1>3, <1>4 DEF OnTheWay, Tokens
    <2>2. /\ Append(Heard, Asked[0 + n + 1]) \in Seq(Token)
          /\ Len(Append(Heard, Asked[0 + n + 1])) = n + 1
          /\ At(Append(Heard, Asked[0 + n + 1]), Asked, 0)
      BY <2>1, AtNext
    <2> QED
      BY <1>4, <2>1, <2>2 DEF Tokens
  <1>6. heard' = z /\ Heard' = z
    BY DEF Heard
  <1>g. Parsing'
    BY <1>5
  <1> HIDE DEF z
  <1>7. Len(c2s') <= Room
    BY <1>3, <1>4
  <1>8. n + 1 + Len(sbuf') + Len(c2s') + Len(crest) = n + Len(sbuf) + Len(c2s) + Len(crest)
        /\ n + 1 + Len(sbuf') + Len(c2s') = n + Len(sbuf) + Len(c2s)
    <2>1. /\ n \in Nat /\ Len(sbuf) \in Nat /\ Len(c2s) \in Nat /\ Len(crest) \in Nat
          /\ Len(sbuf') \in Nat /\ Len(c2s') \in Nat
          /\ Len(sbuf') + Len(c2s') + 1 = Len(sbuf) + Len(c2s)
      BY <1>3, <1>4
    <2> HIDE DEF n
    <2> QED
      BY <2>1
  <1>t. Typed'
    <2>1. {crest, srest, cbuf, sbuf', read, heard', c2s', s2c} \subseteq Tokens
      BY <1>0, <1>4, <1>5, <1>6 DEF Typed, RmTypeOK
    <2>2. spc # "gone" /\ {cleft, sleft', bufsize, buf} \subseteq Nat
      BY <1>0 DEF Typed, RmTypeOK
    <2>3. RmTypeOK'
      BY <1>0, <1>1, <1>4, <1>7, <2>1, <2>2 DEF Typed, RmTypeOK
    <2> QED
      BY <1>0, <1>1, <2>3 DEF Typed
  <1>p. Places'
    BY <1>0, <1>1 DEF Places
  <1>w. OnTheWay'
    <2>1. h = k => n + 1 + Len(sbuf') + Len(c2s') + Len(crest) <= Len(Asked)
      BY <1>0, <1>8 DEF OnTheWay
    <2>2. up => At(crest, Asked, n + 1 + Len(sbuf') + Len(c2s'))
                /\ n + 1 + Len(sbuf') + Len(c2s') + Len(crest) = Len(Asked)
      BY <1>0, <1>8 DEF OnTheWay
    <2>3. cpc = "send" => Len(crest) <= Len(Request(Current))
      BY <1>0 DEF OnTheWay
    <2>4. Heard' = z /\ Len(z) = n + 1 /\ Asked' = Asked
      BY <1>2, <1>5, <1>6
    <2>5. At(z, Asked, 0) /\ At(sbuf', Asked, Len(z)) /\ At(c2s', Asked, Len(z) + Len(sbuf'))
      BY <1>4, <1>5
    <2>6. h = k => Len(z) + Len(sbuf') + Len(c2s') + Len(crest) <= Len(Asked)
      BY <2>1, <2>4
    <2>7. up => At(crest, Asked, Len(z) + Len(sbuf') + Len(c2s'))
                /\ Len(z) + Len(sbuf') + Len(c2s') + Len(crest) = Len(Asked)
      BY <2>2, <2>4
    <2> HIDE DEF n
    <2> QED
      BY <1>1, <1>2, <2>3, <2>4, <2>5, <2>6, <2>7 DEF OnTheWay
  <1>b. OnTheWayBack'
    BY <1>0, <1>1, <1>2 DEF OnTheWayBack
  <1>u. Understanding'
    BY <1>0, <1>1, <1>2 DEF Understanding
  <1>s. WellShaped'
    BY <1>0, <1>1 DEF WellShaped
  <1> QED
    BY <1>t, <1>p, <1>w, <1>b, <1>g, <1>u, <1>s DEF CallInv

\* The character of a command and its lines.
LEMMA HearStep ==
    ASSUME CallInv, Hear
    PROVE  CallInv'
  <1> DEFINE c == script[Len(handled) + 1]
             n == Len(Heard)
  <1>0. Typed /\ Places /\ OnTheWay /\ OnTheWayBack /\ Parsing /\ Understanding /\ WellShaped
    BY DEF CallInv
  <1>1. Asking /\ n \in Nat /\ UNCHANGED <<script, cvars, s2c, up, dvars>>
    BY ServerTakes
  <1>2. PICK t \in Token : OneTaken(sbuf, c2s, sbuf', c2s', t, Asked, n) /\ Listen(t)
    BY ServerTakes
  <1>3. /\ c \in Calls /\ Asked = Request(c) /\ sleft \in Nat /\ sop \in Commands
        /\ heard \in Tokens
    BY <1>0, <1>1, Types, TheRequest
  <1>4. c.op \in Commands /\ Lines(c.op) \in Nat /\ Lines(c.op) >= 1
        /\ Asked[1] = Tok("cmd", c.op, 0)
    BY <1>3, RequestShape DEF Calls
  <1>5. handled' = handled /\ script' = script
    BY <1>1 DEF dvars
  <1>6. srest' = srest
    BY <1>2 DEF Listen
  <1> DEFINE z == Append(Heard, t)
  <1>7. CASE spc = "idle"
    <2>1. Heard = <<>> /\ n = 0
      BY <1>7, Nothing DEF Heard
    <2>2. t = Asked[1]
      BY <1>2, <2>1 DEF OneTaken
    <2>3. t.op = c.op
      BY <1>4, <2>2 DEF Tok
    <2>4. sop' = t.op /\ sleft' = Lines(t.op) /\ heard' = <<t>> /\ spc' = "lines"
      BY <1>2, <1>7 DEF Listen
    <2>5. heard' = z
      BY <2>1, <2>4
    <2>6. ASSUME Len(z) = n + 1 PROVE Parsing'
      <3>1. Len(heard') = 1
        BY <2>4
      <3> QED
        BY <1>4, <1>5, <2>3, <2>4, <3>1 DEF Parsing
    <2> QED
      BY <1>1, <1>2, <1>4, <1>6, <1>7, <2>3, <2>4, <2>5, <2>6, HeardStep
  <1>8. CASE spc = "lines"
    <2>1. Heard = heard
      BY <1>8 DEF Heard
    <2>2. /\ heard' = z /\ sleft' = sleft - 1 /\ sop' = sop
          /\ spc' = IF sleft > 1 THEN "lines" ELSE "look"
      BY <1>2, <1>8, <2>1 DEF Listen
    <2>3. sop = c.op /\ n >= 1 /\ sleft >= 1 /\ n + sleft = 1 + Lines(c.op)
      BY <1>0, <1>8, <2>1 DEF Parsing
    <2>4. sleft' \in Nat
      BY <1>3, <2>2, <2>3
    <2>5. ASSUME Len(z) = n + 1 PROVE Parsing'
      <3>1. Len(heard') = n + 1 /\ Len(heard') >= 1 /\ n + 1 + sleft' = 1 + Lines(c.op)
        BY <1>1, <1>3, <2>2, <2>3, <2>5
      <3>2. spc' = "lines" => sleft' >= 1
        BY <1>3, <2>2
      <3>3. spc' = "look" => n + 1 = 1 + Lines(c.op)
        BY <1>1, <1>3, <1>4, <2>2, <2>3
      <3>4. spc' \in {"lines", "look"}
        BY <2>2
      <3> QED
        BY <1>5, <2>2, <2>3, <3>1, <3>2, <3>3, <3>4 DEF Parsing
    <2>6. spc' \in {"lines", "look"}
      BY <2>2
    <2> QED
      BY <1>1, <1>2, <1>3, <1>6, <1>8, <2>2, <2>4, <2>5, <2>6, HeardStep
  <1> QED
    BY <1>7, <1>8 DEF Hear

\* The raw bytes.
LEMMA HearBytesStep ==
    ASSUME CallInv, HearBytes
    PROVE  CallInv'
  <1> DEFINE c == script[Len(handled) + 1]
             n == Len(Heard)
             l == Len(Request(c))
  <1>0. Typed /\ Places /\ OnTheWay /\ OnTheWayBack /\ Parsing /\ Understanding /\ WellShaped
    BY DEF CallInv
  <1>1. Asking /\ n \in Nat /\ UNCHANGED <<script, cvars, s2c, up, dvars>>
    BY ServerTakes
  <1>2. PICK t \in Token : /\ OneTaken(sbuf, c2s, sbuf', c2s', t, Asked, n)
                           /\ heard' = Append(heard, t)
    BY ServerTakes
  <1>3. /\ spc = "bytes" /\ sleft' = sleft - 1 /\ sop' = sop /\ srest' = srest
        /\ spc' = IF sleft' > 0 THEN "bytes" ELSE "do"
    BY DEF HearBytes
  <1>4. sleft \in Nat /\ sop \in Commands /\ heard \in Tokens
    BY <1>0, Types
  <1>5. handled' = handled /\ script' = script
    BY <1>1 DEF dvars
  <1>6. Heard = heard
    BY <1>3 DEF Heard
  <1>7. sop = c.op /\ sleft >= 1 /\ n + sleft = l /\ sop = "S" /\ n >= 6
    BY <1>0, <1>3, <1>6 DEF Parsing
  <1>8. sleft' \in Nat /\ spc' \in {"bytes", "do"}
    BY <1>3, <1>4, <1>7
  <1> DEFINE z == Append(Heard, t)
  <1>9. ASSUME Len(z) = n + 1 PROVE Parsing'
    <2>1. Len(heard') = n + 1 /\ n + 1 >= 6 /\ n + 1 + sleft' = l
      BY <1>1, <1>2, <1>3, <1>4, <1>6, <1>7, <1>9
    <2>2. spc' = "bytes" => sleft' >= 1
      BY <1>3, <1>8
    <2>3. spc' = "do" => n + 1 = l
      BY <1>1, <1>3, <1>4, <1>7, <1>8
    <2>4. Len(heard') >= 1
      BY <1>1, <2>1
    <2> QED
      BY <1>3, <1>5, <1>7, <1>8, <2>1, <2>2, <2>3, <2>4 DEF Parsing
  <1> QED
    BY <1>1, <1>2, <1>3, <1>4, <1>6, <1>8, <1>9, HeardStep

\* All lines are there, and tell the length of the request.
LEMMA LookStep ==
    ASSUME CallInv, Look
    PROVE  CallInv'
  <1> DEFINE c == script[Len(handled) + 1]
             n == Len(heard)
             r == Request(c)
  <1>0. Typed /\ Places /\ OnTheWay /\ OnTheWayBack /\ Parsing /\ Understanding /\ WellShaped
    BY DEF CallInv
  <1>1. /\ spc = "look" /\ sleft' = WantedBytes /\ spc' = (IF sleft' > 0 THEN "bytes" ELSE "do")
        /\ UNCHANGED <<script, cvars, c2s, s2c, up, sop, sbuf, heard, srest, dvars>>
    BY DEF Look
  <1>2. /\ handled' = handled /\ answers' = answers /\ cpc' = cpc /\ crest' = crest
        /\ cleft' = cleft /\ cbuf' = cbuf /\ read' = read /\ results' = results
        /\ bufsize' = bufsize /\ buf' = buf /\ device' = device /\ script' = script
        /\ s2c' = s2c /\ up' = up /\ c2s' = c2s /\ sop' = sop /\ sbuf' = sbuf
        /\ heard' = heard /\ srest' = srest
    BY <1>1 DEF cvars, dvars
  <1>3. Asking
    BY <1>0, <1>1, NothingAsked
  <1>4. c \in Calls /\ Asked = r /\ n \in Nat
    BY <1>0, <1>3, Types, TheRequest
  <1>5. sop = c.op /\ n = 1 + Lines(c.op) /\ n >= 1
    BY <1>0, <1>1 DEF Parsing
  <1>6. /\ Len(r) >= 1 + Lines(c.op) /\ Lines(c.op) \in Nat /\ r \in Tokens /\ Len(r) \in Nat
        /\ c.op # "S" => Len(r) = 1 + Lines(c.op)
        /\ c.op = "S" => Lines(c.op) = 5
                         /\ Len(r) = 6 + r[4].n + IF r[3].n = 0 THEN r[2].n ELSE 0
        /\ Counted(r)
    BY <1>4, RequestShape, Nothing
  <1>7. \A i \in 1 .. n : heard[i] = r[i]
    <2>1. Heard = heard
      BY <1>1 DEF Heard
    <2>2. At(heard, r, 0)
      BY <1>0, <1>4, <2>1 DEF OnTheWay
    <2> QED
      BY <1>4, <2>2 DEF At
  <1>8. WantedBytes \in Nat /\ n + WantedBytes = Len(r) /\ (WantedBytes > 0 => sop = "S" /\ n >= 6)
    <2>1. CASE c.op # "S"
      <3>1. WantedBytes = 0
        BY <1>5, <2>1 DEF WantedBytes
      <3> QED
        BY <1>4, <1>5, <1>6, <2>1, <3>1
    <2>2. CASE c.op = "S"
      <3>1. n = 6 /\ heard[2] = r[2] /\ heard[3] = r[3] /\ heard[4] = r[4]
        BY <1>5, <1>6, <1>7, <2>2
      <3>2. r[2].n \in Nat /\ r[3].n \in Nat /\ r[4].n \in Nat
        BY <1>5, <1>6, <2>2, <3>1 DEF Counted
      <3>3. WantedBytes = r[4].n + IF r[3].n = 0 THEN r[2].n ELSE 0
        <4>1. Arg(1) = heard[2].n /\ Arg(2) = heard[3].n /\ Arg(3) = heard[4].n
          <5>1. 1 + 1 = 2 /\ 2 + 1 = 3 /\ 3 + 1 = 4
            OBVIOUS
          <5> QED
            BY <5>1 DEF Arg
        <4>2. Arg(1) = r[2].n /\ Arg(2) = r[3].n /\ Arg(3) = r[4].n
          BY <3>1, <4>1
        <4>3. sop = "S"
          BY <1>5, <2>2
        <4>4. WantedBytes = Arg(3) + IF Arg(2) = 0 THEN Arg(1) ELSE 0
          BY <4>3 DEF WantedBytes
        <4> QED
          BY <3>2, <4>2, <4>4
      <3> DEFINE i == IF r[3].n = 0 THEN r[2].n ELSE 0
                 q == r[4].n + i
      <3>4. i \in Nat /\ q \in Nat
        BY <3>2
      <3>5. WantedBytes = q /\ Len(r) = 6 + r[4].n + i
        BY <1>6, <2>2, <3>3
      <3> HIDE DEF i
      <3>6. Len(r) = 6 + q
        BY <3>2, <3>4, <3>5
      <3> HIDE DEF q
      <3>7. sop = "S"
        BY <1>5, <2>2
      <3>8. WantedBytes \in Nat /\ n + WantedBytes = Len(r) /\ n >= 6
        BY <3>1, <3>4, <3>5, <3>6
      <3> QED
        BY <3>7, <3>8
    <2> QED
      BY <2>1, <2>2
  <1>9. sleft' \in Nat /\ spc' \in {"bytes", "do"} /\ (spc' = "bytes" => sleft' >= 1)
        /\ (spc' = "do" => sleft' = 0)
    BY <1>1, <1>8
  <1>10. Heard' = Heard /\ Read' = Read /\ Given' = Given /\ Current' = Current /\ Asked' = Asked
    BY <1>1, <1>2, <1>9 DEF Heard, Read, Given, Giving, Current, Asked, Asking
  <1>t. Typed'
    <2>1. RmTypeOK'
      BY <1>0, <1>2, <1>9 DEF Typed, RmTypeOK
    <2> QED
      BY <1>0, <1>2, <2>1 DEF Typed
  <1>p. Places'
    BY <1>0, <1>2, <1>9 DEF Places
  <1>w. OnTheWay'
    BY <1>0, <1>2, <1>10 DEF OnTheWay
  <1>b. OnTheWayBack'
    BY <1>0, <1>1, <1>2, <1>9, <1>10 DEF OnTheWayBack
  <1>g. Parsing'
    <2>1. spc' = "do" => n = Len(r)
      BY <1>1, <1>4, <1>6, <1>8, <1>9
    <2>2. spc' = "bytes" => n + sleft' = Len(r) /\ sop = "S" /\ n >= 6
      BY <1>1, <1>8, <1>9
    <2> QED
      BY <1>2, <1>5, <1>9, <2>1, <2>2 DEF Parsing
  <1>u. Understanding'
    BY <1>0, <1>2, <1>10 DEF Understanding
  <1>s. WellShaped'
    BY <1>0, <1>2 DEF WellShaped
  <1> QED
    BY <1>t, <1>p, <1>w, <1>b, <1>g, <1>u, <1>s DEF CallInv

\* Between two requests the next character is that of a command.
LEMMA NoGarbage ==
    ASSUME CallInv, spc = "idle", sbuf \o c2s # <<>>
    PROVE  Head(sbuf \o c2s).t = "cmd"
  <1>0. Typed /\ Places /\ OnTheWay
    BY DEF CallInv
  <1>1. Heard = <<>> /\ Len(Heard) = 0
    BY Nothing DEF Heard
  <1>2. sbuf \in Tokens /\ c2s \in Tokens /\ Len(sbuf) \in Nat /\ Len(c2s) \in Nat
    BY <1>0, Types
  <1>3. At(sbuf, Asked, 0) /\ (sbuf = <<>> => At(c2s, Asked, 0))
    BY <1>0, <1>1, Nothing DEF OnTheWay
  <1> DEFINE f == IF sbuf # <<>> THEN sbuf ELSE c2s
  <1>4. f \in Tokens /\ f # <<>> /\ At(f, Asked, 0) /\ Head(sbuf \o c2s) = f[1]
    BY <1>2, <1>3 DEF Tokens
  <1> HIDE DEF f
  <1>5. Len(f) \in Nat /\ Len(f) >= 1
    BY <1>4 DEF Tokens
  <1>6. f[1] = Asked[1] /\ Len(Asked) >= 1
    <2>1. 1 \in 1 .. Len(f) /\ 0 + 1 = 1 /\ Len(Asked) \in Nat
      BY <1>0, <1>5, TheRequest
    <2>2. f[1] = Asked[0 + 1] /\ 0 + Len(f) <= Len(Asked)
      BY <1>4, <2>1 DEF At
    <2> QED
      BY <1>5, <2>1, <2>2
  <1>7. Asking
    BY <1>0, <1>6, TheRequest
  <1>8. Asked[1] = Tok("cmd", script[Len(handled) + 1].op, 0)
    BY <1>0, <1>7, TheRequest, RequestShape
  <1> QED
    BY <1>4, <1>6, <1>8 DEF Tok

\* The server finds the connection gone, and exits or complains first.
LEMMA QuitStep ==
    ASSUME CallInv, Quit \/ Complain \/ LastWords
    PROVE  CallInv'
  <1>0. Typed /\ Places /\ OnTheWay /\ OnTheWayBack /\ Parsing /\ Understanding /\ WellShaped
    BY DEF CallInv
  <1>1. /\ spc' \in {"last", "gone"} /\ up = FALSE /\ up' = FALSE
        /\ UNCHANGED <<script, cvars, c2s, s2c, sop, sleft, sbuf, heard, dvars>>
        /\ \/ spc \in {"idle", "lines", "bytes"} /\ sbuf = <<>> /\ c2s = <<>>
           \/ spc = "last"
        /\ srest' \in Tokens
    <2>1. srest \in Tokens /\ up \in BOOLEAN
      BY <1>0, Types
    <2>2. CASE Quit
      BY <2>1, <2>2 DEF Quit
    <2>3. CASE Complain
      <3>1. ~(spc = "idle" /\ sbuf \o c2s # <<>> /\ Head(sbuf \o c2s).t # "cmd")
        BY NoGarbage
      <3>2. Error(0) \in Tokens
        BY ErrorProper DEF Proper
      <3> QED
        BY <2>1, <2>3, <3>1, <3>2 DEF Complain
    <2>4. CASE LastWords
      <3>1. up = FALSE
        BY <1>0, <2>1, <2>4 DEF LastWords, Places
      <3>2. /\ spc = "last" /\ srest' = <<>> /\ s2c' = s2c /\ spc' = "gone"
            /\ up' = (up /\ spc' = "last")
            /\ UNCHANGED <<script, cvars, c2s, sop, sleft, sbuf, heard, dvars>>
        BY <2>4, <3>1 DEF LastWords
      <3>3. <<>> \in Tokens
        BY DEF Tokens
      <3> QED
        BY <3>1, <3>2, <3>3
    <2> QED
      BY <2>2, <2>3, <2>4
  <1>2. /\ handled' = handled /\ answers' = answers /\ cpc' = cpc /\ crest' = crest
        /\ cleft' = cleft /\ cbuf' = cbuf /\ read' = read /\ results' = results
        /\ bufsize' = bufsize /\ buf' = buf /\ device' = device /\ script' = script
        /\ s2c' = s2c /\ c2s' = c2s /\ sop' = sop /\ sbuf' = sbuf /\ sleft' = sleft
        /\ heard' = heard
    BY <1>1 DEF cvars, dvars
  <1>3. Heard' = <<>> /\ Read' = Read /\ Given' = Given /\ Current' = Current /\ Asked' = Asked
    BY <1>1, <1>2 DEF Heard, Read, Given, Giving, Current, Asked, Asking
  <1>4. /\ Len(Heard) \in Nat /\ Len(sbuf) \in Nat /\ Len(c2s) \in Nat /\ Len(crest) \in Nat
        /\ Asked \in Tokens /\ Len(Asked) \in Nat
    BY <1>0, Types, TheRequest
  <1>t. Typed'
    <2>1. RmTypeOK'
      BY <1>0, <1>1, <1>2 DEF Typed, RmTypeOK
    <2> QED
      BY <1>0, <1>2, <2>1 DEF Typed
  <1>p. Places'
    BY <1>0, <1>1, <1>2 DEF Places
  <1>w. OnTheWay'
    <2>1. CASE sbuf = <<>> /\ c2s = <<>>
      <3>1. At(<<>>, Asked, 0) /\ Len(<<>>) = 0 /\ 0 + 0 = 0
        BY <1>4, Nothing
      <3>2. Len(handled) = Len(results) => 0 + 0 + 0 + Len(crest) <= Len(Asked)
        BY <1>0, <1>4, <2>1, <3>1 DEF OnTheWay
      <3> QED
        BY <1>0, <1>1, <1>2, <1>3, <2>1, <3>1, <3>2 DEF OnTheWay
    <2>2. CASE spc = "last"
      <3>1. Heard = <<>>
        BY <2>2 DEF Heard
      <3> QED
        BY <1>0, <1>1, <1>2, <1>3, <3>1 DEF OnTheWay
    <2> QED
      BY <1>1, <2>1, <2>2
  <1>b. OnTheWayBack'
    BY <1>0, <1>1, <1>2, <1>3 DEF OnTheWayBack
  <1>g. Parsing'
    BY <1>1 DEF Parsing
  <1>u. Understanding'
    BY <1>0, <1>2, <1>3 DEF Understanding
  <1>s. WellShaped'
    BY <1>0, <1>2 DEF WellShaped
  <1> QED
    BY <1>t, <1>p, <1>w, <1>b, <1>g, <1>u, <1>s DEF CallInv

\* A write of the server: a part of the answer goes to the connection.
LEMMA AnswerStep ==
    ASSUME CallInv, Answer
    PROVE  CallInv'
  <1>0. Typed /\ Places /\ OnTheWay /\ OnTheWayBack /\ Parsing /\ Understanding /\ WellShaped
    BY DEF CallInv
  <1>1. /\ spc = "answer" /\ spc' \in {"idle", "answer", "gone"}
        /\ UNCHANGED <<script, cvars, c2s, up, sop, sleft, sbuf, heard, dvars>>
    BY DEF Answer
  <1>2. /\ handled' = handled /\ answers' = answers /\ cpc' = cpc /\ crest' = crest
        /\ cleft' = cleft /\ cbuf' = cbuf /\ read' = read /\ results' = results
        /\ bufsize' = bufsize /\ buf' = buf /\ device' = device /\ script' = script
        /\ up' = up /\ c2s' = c2s /\ sop' = sop /\ sbuf' = sbuf /\ sleft' = sleft
        /\ heard' = heard
    BY <1>1 DEF cvars, dvars
  <1>3. Heard' = Heard /\ Read' = Read /\ Given' = Given /\ Current' = Current /\ Asked' = Asked
    BY <1>1, <1>2 DEF Heard, Read, Given, Giving, Current, Asked, Asking
  <1>4. /\ Len(Read) \in Nat /\ Len(cbuf) \in Nat /\ Len(s2c) \in Nat /\ Len(srest) \in Nat
        /\ srest \in Tokens /\ s2c \in Tokens /\ Given \in Tokens /\ Len(s2c) <= Room
        /\ Len(Given) \in Nat
    BY <1>0, Types, TheAnswer DEF Typed, RmTypeOK
  <1>5. /\ srest' \in Tokens /\ s2c' \in Tokens /\ Len(s2c') <= Room
        /\ At(s2c', Given, Len(Read) + Len(cbuf))
        /\ up => /\ At(srest', Given, Len(Read) + Len(cbuf) + Len(s2c'))
                 /\ Len(Read) + Len(cbuf) + Len(s2c') + Len(srest') = Len(Given)
                 /\ spc' = IF srest' = <<>> THEN "idle" ELSE "answer"
    <2>1. CASE up
      <3>1. /\ s2c' = Sent(s2c, srest) /\ srest' = Unsent(s2c, srest)
            /\ spc' = IF srest' = <<>> THEN "idle" ELSE "answer"
        BY <2>1 DEF Answer
      <3> DEFINE o == Len(Read) + Len(cbuf)
      <3>2. o \in Nat /\ At(s2c, Given, o) /\ At(srest, Given, o + Len(s2c))
            /\ o + Len(s2c) + Len(srest) = Len(Given)
        BY <1>0, <1>4, <2>1 DEF OnTheWayBack
      <3> HIDE DEF o
      <3>3. /\ s2c' \in Tokens /\ srest' \in Tokens /\ Len(s2c') <= Room
            /\ Len(s2c') + Len(srest') = Len(s2c) + Len(srest)
            /\ At(s2c', Given, o) /\ At(srest', Given, o + Len(s2c'))
        BY <1>4, <3>1, <3>2, Written
      <3>4. Len(srest') \in Nat /\ Len(s2c') \in Nat
        BY <3>3, Nothing
      <3>5. o + Len(s2c') + Len(srest') = Len(Given)
        BY <1>4, <3>2, <3>3, <3>4
      <3> QED
        BY <3>1, <3>3, <3>5 DEF o
    <2>2. CASE ~up
      <3>1. s2c' = s2c /\ srest' = <<>>
        BY <2>2 DEF Answer
      <3> QED
        BY <1>0, <1>4, <2>2, <3>1, Nothing DEF OnTheWayBack
    <2> QED
      BY <1>0, <2>1, <2>2, Types
  <1>t. Typed'
    <2>1. {crest, srest', cbuf, sbuf, read, heard, c2s, s2c'} \subseteq Tokens
      BY <1>0, <1>5 DEF Typed, RmTypeOK
    <2>2. RmTypeOK'
      BY <1>0, <1>1, <1>2, <1>5, <2>1 DEF Typed, RmTypeOK
    <2> QED
      BY <1>0, <1>2, <2>2 DEF Typed
  <1>p. Places'
    BY <1>0, <1>2, <1>5 DEF Places
  <1>w. OnTheWay'
    BY <1>0, <1>2, <1>3 DEF OnTheWay
  <1>b. OnTheWayBack'
    BY <1>0, <1>2, <1>3, <1>5 DEF OnTheWayBack
  <1>g. Parsing'
    BY <1>1 DEF Parsing
  <1>u. Understanding'
    BY <1>0, <1>2, <1>3 DEF Understanding
  <1>s. WellShaped'
    BY <1>0, <1>2 DEF WellShaped
  <1> QED
    BY <1>t, <1>p, <1>w, <1>b, <1>g, <1>u, <1>s DEF CallInv

\* When the handler does its work it has the whole request, and nothing is left of it.
LEMMA WholeRequest ==
    ASSUME CallInv, spc = "do"
    PROVE  LET c == script[Len(handled) + 1] IN
           /\ Asking /\ c \in Calls /\ sop = c.op /\ heard = Request(c)
           /\ sbuf = <<>> /\ c2s = <<>>
           /\ Len(handled) = Len(results) => crest = <<>> /\ cpc = "status"
           /\ Arg(1) \in Nat
           /\ sop = "S" => /\ Arg(1) = c.out + c.in /\ Arg(3) = c.cdb
                           /\ Arg(2) = IF c.in > 0 THEN 1 ELSE 0
  <1> DEFINE c == script[Len(handled) + 1]
             r == Request(c)
  <1>0. Typed /\ Places /\ OnTheWay /\ OnTheWayBack /\ Parsing /\ Understanding /\ WellShaped
    BY DEF CallInv
  <1>1. Asking
    BY <1>0, NothingAsked
  <1>2. c \in Calls /\ Asked = r /\ sop = c.op /\ Len(heard) = Len(r)
    BY <1>0, <1>1, TheRequest DEF Parsing
  <1>3. Heard = heard
    BY DEF Heard
  <1>4. /\ Len(Heard) \in Nat /\ Len(sbuf) \in Nat /\ Len(c2s) \in Nat /\ Len(crest) \in Nat
        /\ heard \in Tokens /\ sbuf \in Tokens /\ c2s \in Tokens /\ crest \in Tokens
        /\ r \in Tokens /\ Len(r) \in Nat
    BY <1>0, <1>2, Types, TheRequest
  <1>5. heard = r
    BY <1>0, <1>2, <1>3, <1>4, AtWhole DEF OnTheWay, Tokens
  <1>6. \A s \in Tokens : Len(s) = 0 => s = <<>>
    BY EmptySeq DEF Tokens
  <1>7. sbuf = <<>> /\ c2s = <<>>
    <2>1. Len(sbuf) = 0 /\ Len(c2s) = 0
      BY <1>0, <1>2, <1>3, <1>4 DEF OnTheWay, At
    <2> QED
      BY <1>4, <1>6, <2>1
  <1>8. ASSUME Len(handled) = Len(results) PROVE crest = <<>> /\ cpc = "status"
    <2>1. Len(crest) = 0
      BY <1>0, <1>2, <1>3, <1>4, <1>8 DEF OnTheWay
    <2>2. crest = <<>>
      BY <1>4, <1>6, <2>1
    <2>3. cpc # "send"
      BY <1>0, <2>2 DEF Typed, RmTypeOK
    <2>4. Len(handled) \in Nat
      BY <1>0, Types
    <2> QED
      BY <1>1, <1>8, <2>2, <2>3, <2>4 DEF Asking
  <1>9. /\ Len(r) >= 1 + Lines(c.op) /\ Lines(c.op) \in Nat /\ Lines(c.op) >= 1 /\ Counted(r)
        /\ c.op = "S" => /\ r[2].n = c.out + c.in /\ r[4].n = c.cdb
                         /\ r[3].n = IF c.in > 0 THEN 1 ELSE 0
    BY <1>2, RequestShape
  <1>10. Arg(1) = r[2].n /\ Arg(2) = r[3].n /\ Arg(3) = r[4].n
    <2>1. 1 + 1 = 2 /\ 2 + 1 = 3 /\ 3 + 1 = 4
      OBVIOUS
    <2> QED
      BY <1>5, <2>1 DEF Arg
  <1>11. Arg(1) \in Nat
    <2>1. 2 \in 1 .. Len(r)
      BY <1>4, <1>9
    <2> QED
      BY <1>9, <1>10, <2>1 DEF Counted
  <1> QED
    BY <1>1, <1>2, <1>5, <1>7, <1>8, <1>9, <1>10, <1>11

\* The handler answers in a way the client understands.
LEMMA DoAnswers ==
    ASSUME CallInv, Do
    PROVE  /\ \E a : /\ Proper(script[Len(handled) + 1], a)
                     /\ answers' = Append(answers, a) /\ srest' = a
           /\ handled' = Append(handled, heard) /\ spc' = "answer"
           /\ device' \in BOOLEAN /\ bufsize' \in Nat /\ buf' \in Nat
  <1> DEFINE c == script[Len(handled) + 1]
             Fine(a, dev, size, b) ==
                 /\ Proper(c, a) /\ Effect(a, dev, size, b)
                 /\ dev \in BOOLEAN /\ size \in Nat /\ b \in Nat
             Goal ==
                 /\ \E a : /\ Proper(c, a) /\ answers' = Append(answers, a) /\ srest' = a
                 /\ handled' = Append(handled, heard) /\ spc' = "answer"
                 /\ device' \in BOOLEAN /\ bufsize' \in Nat /\ buf' \in Nat
  <1>1. spc = "do"
    BY DEF Do
  <1>2. /\ c \in Calls /\ sop = c.op /\ Arg(1) \in Nat
        /\ sop = "S" => Arg(2) = IF c.in > 0 THEN 1 ELSE 0
    BY <1>1, WholeRequest
  <1>3. device \in BOOLEAN /\ bufsize \in Nat /\ buf \in Nat
    BY Types DEF CallInv
  <1>4. c.op \in Commands
    BY <1>2 DEF Calls
  <1>5. ASSUME NEW a, NEW dev, NEW size, NEW b, Fine(a, dev, size, b) PROVE Goal
    BY <1>5 DEF Effect
  <1> SUFFICES Goal
    OBVIOUS
  <1> HIDE DEF Goal
  <1>6. ASSUME Failed PROVE Goal
    <2>1. Proper(c, Error(0))
      BY ErrorProper
    <2> QED
      BY <1>3, <1>5, <1>6, <2>1 DEF Failed
  <1>7. CASE sop = "V" /\ \/ Effect(<<Line("A", 1)>> \o Bytes("str", 1), device, bufsize, buf)
                          \/ Failed
    <2>1. Proper(c, <<Line("A", 1)>> \o Bytes("str", 1))
      BY <1>2, <1>7, VersionProper
    <2> HIDE DEF Proper
    <2> DEFINE a == <<Line("A", 1)>> \o Bytes("str", 1)
    <2> HIDE DEF a
    <2>2. Effect(a, device, bufsize, buf) \/ Failed
      BY <1>7 DEF a
    <2> QED
      BY <1>3, <1>5, <1>6, <2>1, <2>2 DEF a
  <1>8. CASE sop = "O" /\ Open
    <2> DEFINE a == <<Line("A", 0), Line("bus", 0), Line("chan", 0), Line("tgt", 0),
                      Line("lun", 0)>>
    <2>1. Proper(c, a)
      BY <1>2, <1>8, OpenProper
    <2>2. Proper(c, Error(1))
      BY ErrorProper
    <2>3. Effect(a, TRUE, bufsize, 0) \/ Effect(Error(1), FALSE, bufsize, 0)
      BY <1>8 DEF Open
    <2> HIDE DEF a
    <2> QED
      BY <1>3, <1>5, <2>1, <2>2, <2>3
  <1>9. ASSUME sop \notin {"S", "O", "V"}, NEW n \in Int, NEW dev \in BOOLEAN,
               NEW size \in Nat, NEW b \in Nat, Effect(<<Line("A", n)>>, dev, size, b)
        PROVE  Goal
    <2> DEFINE a == <<Line("A", n)>>
    <2>1. Proper(c, a)
      BY <1>2, <1>9, PlainProper
    <2>2. Effect(a, dev, size, b)
      BY <1>9
    <2> HIDE DEF a
    <2>3. Fine(a, dev, size, b)
      BY <1>9, <2>1, <2>2, Zenon
    <2> HIDE DEF Fine
    <2> QED
      BY <1>5, <2>3, Zenon
  <1>10. CASE sop = "C" /\ Effect(<<Line("A", 0)>>, FALSE, bufsize, 0)
    <2>1. sop \notin {"S", "O", "V"} /\ 0 \in Int /\ 0 \in Nat /\ FALSE \in BOOLEAN
      BY <1>10
    <2>2. Effect(<<Line("A", 0)>>, FALSE, bufsize, 0)
      BY <1>10
    <2> QED
      BY <1>3, <1>9, <2>1, <2>2, Zenon
  <1>11. CASE \/ sop \notin {"V", "O", "C", "S"} /\ ~device /\ Failed
              \/ sop = "S" /\ Refuses /\ Failed
    BY <1>6, <1>11
  <1>12. CASE sop \in {"D", "N", "B", "T", "I", "A", "R"} /\ device /\ (Plain(1) \/ Failed)
    <2>1. sop \notin {"S", "O", "V"} /\ 1 \in Int
      BY <1>12
    <2>2. Plain(1) \/ Failed
      BY <1>12
    <2> QED
      BY <1>3, <1>6, <1>9, <2>1, <2>2, Zenon DEF Plain
  <1>13. CASE sop = "T" /\ device /\ Plain(-1)
    <2> DEFINE n == -1
    <2>1. sop \notin {"S", "O", "V"} /\ n \in Int
      BY <1>13
    <2>2. Plain(n)
      BY <1>13
    <2> HIDE DEF n
    <2> QED
      BY <1>3, <1>9, <2>1, <2>2, Zenon DEF Plain
  <1>14. CASE sop = "M" /\ device /\ GetBuf
    <2>1. CASE \E n \in 1 .. Arg(1) : Effect(<<Line("A", n)>>, TRUE, n, n)
      <3>1. PICK n \in 1 .. Arg(1) : Effect(<<Line("A", n)>>, TRUE, n, n)
        BY <2>1
      <3>2. sop \notin {"S", "O", "V"} /\ n \in Int /\ n \in Nat /\ TRUE \in BOOLEAN
        BY <1>2, <1>14
      <3> QED
        BY <1>9, <3>1, <3>2, Zenon
    <2>2. CASE Effect(Error(0), TRUE, 0, 0)
      <3>1. Proper(c, Error(0))
        BY ErrorProper
      <3> QED
        BY <1>5, <2>2, <3>1
    <2> QED
      BY <1>14, <2>1, <2>2 DEF GetBuf
  <1>15. CASE sop = "F" /\ device /\ Effect(<<Line("A", 0)>>, device, bufsize, 0)
    <2>1. sop \notin {"S", "O", "V"} /\ 0 \in Int /\ 0 \in Nat
      BY <1>15
    <2>2. Effect(<<Line("A", 0)>>, device, bufsize, 0)
      BY <1>15
    <2> QED
      BY <1>3, <1>9, <2>1, <2>2, Zenon
  <1>16. CASE /\ sop = "S" /\ ~Refuses
              /\ \E n \in 0 .. Arg(1), sense \in Senses :
                    Effect(Reply(n, sense), device, bufsize, buf)
    <2>1. PICK n \in 0 .. Arg(1), sense \in Senses : Effect(Reply(n, sense), device, bufsize, buf)
      BY <1>16
    <2>2. n \in Nat /\ sense \in Nat
      BY <1>2, RemoteAssumption
    <2>3. Proper(c, Reply(n, sense))
      BY <1>2, <1>16, <2>2, ReplyProper
    <2> QED
      BY <1>3, <1>5, <2>1, <2>3
  <1> QED
    BY <1>7, <1>8, <1>10, <1>11, <1>12, <1>13, <1>14, <1>15, <1>16 DEF Do

\* A request is handled: its answer takes its place.
LEMMA DoStep ==
    ASSUME CallInv, Do
    PROVE  /\ CallInv'
           /\ Asking /\ heard = Request(script[Len(handled) + 1])
           /\ handled' = Append(handled, heard) /\ Len(answers') = Len(answers) + 1
           /\ SubSeq(answers', 1, Len(answers)) = answers
           /\ results' = results /\ script' = script
  <1> DEFINE h == Len(handled)
             k == Len(results)
             c == script[h + 1]
  <1>0. Typed /\ Places /\ OnTheWay /\ OnTheWayBack /\ Parsing /\ Understanding /\ WellShaped
    BY DEF CallInv
  <1>1. spc = "do" /\ UNCHANGED <<script, cvars, c2s, s2c, up, sop, sleft, sbuf, heard>>
    BY DEF Do
  <1>2. /\ cpc' = cpc /\ crest' = crest /\ cleft' = cleft /\ cbuf' = cbuf /\ read' = read
        /\ results' = results /\ script' = script /\ s2c' = s2c /\ up' = up /\ c2s' = c2s
        /\ sop' = sop /\ sbuf' = sbuf /\ sleft' = sleft /\ heard' = heard
    BY <1>1 DEF cvars
  <1>3. /\ Asking /\ c \in Calls /\ heard = Request(c) /\ sbuf = <<>> /\ c2s = <<>>
        /\ h = k => crest = <<>> /\ cpc = "status"
    BY <1>1, WholeRequest
  <1>4. PICK a : Proper(c, a) /\ answers' = Append(answers, a) /\ srest' = a
    BY DoAnswers
  <1>5. /\ handled' = Append(handled, heard) /\ spc' = "answer"
        /\ device' \in BOOLEAN /\ bufsize' \in Nat /\ buf' \in Nat
    BY DoAnswers
  <1>6. /\ h \in Nat /\ k \in Nat /\ Len(script) \in Nat /\ Len(answers) = h
        /\ h <= k /\ h + 1 \in 1 .. Len(script) /\ ~Giving
        /\ crest \in Tokens /\ Len(crest) \in Nat
    BY <1>0, <1>3, Types, TheRequest DEF Places
  <1>7. a \in Tokens /\ a # <<>> /\ Shaped(c, a) /\ heard \in Tokens
    BY <1>0, <1>4, Types DEF Proper
  <1>8. /\ handled' \in Seq(Tokens) /\ Len(handled') = h + 1
        /\ answers' \in Seq(Tokens) /\ Len(answers') = h + 1 /\ answers'[h + 1] = a
        /\ \A j \in 1 .. h : answers'[j] = answers[j]
    BY <1>0, <1>4, <1>5, <1>6, <1>7, AppendProperties DEF Typed
  <1>9. SubSeq(answers', 1, Len(answers)) = answers
    <2>1. answers \in Seq(Tokens)
      BY <1>0 DEF Typed
    <2> QED
      BY <1>4, <1>7, <2>1
  <1>10. Heard' = <<>> /\ Read' = Read /\ Current' = Current
    BY <1>2, <1>5 DEF Heard, Read, Current
  <1>11. Read = <<>> /\ cbuf = <<>> /\ s2c = <<>>
         /\ cpc \notin {"lines", "elines", "bytes", "ebytes"}
    BY <1>0, <1>6, NothingGiven
  <1>12. up => h = k
    BY <1>0, <1>6 DEF Places
  <1>t. Typed'
    <2>1. {crest, srest', cbuf, sbuf, read, heard, c2s, s2c} \subseteq Tokens
      BY <1>0, <1>4, <1>7 DEF Typed, RmTypeOK
    <2>2. {cleft, sleft, bufsize', buf'} \subseteq Nat /\ {up, device'} \subseteq BOOLEAN
      BY <1>0, <1>5 DEF Typed, RmTypeOK
    <2>3. RmTypeOK'
      BY <1>0, <1>2, <1>5, <2>1, <2>2 DEF Typed, RmTypeOK
    <2> QED
      BY <1>0, <1>2, <1>8, <2>3 DEF Typed
  <1>p. Places'
    <2>1. cpc \in {"idle", "send", "gone"} => h + 1 <= k
      BY <1>3, <1>6
    <2>2. up => h + 1 >= k /\ cpc # "gone"
      BY <1>0, <1>6, <1>12 DEF Places
    <2> QED
      BY <1>0, <1>2, <1>5, <1>6, <1>8, <2>1, <2>2 DEF Places
  <1>w. OnTheWay'
    <2>1. Asked' \in Tokens /\ Len(Asked') \in Nat
      <3>1. Asked' = IF Asking' THEN Request(script[h + 2]) ELSE <<>>
        <4>1. script'[Len(handled') + 1] = script[h + 2]
          BY <1>2, <1>6, <1>8
        <4> QED
          BY <4>1 DEF Asked
      <3>2. Asking' => h + 2 \in 1 .. Len(script)
        BY <1>0, <1>2, <1>6, <1>8 DEF Asking, Places
      <3>3. Asking' => Request(script[h + 2]) \in Tokens
        BY <1>0, <3>2, Types, RequestShape
      <3> QED
        BY <3>1, <3>3, Nothing
    <2>2. CASE h = k
      <3>1. ~Asking' /\ Asked' = <<>>
        BY <1>2, <1>6, <1>8, <2>2 DEF Asking, Asked
      <3>2. crest = <<>> /\ cpc = "status"
        BY <1>3, <2>2
      <3> QED
        BY <1>2, <1>3, <1>10, <2>1, <3>1, <3>2, Nothing DEF OnTheWay
    <2>3. CASE h < k
      <3>1. ~up
        BY <1>6, <1>12, <2>3
      <3>2. ASSUME h + 1 = k PROVE Len(crest) <= Len(Asked')
        <4>1. CASE cpc = "send"
          <5>1. Asked' = Request(Current)
            <6>1. Asking'
              BY <1>2, <1>8, <3>2, <4>1 DEF Asking
            <6>2. script'[Len(handled') + 1] = Current
              BY <1>2, <1>8, <3>2 DEF Current
            <6> QED
              BY <6>1, <6>2 DEF Asked
          <5> QED
            BY <1>0, <4>1, <5>1 DEF OnTheWay
        <4>2. CASE cpc # "send"
          <5>1. Len(crest) = 0
            BY <1>0, <4>2, Nothing DEF Typed, RmTypeOK
          <5> QED
            BY <2>1, <5>1
        <4> QED
          BY <4>1, <4>2
      <3>3. cpc = "send" => Len(crest) <= Len(Request(Current))
        BY <1>0 DEF OnTheWay
      <3>4. At(<<>>, Asked', 0) /\ Len(<<>>) = 0 /\ 0 + 0 = 0 /\ 0 + 0 + 0 + Len(crest) = Len(crest)
        BY <1>6, <2>1, Nothing
      <3> QED
        BY <1>2, <1>3, <1>8, <1>10, <3>1, <3>2, <3>3, <3>4 DEF OnTheWay
    <2> QED
      BY <1>6, <2>2, <2>3
  <1>b. OnTheWayBack'
    <2>1. Given' \in Tokens
      <3>2. Given' = IF h + 1 > k THEN answers'[k + 1] ELSE <<>>
        BY <1>2, <1>8 DEF Given, Giving
      <3>3. h + 1 > k => h = k
        BY <1>6
      <3> QED
        BY <1>7, <1>8, <3>2, <3>3, Nothing
    <2>2. up => Given' = a
      <3> SUFFICES ASSUME up PROVE Given' = a
        OBVIOUS
      <3>1. h = k /\ h + 1 > k
        BY <1>6, <1>12
      <3> QED
        BY <1>2, <1>8, <3>1 DEF Given, Giving
    <2>3. At(<<>>, Given', 0) /\ Len(<<>>) = 0 /\ At(a, a, 0) /\ Len(a) \in Nat
      BY <1>7, <2>1, Nothing
    <2>4. cpc \in {"send", "status"} => read = <<>>
      BY <1>0 DEF OnTheWayBack
    <2> QED
      BY <1>2, <1>4, <1>5, <1>7, <1>10, <1>11, <2>2, <2>3, <2>4 DEF OnTheWayBack
  <1>g. Parsing'
    BY <1>5 DEF Parsing
  <1>u. Understanding'
    BY <1>2, <1>11 DEF Understanding
  <1>s. WellShaped'
    <2> SUFFICES ASSUME NEW j \in 1 .. h + 1 PROVE Shaped(script[j], answers'[j])
      BY <1>2, <1>8 DEF WellShaped
    <2>1. CASE j = h + 1
      BY <1>7, <1>8, <2>1
    <2>2. CASE j # h + 1
      <3>1. j \in 1 .. h /\ DOMAIN answers = 1 .. h
        BY <1>0, <1>6, <2>2 DEF Typed
      <3> QED
        BY <1>0, <1>8, <3>1 DEF WellShaped
    <2> QED
      BY <2>1, <2>2
  <1>13. CallInv'
    BY <1>t, <1>p, <1>w, <1>b, <1>g, <1>u, <1>s DEF CallInv
  <1> QED
    BY <1>2, <1>3, <1>5, <1>6, <1>8, <1>9, <1>13

-----------------------------------------------------------------------------
(* The theorems *)

\* The invariant holds at the start ...
LEMMA CallsStart == Init => CallInv
  <1> SUFFICES ASSUME Init PROVE CallInv
    OBVIOUS
  <1>1. /\ script \in Scripts /\ cpc = "idle" /\ crest = <<>> /\ cleft = 0 /\ cbuf = <<>>
        /\ read = <<>> /\ results = <<>> /\ c2s = <<>> /\ s2c = <<>> /\ up = TRUE
        /\ spc = "idle" /\ sop = "V" /\ sleft = 0 /\ sbuf = <<>> /\ heard = <<>>
        /\ srest = <<>> /\ device = FALSE /\ bufsize = 0 /\ buf = 0
        /\ handled = <<>> /\ answers = <<>>
    BY DEF Init
  <1>2. script \in Seq(Calls) /\ Len(script) \in Nat
    BY <1>1, RemoteAssumption
  <1>3. <<>> \in Tokens /\ Len(<<>>) = 0 /\ At(<<>>, <<>>, 0)
    BY Nothing
  <1>4. Heard = <<>> /\ Read = <<>> /\ ~Asking /\ ~Giving /\ Asked = <<>> /\ Given = <<>>
    BY <1>1 DEF Heard, Read, Asking, Giving, Asked, Given
  <1>t. Typed
    <2>1. BufSize > 0 /\ Room >= 0
      BY RemoteAssumption
    <2>2. {crest, srest, cbuf, sbuf, read, heard, c2s, s2c} \subseteq Tokens
      BY <1>1, <1>3
    <2>3. {cleft, sleft, bufsize, buf} \subseteq Nat
      BY <1>1
    <2>6. {up, device} \subseteq BOOLEAN
      <3>1. up \in BOOLEAN /\ device \in BOOLEAN
        BY <1>1, Zenon
      <3> QED
        BY <3>1, Zenon
    <2>4. sop \in Commands
      BY <1>1 DEF Commands
    <2>5. RmTypeOK
      BY <1>1, <1>3, <2>1, <2>2, <2>3, <2>4, <2>6 DEF RmTypeOK
    <2> QED
      BY <1>1, <1>2, <2>5 DEF Typed
  <1>p. Places
    BY <1>1, <1>2 DEF Places
  <1>w. OnTheWay
    BY <1>1, <1>3, <1>4 DEF OnTheWay
  <1>b. OnTheWayBack
    BY <1>1, <1>3, <1>4 DEF OnTheWayBack
  <1>g. Parsing
    BY <1>1 DEF Parsing
  <1>u. Understanding
    BY <1>1 DEF Understanding
  <1>s. WellShaped
    BY <1>1 DEF WellShaped
  <1> QED
    BY <1>t, <1>p, <1>w, <1>b, <1>g, <1>u, <1>s DEF CallInv

\* ... and every step keeps it.
LEMMA CallsKept == CallInv /\ [Next]_vars => CallInv'
  <1> SUFFICES ASSUME CallInv, [Next]_vars PROVE CallInv'
    OBVIOUS
  <1>1. CASE Call
    BY <1>1, CallStep
  <1>2. CASE Send
    BY <1>2, SendStep
  <1>3. CASE ReadLine \/ ReadBytes
    BY <1>3, TakeStep
  <1>4. CASE ReadNothing
    BY <1>4, ReadNothingStep
  <1>5. CASE Leave
    BY <1>5, LeaveStep
  <1>6. CASE Hear
    BY <1>6, HearStep
  <1>7. CASE Look
    BY <1>7, LookStep
  <1>8. CASE HearBytes
    BY <1>8, HearBytesStep
  <1>9. CASE Quit \/ Complain \/ LastWords
    BY <1>9, QuitStep
  <1>10. CASE Do
    BY <1>10, DoStep
  <1>11. CASE Answer
    BY <1>11, AnswerStep
  <1>12. CASE Lose
    BY <1>12, LoseStep
  <1>13. CASE UNCHANGED vars
    BY <1>13 DEF vars, cvars, svars, dvars, CallInv, Typed, RmTypeOK, Places, OnTheWay,
       OnTheWayBack, Parsing, Understanding, WellShaped, Heard, Read, Asking, Giving, Asked,
       Given, Current
  <1> QED
    BY <1>1, <1>2, <1>3, <1>4, <1>5, <1>6, <1>7, <1>8, <1>9, <1>10, <1>11, <1>12, <1>13
       DEF Next, Client, Server, Finished

\* The invariant, for every script and every size of the buffers.
THEOREM CallsHold == Spec => []CallInv
  BY CallsStart, CallsKept, PTL DEF Spec

\* Type correctness: what is read ahead and what is on its way fit where they are.
THEOREM RemoteTypeCorrect == Spec => []RmTypeOK
  <1>1. CallInv => RmTypeOK
    BY DEF CallInv, Typed
  <1> QED
    BY <1>1, CallsHold, PTL

\* A step of the two processes is the handling of the next request, the return of the
\* call in progress with the answer given to it, or nothing, for the local library.
LEMMA LocalStep ==
    ASSUME CallInv, [Next]_vars
    PROVE  \/ LocalCalls!Handle
           \/ LocalCalls!Return
           \/ UNCHANGED <<[k \in DOMAIN script |-> Request(script[k])], handled, answers, results>>
  <1> DEFINE requests == [k \in DOMAIN script |-> Request(script[k])]
             k == Len(results)
  <1>0. Typed /\ Places /\ WellShaped
    BY DEF CallInv
  <1>1. /\ k \in Nat /\ Len(handled) \in Nat /\ Len(script) \in Nat /\ Len(answers) \in Nat
        /\ DOMAIN script = 1 .. Len(script)
        /\ results \in Seq([ok : BOOLEAN, answer : Tokens, lost : BOOLEAN])
        /\ read \in Tokens
    BY <1>0, Types DEF Typed
  <1>2. script' = script => requests' = requests
    OBVIOUS
  <1>3. Len(requests) = Len(script)
    BY <1>1
  <1>4. CASE Do
    <2>1. /\ Asking /\ heard = Request(script[Len(handled) + 1])
          /\ handled' = Append(handled, heard) /\ Len(answers') = Len(answers) + 1
          /\ SubSeq(answers', 1, Len(answers)) = answers
          /\ results' = results /\ script' = script
      BY <1>4, DoStep
    <2>2. Len(handled) + 1 \in 1 .. Len(script) /\ Len(handled) <= k
      BY <1>0, <2>1, TheRequest
    <2>3. heard = requests[Len(handled) + 1] /\ Len(handled) < Len(requests)
      BY <1>1, <1>3, <2>1, <2>2
    <2>4. requests' = requests
      BY <1>2, <2>1
    <2> HIDE DEF requests
    <2>5. LocalCalls!Handle
      BY <2>1, <2>2, <2>3, <2>4 DEF LocalCalls!Handle, requests
    <2> QED
      BY <2>5
  <1>5. ASSUME NEW r \in [ok : BOOLEAN, answer : Tokens, lost : BOOLEAN],
               results' = Append(results, r), script' = script, handled' = handled,
               answers' = answers,
               ~r.lost => k + 1 <= Len(answers) /\ r.answer = answers[k + 1]
        PROVE  LocalCalls!Return
    <2>1. /\ Len(results') = k + 1 /\ results'[k + 1] = r /\ SubSeq(results', 1, k) = results
      BY <1>1, <1>5
    <2>2. requests' = requests
      BY <1>2, <1>5
    <2>3. (k + 1) - 1 = k
      BY <1>1
    <2> HIDE DEF requests
    <2> QED
      BY <1>5, <2>1, <2>2, <2>3 DEF LocalCalls!Return, requests
  <1>6. CASE ReadLine \/ ReadBytes
    <2>1. /\ handled' = handled /\ answers' = answers /\ script' = script
          /\ \/ results' = results
             \/ /\ Giving
                /\ \E ok \in BOOLEAN :
                      results' = Append(results, [ok |-> ok, answer |-> Given, lost |-> FALSE])
      BY <1>6, TakeStep
    <2>2. CASE results' = results
      BY <1>2, <2>1, <2>2
    <2>3. CASE Giving /\ \E ok \in BOOLEAN :
                 results' = Append(results, [ok |-> ok, answer |-> Given, lost |-> FALSE])
      <3>1. PICK ok \in BOOLEAN :
                results' = Append(results, [ok |-> ok, answer |-> Given, lost |-> FALSE])
        BY <2>3
      <3>2. /\ Given = answers[k + 1] /\ Given \in Tokens /\ k + 1 <= Len(answers)
        BY <1>0, <1>1, <2>3, TheAnswer
      <3> DEFINE r == [ok |-> ok, answer |-> Given, lost |-> FALSE]
      <3>3. r \in [ok : BOOLEAN, answer : Tokens, lost : BOOLEAN] /\ r.answer = Given
        BY <3>2
      <3>4. results' = Append(results, r)
        BY <3>1
      <3> HIDE DEF r
      <3> QED
        BY <1>5, <2>1, <3>2, <3>3, <3>4
    <2> QED
      BY <2>1, <2>2, <2>3
  <1>7. CASE ReadNothing
    <2>1. UNCHANGED <<script, svars>>
      BY <1>7 DEF ReadNothing
    <2>2. PICK ok \in BOOLEAN :
            results' = Append(results, [ok |-> ok, answer |-> read, lost |-> TRUE])
      BY <1>7 DEF ReadNothing, Return
    <2> DEFINE r == [ok |-> ok, answer |-> read, lost |-> TRUE]
    <2>3. r \in [ok : BOOLEAN, answer : Tokens, lost : BOOLEAN] /\ r.lost
      BY <1>1
    <2>4. results' = Append(results, r)
      BY <2>2
    <2>5. script' = script /\ handled' = handled /\ answers' = answers
      BY <2>1 DEF svars, dvars
    <2> HIDE DEF r
    <2> QED
      BY <1>5, <2>3, <2>4, <2>5
  <1>8. CASE UNCHANGED <<script, handled, answers, results>>
    BY <1>2, <1>8
  <1>9. CASE \/ Call \/ Send \/ Leave \/ Hear \/ Look \/ HearBytes \/ Quit \/ Complain
             \/ LastWords \/ Answer \/ Lose \/ UNCHANGED vars
    <2>1. UNCHANGED <<script, handled, answers, results>>
      BY <1>9 DEF Call, Send, Leave, Hear, Look, HearBytes, Quit, Complain, LastWords, Answer,
         Lose, vars, cvars, svars, dvars
    <2> QED
      BY <1>8, <2>1
  <1> QED
    BY <1>4, <1>6, <1>7, <1>9 DEF Next, Client, Server, Finished

\* Remote calls behave like calls of the local library: each request is handled at most
\* once, whole and in order, and each call returns the answer given to it, whatever the
\* sizes of the buffers and of the connection split, unless the connection was lost.
THEOREM RemoteLikeLocal == Spec => LikeLocalCalls
  <1>1. Init => LocalCalls!Init
    BY DEF Init, LocalCalls!Init
  <1>2. CallInv /\ [Next]_vars
        => [LocalCalls!Handle \/ LocalCalls!Return]_<<[k \in DOMAIN script |-> Request(script[k])],
                                                      handled, answers, results>>
    BY LocalStep
  <1> QED
    BY <1>1, <1>2, CallsHold, PTL DEF Spec, LikeLocalCalls, LocalCalls!Spec

-----------------------------------------------------------------------------
(* The buffer of the server *)

\* The i-th call of s asks for a buffer, or makes an end of the one there is.
Sizes(s, i) == s[i].op = "M"
Frees(s, i) == s[i].op \in {"O", "C", "F"}

\* Among the first i calls of s a buffer was asked for, and later ended, and none was
\* asked for since.
Ended(s, i) ==
    \E j \in 1 .. i : /\ Frees(s, j) /\ \E m \in 1 .. j - 1 : Sizes(s, m)
                      /\ \A m \in j + 1 .. i : ~Sizes(s, m)

\* A program that has data to move asks for a new buffer when it has ended the old one.
KeepsBuffer(s) ==
    \A i \in 1 .. Len(s) : s[i].op = "S" /\ s[i].out + s[i].in > 0 => ~Ended(s, i - 1)

\* The size the server remembers is the size of the buffer it has.
BufferKnown ==
    /\ bufsize # 0 => \E m \in 1 .. Len(handled) : Sizes(script, m)
    /\ device /\ ~Ended(script, Len(handled)) => buf = bufsize

\* What another call makes of it.
LEMMA EndedNext ==
    ASSUME NEW s, NEW i \in Nat
    PROVE  /\ Frees(s, i + 1) /\ (\E m \in 1 .. i : Sizes(s, m)) => Ended(s, i + 1)
           /\ ~Sizes(s, i + 1) /\ Ended(s, i) => Ended(s, i + 1)
  <1>1. ASSUME Frees(s, i + 1), NEW m \in 1 .. i, Sizes(s, m) PROVE Ended(s, i + 1)
    <2>1. i + 1 \in 1 .. i + 1 /\ m \in 1 .. (i + 1) - 1
      OBVIOUS
    <2>2. \A x \in (i + 1) + 1 .. i + 1 : ~Sizes(s, x)
      OBVIOUS
    <2> QED
      BY <1>1, <2>1, <2>2 DEF Ended
  <1>2. ASSUME ~Sizes(s, i + 1), Ended(s, i) PROVE Ended(s, i + 1)
    <2>1. PICK j \in 1 .. i : /\ Frees(s, j) /\ \E m \in 1 .. j - 1 : Sizes(s, m)
                              /\ \A m \in j + 1 .. i : ~Sizes(s, m)
      BY <1>2 DEF Ended
    <2>2. j \in 1 .. i + 1
      OBVIOUS
    <2>3. \A m \in j + 1 .. i + 1 : m \in j + 1 .. i \/ m = i + 1
      OBVIOUS
    <2>4. \A m \in j + 1 .. i + 1 : ~Sizes(s, m)
      BY <1>2, <2>1, <2>3
    <2> QED
      BY <2>1, <2>2, <2>4 DEF Ended
  <1> QED
    BY <1>1, <1>2

\* The handlers keep it.
LEMMA BufferStep ==
    ASSUME CallInv, BufferKnown, [Next]_vars
    PROVE  BufferKnown'
  <1> DEFINE h == Len(handled)
  <1>0. Typed
    BY DEF CallInv
  <1>1. CASE Do
    <2>1. /\ spc = "do" /\ handled' = Append(handled, heard) /\ script' = script
      BY <1>1, DoStep DEF Do
    <2>2. h \in Nat /\ heard \in Tokens /\ bufsize \in Nat /\ buf \in Nat /\ device \in BOOLEAN
      BY <1>0, Types
    <2>3. Len(handled') = h + 1
      BY <1>0, <2>1, <2>2 DEF Typed
    <2>4. sop = script[h + 1].op /\ Arg(1) \in Nat
      BY <2>1, WholeRequest
    <2> DEFINE Had == \E m \in 1 .. h : Sizes(script, m)
               Has == \E m \in 1 .. h + 1 : Sizes(script, m)
    <2>5. Had => Has
      BY <2>2
    <2>6. sop = "M" => Has
      <3>1. h + 1 \in 1 .. h + 1
        BY <2>2
      <3> QED
        BY <2>4, <3>1 DEF Sizes
    <2>7. /\ Frees(script, h + 1) /\ Had => Ended(script, h + 1)
          /\ ~Sizes(script, h + 1) /\ Ended(script, h) => Ended(script, h + 1)
      BY <2>2, EndedNext
    <2>8. (bufsize # 0 => Had) /\ (device /\ ~Ended(script, h) => buf = bufsize)
      BY DEF BufferKnown
    <2> HIDE DEF Had, Has
    <2> SUFFICES /\ bufsize' # 0 => Has
                 /\ device' /\ ~Ended(script, h + 1) => buf' = bufsize'
      BY <2>1, <2>3 DEF BufferKnown, Has
    <2>9. CASE sop = "M" /\ bufsize' = buf'
      BY <2>6, <2>9
    <2>10. CASE sop # "M" /\ UNCHANGED <<device, bufsize, buf>>
      <3>1. Ended(script, h) => Ended(script, h + 1)
        BY <2>4, <2>7, <2>10 DEF Sizes
      <3> QED
        BY <2>5, <2>8, <2>10, <3>1
    <2>11. CASE sop = "M" /\ ~device /\ UNCHANGED <<device, bufsize, buf>>
      BY <2>6, <2>11
    <2>12. CASE sop \in {"O", "C", "F"} /\ bufsize' = bufsize /\ buf' = 0
      <3>1. Had => Ended(script, h + 1)
        BY <2>4, <2>7, <2>12 DEF Frees
      <3> QED
        BY <2>5, <2>8, <2>12, <3>1
    <2> QED
      <3>1. sop \in {"O"} => Open
        BY <1>1 DEF Do
      <3> QED
        BY <1>1, <2>9, <2>10, <2>11, <2>12
           DEF Do, Effect, Failed, Plain, Open, GetBuf
  <1>2. CASE \/ Client \/ Hear \/ Look \/ HearBytes \/ Quit \/ Complain \/ LastWords
             \/ Answer \/ Lose \/ UNCHANGED vars
    <2>1. UNCHANGED <<script, handled, device, bufsize, buf>>
      BY <1>2 DEF Client, Call, Send, ReadLine, ReadBytes, ReadNothing, Leave, Hear, Look,
         HearBytes, Quit, Complain, LastWords, Answer, Lose, vars, cvars, svars, dvars
    <2> QED
      BY <2>1 DEF BufferKnown
  <1> QED
    BY <1>1, <1>2 DEF Next, Server, Finished

\* A command that is carried out has a buffer as large as its data, when the program
\* asks for one anew after each time it has ended it.
THEOREM BufferHolds ==
    ASSUME \A s \in Scripts : KeepsBuffer(s)
    PROVE  Spec => []BufferForData
  <1> DEFINE Inv == CallInv /\ BufferKnown /\ KeepsBuffer(script)
  <1>1. Init => Inv
    <2> SUFFICES ASSUME Init PROVE BufferKnown /\ KeepsBuffer(script)
      BY CallsStart
    <2>1. BufferKnown
      BY DEF Init, BufferKnown
    <2>2. KeepsBuffer(script)
      BY DEF Init
    <2> QED
      BY <2>1, <2>2
  <1>2. Inv /\ [Next]_vars => Inv'
    <2> SUFFICES ASSUME Inv, [Next]_vars PROVE Inv'
      OBVIOUS
    <2>1. script' = script
      BY DEF Next, Client, Server, Call, Send, ReadLine, ReadBytes, ReadNothing, Leave, Hear,
         Look, HearBytes, Quit, Complain, LastWords, Do, Answer, Lose, Finished, vars
    <2>2. KeepsBuffer(script)'
      BY <2>1
    <2> QED
      BY <2>2, CallsKept, BufferStep
  <1>3. Inv => BufferForData
    <2> SUFFICES ASSUME Inv, spc \in {"bytes", "do"}, sop = "S", ~Refuses
                 PROVE  buf >= Arg(1)
      BY DEF BufferForData
    <2> DEFINE h == Len(handled)
               c == script[h + 1]
    <2>1. Typed /\ Places /\ OnTheWay /\ Parsing
      BY DEF CallInv
    <2>2. Asking
      BY <2>1, NothingAsked
    <2>3. /\ h + 1 \in 1 .. Len(script) /\ c \in Calls /\ Asked = Request(c) /\ h \in Nat
          /\ heard \in Tokens /\ Len(heard) \in Nat /\ bufsize \in Nat /\ buf \in Nat
      BY <2>1, <2>2, Types, TheRequest
    <2>4. sop = c.op /\ Len(heard) >= 2
      <3>1. Len(Request(c)) >= 1 + Lines(c.op) /\ Lines(c.op) >= 1 /\ Lines(c.op) \in Nat
            /\ Request(c) \in Tokens
        BY <2>3, RequestShape
      <3>2. Len(Request(c)) \in Nat
        BY <3>1, Nothing
      <3> QED
        BY <2>1, <2>3, <3>1, <3>2 DEF Parsing
    <2>5. Arg(1) = c.out + c.in
      <3>1. Heard = heard /\ At(heard, Request(c), 0)
        BY <2>1, <2>3 DEF Heard, OnTheWay
      <3>2. heard[2] = Request(c)[2]
        BY <2>3, <2>4, <3>1 DEF At
      <3>3. Request(c)[2].n = c.out + c.in
        BY <2>3, <2>4, RequestShape
      <3> QED
        BY <3>2, <3>3 DEF Arg
    <2>6. c.out + c.in \in Nat
      BY <2>3 DEF Calls
    <2>7. CASE c.out + c.in = 0
      BY <2>3, <2>5, <2>7
    <2>8. CASE c.out + c.in > 0
      <3>1. ~Ended(script, h)
        <4>1. (h + 1) - 1 = h
          BY <2>3
        <4> QED
          BY <2>3, <2>4, <2>8, <4>1 DEF KeepsBuffer
      <3>2. device /\ ~(Arg(1) > bufsize)
        BY DEF Refuses
      <3>3. buf = bufsize
        BY <3>1, <3>2 DEF BufferKnown
      <3> QED
        BY <2>3, <2>5, <2>6, <3>2, <3>3
    <2> QED
      BY <2>6, <2>7, <2>8
  <1> QED
    BY <1>1, <1>2, <1>3, PTL DEF Spec

=============================================================================
