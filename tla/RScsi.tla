------------------------------- MODULE RScsi -------------------------------
(***************************************************************************)
(* Remote SCSI: the transport scgo_r*() of librscg, which a program calls, *)
(* the server rscsi, and the connection between them.  What goes over the  *)
(* connection is text lines mixed with raw bytes without any framing, so   *)
(* that each side has to read exactly what the other one has written; and  *)
(* both sides take lines out of a buffer they fill ahead, but the bulk of  *)
(* raw bytes straight from the connection.                                 *)
(*                                                                         *)
(* A token [t, op, n] is the character of a command, the rest of a line,   *)
(* or a unit of raw bytes; op and n are its meaning and its value.  A line *)
(* is there when its newline is: until then its reader only waits for the  *)
(* next character or fills its buffer again, and of a line cut off by the  *)
(* loss of the connection the server uses nothing, the client what it may  *)
(* have taken for a status.  The lines are shorter than CMD_SIZE.          *)
(*                                                                         *)
(* A call of the program is [op, n, cdb, out, in]: the command, its        *)
(* argument, and for "S" the units of the cdb and of data, out or in.      *)
(***************************************************************************)
EXTENDS Integers, Sequences

CONSTANTS Scripts,      \* the sequences of calls a program may make
          BufSize,      \* READBUF_SIZE and READB_SIZE: what is read ahead
          Room,         \* what the connection holds in each direction
          MaxCmd,       \* SCG_MAX_CMD of the server
          MaxSense,     \* SCG_MAX_SENSE of the client
          Senses,       \* the lengths of the sense data the server may send
          Faults        \* a subset of {"loss"}

Commands == {"V", "O", "C", "D", "M", "F", "N", "B", "T", "I", "A", "R", "S"}

\* There is one size and one SCG_RECV_DATA: a command moves its data one way.
Calls == {c \in [op : Commands, n : Nat, cdb : Nat, out : Nat, in : Nat] :
              c.out = 0 \/ c.in = 0}

ASSUME RemoteAssumption ==
    /\ BufSize \in Nat \ {0} /\ Room \in Nat \ {0}
    /\ MaxCmd \in Nat /\ MaxSense \in Nat /\ Senses \subseteq Nat
    /\ Faults \subseteq {"loss"}
    /\ \A s \in Scripts : s \in Seq(Calls)

VARIABLES
    script,     \* the calls, chosen once
    cpc,        \* the client's place in the call
    crest,      \* what it has still to write
    cleft,      \* lines, or raw bytes, it has still to read
    cbuf,       \* its readbuf[]
    read,       \* what it has taken of the answer
    results,    \* of the calls that have returned: [ok, answer, lost]
    c2s, s2c,   \* the connection
    up,         \* it is open
    spc,        \* the server's place
    sop,        \* the command it handles
    sleft,      \* lines, or raw bytes, it has still to read
    sbuf,       \* its readb[]
    heard,      \* what it has taken of the request
    srest,      \* what it has still to write
    device,     \* scsi_ptr is not NULL
    bufsize,    \* Sbufsize
    buf,        \* the size of the buffer Sbuf points to, or 0
    handled,    \* the requests it has taken, in order
    answers     \* the answers it has decided on, in order

cvars == <<cpc, crest, cleft, cbuf, read, results>>
dvars == <<device, bufsize, buf, handled, answers>>
svars == <<spc, sop, sleft, sbuf, heard, srest, dvars>>
vars == <<script, cvars, c2s, s2c, up, svars>>

Tok(t, op, n) == [t |-> t, op |-> op, n |-> n]
Line(op, n) == Tok("line", op, n)
Bytes(op, n) == [i \in 1 .. n |-> Tok("byte", op, i)]

Init ==
    /\ script \in Scripts
    /\ cpc = "idle" /\ crest = <<>> /\ cleft = 0 /\ cbuf = <<>>
    /\ read = <<>> /\ results = <<>>
    /\ c2s = <<>> /\ s2c = <<>> /\ up = TRUE
    /\ spc = "idle" /\ sop = "V" /\ sleft = 0 /\ sbuf = <<>> /\ heard = <<>>
    /\ srest = <<>> /\ device = FALSE /\ bufsize = 0 /\ buf = 0
    /\ handled = <<>> /\ answers = <<>>

Smaller(i, j) == IF i < j THEN i ELSE j

\* Mutant: one more than fits.
FillsPast(chan) == 1 .. Smaller(Len(chan), BufSize + 1)

\* A fill of a buffer takes some of what has arrived, as much as fits.
Fills(chan) == 1 .. Smaller(Len(chan), BufSize)

\* _nixwrite(): as much of `rest` as there is room for.
Fitting(chan, rest) == Smaller(Len(rest), Room - Len(chan))
Sent(chan, rest) == chan \o SubSeq(rest, 1, Fitting(chan, rest))
Unsent(chan, rest) == SubSeq(rest, Fitting(chan, rest) + 1, Len(rest))

-----------------------------------------------------------------------------
(* The client *)

\* The call in progress.
Current == script[Len(results) + 1]

\* The lines of a request after its first character.
Arguments(c) ==
    CASE c.op = "S" -> <<Line("size", c.out + c.in),
                         Line("flags", IF c.in > 0 THEN 1 ELSE 0),
                         Line("cdb_len", c.cdb),
                         Line("sense_len", 0), Line("timeout", 0)>>
      [] c.op = "T" -> <<Line("bus", 0), Line("chan", 0), Line("tgt", c.n),
                         Line("lun", 0)>>
      [] c.op = "B" -> <<Line("bus", c.n), Line("chan", 0)>>
      [] OTHER      -> <<Line("arg", c.n)>>

Request(c) ==
    <<Tok("cmd", c.op, 0)>> \o Arguments(c)
    \o IF c.op = "S" THEN Bytes("cdb", c.cdb) \o Bytes("data", c.out) ELSE <<>>

\* rscsisendcmd(), and the two writes of rscsiscmd().
Call ==
    /\ cpc = "idle" /\ Len(results) < Len(script)
    /\ crest' = Request(Current) /\ read' = <<>>
    /\ cpc' = "send"
    /\ UNCHANGED <<script, cleft, cbuf, results, c2s, s2c, up, svars>>

\* That a write fails, once the connection is gone, is not looked at.
Send ==
    /\ cpc = "send"
    /\ \/ /\ up /\ Len(c2s) < Room
          /\ c2s' = Sent(c2s, crest) /\ crest' = Unsent(c2s, crest)
       \/ ~up /\ crest' = <<>> /\ UNCHANGED c2s
    /\ cpc' = IF crest' = <<>> THEN "status" ELSE "send"
    /\ UNCHANGED <<script, cleft, cbuf, read, results, s2c, up, svars>>

\* The call returns.
Return(ok, answer, gone) ==
    /\ results' = Append(results, [ok |-> ok, answer |-> answer, lost |-> gone])
    /\ cpc' = "idle"
    /\ UNCHANGED cleft

\* The lines that follow the status of a call.
MoreLines(c) == IF c.op \in {"S", "O"} THEN 4 ELSE 0

\* Mutant: sense data the client has no place for stay where they are.
AnswerBytesKept(c, answer) ==
    CASE c.op = "S" -> Smaller(answer[5].n, MaxSense)
                       + IF c.in > 0 THEN answer[1].n ELSE 0
      [] c.op = "V" -> answer[1].n
      [] OTHER -> 0

\* The raw bytes after those lines: the sense data, what is too much of them
\* thrown away, then the data of a command that reads.
AnswerBytes(c, answer) ==
    CASE c.op = "S" -> answer[5].n + IF c.in > 0 THEN answer[1].n ELSE 0
      [] c.op = "V" -> answer[1].n
      [] OTHER -> 0

\* After the last line of an answer `n` raw bytes are to come.
Bulk(answer, ok, n) ==
    IF n > 0
    THEN cleft' = n /\ cpc' = (IF ok THEN "bytes" ELSE "ebytes") /\ UNCHANGED results
    ELSE Return(ok /\ answer[1].n >= 0, answer, FALSE)

\* The client takes the next token of the answer.
Take(t) ==
    LET answer == Append(read, t) IN
    /\ read' = answer
    /\ \/ /\ cpc = "status" /\ t.op = "A"
          /\ IF MoreLines(Current) > 0
             THEN cleft' = MoreLines(Current) /\ cpc' = "lines" /\ UNCHANGED results
             ELSE Bulk(answer, TRUE, AnswerBytes(Current, answer))
       \/ /\ cpc = "status" /\ t.op = "E"
          /\ cleft' = 2 /\ cpc' = "elines" /\ UNCHANGED results
       \/ /\ cpc = "status" /\ t.op \notin {"A", "E"}   \* "Protocol error"
          /\ Return(FALSE, answer, FALSE)
       \/ /\ cpc \in {"lines", "elines", "bytes", "ebytes"} /\ cleft > 1
          /\ cleft' = cleft - 1 /\ UNCHANGED <<cpc, results>>
       \/ cpc = "lines" /\ cleft = 1 /\ Bulk(answer, TRUE, AnswerBytes(Current, answer))
       \/ cpc = "elines" /\ cleft = 1 /\ Bulk(answer, FALSE, t.n)
       \/ cpc \in {"bytes", "ebytes"} /\ cleft = 1 /\ Return(cpc = "bytes", answer, FALSE)

\* rscsirchar() fills its buffer when it is empty.
ReadLine ==
    /\ cpc \in {"status", "lines", "elines"}
    /\ \/ cbuf # <<>> /\ Take(Head(cbuf)) /\ cbuf' = Tail(cbuf) /\ UNCHANGED s2c
       \/ /\ cbuf = <<>>
          /\ \E n \in Fills(s2c) :
                /\ Take(Head(s2c))
                /\ cbuf' = SubSeq(s2c, 2, n)
                /\ s2c' = SubSeq(s2c, n + 1, Len(s2c))
    /\ UNCHANGED <<script, crest, c2s, up, svars>>

\* Mutant: raw bytes are read past the buffer.
ReadBytesPast ==
    /\ cpc \in {"bytes", "ebytes"}
    /\ s2c # <<>> /\ Take(Head(s2c)) /\ s2c' = Tail(s2c)
    /\ UNCHANGED <<script, crest, cbuf, c2s, up, svars>>

\* rscsireadbuf() and rscsivoidarg(): the buffer first, then the connection.
ReadBytes ==
    /\ cpc \in {"bytes", "ebytes"}
    /\ \/ cbuf # <<>> /\ Take(Head(cbuf)) /\ cbuf' = Tail(cbuf) /\ UNCHANGED s2c
       \/ cbuf = <<>> /\ s2c # <<>> /\ Take(Head(s2c)) /\ s2c' = Tail(s2c)
          /\ UNCHANGED cbuf
    /\ UNCHANGED <<script, crest, c2s, up, svars>>

\* The connection is gone.  The results of rscsigetline() and rscsireadbuf() are
\* thrown away: the status is taken from a buffer nobody has filled, and of an
\* answer that began well the rest is thought to be there.
ReadNothing ==
    /\ cpc \notin {"idle", "send", "gone"}
    /\ cbuf = <<>> /\ s2c = <<>> /\ ~up
    /\ \E ok \in BOOLEAN :
           /\ cpc \in {"lines", "bytes"} => ok
           /\ cpc \in {"elines", "ebytes"} => ~ok
           /\ Return(ok, read, TRUE)
    /\ UNCHANGED <<script, crest, cbuf, read, c2s, s2c, up, svars>>

\* scgo_rclose() closes the connection after the answer to its "C".
Leave ==
    /\ cpc = "idle" /\ Len(results) = Len(script)
    /\ cpc' = "gone" /\ up' = FALSE
    /\ UNCHANGED <<script, crest, cleft, cbuf, read, results, c2s, s2c, svars>>

-----------------------------------------------------------------------------
(* The server *)

\* The lines each handler reads with readarg().
Lines(op) == CASE op = "S" -> 5 [] op = "T" -> 4 [] op = "B" -> 2 [] OTHER -> 1

\* The value of the i-th argument line that was read.
Arg(i) == heard[i + 1].n

Refuses == ~device \/ Arg(3) > MaxCmd \/ Arg(1) > bufsize

\* What follows the lines: the cdb, and the data unless they go the other way.
\* sendcmd() takes them from the connection also when it refuses the command.
WantedBytes ==
    IF sop # "S" THEN 0 ELSE Arg(3) + IF Arg(2) = 0 THEN Arg(1) ELSE 0

Error(xlen) == <<Line("E", 0), Line("text", 0), Line("xlen", xlen)>>
               \o Bytes("xtext", xlen)

\* dorscsi() and readarg() take the next token.
Listen(t) ==
    \/ /\ spc = "idle" /\ t.t = "cmd"
       /\ sop' = t.op /\ sleft' = Lines(t.op) /\ heard' = <<t>>
       /\ spc' = "lines"
       /\ UNCHANGED srest
    \/ /\ spc = "lines"
       /\ heard' = Append(heard, t)
       /\ sleft' = sleft - 1
       /\ spc' = IF sleft > 1 THEN "lines" ELSE "look"
       /\ UNCHANGED <<sop, srest>>

Hear ==
    /\ spc \in {"idle", "lines"}
    /\ \/ sbuf # <<>> /\ Listen(Head(sbuf)) /\ sbuf' = Tail(sbuf) /\ UNCHANGED c2s
       \/ /\ sbuf = <<>>
          /\ \E n \in Fills(c2s) :
                /\ Listen(Head(c2s))
                /\ sbuf' = SubSeq(c2s, 2, n)
                /\ c2s' = SubSeq(c2s, n + 1, Len(c2s))
    /\ UNCHANGED <<script, cvars, s2c, up, dvars>>

\* All lines are there: how many raw bytes are to follow.
Look ==
    /\ spc = "look"
    /\ sleft' = WantedBytes
    /\ spc' = IF sleft' > 0 THEN "bytes" ELSE "do"
    /\ UNCHANGED <<script, cvars, c2s, s2c, up, sop, sbuf, heard, srest, dvars>>

\* readbuf() and voidarg(): the buffer first, then the connection.
HearBytes ==
    /\ spc = "bytes"
    /\ \/ /\ sbuf # <<>>
          /\ heard' = Append(heard, Head(sbuf)) /\ sbuf' = Tail(sbuf)
          /\ UNCHANGED c2s
       \/ /\ sbuf = <<>> /\ c2s # <<>>
          /\ heard' = Append(heard, Head(c2s)) /\ c2s' = Tail(c2s)
          /\ UNCHANGED sbuf
    /\ sleft' = sleft - 1
    /\ spc' = IF sleft' > 0 THEN "bytes" ELSE "do"
    /\ UNCHANGED <<script, cvars, s2c, up, sop, srest, dvars>>

\* The end of the connection before a request or in its lines: exit().
Quit ==
    /\ spc \in {"idle", "lines"} /\ sbuf = <<>> /\ c2s = <<>> /\ ~up
    /\ spc' = "gone"
    /\ UNCHANGED <<script, cvars, c2s, s2c, up, sop, sleft, sbuf, heard, srest, dvars>>

\* The end of the connection in the raw bytes ("Premature eof"), or a character
\* that is no command ("Garbage command"): rscsierror() before exit().
Complain ==
    /\ \/ spc = "bytes" /\ sbuf = <<>> /\ c2s = <<>> /\ ~up
       \/ spc = "idle" /\ sbuf \o c2s # <<>> /\ Head(sbuf \o c2s).t # "cmd"
    /\ srest' = Error(0)
    /\ spc' = "last"
    /\ UNCHANGED <<script, cvars, c2s, s2c, up, sop, sleft, sbuf, heard, dvars>>

\* A write of these last words; the exit closes the connection.
LastWords ==
    /\ spc = "last"
    /\ \/ /\ up /\ Len(s2c) < Room
          /\ s2c' = Sent(s2c, srest) /\ srest' = Unsent(s2c, srest)
       \/ ~up /\ srest' = <<>> /\ UNCHANGED s2c
    /\ spc' = IF srest' = <<>> THEN "gone" ELSE "last"
    /\ up' = (up /\ spc' = "last")
    /\ UNCHANGED <<script, cvars, c2s, sop, sleft, sbuf, heard, dvars>>

\* The handler has done its work and answers.
Effect(answer, dev, size, b) ==
    /\ answers' = Append(answers, answer)
    /\ handled' = Append(handled, heard)
    /\ device' = dev /\ bufsize' = size /\ buf' = b
    /\ srest' = answer
    /\ spc' = "answer"

Plain(n) == Effect(<<Line("A", n)>>, device, bufsize, buf)
Failed == Effect(Error(0), device, bufsize, buf)

\* openscsi(): an open device is closed first, its buffer freed with it.
Open ==
    \/ Effect(<<Line("A", 0), Line("bus", 0), Line("chan", 0), Line("tgt", 0),
                Line("lun", 0)>>, TRUE, bufsize, 0)
    \/ Effect(Error(1), FALSE, bufsize, 0)

\* Mutant: the size of a buffer that could not be had is kept.
GetBufForgets ==
    \/ \E n \in 1 .. Arg(1) : Effect(<<Line("A", n)>>, TRUE, n, n)
    \/ Effect(Error(0), TRUE, Arg(1), 0)

\* getbuf(), preparebuffer(): the old buffer goes, and the new one, for which
\* scg_bufsize() may lower the size, may not be had.
GetBuf ==
    \/ \E n \in 1 .. Arg(1) : Effect(<<Line("A", n)>>, TRUE, n, n)
    \/ Effect(Error(0), TRUE, 0, 0)

\* The answer to a SCSI command: the sense data, then the data of a read.
Reply(n, sense) ==
    <<Line("A", n), Line("error", 0), Line("errno", 0), Line("scb", 0),
      Line("sense_count", sense)>>
    \o Bytes("sense", sense)
    \o IF Arg(2) = 1 THEN Bytes("in", n) ELSE <<>>

\* What the device and libscg make of the commands is open.
Do ==
    /\ spc = "do"
    /\ \/ /\ sop = "V"
          /\ \/ Effect(<<Line("A", 1)>> \o Bytes("str", 1), device, bufsize, buf)
             \/ Failed
       \/ sop = "O" /\ Open
       \/ sop = "C" /\ Effect(<<Line("A", 0)>>, FALSE, bufsize, 0)
       \/ sop \notin {"V", "O", "C", "S"} /\ ~device /\ Failed
       \/ sop \in {"D", "N", "B", "T", "I", "A", "R"} /\ device /\ (Plain(1) \/ Failed)
       \/ sop = "T" /\ device /\ Plain(-1)      \* the target may not be used
       \/ sop = "M" /\ device /\ GetBuf
       \/ sop = "F" /\ device /\ Effect(<<Line("A", 0)>>, device, bufsize, 0)
       \/ sop = "S" /\ Refuses /\ Failed
       \/ /\ sop = "S" /\ ~Refuses
          /\ \E n \in 0 .. Arg(1), sense \in Senses :
                Effect(Reply(n, sense), device, bufsize, buf)
    /\ UNCHANGED <<script, cvars, c2s, s2c, up, sop, sleft, sbuf, heard>>

\* The answer is written.  A write to a connection that is gone gets lost, or
\* its SIGPIPE ends the server.
Answer ==
    /\ spc = "answer"
    /\ \/ /\ up /\ Len(s2c) < Room
          /\ s2c' = Sent(s2c, srest) /\ srest' = Unsent(s2c, srest)
          /\ spc' = IF srest' = <<>> THEN "idle" ELSE "answer"
       \/ /\ ~up /\ srest' = <<>> /\ spc' \in {"idle", "gone"}
          /\ UNCHANGED s2c
    /\ UNCHANGED <<script, cvars, c2s, up, sop, sleft, sbuf, heard, dvars>>

-----------------------------------------------------------------------------
\* The connection breaks down; of what is on its way some may still arrive.
Lose ==
    /\ "loss" \in Faults /\ up
    /\ up' = FALSE
    /\ \E i \in 0 .. Len(c2s) : c2s' = SubSeq(c2s, 1, i)
    /\ \E i \in 0 .. Len(s2c) : s2c' = SubSeq(s2c, 1, i)
    /\ UNCHANGED <<script, cvars, svars>>

\* Both processes have ended.
Finished == cpc = "gone" /\ spc = "gone" /\ UNCHANGED vars

Client == Call \/ Send \/ ReadLine \/ ReadBytes \/ ReadNothing \/ Leave
Server == Hear \/ Look \/ HearBytes \/ Quit \/ Complain \/ LastWords \/ Do \/ Answer
Next == Client \/ Server \/ Lose \/ Finished

Spec == Init /\ [][Next]_vars

\* Both processes go on when they can, and scg_cmd() ends, if need be with the
\* timeout of the command.
FairSpec == Spec /\ WF_vars(Client) /\ WF_vars(Server)
-----------------------------------------------------------------------------
Names == Commands \cup
    {"A", "E", "text", "xlen", "xtext", "arg", "bus", "chan", "tgt", "lun",
     "size", "flags", "cdb_len", "sense_len", "timeout", "cdb", "data",
     "error", "errno", "scb", "sense_count", "sense", "in", "str"}
Token == [t : {"cmd", "line", "byte"}, op : Names, n : Int]
Tokens == Seq(Token)

\* What is read ahead and what is on its way fit where they are, and outside of
\* a call the client has nothing left to write.
RmTypeOK ==
    /\ cpc \in {"idle", "send", "status", "lines", "elines", "bytes", "ebytes", "gone"}
    /\ spc \in {"idle", "lines", "look", "bytes", "do", "answer", "last", "gone"}
    /\ {crest, srest, cbuf, sbuf, read, heard, c2s, s2c} \subseteq Tokens
    /\ Len(cbuf) < BufSize /\ Len(sbuf) < BufSize
    /\ Len(c2s) <= Room /\ Len(s2c) <= Room
    /\ cpc # "send" => crest = <<>>
    /\ cpc = "send" => crest # <<>>
    /\ {cleft, sleft, bufsize, buf} \subseteq Nat /\ sop \in Commands
    /\ {up, device} \subseteq BOOLEAN

\* The calls of a program are carried out in order, each of them whole and once,
\* and each returns the answer that was given to it and to no other, whatever
\* the fills of the two buffers split: nothing of a call that was refused or of
\* an answer that was too long is left for the next one to read.
LocalCalls == INSTANCE RemoteCall
                  WITH requests <- [k \in DOMAIN script |-> Request(script[k])]
LikeLocalCalls == LocalCalls!Spec

\* A command that is carried out has a buffer as large as its data, also when a
\* larger one was asked for in between and could not be had.
BufferForData ==
    spc \in {"bytes", "do"} /\ sop = "S" /\ ~Refuses => buf >= Arg(1)

\* The client's calls all return and the server exits, also when the connection
\* is lost at any moment and when neither of them finds room to write.
BothEnd == <>(cpc = "gone" /\ spc = "gone")

=============================================================================
