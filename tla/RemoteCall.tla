----------------------------- MODULE RemoteCall -----------------------------
(***************************************************************************)
(* What remote SCSI promises to a program: its calls behave like calls of  *)
(* the local library.  Each is carried out at most once, whole, in the     *)
(* order of the program and after the one before has returned, and returns *)
(* the answer that was given to it, unless the connection was lost.        *)
(***************************************************************************)
EXTENDS Naturals, Sequences

VARIABLES requests,   \* of the program, chosen once
          handled,    \* those that were carried out
          answers,    \* what was answered to them
          results     \* of the calls that have returned: [ok, answer, lost]

Init == handled = <<>> /\ answers = <<>> /\ results = <<>>

Handle ==
    /\ Len(handled) < Len(requests) /\ Len(handled) <= Len(results)
    /\ handled' = Append(handled, requests[Len(handled) + 1])
    /\ Len(answers') = Len(answers) + 1
    /\ SubSeq(answers', 1, Len(answers)) = answers
    /\ UNCHANGED <<requests, results>>

Return ==
    LET k == Len(results) + 1 IN
    /\ Len(results') = k /\ SubSeq(results', 1, k - 1) = results
    /\ ~results'[k].lost =>
          k <= Len(answers) /\ results'[k].answer = answers[k]
    /\ UNCHANGED <<requests, handled, answers>>

Spec == Init /\ [][Handle \/ Return]_<<requests, handled, answers, results>>
=============================================================================
