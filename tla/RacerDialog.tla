----------------------------- MODULE RacerDialog -----------------------------
(***************************************************************************)
(* What the plugin counts on when it talks to RACER: commands go out one   *)
(* at a time and each ends in the answer to that very command or in a      *)
(* failure.  A command whose building was abandoned half-way may spoil the *)
(* next one, and no other.  TCPStream implements this specification.       *)
(***************************************************************************)
EXTENDS Naturals, Sequences

CONSTANT Commands    \* the number of commands of a session

VARIABLES
  asking,            \* a command is under way
  results            \* how the commands ended, in their order

dialogVars == <<asking, results>>

AnswerTo(k) == [kind |-> "answer", to |-> k]
Error == [kind |-> "error"]            \* RACER could not read the command
Failed == [kind |-> "failed"]          \* no answer: an exception reached the caller
Abandoned == [kind |-> "abandoned"]    \* the builder threw before the line was whole

AbandonedBefore(k) == k > 1 /\ results[k - 1] = Abandoned

Init == asking = FALSE /\ results = <<>>

Ask ==
  /\ ~asking /\ Len(results) < Commands
  /\ asking' = TRUE
  /\ UNCHANGED results

End(result) ==
  /\ asking' = FALSE
  /\ results' = Append(results, result)

Next ==
  LET k == Len(results) + 1
  IN  \/ Ask
      \/ asking /\ End(AnswerTo(k))
      \/ asking /\ AbandonedBefore(k) /\ End(Error)
      \/ asking /\ (End(Failed) \/ End(Abandoned))

Spec == Init /\ [][Next]_dialogVars
=============================================================================
