--------------------------- MODULE TCPStreamProofs ---------------------------
(***************************************************************************)
(* Proofs about TCPStream for every session, every length of commands and  *)
(* answers, every size of the buffers, with and without faults: a line     *)
(* reaches RACER whole, a failure is final, the dialog blocks only behind  *)
(* an abandoned command, and the stream implements RacerDialog.            *)
(***************************************************************************)
EXTENDS TCPStream, SequenceTheorems, TLAPS

-----------------------------------------------------------------------------
(* The inductive invariant. *)

\* What the client will still send, of what it has streamed.
Outgoing == IF pc = "sync" THEN SubSeq(obuf, written + 1, Len(obuf)) ELSE obuf

\* What RACER has not read, received or not, in its order.
Pending == wire \o Outgoing

\* What RACER answered to the current command, read by the driver or not.
Heard == text \o answer

\* The stream can still be used.
Usable == sock \in {"none", "open"} /\ ~bad

\* Command k - 1 left cells in front of command k.
Behind(k) == k > 1 /\ results[k - 1] = Dialog!Abandoned

\* A cell of a command whose builder has thrown: never a newline.
Stale(c) ==
  /\ c.cmd \in 1..Len(results) /\ results[c.cmd] = Dialog!Abandoned
  /\ ~c.nl

\* The locals of sync and the socket fit the place the client is at.
ClientInv ==
  /\ pc = "read" => obuf = <<>> /\ done = CommandLength[cmd]
  /\ pc \in {"sync", "read"} => ~bad
  /\ pc = "put" /\ done = CommandLength[cmd] => obuf # <<>> \/ bad
  /\ sock # "open" => wire = <<>>
  /\ sock = "none" => pc # "read"
  /\ bad => sock # "open"

\* While commands are built and sent RACER has nothing to say, and what it says is
\* one answer to the current command, or an error behind an abandoned one.
HeardInv ==
  /\ pc \in {"idle", "put"} \/ sock = "none" => answer = <<>>
  /\ pc = "sync" /\ done # CommandLength[cmd] => answer = <<>>
  /\ pc \in {"put", "sync"} => text = <<>>
  /\ pc # "idle" =>
       \/ Heard = <<>> \/ Heard = AnswerCells(cmd)
       \/ Behind(cmd) /\ Heard = AnswerCells(0)
  /\ pc = "sync" => chunk = <<>>
  /\ pc = "read" =>
       /\ chunk = <<>> <=> text = <<>>
       /\ chunk # <<>> => Last(text) = Last(chunk)

\* The current command is pending: behind cells of abandoned commands stand all
\* its cells that the builder has streamed.
OwnPending ==
  LET r == Len(Pending) - done
  IN  /\ text = <<>> /\ answer = <<>>
      /\ r >= 0 /\ (r > 0 => Behind(cmd))
      /\ \A j \in 1..r : Stale(Pending[j])
      /\ \A j \in 1..done : Pending[r + j] = CommandCells(cmd)[j]

\* RACER has read the current command.  Only behind an abandoned one can it have
\* nothing to say then.
AllRead ==
  /\ pc \in {"sync", "read"} /\ done = CommandLength[cmd]
  /\ Pending = <<>>
  /\ Heard = <<>> => Behind(cmd)

PendingInv ==
  Usable =>
    /\ pc = "idle" =>
         /\ \A j \in 1..Len(Pending) : Stale(Pending[j])
         /\ Pending # <<>> => Behind(cmd + 1)
    /\ pc # "idle" => OwnPending \/ AllRead

\* After a failure nothing can be heard any more.
Deaf ==
  \/ bad
  \/ sock \in {"closed", "reset"} /\ answer = <<>> /\ (pc # "idle" => text = <<>>)

DeafInv == (\E j \in 1..Len(results) : results[j] = Dialog!Failed) => Deaf

IInv == TypeOK /\ ClientInv /\ HeardInv /\ PendingInv /\ DeafInv /\ FailureIsFinal

-----------------------------------------------------------------------------
(* Commands, answers and results. *)

\* A command is a sequence of its cells, and only the last is a newline.
LEMMA CommandCellsType ==
  ASSUME NEW k \in 1..Commands
  PROVE  /\ CommandLength[k] \in Nat \ {0}
         /\ CommandCells(k) \in Seq(Cells)
         /\ Len(CommandCells(k)) = CommandLength[k]
         /\ \A j \in 1..CommandLength[k] :
              CommandCells(k)[j] = [cmd |-> k, nl |-> j = CommandLength[k], at |-> j]
<1>1. CommandLength \in [1..Commands -> Nat \ {0}] /\ Commands \in Nat
  BY StreamConstants, LenProperties DEF Commands
<1>2. CommandLength[k] \in Nat \ {0}
  BY <1>1
<1>3. \A j \in 1..CommandLength[k] :
        [cmd |-> k, nl |-> j = CommandLength[k], at |-> j] \in Cells
  BY <1>1, <1>2 DEF Cells
<1>4. CommandCells(k) \in [1..CommandLength[k] -> Cells]
  BY <1>3 DEF CommandCells
<1>5. CommandCells(k) \in Seq(Cells)
  BY <1>2, <1>4, SeqDef
<1>6. Len(CommandCells(k)) = CommandLength[k]
  BY <1>2, <1>4, <1>5, LenProperties
<1> QED BY <1>2, <1>5, <1>6 DEF CommandCells

\* So is an answer, and an error, which is that to command 0.
LEMMA AnswerCellsType ==
  ASSUME NEW k \in 0..Commands
  PROVE  /\ AnswerCells(k) \in Seq(Cells)
         /\ Len(AnswerCells(k)) > 0
         /\ \A j \in 1..Len(AnswerCells(k)) :
              AnswerCells(k)[j] = [cmd |-> k, nl |-> j = Len(AnswerCells(k)), at |-> j]
<1> DEFINE n == IF k = 0 THEN ErrorLength ELSE AnswerLength[k]
<1>1. n \in Nat \ {0} /\ Commands \in Nat
  BY StreamConstants, LenProperties DEF Commands
<1>2. AnswerCells(k) = [j \in 1..n |-> [cmd |-> k, nl |-> j = n, at |-> j]]
  BY DEF AnswerCells
<1> HIDE DEF n
<1>3. \A j \in 1..n : [cmd |-> k, nl |-> j = n, at |-> j] \in Cells
  BY <1>1 DEF Cells
<1>4. AnswerCells(k) \in [1..n -> Cells]
  BY <1>2, <1>3
<1>5. AnswerCells(k) \in Seq(Cells)
  BY <1>1, <1>4, SeqDef
<1>6. Len(AnswerCells(k)) = n
  BY <1>1, <1>4, <1>5, LenProperties
<1> QED BY <1>1, <1>2, <1>5, <1>6

\* A command ends in one way only.
LEMMA ResultsDiffer ==
  /\ Dialog!Failed # Dialog!Abandoned /\ Dialog!Failed # Dialog!Error
  /\ Dialog!Abandoned # Dialog!Error
  /\ \A k : Dialog!AnswerTo(k) # Dialog!Failed /\ Dialog!AnswerTo(k) # Dialog!Abandoned
BY DEF Dialog!Failed, Dialog!Abandoned, Dialog!Error, Dialog!AnswerTo

\* When a command ends, the results of the others stay, and a failure is final if
\* after an earlier one the new result is none but a failure.
LEMMA EndOfCommand ==
  ASSUME IInv, pc # "idle", NEW result \in Results, EndWith(result),
         Deaf => result \in {Dialog!Failed, Dialog!Abandoned}
  PROVE  /\ results' \in Seq(Results)
         /\ Len(results') = cmd
         /\ results'[cmd] = result
         /\ \A k \in 1..cmd - 1 : results'[k] = results[k]
         /\ FailureIsFinal'
<1>1. /\ results \in Seq(Results) /\ Len(results) = cmd - 1 /\ cmd \in 0..Commands
      /\ cmd > 0 /\ Commands \in Nat
  BY StreamConstants, LenProperties DEF IInv, TypeOK, Commands
<1>2. results' = Append(results, result)
  BY DEF EndWith
<1>3. /\ results' \in Seq(Results) /\ Len(results') = cmd /\ results'[cmd] = result
      /\ \A k \in 1..cmd - 1 : results'[k] = results[k]
  <2> HIDE DEF Results
  <2> QED BY <1>1, <1>2, AppendProperties
<1>4. DOMAIN results' = 1..cmd /\ DOMAIN results = 1..cmd - 1
  BY <1>1, <1>3, LenProperties
<1>5. ASSUME NEW j \in 1..cmd, NEW k \in 1..cmd, j < k, results'[j] = Dialog!Failed
      PROVE  results'[k] \in {Dialog!Failed, Dialog!Abandoned}
  <2>1. j \in 1..cmd - 1 /\ results[j] = Dialog!Failed
    BY <1>1, <1>3, <1>5
  <2>2. CASE k = cmd
    <3>1. Deaf
      BY <1>1, <2>1 DEF IInv, DeafInv
    <3> QED BY <1>3, <2>2, <3>1
  <2>3. CASE k # cmd
    BY <1>1, <1>3, <1>4, <1>5, <2>1, <2>3 DEF IInv, FailureIsFinal
  <2> QED BY <2>2, <2>3
<1> QED BY <1>3, <1>4, <1>5 DEF FailureIsFinal

\* Types that the steps need of what is pending and heard.
LEMMA PendingType ==
  ASSUME TypeOK, ClientInv, Usable
  PROVE  /\ Outgoing \in Seq(Cells)
         /\ Pending \in Seq(Cells)
         /\ Len(Pending) = Len(wire) + Len(Outgoing)
         /\ \A j \in 1..Len(wire) : Pending[j] = wire[j]
         /\ \A j \in 1..Len(Outgoing) : Pending[Len(wire) + j] = Outgoing[j]
<1> USE DEF TypeOK
<1> HIDE DEF Cells
<1>1. Outgoing \in Seq(Cells)
  <2>1. CASE pc = "sync"
    <3>1. written \in 0..Len(obuf) /\ Len(obuf) \in Nat
      BY <2>1, LenProperties DEF TypeOK, Usable
    <3>2. \A i \in written + 1..Len(obuf) : obuf[i] \in Cells
      BY <3>1, ElementOfSeq
    <3>3. SubSeq(obuf, written + 1, Len(obuf)) \in Seq(Cells)
      BY <3>1, <3>2, SubSeqProperties
    <3> QED BY <2>1, <3>3 DEF Outgoing
  <2>2. CASE pc # "sync"
    BY <2>2 DEF Outgoing
  <2> QED BY <2>1, <2>2
<1>2. /\ Pending \in Seq(Cells)
      /\ Len(Pending) = Len(wire) + Len(Outgoing)
      /\ \A i \in 1..Len(wire) + Len(Outgoing) :
           Pending[i] = IF i <= Len(wire) THEN wire[i] ELSE Outgoing[i - Len(wire)]
  BY <1>1, ConcatProperties DEF Pending
<1>3. Len(wire) \in Nat /\ Len(Outgoing) \in Nat
  BY <1>1, LenProperties
<1>4. \A j \in 1..Len(wire) : Pending[j] = wire[j]
  BY <1>2, <1>3
<1>5. \A j \in 1..Len(Outgoing) : Pending[Len(wire) + j] = Outgoing[j]
  <2> SUFFICES ASSUME NEW j \in 1..Len(Outgoing)
               PROVE  Pending[Len(wire) + j] = Outgoing[j]
    OBVIOUS
  <2>1. Len(wire) + j \in 1..Len(wire) + Len(Outgoing) /\ ~(Len(wire) + j <= Len(wire))
        /\ Len(wire) + j - Len(wire) = j
    BY <1>3
  <2> QED BY <1>2, <2>1
<1> QED BY <1>1, <1>2, <1>4, <1>5

-----------------------------------------------------------------------------
(* Building a command keeps the invariant. *)

\* Init establishes the invariant.
LEMMA InitInv == Init => IInv
<1> SUFFICES ASSUME Init PROVE IInv
  OBVIOUS
<1> USE DEF Init
<1>1. Commands \in Nat
  BY StreamConstants, LenProperties DEF Commands
<1>2. TypeOK
  <2>1. <<>> \in Seq(Cells) /\ <<>> \in Seq(Results) /\ Len(<<>>) = 0
    BY EmptySeq
  <2>2. up \in BOOLEAN
    BY StreamConstants
  <2>3. BufSize \in Nat
    BY StreamConstants
  <2>4. \A s : s = <<>> => s \in Seq(Cells) /\ s \in Seq(Results) /\ Len(s) = 0
    BY <2>1
  <2>5. /\ obuf \in Seq(Cells) /\ Len(obuf) <= BufSize
        /\ chunk \in Seq(Cells) /\ Len(chunk) <= BufSize
    BY <2>3, <2>4
  <2>6. wire \in Seq(Cells) /\ answer \in Seq(Cells) /\ text \in Seq(Cells)
    BY <2>4
  <2>7. results \in Seq(Results) /\ Len(results) = cmd
    BY <2>4
  <2>8. ok \in BOOLEAN /\ bad \in BOOLEAN
    OBVIOUS
  <2>9. cmd \in 0..Commands /\ pc = "idle"
    BY <1>1
  <2>10. driver \in {"ignore", "parse"} /\ sock \in {"none", "open", "closed", "reset"}
    OBVIOUS
  <2> QED BY <2>2, <2>5, <2>6, <2>7, <2>8, <2>9, <2>10, Zenon DEF TypeOK
<1>3. ClientInv /\ HeardInv
  BY DEF ClientInv, HeardInv
<1>4. Pending = <<>> /\ Len(Pending) = 0
  <2>1. Outgoing = <<>>
    BY DEF Outgoing
  <2>2. <<>> \in Seq(Cells) /\ Len(<<>>) = 0
    BY EmptySeq
  <2> QED BY <2>1, <2>2, ConcatEmptySeq DEF Pending
<1>5. PendingInv
  BY <1>4 DEF PendingInv
<1>6. DeafInv /\ FailureIsFinal
  <2>1. Len(results) = 0 /\ DOMAIN results = {}
    BY EmptySeq
  <2> QED BY <2>1 DEF DeafInv, FailureIsFinal
<1> QED BY <1>2, <1>3, <1>5, <1>6 DEF IInv

\* QueryDirector::query starts a builder.
LEMMA BeginInv ==
  ASSUME IInv, NEW d \in {"ignore", "parse"}, Begin(d)
  PROVE  IInv'
<1> USE DEF Begin
<1>1. /\ cmd \in 0..Commands - 1 /\ Commands \in Nat /\ Len(results) = cmd
  BY StreamConstants, LenProperties DEF IInv, TypeOK, Commands
<1>2. TypeOK'
  <2>1. CommandLength[cmd + 1] \in Nat \ {0}
    BY <1>1, CommandCellsType
  <2>2. /\ cmd' \in 0..Commands /\ cmd' > 0 /\ done' \in 0..CommandLength[cmd']
        /\ Len(results') = cmd' - 1
    BY <1>1, <2>1
  <2>3. text' \in Seq(Cells)
    BY EmptySeq
  <2> QED BY <2>2, <2>3 DEF IInv, TypeOK
<1>3. ClientInv'
  <2>1. CommandLength[cmd'] # done'
    BY <1>1, CommandCellsType
  <2> QED BY <2>1 DEF IInv, ClientInv
<1>4. answer = <<>> /\ Heard' = <<>>
  <2>1. answer = <<>> /\ answer' = <<>> /\ text' = <<>>
    BY DEF IInv, HeardInv
  <2> QED BY <2>1, EmptySeq, ConcatEmptySeq DEF Heard
<1>5. HeardInv'
  BY <1>4 DEF IInv, HeardInv
<1>6. PendingInv'
  <2> SUFFICES ASSUME Usable' PROVE OwnPending'
    BY DEF PendingInv
  <2>1. Usable /\ Pending' = Pending /\ Len(Pending) \in Nat
    BY PendingType, LenProperties DEF IInv, Usable, Pending, Outgoing
  <2>2. \A j \in 1..Len(Pending) : Stale(Pending[j])
    BY <2>1 DEF IInv, PendingInv
  <2>3. Pending # <<>> => Behind(cmd + 1)
    BY <2>1 DEF IInv, PendingInv
  <2>4. Len(Pending) > 0 => Pending # <<>>
    BY EmptySeq
  <2>5. \A c : Stale(c)' <=> Stale(c)
    BY DEF Stale
  <2>6. Behind(cmd + 1) => Behind(cmd)'
    BY DEF Behind
  <2> QED BY <1>4, <2>1, <2>2, <2>3, <2>4, <2>5, <2>6 DEF OwnPending
<1>7. DeafInv' /\ FailureIsFinal'
  BY <1>4 DEF IInv, DeafInv, Deaf, FailureIsFinal
<1> QED BY <1>2, <1>3, <1>5, <1>6, <1>7 DEF IInv

\* The builder of a broken stream fails.
LEMMA PutThrowsInv ==
  ASSUME IInv, PutThrows
  PROVE  IInv'
<1> USE DEF PutThrows
<1>1. Dialog!Failed \in Results /\ Commands \in Nat
  BY StreamConstants, LenProperties DEF Results, Commands
<1>2. /\ results' \in Seq(Results) /\ Len(results') = cmd
      /\ FailureIsFinal'
  BY <1>1, EndOfCommand
<1>3. pc' = "idle" /\ cmd' = cmd
  BY DEF EndWith
<1>4. TypeOK'
  BY <1>2, <1>3 DEF IInv, TypeOK
<1>5. ClientInv' /\ HeardInv'
  BY <1>3 DEF IInv, ClientInv, HeardInv
<1>6. PendingInv' /\ DeafInv'
  BY DEF PendingInv, Usable, DeafInv, Deaf
<1> QED BY <1>2, <1>4, <1>5, <1>6 DEF IInv

\* What is appended behind comes last.
LEMMA AppendBehind ==
  ASSUME NEW S, NEW s \in Seq(S), NEW t \in Seq(S), NEW e \in S
  PROVE  s \o Append(t, e) = Append(s \o t, e)
<1>1. Append(t, e) = t \o <<e>> /\ <<e>> \in Seq(S)
  BY AppendIsConcat
<1>2. s \o (t \o <<e>>) = (s \o t) \o <<e>>
  BY <1>1, ConcatAssociative
<1>3. s \o t \in Seq(S)
  BY ConcatProperties
<1>4. Append(s \o t, e) = (s \o t) \o <<e>>
  BY <1>3, AppendIsConcat
<1> QED BY <1>1, <1>2, <1>4

\* A cell goes into the output buffer: it is pending behind the others.
LEMMA PutInv ==
  ASSUME IInv, Put
  PROVE  IInv'
<1> USE DEF Put
<1> DEFINE c == CommandCells(cmd)[done + 1]
<1>1. /\ cmd \in 1..Commands /\ done \in 0..CommandLength[cmd] /\ Commands \in Nat
      /\ CommandLength[cmd] \in Nat /\ c \in Cells
  <2>1. cmd \in 1..Commands /\ done \in 0..CommandLength[cmd] /\ Commands \in Nat
    BY StreamConstants, LenProperties DEF IInv, TypeOK, Commands
  <2>2. CommandLength[cmd] \in Nat
    BY <2>1, CommandCellsType
  <2>3. done + 1 \in 1..CommandLength[cmd]
    BY <2>1, <2>2
  <2> QED BY <2>1, <2>2, <2>3, CommandCellsType, ElementOfSeq
<1> HIDE DEF c
<1>2. obuf' = Append(obuf, c)
  BY DEF c
<1>3. obuf \in Seq(Cells) /\ wire \in Seq(Cells) /\ Len(obuf) \in Nat /\ Len(obuf) <= BufSize
  BY LenProperties DEF IInv, TypeOK
<1>4. obuf' \in Seq(Cells) /\ Len(obuf') = Len(obuf) + 1 /\ obuf' # <<>>
  <2> HIDE DEF Cells
  <2> QED BY <1>1, <1>2, <1>3, AppendProperties
<1>5. TypeOK'
  <2>1. Len(obuf') <= BufSize
    BY StreamConstants, <1>3, <1>4 DEF Room
  <2>2. done' \in 0..CommandLength[cmd]
    BY <1>1
  <2> QED BY <1>4, <2>1, <2>2 DEF IInv, TypeOK
<1>6. ClientInv'
  BY <1>4 DEF IInv, ClientInv
<1>7. HeardInv'
  BY DEF IInv, HeardInv, Heard, Behind
<1>8. PendingInv'
  <2> SUFFICES ASSUME Usable' PROVE OwnPending'
    BY DEF PendingInv
  <2>1. Usable /\ OwnPending
    BY DEF IInv, Usable, PendingInv, AllRead
  <2>2. Pending \in Seq(Cells) /\ Len(Pending) \in Nat
    BY <2>1, PendingType, LenProperties DEF IInv
  <2>3. Pending' = Append(Pending, c)
    BY <1>1, <1>2, <1>3, AppendBehind DEF Pending, Outgoing
  <2>4. /\ Len(Pending') = Len(Pending) + 1
        /\ \A j \in 1..Len(Pending) : Pending'[j] = Pending[j]
        /\ Pending'[Len(Pending) + 1] = c
    <3> HIDE DEF Cells
    <3> QED BY <1>1, <2>2, <2>3, AppendProperties
  <2> DEFINE r == Len(Pending) - done
  <2>5. r \in Nat /\ Len(Pending') - done' = r /\ Len(Pending) = r + done
    BY <1>1, <2>1, <2>2, <2>4 DEF OwnPending
  <2>6. \A j \in 1..r : Stale(Pending[j])'
    <3>1. \A j \in 1..r : Stale(Pending[j]) /\ Pending'[j] = Pending[j]
      BY <1>1, <2>1, <2>4, <2>5 DEF OwnPending
    <3> QED BY <3>1 DEF Stale
  <2>7. \A j \in 1..done' : Pending'[r + j] = CommandCells(cmd)[j]
    <3> SUFFICES ASSUME NEW j \in 1..done' PROVE Pending'[r + j] = CommandCells(cmd)[j]
      OBVIOUS
    <3>1. CASE j \in 1..done
      <4>1. r + j \in 1..Len(Pending)
        BY <1>1, <2>5, <3>1
      <4> QED BY <2>1, <2>4, <3>1, <4>1 DEF OwnPending
    <3>2. CASE j = done + 1
      BY <1>1, <2>4, <2>5, <3>2 DEF c
    <3> QED BY <1>1, <3>1, <3>2
  <2>8. r > 0 => Behind(cmd)'
    BY <2>1 DEF OwnPending, Behind
  <2>9. text' = <<>> /\ answer' = <<>>
    BY <2>1 DEF OwnPending
  <2> HIDE DEF r
  <2> QED BY <2>5, <2>6, <2>7, <2>8, <2>9 DEF OwnPending
<1>9. DeafInv' /\ FailureIsFinal'
  BY DEF IInv, DeafInv, Deaf, FailureIsFinal
<1> QED BY <1>5, <1>6, <1>7, <1>8, <1>9 DEF IInv

\* A builder throws: its cells become stale.
LEMMA AbandonInv ==
  ASSUME IInv, Abandon
  PROVE  IInv'
<1> USE DEF Abandon
<1>1. /\ cmd \in 1..Commands /\ done \in 0..CommandLength[cmd] /\ Commands \in Nat
      /\ Len(results) = cmd - 1 /\ Dialog!Abandoned \in Results
  BY StreamConstants, LenProperties DEF IInv, TypeOK, Commands, Results
<1>2. /\ results' \in Seq(Results) /\ Len(results') = cmd
      /\ results'[cmd] = Dialog!Abandoned
      /\ \A k \in 1..cmd - 1 : results'[k] = results[k]
      /\ FailureIsFinal'
  BY <1>1, EndOfCommand
<1>3. pc' = "idle" /\ cmd' = cmd
  BY DEF EndWith
<1>4. TypeOK'
  BY <1>2, <1>3 DEF IInv, TypeOK
<1>5. ClientInv' /\ HeardInv'
  BY <1>3 DEF IInv, ClientInv, HeardInv
<1>6. PendingInv'
  <2> SUFFICES ASSUME Usable'
               PROVE  /\ \A j \in 1..Len(Pending') : Stale(Pending[j])'
                      /\ Behind(cmd + 1)'
    BY <1>3 DEF PendingInv
  <2>1. Usable /\ OwnPending
    BY DEF IInv, Usable, PendingInv, AllRead
  <2>2. Len(Pending) \in Nat /\ Pending' = Pending
    BY <1>3, <2>1, PendingType, LenProperties DEF IInv, Pending, Outgoing
  <2>3. ASSUME NEW j \in 1..Len(Pending)
        PROVE  Stale(Pending[j])'
    <3>1. CASE j \in 1..Len(Pending) - done
      <4>1. Stale(Pending[j])
        BY <2>1, <3>1 DEF OwnPending
      <4> QED BY <1>1, <1>2, <2>2, <4>1 DEF Stale
    <3>2. CASE j \notin 1..Len(Pending) - done
      <4> DEFINE i == j - (Len(Pending) - done)
      <4>1. i \in 1..done /\ j = (Len(Pending) - done) + i
        BY <1>1, <2>1, <2>2, <3>2 DEF OwnPending
      <4>2. Pending[j] = CommandCells(cmd)[i]
        BY <2>1, <4>1 DEF OwnPending
      <4>3. i \in 1..CommandLength[cmd] /\ i # CommandLength[cmd]
        BY <1>1, <4>1, CommandCellsType
      <4> HIDE DEF i
      <4>4. CommandCells(cmd)[i]
              = [cmd |-> cmd, nl |-> i = CommandLength[cmd], at |-> i]
        BY <1>1, <4>3, CommandCellsType
      <4>5. Pending[j].cmd = cmd /\ Pending[j].nl = (i = CommandLength[cmd])
        BY <4>2, <4>4
      <4>6. ~Pending[j].nl
        BY <4>3, <4>5, Zenon
      <4> QED BY <1>1, <1>2, <2>2, <4>5, <4>6 DEF Stale
    <3> QED BY <3>1, <3>2
  <2>4. Behind(cmd + 1)'
    BY <1>1, <1>2, <1>3 DEF Behind
  <2> QED BY <2>2, <2>3, <2>4
<1>7. DeafInv'
  <2> SUFFICES ASSUME NEW j \in 1..Len(results'), results'[j] = Dialog!Failed
               PROVE  Deaf'
    BY DEF DeafInv
  <2>1. j \in 1..Len(results) /\ results[j] = Dialog!Failed
    BY <1>1, <1>2, ResultsDiffer
  <2>2. Deaf
    BY <2>1 DEF IInv, DeafInv
  <2> QED BY <1>3, <2>2 DEF Deaf
<1> QED BY <1>2, <1>4, <1>5, <1>6, <1>7 DEF IInv

\* A flush begins: all of the output buffer is outgoing.
LEMMA SyncBeginsInv ==
  ASSUME IInv, SyncBegins
  PROVE  IInv'
<1> USE DEF SyncBegins
<1>1. TypeOK'
  <2>1. <<>> \in Seq(Cells) /\ Len(<<>>) = 0
    BY EmptySeq
  <2>2. chunk' \in Seq(Cells) /\ Len(chunk') <= BufSize
    BY <2>1, StreamConstants
  <2>3. written' \in Int /\ written' <= Len(obuf) /\ written' >= 0
    BY LenProperties DEF IInv, TypeOK
  <2>4. ok' \in BOOLEAN
    OBVIOUS
  <2> QED BY <2>2, <2>3, <2>4 DEF IInv, TypeOK
<1>2. ClientInv'
  BY DEF IInv, ClientInv
<1>3. HeardInv'
  BY DEF IInv, HeardInv, Heard, Behind
<1>4. PendingInv'
  <2> SUFFICES ASSUME Usable' PROVE OwnPending'
    BY DEF PendingInv
  <2>1. OwnPending
    BY DEF IInv, Usable, PendingInv, AllRead
  <2>2. obuf \in Seq(Cells)
    BY DEF IInv, TypeOK
  <2>3. Outgoing' = SubSeq(obuf, 1, Len(obuf)) /\ Outgoing = obuf
    BY DEF Outgoing
  <2>4. Pending' = Pending
    BY <2>2, <2>3, SubSeqFull DEF Pending
  <2> QED BY <2>1, <2>4 DEF OwnPending, Behind, Stale
<1>5. DeafInv' /\ FailureIsFinal'
  BY DEF IInv, DeafInv, Deaf, FailureIsFinal
<1> QED BY <1>1, <1>2, <1>3, <1>4, <1>5 DEF IInv

-----------------------------------------------------------------------------
(* Sending keeps it. *)

\* The socket is opened.
LEMMA ConnectInv ==
  ASSUME IInv, Connect
  PROVE  IInv'
<1> USE DEF Connect, client
<1>1. TypeOK' /\ ClientInv'
  BY DEF IInv, TypeOK, ClientInv
<1>2. HeardInv'
  BY DEF IInv, HeardInv, Heard, Behind
<1>3. PendingInv'
  BY DEF IInv, PendingInv, Usable, OwnPending, AllRead, Pending, Outgoing, Heard,
         Behind, Stale
<1>4. DeafInv' /\ FailureIsFinal'
  BY DEF IInv, DeafInv, Deaf, FailureIsFinal
<1> QED BY <1>1, <1>2, <1>3, <1>4 DEF IInv

\* No connection after ten rounds: badbit is set.
LEMMA ConnectFailsInv ==
  ASSUME IInv, ConnectFails
  PROVE  IInv'
<1> USE DEF ConnectFails, SetBad
<1>1. Dialog!Failed \in Results /\ Commands \in Nat
  BY StreamConstants, LenProperties DEF Results, Commands
<1>2. /\ results' \in Seq(Results) /\ Len(results') = cmd
      /\ FailureIsFinal'
  BY <1>1, EndOfCommand
<1>3. pc' = "idle" /\ cmd' = cmd
  BY DEF EndWith
<1>4. TypeOK'
  BY <1>2, <1>3 DEF IInv, TypeOK
<1>5. ClientInv' /\ HeardInv'
  BY <1>3 DEF IInv, ClientInv, HeardInv
<1>6. PendingInv' /\ DeafInv'
  BY DEF PendingInv, Usable, DeafInv, Deaf
<1> QED BY <1>2, <1>4, <1>5, <1>6 DEF IInv

\* The two parts that a send cuts the rest of the buffer into are the rest.
LEMMA SliceAndRest ==
  ASSUME NEW S, NEW s \in Seq(S), NEW i \in 0..Len(s), NEW n \in 1..Len(s) - i
  PROVE  /\ SubSeq(s, i + 1, i + n) \in Seq(S)
         /\ SubSeq(s, i + n + 1, Len(s)) \in Seq(S)
         /\ SubSeq(s, i + 1, i + n) \o SubSeq(s, i + n + 1, Len(s))
              = SubSeq(s, i + 1, Len(s))
<1>1. Len(s) \in Nat
  BY LenProperties
<1>2. /\ \A j \in i + 1..i + n : s[j] \in S
      /\ \A j \in i + n + 1..Len(s) : s[j] \in S
  BY <1>1, ElementOfSeq
<1>3. i + 1 \in 1..Len(s) + 1 /\ i + n \in (i + 1) - 1..Len(s) /\ Len(s) \in i + n..Len(s)
  BY <1>1
<1>4. SubSeq(s, i + 1, i + n) \o SubSeq(s, i + n + 1, Len(s)) = SubSeq(s, i + 1, Len(s))
  BY <1>3, ConcatAdjacentSubSeq
<1> QED BY <1>1, <1>2, <1>4, SubSeqProperties

\* send takes a part of the buffer: what is pending stays what it is.
LEMMA SendInv ==
  ASSUME IInv, NEW n \in 1..BufSize, Send(n)
  PROVE  IInv'
<1> USE DEF Send
<1>1. /\ written \in 0..Len(obuf) /\ Len(obuf) \in Nat
      /\ n \in 1..Len(obuf) - written /\ written + n \in 0..Len(obuf)
  BY LenProperties DEF IInv, TypeOK
<1>2. /\ wire \in Seq(Cells) /\ obuf \in Seq(Cells)
      /\ Slice(n) \in Seq(Cells) /\ wire \o Slice(n) \in Seq(Cells)
  <2> HIDE DEF Cells
  <2>1. wire \in Seq(Cells) /\ obuf \in Seq(Cells)
    BY DEF IInv, TypeOK
  <2>2. Slice(n) \in Seq(Cells)
    BY <1>1, <2>1, SliceAndRest DEF Slice
  <2> QED BY <2>1, <2>2, ConcatProperties
<1>3. TypeOK'
  <2>1. wire' \in Seq(Cells)
    BY <1>2 DEF IInv, TypeOK
  <2>2. answer' \in Seq(Cells)
    BY EmptySeq DEF IInv, TypeOK
  <2>3. written' \in Int /\ written' <= Len(obuf) /\ written' >= 0 /\ ok' \in BOOLEAN
    BY <1>1
  <2>4. sock' \in {"none", "open", "closed", "reset"}
    OBVIOUS
  <2> QED BY <2>1, <2>2, <2>3, <2>4 DEF IInv, TypeOK
<1>4. ClientInv'
  BY <1>1 DEF IInv, ClientInv
<1>5. HeardInv'
  <2>1. CASE sock = "open"
    BY <2>1 DEF IInv, HeardInv, Heard, Behind
  <2>2. CASE sock # "open"
    <3>1. text' = <<>> /\ answer' = <<>>
      BY <2>2 DEF IInv, HeardInv
    <3>2. Heard' = <<>>
      BY <3>1, EmptySeq, ConcatEmptySeq DEF Heard
    <3> QED BY <2>2, <3>1, <3>2 DEF IInv, HeardInv, Heard, Behind
  <2> QED BY <2>1, <2>2
<1>6. PendingInv'
  <2> SUFFICES ASSUME Usable' PROVE (OwnPending \/ AllRead)'
    BY DEF PendingInv
  <2>1. sock = "open" /\ Usable /\ (OwnPending \/ AllRead)
    BY DEF IInv, Usable, PendingInv
  <2>2. /\ Outgoing = Slice(n) \o SubSeq(obuf, written + n + 1, Len(obuf))
        /\ Outgoing' = SubSeq(obuf, written + n + 1, Len(obuf))
        /\ Outgoing' \in Seq(Cells)
    <3> HIDE DEF Cells
    <3> QED BY <1>1, <1>2, SliceAndRest DEF Slice, Outgoing
  <2>3. wire' = wire \o Slice(n)
    BY <2>1
  <2>4. Pending' = Pending
    <3> DEFINE rest == SubSeq(obuf, written + n + 1, Len(obuf))
    <3>1. rest \in Seq(Cells) /\ Outgoing = Slice(n) \o rest /\ Outgoing' = rest
      BY <2>2
    <3> DEFINE part == Slice(n)
    <3>2. wire \in Seq(Cells) /\ part \in Seq(Cells) /\ rest \in Seq(Cells)
      BY <1>2, <3>1
    <3> HIDE DEF Cells, Send, rest, part
    <3>3. wire \o (part \o rest) = (wire \o part) \o rest
      BY <3>2, ConcatAssociative
    <3> QED BY <2>3, <3>1, <3>3 DEF Pending, part
  <2> QED BY <2>1, <2>4 DEF OwnPending, AllRead, Behind, Stale, Heard
<1>7. DeafInv' /\ FailureIsFinal'
  BY DEF IInv, DeafInv, Deaf, FailureIsFinal
<1> QED BY <1>3, <1>4, <1>5, <1>6, <1>7 DEF IInv

\* send fails: the stream is not usable any more.
LEMMA SendFailsInv ==
  ASSUME IInv, SendFails
  PROVE  IInv'
<1> USE DEF SendFails
<1>1. TypeOK'
  <2>1. written \in Int /\ written <= Len(obuf) /\ Len(obuf) \in Nat
    BY LenProperties DEF IInv, TypeOK
  <2>2. written' \in Int /\ written' <= Len(obuf)
    BY <2>1
  <2>3. ok' \in BOOLEAN /\ ~(ok' \/ sock' # "reset")
    OBVIOUS
  <2> QED BY <2>2, <2>3 DEF IInv, TypeOK
<1>2. ClientInv'
  BY DEF IInv, ClientInv
<1>3. HeardInv'
  BY DEF IInv, HeardInv, Heard, Behind
<1>4. PendingInv'
  BY DEF PendingInv, Usable
<1>5. DeafInv' /\ FailureIsFinal'
  BY DEF IInv, DeafInv, Deaf, FailureIsFinal
<1> QED BY <1>1, <1>2, <1>3, <1>4, <1>5 DEF IInv

\* The buffer is sent and emptied.
LEMMA SyncEndsInv ==
  ASSUME IInv, SyncEnds
  PROVE  IInv'
<1> USE DEF SyncEnds
<1>1. /\ cmd \in 1..Commands /\ done \in 0..CommandLength[cmd]
      /\ obuf \in Seq(Cells) /\ Len(obuf) \in Nat
      /\ written \in Int /\ written <= Len(obuf) /\ ~(written < Len(obuf))
  BY StreamConstants, LenProperties DEF IInv, TypeOK, Unsent, Commands
<1>2. <<>> \in Seq(Cells) /\ Len(<<>>) = 0
  BY EmptySeq
<1>3. TypeOK'
  <2>1. obuf' \in Seq(Cells) /\ Len(obuf') <= BufSize
    BY <1>2, StreamConstants
  <2>2. pc' \in {"put", "read"}
    OBVIOUS
  <2> QED BY <2>1, <2>2 DEF IInv, TypeOK
<1>4. ClientInv'
  BY DEF IInv, ClientInv
<1>5. HeardInv'
  <2>1. pc' = "put" => answer' = <<>>
    <3> SUFFICES ASSUME pc' = "put" PROVE answer = <<>>
      OBVIOUS
    <3> QED BY <1>1 DEF IInv, HeardInv
  <2> QED BY <2>1 DEF IInv, HeardInv, Heard, Behind
<1>6. PendingInv'
  <2> SUFFICES ASSUME Usable' PROVE (OwnPending \/ AllRead)'
    BY DEF PendingInv
  <2>1. OwnPending \/ AllRead
    BY DEF IInv, Usable, PendingInv
  <2>2. Outgoing = <<>> /\ Outgoing' = <<>>
    BY <1>1, SubSeqEmpty DEF Outgoing
  <2>3. Pending' = Pending
    BY <2>2 DEF Pending
  <2>4. CASE OwnPending
    BY <2>3, <2>4 DEF OwnPending, Behind, Stale
  <2>5. CASE AllRead
    BY <2>3, <2>5 DEF AllRead, Behind, Heard
  <2> QED BY <2>1, <2>4, <2>5
<1>7. DeafInv' /\ FailureIsFinal'
  BY DEF IInv, DeafInv, Deaf, FailureIsFinal
<1> QED BY <1>3, <1>4, <1>5, <1>6, <1>7 DEF IInv

-----------------------------------------------------------------------------
(* Reading keeps it. *)

\* When the newline has come, the driver has the whole answer and nothing but it.
LEMMA WholeAnswer ==
  ASSUME TypeOK, HeardInv, pc = "read", AtNewline
  PROVE  /\ answer = <<>>
         /\ \/ text = AnswerCells(cmd)
            \/ Behind(cmd) /\ text = AnswerCells(0)
<1> HIDE DEF Cells
<1>1. /\ text \in Seq(Cells) /\ answer \in Seq(Cells)
      /\ Len(text) \in Nat /\ Len(answer) \in Nat
      /\ cmd \in 0..Commands /\ 0 \in 0..Commands
  BY StreamConstants, LenProperties DEF TypeOK, Commands
<1>2. text # <<>> /\ Last(text).nl
  BY DEF HeardInv, AtNewline
<1>3. Len(text) > 0
  BY <1>1, <1>2, EmptySeq
<1>4. Heard # <<>>
  BY <1>1, <1>2, ConcatEqualIffEmpty DEF Heard
<1>5. ASSUME NEW k \in 0..Commands, Heard = AnswerCells(k)
      PROVE  answer = <<>> /\ text = AnswerCells(k)
  <2>1. /\ Len(Heard) = Len(text) + Len(answer)
        /\ Heard[Len(text)] = text[Len(text)]
    BY <1>1, <1>3, ConcatProperties DEF Heard
  <2>2. Len(text) \in 1..Len(AnswerCells(k))
    BY <1>1, <1>3, <1>5, <2>1
  <2> DEFINE last == AnswerCells(k)[Len(text)]
  <2>3. last.nl = (Len(text) = Len(AnswerCells(k)))
    <3>1. last = [cmd |-> k, nl |-> Len(text) = Len(AnswerCells(k)), at |-> Len(text)]
      BY <2>2, AnswerCellsType
    <3> HIDE DEF last
    <3> QED BY <3>1
  <2>4. Len(text) = Len(Heard)
    <3>1. last = Last(text) /\ Heard = AnswerCells(k)
      BY <1>5, <2>1 DEF Last
    <3> QED BY <1>2, <2>3, <3>1, Zenon
  <2>5. Len(answer) = 0
    BY <1>1, <2>1, <2>4
  <2>6. answer = <<>>
    BY <1>1, <2>5, EmptySeq
  <2> QED BY <1>1, <1>5, <2>6, ConcatEmptySeq DEF Heard
<1> QED BY <1>1, <1>4, <1>5 DEF HeardInv

\* Without it, and when RACER has nothing to say, the driver has read nothing.
LEMMA NothingHeard ==
  ASSUME TypeOK, HeardInv, pc = "read", ~AtNewline, answer = <<>>
  PROVE  text = <<>>
<1> HIDE DEF Cells
<1>1. text \in Seq(Cells) /\ cmd \in 0..Commands /\ 0 \in 0..Commands
  BY StreamConstants, LenProperties DEF TypeOK, Commands
<1>2. Heard = text
  BY <1>1, ConcatEmptySeq DEF Heard
<1>3. ASSUME NEW k \in 0..Commands, text = AnswerCells(k)
      PROVE  FALSE
  <2>1. Len(text) > 0 /\ text # <<>>
    BY <1>3, AnswerCellsType, EmptySeq
  <2>2. chunk # <<>> /\ Last(text) = Last(chunk)
    BY <2>1 DEF HeardInv
  <2>3. Len(text) \in 1..Len(text)
    BY <1>1, <2>1, LenProperties
  <2>4. text[Len(text)] = [cmd |-> k, nl |-> Len(text) = Len(text), at |-> Len(text)]
    BY <1>3, <2>3, AnswerCellsType
  <2> DEFINE last == text[Len(text)]
  <2>5. last.nl = (Len(text) = Len(text))
    <3> HIDE DEF last
    <3> QED BY <2>4 DEF last
  <2>6. Last(text).nl
    BY <2>5, Zenon DEF Last
  <2> QED BY <2>2, <2>6 DEF AtNewline
<1> QED BY <1>1, <1>2, <1>3 DEF HeardInv

\* What the driver makes of a whole answer, and of nothing.
LEMMA ParsedWhole ==
  ASSUME NEW k \in 0..Commands, text = AnswerCells(k)
  PROVE  Parsed = IF k = 0 THEN Dialog!Error ELSE Dialog!AnswerTo(k)
<1> HIDE DEF Cells
<1>1. Commands \in Nat
  BY StreamConstants, LenProperties DEF Commands
<1>2. \A j \in 0..Commands :
        /\ AnswerCells(j) \in Seq(Cells) /\ Len(AnswerCells(j)) \in Nat \ {0}
        /\ AnswerCells(j)[1].cmd = j
  <2> SUFFICES ASSUME NEW j \in 0..Commands
               PROVE  /\ AnswerCells(j) \in Seq(Cells) /\ Len(AnswerCells(j)) \in Nat \ {0}
                      /\ AnswerCells(j)[1].cmd = j
    OBVIOUS
  <2>1. AnswerCells(j) \in Seq(Cells) /\ Len(AnswerCells(j)) \in Nat \ {0}
    BY AnswerCellsType, LenProperties
  <2>2. 1 \in 1..Len(AnswerCells(j))
    BY <2>1
  <2>3. AnswerCells(j)[1] = [cmd |-> j, nl |-> 1 = Len(AnswerCells(j)), at |-> 1]
    BY <2>2, AnswerCellsType
  <2> QED BY <2>1, <2>3
<1>3. text # <<>> /\ text[1].cmd = k
  BY <1>2, EmptySeq
<1>4. CASE k # 0
  <2>1. k \in 1..Commands
    BY <1>1, <1>4
  <2> QED BY <1>3, <1>4, <2>1 DEF Parsed
<1>5. CASE k = 0
  <2>1. \A j \in 1..Commands : text # AnswerCells(j)
    BY <1>1, <1>2, <1>3, <1>5
  <2>2. ASSUME NEW j \in 1..Commands, text = Front(AnswerCells(j))
        PROVE  FALSE
    <3> DEFINE m == Len(AnswerCells(j)) - 1
    <3>1. /\ AnswerCells(j) \in Seq(Cells) /\ m \in Nat /\ m < Len(AnswerCells(j))
          /\ Len(AnswerCells(j)) \in Nat /\ AnswerCells(j)[1].cmd = j
      BY <1>1, <1>2
    <3>2. text = SubSeq(AnswerCells(j), 1, m)
      BY <2>2 DEF Front
    <3> HIDE DEF m
    <3>3. m # 0
      BY <1>3, <3>2, SubSeqEmpty
    <3>4. \A i \in 1..m : AnswerCells(j)[i] \in Cells
      BY <3>1, ElementOfSeq
    <3>5. 1 \in 1..m - 1 + 1
      BY <3>1, <3>3
    <3>6. text[1] = AnswerCells(j)[1 + 1 - 1]
      BY <3>1, <3>2, <3>4, <3>5, SubSeqProperties
    <3>7. text[1].cmd = j
      BY <3>1, <3>6
    <3> QED BY <1>3, <1>5, <3>7
  <2>3. text[1] = AnswerCells(0)[1]
    BY <1>5
  <2> QED BY <1>3, <1>5, <2>1, <2>2, <2>3 DEF Parsed
<1> QED BY <1>4, <1>5

\* An empty answer cannot be parsed.
LEMMA ParsedNothing == text = <<>> => Parsed = Dialog!Failed
BY DEF Parsed

\* The smaller of two numbers.
LEMMA MinOfTwo ==
  ASSUME NEW a \in Int, NEW b \in Int
  PROVE  Min({a, b}) \in {a, b} /\ Min({a, b}) <= a /\ Min({a, b}) <= b
<1> DEFINE Least(x) == x \in {a, b} /\ \A y \in {a, b} : x <= y
<1>1. \E x : Least(x)
  <2>1. CASE a <= b
    BY <2>1
  <2>2. CASE b <= a
    BY <2>2
  <2> QED BY <2>1, <2>2
<1>2. Min({a, b}) = CHOOSE x : Least(x)
  BY DEF Min
<1>3. Least(CHOOSE x : Least(x))
  <2> HIDE DEF Least
  <2> QED BY <1>1, Zenon
<1> QED BY <1>2, <1>3

\* recv delivers a part of the answer: what is heard stays what it is.
LEMMA RecvInv ==
  ASSUME IInv, NEW n \in 1..BufSize, Recv(n)
  PROVE  IInv'
<1> HIDE DEF Cells
<1> USE DEF Recv
<1>1. /\ answer \in Seq(Cells) /\ text \in Seq(Cells) /\ Len(answer) \in Nat
      /\ BufSize \in Nat
  BY StreamConstants, LenProperties DEF IInv, TypeOK
<1>2. n \in 1..Len(answer)
  <2>1. Len(answer) \in Int /\ BufSize \in Int
    BY <1>1
  <2>2. /\ Min({Len(answer), BufSize}) \in {Len(answer), BufSize}
        /\ Min({Len(answer), BufSize}) <= Len(answer)
    BY <2>1, MinOfTwo
  <2> QED BY <1>1, <2>2
<1> DEFINE part == SubSeq(answer, 1, n)
           rest == SubSeq(answer, n + 1, Len(answer))
<1>3. chunk' = part /\ answer' = rest /\ text' = text \o part
  OBVIOUS
<1>4. /\ part \in Seq(Cells) /\ rest \in Seq(Cells) /\ part \o rest = answer
      /\ Len(part) = n
  <2>1. 0 \in 0..Len(answer) /\ n \in 1..Len(answer) - 0 /\ 0 + 1 = 1 /\ 0 + n = n
    BY <1>1, <1>2
  <2>2. part \o rest = SubSeq(answer, 1, Len(answer))
    BY <1>1, <2>1, SliceAndRest
  <2>3. part \in Seq(Cells) /\ rest \in Seq(Cells)
    BY <1>1, <2>1, SliceAndRest
  <2>4. Len(part) = n
    <3>1. \A i \in 1..n : answer[i] \in Cells
      BY <1>1, <1>2, ElementOfSeq
    <3> QED BY <1>2, <3>1, SubSeqProperties
  <2> QED BY <1>1, <2>2, <2>3, <2>4, SubSeqFull
<1> HIDE DEF part, rest
<1>5. /\ part # <<>> /\ text \o part \in Seq(Cells) /\ text \o part # <<>>
      /\ Last(text \o part) = Last(part)
  <2> HIDE DEF Recv
  <2>1. Len(text) \in Nat /\ n \in Nat \ {0}
    BY <1>1, <1>2, LenProperties
  <2>2. text \o part \in Seq(Cells) /\ Len(text \o part) = Len(text) + n
    BY <1>1, <1>4, ConcatProperties
  <2>3. Len(text) + n \in 1..Len(text) + n /\ ~(Len(text) + n <= Len(text))
        /\ Len(text) + n - Len(text) = n
    BY <2>1
  <2>4. (text \o part)[Len(text) + n] = part[n]
    BY <1>1, <1>4, <2>3, ConcatProperties
  <2>5. part # <<>> /\ text \o part # <<>>
    BY <1>4, <2>1, <2>2, EmptySeq
  <2> QED BY <1>4, <2>2, <2>4, <2>5 DEF Last
<1>6. Heard' = Heard
  <2>1. (text \o part) \o rest = text \o (part \o rest)
    <3>1. text \in Seq(Cells) /\ part \in Seq(Cells) /\ rest \in Seq(Cells)
      BY <1>1, <1>4
    <3> HIDE DEF Recv
    <3> QED BY <3>1, ConcatAssociative
  <2> QED BY <1>3, <1>4, <2>1 DEF Heard
<1>7. TypeOK'
  <2>1. chunk' \in Seq(Cells) /\ text' \in Seq(Cells) /\ answer' \in Seq(Cells)
    BY <1>3, <1>4, <1>5
  <2>2. Len(chunk') <= BufSize
    BY <1>1, <1>3, <1>4
  <2> QED BY <2>1, <2>2 DEF IInv, TypeOK
<1>8. ClientInv'
  BY DEF IInv, ClientInv
<1>9. HeardInv'
  <2>1. sock # "none"
    BY DEF IInv, ClientInv
  <2>2. Last(text') = Last(chunk') /\ text' # <<>> /\ chunk' # <<>>
    BY <1>3, <1>5
  <2> QED BY <1>6, <2>1, <2>2 DEF IInv, HeardInv, Behind
<1>10. PendingInv'
  <2> SUFFICES ASSUME Usable' PROVE AllRead'
    BY DEF PendingInv
  <2>1. answer # <<>>
    BY <1>1, <1>2, EmptySeq
  <2>2. AllRead
    BY <2>1 DEF IInv, Usable, PendingInv, OwnPending
  <2> QED BY <1>6, <2>2 DEF AllRead, Pending, Outgoing, Behind
<1>11. DeafInv' /\ FailureIsFinal'
  <2>1. ~Deaf
    BY <1>1, <1>2, EmptySeq DEF IInv, ClientInv, Deaf
  <2> QED BY <2>1 DEF IInv, DeafInv, FailureIsFinal
<1> QED BY <1>7, <1>8, <1>9, <1>10, <1>11 DEF IInv

\* The driver has read the answer, and nothing is left of it.
LEMMA AnswerEndsInv ==
  ASSUME IInv, AnswerEnds
  PROVE  IInv'
<1> USE DEF AnswerEnds
<1>1. /\ cmd \in 1..Commands /\ Commands \in Nat /\ 0 \in 0..Commands
      /\ cmd \in 0..Commands /\ cmd # 0 /\ text # <<>>
  <2>1. cmd \in 1..Commands /\ Commands \in Nat
    BY StreamConstants, LenProperties DEF IInv, TypeOK, Commands
  <2> QED BY <2>1 DEF IInv, HeardInv, AtNewline
<1>2. answer = <<>> /\ Parsed \in {Dialog!AnswerTo(cmd), Dialog!Error}
  <2>1. /\ answer = <<>>
        /\ text = AnswerCells(cmd) \/ text = AnswerCells(0)
    BY WholeAnswer DEF IInv
  <2> QED BY <1>1, <2>1, ParsedWhole
<1>3. Parsed \in Results /\ Parsed # Dialog!Failed
  BY <1>1, <1>2, ResultsDiffer DEF Results
<1>4. ~Deaf
  BY <1>1 DEF IInv, ClientInv, Deaf
<1>5. /\ results' \in Seq(Results) /\ Len(results') = cmd
      /\ results'[cmd] = Parsed
      /\ \A k \in 1..cmd - 1 : results'[k] = results[k]
      /\ FailureIsFinal'
  <2> HIDE DEF Results
  <2> QED BY <1>3, <1>4, EndOfCommand
<1>6. pc' = "idle" /\ cmd' = cmd
  BY DEF EndWith
<1>7. TypeOK'
  <2>1. <<>> \in Seq(Cells) /\ Len(<<>>) = 0
    BY EmptySeq
  <2>2. chunk' \in Seq(Cells) /\ Len(chunk') <= BufSize
    BY <2>1, StreamConstants
  <2> QED BY <1>5, <1>6, <2>2 DEF IInv, TypeOK
<1>8. ClientInv' /\ HeardInv'
  BY <1>2, <1>6 DEF IInv, ClientInv, HeardInv
<1>9. PendingInv'
  <2> SUFFICES ASSUME Usable' PROVE Pending' = <<>>
    BY <1>6, EmptySeq DEF PendingInv
  <2>1. AllRead
    BY <1>1 DEF IInv, Usable, PendingInv, OwnPending
  <2>2. Pending' = Pending
    BY <1>6 DEF Pending, Outgoing
  <2> QED BY <2>1, <2>2 DEF AllRead
<1>10. DeafInv'
  <2> SUFFICES ASSUME NEW j \in 1..Len(results'), results'[j] = Dialog!Failed
               PROVE  FALSE
    BY DEF DeafInv
  <2>1. j \in 1..cmd - 1 /\ results[j] = Dialog!Failed
    BY <1>1, <1>3, <1>5
  <2>2. Len(results) = cmd - 1
    BY DEF IInv, TypeOK
  <2> QED BY <1>4, <2>1, <2>2 DEF IInv, DeafInv
<1> QED BY <1>5, <1>7, <1>8, <1>9, <1>10 DEF IInv

\* recv fails: nothing was heard, and nothing will be.
LEMMA RecvFailsInv ==
  ASSUME IInv, RecvFails
  PROVE  IInv'
<1> USE DEF RecvFails, SetBad
<1>1. Dialog!Failed \in Results
  BY DEF Results
<1>2. text = <<>> /\ Parsed = Dialog!Failed
  BY NothingHeard, ParsedNothing DEF IInv
<1>3. EndWith(Dialog!Failed)
  BY <1>2
<1>4. /\ results' \in Seq(Results) /\ Len(results') = cmd /\ FailureIsFinal'
  BY <1>1, <1>3, EndOfCommand
<1>5. pc' = "idle" /\ cmd' = cmd
  BY <1>3 DEF EndWith
<1>6. bad' \in BOOLEAN
  BY DEF IInv, TypeOK
<1>7. TypeOK'
  BY <1>4, <1>5, <1>6 DEF IInv, TypeOK
<1>8. ClientInv' /\ HeardInv'
  BY <1>5 DEF IInv, ClientInv, HeardInv
<1>9. PendingInv' /\ DeafInv'
  BY <1>5 DEF PendingInv, Usable, DeafInv, Deaf
<1> QED BY <1>4, <1>7, <1>8, <1>9 DEF IInv

-----------------------------------------------------------------------------
(* RACER and the network keep it. *)

\* A line that RACER has is all that it has: it ends with the whole of the current
\* command, which has been sent, and RACER has not answered yet.
LEMMA LineIsCurrent ==
  ASSUME IInv, HasLine
  PROVE  /\ sock = "open" /\ pc \in {"sync", "read"}
         /\ cmd \in 1..Commands /\ done = CommandLength[cmd]
         /\ OwnPending /\ Outgoing = <<>> /\ Pending = wire
         /\ Line = wire /\ Rest = <<>>
         /\ Len(wire) \in Nat /\ Len(wire) >= done /\ done > 0
<1> HIDE DEF Cells
<1>1. PICK j \in DOMAIN wire : wire[j].nl
  BY DEF HasLine
<1>2. wire \in Seq(Cells) /\ DOMAIN wire = 1..Len(wire) /\ Len(wire) \in Nat
  BY LenProperties DEF IInv, TypeOK
<1>3. sock = "open" /\ Usable
  <2>1. wire # <<>>
    BY <1>1, <1>2, EmptySeq
  <2> QED BY <2>1 DEF IInv, ClientInv, Usable
<1>4. /\ Outgoing \in Seq(Cells) /\ Len(Outgoing) \in Nat
      /\ Len(Pending) = Len(wire) + Len(Outgoing)
      /\ \A i \in 1..Len(wire) : Pending[i] = wire[i]
  BY <1>3, PendingType, LenProperties DEF IInv
<1>5. ~Stale(Pending[j])
  BY <1>1, <1>2, <1>4 DEF Stale
<1>6. pc # "idle"
  BY <1>1, <1>2, <1>3, <1>4, <1>5 DEF IInv, PendingInv
<1>7. OwnPending
  <2>1. Pending # <<>>
    BY <1>1, <1>2, <1>4, EmptySeq
  <2> QED BY <1>3, <1>6, <2>1 DEF IInv, PendingInv, AllRead
<1>8. /\ cmd \in 1..Commands /\ done \in 0..CommandLength[cmd]
      /\ CommandLength[cmd] \in Nat \ {0}
  <2>1. cmd \in 1..Commands /\ done \in 0..CommandLength[cmd]
    BY <1>6, StreamConstants, LenProperties DEF IInv, TypeOK, Commands
  <2> QED BY <2>1, CommandCellsType
<1> DEFINE r == Len(Pending) - done
           i == j - r
<1>9. r \in Nat /\ i \in 1..done /\ j = r + i
  <2>1. j \in 1..Len(Pending) /\ Len(Pending) \in Nat
    BY <1>1, <1>2, <1>4
  <2>2. Len(Pending) - done >= 0
    BY <1>7 DEF OwnPending
  <2>3. \A k \in 1..Len(Pending) - done : Stale(Pending[k])
    BY <1>7 DEF OwnPending
  <2>4. j \notin 1..Len(Pending) - done
    BY <1>5, <2>3
  <2> QED BY <1>8, <2>1, <2>2, <2>4
<1>10. i = CommandLength[cmd]
  <2> DEFINE c == CommandCells(cmd)[i]
  <2>1. i \in 1..CommandLength[cmd]
    BY <1>8, <1>9
  <2>2. c = [cmd |-> cmd, nl |-> i = CommandLength[cmd], at |-> i]
    BY <1>8, <2>1, CommandCellsType
  <2>3. wire[j] = c
    BY <1>1, <1>2, <1>4, <1>7, <1>9 DEF OwnPending
  <2> HIDE DEF i, c
  <2>4. c.nl = (i = CommandLength[cmd])
    BY <2>2
  <2> QED BY <1>1, <2>3, <2>4, Zenon
<1>11. done = CommandLength[cmd] /\ j = Len(Pending) /\ j = Len(wire)
       /\ Len(Outgoing) = 0
  BY <1>1, <1>2, <1>4, <1>8, <1>9, <1>10
<1>12. Outgoing = <<>> /\ Pending = wire
  <2>1. Outgoing = <<>>
    BY <1>4, <1>11, EmptySeq
  <2> QED BY <1>2, <2>1, ConcatEmptySeq DEF Pending
<1>13. pc \in {"sync", "read"}
  <2>1. pc # "put"
    BY <1>3, <1>11, <1>12 DEF IInv, ClientInv, Outgoing, Usable
  <2> QED BY <1>6, <2>1 DEF IInv, TypeOK
<1>14. \A l \in DOMAIN wire : wire[l].nl => l = Len(wire)
  <2> SUFFICES ASSUME NEW l \in DOMAIN wire, wire[l].nl
               PROVE  l = Len(wire)
    OBVIOUS
  <2> HIDE DEF i
  <2> DEFINE h == l - r
  <2>1. ~Stale(Pending[l])
    BY <1>2, <1>4 DEF Stale
  <2>2. h \in 1..done /\ l = r + h
    <3>1. r \in Nat /\ done \in Nat /\ Len(wire) = r + done /\ l \in 1..Len(wire)
      BY <1>2, <1>8, <1>9, <1>11, <1>12
    <3>2. l \notin 1..r
      BY <1>7, <2>1 DEF OwnPending
    <3> HIDE DEF r
    <3> QED BY <3>1, <3>2
  <2> DEFINE c == CommandCells(cmd)[h]
  <2>3. c = [cmd |-> cmd, nl |-> h = CommandLength[cmd], at |-> h]
    BY <1>8, <1>11, <2>2, CommandCellsType
  <2>4. wire[l] = c
    BY <1>7, <1>12, <2>2 DEF OwnPending
  <2> HIDE DEF h, c
  <2>5. c.nl = (h = CommandLength[cmd])
    BY <2>3
  <2>6. h = CommandLength[cmd]
    BY <2>4, <2>5, Zenon
  <2> QED BY <1>2, <1>8, <1>9, <1>11, <1>12, <2>2, <2>6
<1>15. {l \in DOMAIN wire : wire[l].nl} = {Len(wire)}
  <2>1. Len(wire) \in DOMAIN wire /\ wire[Len(wire)].nl
    BY <1>1, <1>11
  <2> QED BY <1>14, <2>1, Zenon
<1>16. Min({Len(wire)}) = Len(wire)
  <2>1. {Len(wire)} = {Len(wire), Len(wire)} /\ Len(wire) \in Int
    BY <1>2
  <2> QED BY <2>1, MinOfTwo
<1>17. Line = wire
  BY <1>2, <1>15, <1>16, SubSeqFull DEF Line
<1>18. Rest = <<>>
  <2>1. Len(wire) \in Int /\ Len(wire) + 1 \in Int /\ Len(wire) < Len(wire) + 1
    BY <1>2
  <2> QED BY <1>17, <2>1, SubSeqEmpty DEF Rest
<1>19. Len(wire) >= done /\ done > 0
  <2>1. r \in Nat /\ r = Len(wire) - done
    BY <1>9, <1>12
  <2> HIDE DEF r
  <2> QED BY <1>2, <1>8, <1>11, <2>1
<1> QED BY <1>2, <1>3, <1>7, <1>8, <1>11, <1>12, <1>13, <1>17, <1>18, <1>19

\* The line ends with the cells of the current command, and the cells in front of
\* them are stale.
LEMMA LineCells ==
  ASSUME IInv, HasLine
  PROVE  LET r == Len(wire) - CommandLength[cmd]
         IN  /\ r \in Nat /\ (r > 0 => Behind(cmd))
             /\ Last(wire).cmd = cmd
             /\ SubSeq(wire, r + 1, Len(wire)) = CommandCells(cmd)
             /\ \A j \in 1..r : Stale(wire[j])
<1> HIDE DEF Cells
<1> DEFINE r == Len(wire) - CommandLength[cmd]
<1>1. /\ cmd \in 1..Commands /\ done = CommandLength[cmd] /\ OwnPending
      /\ Pending = wire /\ Len(wire) \in Nat /\ Len(wire) >= done /\ done > 0
  BY LineIsCurrent
<1>2. /\ wire \in Seq(Cells) /\ done \in Nat
      /\ CommandCells(cmd) \in Seq(Cells) /\ Len(CommandCells(cmd)) = done
  BY <1>1, CommandCellsType DEF IInv, TypeOK
<1>3. /\ r \in Nat /\ Len(wire) = r + done
      /\ r > 0 => Behind(cmd)
      /\ \A j \in 1..r : Stale(wire[j])
      /\ \A j \in 1..done : wire[r + j] = CommandCells(cmd)[j]
  <2> DEFINE k == Len(wire) - done
  <2>1. r = k /\ k \in Nat /\ Len(wire) = k + done
    BY ONLY <1>1, <1>2
  <2>2. /\ k > 0 => Behind(cmd)
        /\ \A j \in 1..k : Stale(wire[j])
        /\ \A j \in 1..done : wire[k + j] = CommandCells(cmd)[j]
    BY ONLY <1>1 DEF OwnPending
  <2> HIDE DEF k, r
  <2> QED BY ONLY <2>1, <2>2
<1> HIDE DEF r
<1>4. Last(wire).cmd = cmd
  <2> DEFINE c == CommandCells(cmd)[done]
  <2>1. done \in 1..done
    BY <1>1, <1>2
  <2>2. Last(wire) = c
    BY <1>3, <2>1 DEF Last
  <2>3. c = [cmd |-> cmd, nl |-> done = CommandLength[cmd], at |-> done]
    BY <1>1, <2>1, CommandCellsType
  <2> HIDE DEF c
  <2> QED BY <2>2, <2>3
<1>5. SubSeq(wire, r + 1, Len(wire)) = CommandCells(cmd)
  <2> DEFINE s == SubSeq(wire, r + 1, Len(wire))
  <2>1. r + 1 \in Int /\ Len(wire) \in Int /\ \A j \in r + 1..Len(wire) : wire[j] \in Cells
    BY <1>1, <1>2, <1>3, ElementOfSeq
  <2>2. /\ s \in Seq(Cells)
        /\ Len(s) = IF r + 1 <= Len(wire) THEN Len(wire) - (r + 1) + 1 ELSE 0
        /\ \A j \in 1..Len(wire) - (r + 1) + 1 : s[j] = wire[(r + 1) + j - 1]
    BY <2>1, SubSeqProperties
  <2>3. Len(s) = done /\ Len(wire) - (r + 1) + 1 = done
    BY <1>1, <1>2, <1>3, <2>2
  <2>4. ASSUME NEW j \in 1..Len(s) PROVE s[j] = CommandCells(cmd)[j]
    <3>1. j \in 1..done /\ (r + 1) + j - 1 = r + j
      BY <1>2, <1>3, <2>3
    <3>2. s[j] = wire[(r + 1) + j - 1]
      BY <2>2, <2>3, <3>1
    <3> HIDE DEF s
    <3> QED BY <1>3, <3>1, <3>2
  <2> HIDE DEF s
  <2>5. s = CommandCells(cmd)
    BY <1>2, <2>2, <2>3, <2>4, SeqEqual
  <2> QED BY <2>5 DEF s
<1> QED BY <1>3, <1>4, <1>5 DEF r

\* RACER reads the line and answers it, or waits for the rest of it.
LEMMA EvaluateInv ==
  ASSUME IInv, Evaluate
  PROVE  IInv'
<1> HIDE DEF Cells
<1> USE DEF Evaluate, client
<1>1. HasLine
  OBVIOUS
<1>2. /\ sock = "open" /\ pc \in {"sync", "read"}
      /\ cmd \in 1..Commands /\ done = CommandLength[cmd]
      /\ text = <<>> /\ answer = <<>> /\ Outgoing = <<>>
      /\ Line = wire /\ wire' = <<>>
  BY <1>1, LineIsCurrent DEF OwnPending
<1>3. cmd \in 0..Commands /\ 0 \in 0..Commands
  BY <1>2, StreamConstants, LenProperties DEF Commands
<1>4. \/ answer' = AnswerCells(cmd)
      \/ Behind(cmd) /\ answer' \in {<<>>, AnswerCells(0)}
  <2>1. \A k \in 0..Commands : <<>> \o AnswerCells(k) = AnswerCells(k)
    BY AnswerCellsType, ConcatEmptySeq
  <2>2. CASE \E k \in 1..Commands : Line = CommandCells(k)
    <3>1. PICK k \in 1..Commands :
             wire = CommandCells(k) /\ answer' = answer \o AnswerCells(k)
      BY <1>2, <2>2
    <3>2. Last(wire).cmd = k
      <4> DEFINE n == CommandLength[k]
                 c == CommandCells(k)[n]
      <4>1. n \in 1..n /\ Len(CommandCells(k)) = n
        BY CommandCellsType
      <4>2. c = [cmd |-> k, nl |-> n = CommandLength[k], at |-> n]
        BY <4>1, CommandCellsType
      <4>3. Last(wire) = c
        BY <3>1, <4>1 DEF Last
      <4> HIDE DEF c
      <4> QED BY <4>2, <4>3
    <3>3. k = cmd
      BY <1>1, <3>2, LineCells
    <3> QED BY <1>2, <1>3, <2>1, <3>1, <3>3
  <2>3. CASE \A k \in 1..Commands : Line # CommandCells(k)
    <3>1. Behind(cmd)
      <4> SUFFICES ASSUME ~Behind(cmd) PROVE FALSE
        OBVIOUS
      <4> DEFINE r == Len(wire) - CommandLength[cmd]
      <4>1. r \in Nat /\ ~(r > 0) /\ SubSeq(wire, r + 1, Len(wire)) = CommandCells(cmd)
        BY <1>1, LineCells
      <4>2. r = 0
        BY <4>1
      <4> HIDE DEF r
      <4>3. SubSeq(wire, 1, Len(wire)) = CommandCells(cmd)
        BY <4>1, <4>2
      <4>4. wire \in Seq(Cells)
        BY DEF IInv, TypeOK
      <4> QED BY <1>2, <2>3, <4>3, <4>4, SubSeqFull
    <3>2. answer' \in {answer, answer \o AnswerCells(0)}
      BY <2>3
    <3> QED BY <1>2, <1>3, <2>1, <3>1, <3>2
  <2> QED BY <2>2, <2>3
<1>5. answer' \in Seq(Cells) /\ AnswerCells(cmd) # <<>>
  <2>1. <<>> \in Seq(Cells) /\ Len(<<>>) = 0
    BY EmptySeq
  <2>2. /\ AnswerCells(cmd) \in Seq(Cells) /\ AnswerCells(0) \in Seq(Cells)
        /\ Len(AnswerCells(cmd)) > 0
    BY <1>3, AnswerCellsType
  <2> HIDE DEF Evaluate
  <2>3. AnswerCells(cmd) # <<>>
    BY <2>1, <2>2
  <2>4. answer' \in Seq(Cells)
    BY <1>4, <2>1, <2>2
  <2> QED BY <2>3, <2>4
<1>6. Heard' = answer'
  <2>1. Heard' = <<>> \o answer'
    BY <1>2 DEF Heard
  <2> QED BY <1>5, <2>1, ConcatEmptySeq
<1>7. Pending' = <<>>
  <2>1. Outgoing' = Outgoing
    BY DEF Outgoing
  <2>2. Pending' = <<>> \o <<>>
    BY <1>2, <2>1 DEF Pending
  <2> QED BY <2>2, EmptySeq, ConcatEmptySeq
<1>8. TypeOK'
  <2>1. wire' \in Seq(Cells)
    BY <1>2, EmptySeq
  <2> QED BY <1>5, <2>1 DEF IInv, TypeOK
<1>9. ClientInv'
  BY <1>2 DEF IInv, ClientInv
<1>10. HeardInv'
  BY <1>2, <1>4, <1>6 DEF IInv, HeardInv, Behind
<1>11. PendingInv'
  BY <1>2, <1>4, <1>5, <1>6, <1>7 DEF PendingInv, AllRead, Behind
<1>12. DeafInv' /\ FailureIsFinal'
  <2>1. ~Deaf
    BY <1>2 DEF IInv, ClientInv, Deaf
  <2> QED BY <2>1 DEF IInv, DeafInv, FailureIsFinal
<1> QED BY <1>8, <1>9, <1>10, <1>11, <1>12 DEF IInv

\* RACER hangs up, goes down or comes up, or nothing happens.
LEMMA FaultInv ==
  ASSUME IInv, HangUp \/ GoDown \/ ComeUp \/ UNCHANGED vars
  PROVE  IInv'
<1> USE DEF client
<1>1. CASE HangUp
  <2> USE <1>1 DEF HangUp
  <2>1. TypeOK'
    BY EmptySeq DEF IInv, TypeOK
  <2>2. ClientInv' /\ PendingInv'
    BY DEF IInv, ClientInv, PendingInv, Usable
  <2>3. HeardInv'
    BY DEF IInv, HeardInv, Heard, Behind
  <2>4. DeafInv' /\ FailureIsFinal'
    BY DEF IInv, DeafInv, Deaf, FailureIsFinal
  <2> QED BY <2>1, <2>2, <2>3, <2>4 DEF IInv
<1>2. CASE UNCHANGED <<client, sock, wire, answer>> /\ up' \in BOOLEAN
  <2> USE <1>2
  <2>1. TypeOK' /\ ClientInv'
    BY DEF IInv, TypeOK, ClientInv
  <2>2. HeardInv'
    BY DEF IInv, HeardInv, Heard, Behind
  <2>3. PendingInv'
    BY DEF IInv, PendingInv, Usable, OwnPending, AllRead, Pending, Outgoing, Heard,
           Behind, Stale
  <2>4. DeafInv' /\ FailureIsFinal'
    BY DEF IInv, DeafInv, Deaf, FailureIsFinal
  <2> QED BY <2>1, <2>2, <2>3, <2>4 DEF IInv
<1>3. GoDown \/ ComeUp => UNCHANGED <<client, sock, wire, answer>> /\ up' \in BOOLEAN
  BY DEF GoDown, ComeUp
<1>4. UNCHANGED vars => UNCHANGED <<client, sock, wire, answer>> /\ up' \in BOOLEAN
  BY DEF vars, IInv, TypeOK
<1> QED BY <1>1, <1>2, <1>3, <1>4

-----------------------------------------------------------------------------
(* The theorems. *)

\* Every step keeps the invariant.
LEMMA NextInv == IInv /\ [Next]_vars => IInv'
<1> SUFFICES ASSUME IInv, [Next]_vars PROVE IInv'
  OBVIOUS
<1>1. CASE \E d \in {"ignore", "parse"} : Begin(d)
  BY <1>1, BeginInv
<1>2. CASE PutThrows \/ Put \/ SyncBegins \/ Abandon
  BY <1>2, PutThrowsInv, PutInv, SyncBeginsInv, AbandonInv
<1>3. CASE Connect \/ ConnectFails \/ SendFails \/ SyncEnds
  BY <1>3, ConnectInv, ConnectFailsInv, SendFailsInv, SyncEndsInv
<1>4. CASE \E n \in 1..BufSize : Send(n)
  BY <1>4, SendInv
<1>5. CASE \E n \in 1..BufSize : Recv(n)
  BY <1>5, RecvInv
<1>6. CASE AnswerEnds \/ RecvFails
  BY <1>6, AnswerEndsInv, RecvFailsInv
<1>7. CASE Evaluate
  BY <1>7, EvaluateInv
<1>8. CASE HangUp \/ GoDown \/ ComeUp \/ UNCHANGED vars
  BY <1>8, FaultInv
<1> QED
  BY <1>1, <1>2, <1>3, <1>4, <1>5, <1>6, <1>7, <1>8 DEF Next, ClientStep, Rests

\* The inductive invariant holds in every reachable state.
THEOREM StreamInvariant == Spec => []IInv
BY InitInv, NextInv, PTL DEF Spec

\* The buffers of TCPStreamBuf never grow beyond their size, the offset of sync stays
\* inside the output buffer until the connection is reset, and each command that ended
\* has one result.
THEOREM StreamTypeCorrect == Spec => []TypeOK
<1>1. IInv => TypeOK
  BY DEF IInv
<1> QED BY <1>1, StreamInvariant, PTL

\* Whatever send takes at a time, and wherever the buffer is flushed, each line that
\* RACER reads ends with a whole command; in front of it there is nothing but what
\* was streamed of commands abandoned before.
THEOREM LinesAlwaysWhole == Spec => []LinesAreWhole
<1>1. IInv => LinesAreWhole
  <2> SUFFICES ASSUME IInv, HasLine
               PROVE  LET k == Last(wire).cmd
                          before == Len(wire) - CommandLength[k]
                      IN  /\ k > 0 /\ before >= 0
                          /\ SubSeq(wire, before + 1, Len(wire)) = CommandCells(k)
                          /\ \A j \in 1..before :
                               /\ wire[j].cmd \in DOMAIN results
                               /\ results[wire[j].cmd] = Dialog!Abandoned
    BY LineIsCurrent DEF LinesAreWhole
  <2>1. cmd \in 1..Commands /\ Commands \in Nat
    BY LineIsCurrent, StreamConstants, LenProperties DEF Commands
  <2>2. DOMAIN results = 1..Len(results)
    BY LenProperties DEF IInv, TypeOK
  <2> DEFINE r == Len(wire) - CommandLength[cmd]
  <2>3. Last(wire).cmd = cmd
    BY LineCells
  <2>4. r \in Nat /\ SubSeq(wire, r + 1, Len(wire)) = CommandCells(cmd)
    BY LineCells
  <2>5. \A j \in 1..r : Stale(wire[j])
    BY LineCells
  <2>6. \A j \in 1..r :
          wire[j].cmd \in DOMAIN results /\ results[wire[j].cmd] = Dialog!Abandoned
    BY <2>2, <2>5 DEF Stale
  <2>7. cmd > 0 /\ r >= 0
    BY <2>1, <2>4
  <2> QED BY <2>3, <2>4, <2>6, <2>7
<1> QED BY <1>1, StreamInvariant, PTL

\* badbit is never cleared and the socket never opened again: after one failure no
\* command gets an answer, however late an answer arrives.
THEOREM FailureAlwaysFinal == Spec => []FailureIsFinal
<1>1. IInv => FailureIsFinal
  BY DEF IInv
<1> QED BY <1>1, StreamInvariant, PTL

\* The client waits in recv for an answer that nobody will send only behind a command
\* that its builder abandoned.
THEOREM BlocksBehindAbandoned == Spec => []BlocksOnlyBehindAbandoned
<1>1. IInv => BlocksOnlyBehindAbandoned
  <2> SUFFICES ASSUME IInv, pc = "read", sock = "open", answer = <<>>, ~AtNewline,
                      ~HasLine
               PROVE  Behind(cmd)
    BY DEF BlocksOnlyBehindAbandoned, Behind
  <2> HIDE DEF Cells
  <2>1. text = <<>> /\ Heard = <<>>
    <3>1. text = <<>>
      BY NothingHeard DEF IInv
    <3> QED BY <3>1, EmptySeq, ConcatEmptySeq DEF Heard
  <2>2. Usable /\ obuf = <<>> /\ done = CommandLength[cmd]
    BY DEF IInv, ClientInv, Usable
  <2>3. CASE AllRead
    BY <2>1, <2>3 DEF AllRead
  <2>4. CASE OwnPending
    <3>1. Pending = wire /\ wire \in Seq(Cells) /\ DOMAIN wire = 1..Len(wire)
      <4>1. wire \in Seq(Cells)
        BY DEF IInv, TypeOK
      <4> QED BY <2>2, <4>1, ConcatEmptySeq, LenProperties DEF Pending, Outgoing
    <3>2. cmd \in 1..Commands /\ done \in Nat \ {0}
      <4>1. cmd \in 1..Commands
        BY StreamConstants, LenProperties DEF IInv, TypeOK, Commands
      <4> QED BY <2>2, <4>1, CommandCellsType
    <3> DEFINE j == Len(wire) - done + done
               c == CommandCells(cmd)[done]
    <3>3. j \in DOMAIN wire /\ wire[j] = c
      <4>1. Len(wire) \in Nat /\ Len(wire) >= done
        BY <2>4, <3>1, <3>2, LenProperties DEF OwnPending
      <4> QED BY <2>4, <3>1, <3>2, <4>1 DEF OwnPending
    <3>4. c = [cmd |-> cmd, nl |-> done = CommandLength[cmd], at |-> done]
      BY <2>2, <3>2, CommandCellsType
    <3> HIDE DEF j, c
    <3>5. c.nl = (done = CommandLength[cmd])
      BY <3>4
    <3>6. wire[j].nl
      BY <2>2, <3>3, <3>5, Zenon
    <3> QED BY <3>3, <3>6 DEF HasLine
  <2> QED BY <2>2, <2>3, <2>4 DEF IInv, PendingInv
<1> QED BY <1>1, StreamInvariant, PTL

\* A step of the stream is a step of the dialog, or none.
LEMMA StepRefines == IInv /\ [Next]_vars => [Dialog!Next]_<<pc # "idle", results>>
<1> SUFFICES ASSUME IInv, [Next]_vars
             PROVE  Dialog!Next \/ UNCHANGED <<pc # "idle", results>>
  OBVIOUS
<1>1. /\ Len(results) = IF pc = "idle" THEN cmd ELSE cmd - 1
      /\ cmd \in 0..Commands /\ Commands \in Nat /\ (pc # "idle" => cmd > 0)
  BY StreamConstants, LenProperties DEF IInv, TypeOK, Commands
<1>2. ASSUME NEW result, EndWith(result), pc # "idle",
             \/ result \in {Dialog!AnswerTo(cmd), Dialog!Failed, Dialog!Abandoned}
             \/ Behind(cmd) /\ result = Dialog!Error
      PROVE  Dialog!Next
  <2>1. Dialog!End(result)
    BY <1>2 DEF EndWith, Dialog!End
  <2>2. Len(results) + 1 = cmd
    BY <1>1, <1>2
  <2>3. Behind(cmd) => Dialog!AbandonedBefore(cmd)
    BY DEF Behind, Dialog!AbandonedBefore
  <2> QED BY <1>2, <2>1, <2>2, <2>3 DEF Dialog!Next
<1>3. ASSUME NEW d \in {"ignore", "parse"}, Begin(d)
      PROVE  Dialog!Next
  BY <1>1, <1>3 DEF Begin, Dialog!Next, Dialog!Ask
<1>4. CASE PutThrows \/ ConnectFails \/ Abandon
  BY <1>2, <1>4 DEF PutThrows, ConnectFails, Abandon
<1>5. CASE AnswerEnds
  <2>1. pc = "read" /\ AtNewline /\ EndWith(Parsed)
    BY <1>5 DEF AnswerEnds
  <2>2. text = AnswerCells(cmd) \/ (Behind(cmd) /\ text = AnswerCells(0))
    BY <2>1, WholeAnswer DEF IInv
  <2>3. cmd \in 0..Commands /\ 0 \in 0..Commands /\ cmd # 0
    BY <1>1, <2>1
  <2>4. Parsed = Dialog!AnswerTo(cmd) \/ (Behind(cmd) /\ Parsed = Dialog!Error)
    BY <2>2, <2>3, ParsedWhole
  <2> QED BY <1>2, <2>1, <2>4
<1>6. CASE RecvFails
  <2>1. pc = "read" /\ Parsed = Dialog!Failed
    BY <1>6, NothingHeard, ParsedNothing DEF RecvFails, IInv
  <2>2. EndWith(Dialog!Failed)
    BY <1>6, <2>1 DEF RecvFails
  <2> QED BY <1>2, <2>1, <2>2
<1>7. CASE Put \/ SyncBegins \/ Connect \/ SendFails \/ SyncEnds
  BY <1>7 DEF Put, SyncBegins, Connect, SendFails, SyncEnds, client
<1>8. CASE \E n \in 1..BufSize : Send(n) \/ Recv(n)
  BY <1>8 DEF Send, Recv
<1>9. CASE Evaluate \/ HangUp \/ GoDown \/ ComeUp \/ UNCHANGED vars
  BY <1>9 DEF Evaluate, HangUp, GoDown, ComeUp, client, vars
<1> QED
  BY <1>3, <1>4, <1>5, <1>6, <1>7, <1>8, <1>9 DEF Next, ClientStep, Rests

\* The stream implements the dialog: each command ends in its own answer or in a
\* failure, and in an error of RACER only behind an abandoned one.
THEOREM StreamImplementsDialog == Spec => ImplementsDialog
<1>1. Init => Dialog!Init
  BY DEF Init, Dialog!Init
<1> QED BY <1>1, StepRefines, StreamInvariant, PTL
        DEF Spec, ImplementsDialog, Dialog!Spec, Dialog!dialogVars
=============================================================================
