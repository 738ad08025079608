------------------------------ MODULE TCPStream ------------------------------
(***************************************************************************)
(* The stream to RACER (TCPStream.cpp) as the builders and the answer      *)
(* drivers use it: a command is streamed into the output buffer, flushed   *)
(* with the newline that ends it, and its answer is read up to a newline.  *)
(*                                                                         *)
(* A cell stands for a run of characters: command k is the sequence of its *)
(* cells, the last one its newline, and so is the answer to it.  RACER and *)
(* the network are external.  RACER answers a line that is one command     *)
(* with that command's answer; from any other line it may read an error or *)
(* an unfinished expression, and then waits for the rest of it.            *)
(***************************************************************************)
EXTENDS Integers, Sequences, FiniteSetsExt, SequencesExt

CONSTANTS
  CommandLength,   \* the cells of each command of the session, a sequence
  AnswerLength,    \* the cells of each answer; that of an error is ErrorLength
  ErrorLength,
  BufSize,         \* the size of the output and of the input buffer
  MayClose,        \* RACER may be down, come up, or close the connection
  MayAbandon,      \* a builder may throw half-way
  OffsetFloor      \* the offset of sync is not counted below this

VARIABLES
  pc,          \* idle, put (building), sync (sending), read (parsing the answer)
  cmd,         \* the current command
  driver,      \* who reads its answer: RacerIgnoreAnswer or RacerAnswerDriver
  done,        \* how many of its cells went into the output buffer
  obuf,        \* the output buffer
  written, ok, \* the locals of sync: the offset, and whether send returned > 0
  sock,        \* none (sockfd = -1), open, closed by RACER, reset after a send
  bad,         \* std::ios_base::badbit of the stream
  up,          \* RACER runs and accepts connections
  wire,        \* what RACER received of the line it is reading, and more
  answer,      \* what RACER answered and recv did not deliver yet
  chunk,       \* what the last recv delivered
  text,        \* what the driver read of this answer
  results      \* history: how the commands ended

client == <<pc, cmd, driver, done, obuf, written, ok, bad, chunk, text, results>>
vars == <<client, sock, up, wire, answer>>

Commands == Len(CommandLength)
ASSUME StreamConstants ==
  /\ CommandLength \in Seq(Nat \ {0})
  /\ AnswerLength \in [1..Commands -> Nat \ {0}]
  /\ ErrorLength \in Nat \ {0} /\ BufSize \in Nat \ {0}
  /\ MayClose \in BOOLEAN /\ MayAbandon \in BOOLEAN
  /\ OffsetFloor \in Int /\ OffsetFloor < 0

CommandCells(k) ==
  [j \in 1..CommandLength[k] |-> [cmd |-> k, nl |-> j = CommandLength[k], at |-> j]]
AnswerCells(k) ==
  LET n == IF k = 0 THEN ErrorLength ELSE AnswerLength[k]
  IN  [j \in 1..n |-> [cmd |-> k, nl |-> j = n, at |-> j]]

Dialog == INSTANCE RacerDialog WITH asking <- pc # "idle"

Init ==
  /\ pc = "idle" /\ cmd = 0 /\ driver = "ignore" /\ done = 0
  /\ obuf = <<>> /\ written = 0 /\ ok = FALSE
  /\ sock = "none" /\ bad = FALSE
  /\ up \in IF MayClose THEN BOOLEAN ELSE {TRUE}
  /\ wire = <<>> /\ answer = <<>> /\ chunk = <<>> /\ text = <<>>
  /\ results = <<>>

EndWith(result) == pc' = "idle" /\ results' = Append(results, result)

-----------------------------------------------------------------------------
(* Building a command. *)

\* QueryDirector::query starts its builder.
Begin(d) ==
  /\ pc = "idle" /\ cmd < Commands
  /\ pc' = "put" /\ cmd' = cmd + 1 /\ driver' = d /\ done' = 0 /\ text' = <<>>
  /\ UNCHANGED <<obuf, written, ok, bad, chunk, results, sock, up, wire, answer>>

\* With badbit set the first insertion throws; exceptions(badbit) is on.
PutThrows ==
  /\ pc = "put" /\ bad
  /\ EndWith(Dialog!Failed)
  /\ UNCHANGED <<cmd, driver, done, obuf, written, ok, bad, chunk, text, sock, up,
                 wire, answer>>

\* Variant of Room: one cell too many.
RoomForOneMore == Len(obuf) <= BufSize

Room == Len(obuf) < BufSize

Put ==
  /\ pc = "put" /\ ~bad
  /\ done < CommandLength[cmd] /\ Room
  /\ obuf' = Append(obuf, CommandCells(cmd)[done + 1])
  /\ done' = done + 1
  /\ UNCHANGED <<pc, cmd, driver, written, ok, bad, chunk, text, results, sock, up,
                 wire, answer>>

\* The builder throws: what it has streamed so far stays in the output buffer.
Abandon ==
  /\ MayAbandon
  /\ pc = "put" /\ ~bad /\ done < CommandLength[cmd]
  /\ EndWith(Dialog!Abandoned)
  /\ UNCHANGED <<cmd, driver, done, obuf, written, ok, bad, chunk, text, sock, up,
                 wire, answer>>

\* TCPStreamBuf::sync begins: from overflow when the buffer is full, or from the
\* flush of std::endl.  It resets the input buffer.
SyncBegins ==
  /\ pc = "put" /\ ~bad
  /\ ~Room \/ done = CommandLength[cmd]
  /\ pc' = "sync" /\ written' = 0 /\ ok' = FALSE /\ chunk' = <<>>
  /\ UNCHANGED <<cmd, driver, done, obuf, bad, text, results, sock, up, wire, answer>>

-----------------------------------------------------------------------------
(* Sending. *)

Connect ==
  /\ pc = "sync" /\ sock = "none" /\ up
  /\ sock' = "open"
  /\ UNCHANGED <<client, up, wire, answer>>

\* Variant of SetBad: the stream stays usable.
KeepGood == bad' = bad

\* A failure that passes std::ostream or istream::read sets badbit, and nothing
\* clears it: the next insertion throws before anything is read again.
SetBad == bad' = TRUE

\* Ten rounds without success.
ConnectFails ==
  /\ pc = "sync" /\ sock = "none" /\ ~up
  /\ SetBad
  /\ EndWith(Dialog!Failed)
  /\ UNCHANGED <<cmd, driver, done, obuf, written, ok, chunk, text, sock, up, wire,
                 answer>>

\* Variant of Unsent: the loop ends one cell early.
UnsentButOne == written < Len(obuf) - 1 \/ ~ok

\* The condition of the loop that sends the buffer.
Unsent == written < Len(obuf) \/ ~ok

\* Variant of Slice: the offset is forgotten after a partial send.
SliceFromStart(n) == SubSeq(obuf, 1, n)

\* What send is given and takes: n cells from the offset on.
Slice(n) == SubSeq(obuf, written + 1, written + n)

\* send takes n cells.  When RACER closed the connection the first send still
\* succeeds, and is answered by a reset that also discards what was not received.
Send(n) ==
  /\ pc = "sync" /\ Unsent /\ sock \in {"open", "closed"}
  /\ n \in 1..(Len(obuf) - written)
  /\ IF sock = "open"
     THEN wire' = wire \o Slice(n) /\ UNCHANGED <<sock, answer>>
     ELSE sock' = "reset" /\ answer' = <<>> /\ UNCHANGED wire
  /\ written' = written + n /\ ok' = TRUE
  /\ UNCHANGED <<pc, cmd, driver, done, obuf, bad, chunk, text, results, up>>

\* EPIPE, from now on for ever.  The loop adds what send returned, -1, to the offset
\* and goes on: in the code the offset falls without end.  OffsetFloor bounds the
\* counting; the loop does not look at an offset below zero, so that nothing depends
\* on where the counting stops.
SendFails ==
  /\ pc = "sync" /\ Unsent /\ sock = "reset"
  /\ written' = IF written > OffsetFloor THEN written - 1 ELSE written
  /\ ok' = FALSE
  /\ UNCHANGED <<pc, cmd, driver, done, obuf, bad, chunk, text, results, sock, up,
                 wire, answer>>

SyncEnds ==
  /\ pc = "sync" /\ sock # "none" /\ ~Unsent
  /\ obuf' = <<>>
  /\ pc' = IF done = CommandLength[cmd] THEN "read" ELSE "put"
  /\ UNCHANGED <<cmd, driver, done, written, ok, bad, chunk, text, results, sock, up,
                 wire, answer>>

-----------------------------------------------------------------------------
(* Reading. *)

\* Variant of AtNewline: a chunk that does not fill the buffer ends the answer.
AtShortChunk == chunk # <<>> /\ Len(chunk) < BufSize

AtNewline == chunk # <<>> /\ Last(chunk).nl

Recv(n) ==
  /\ pc = "read" /\ ~AtNewline
  /\ n \in 1..Min({Len(answer), BufSize})
  /\ chunk' = SubSeq(answer, 1, n)
  /\ text' = text \o chunk'
  /\ answer' = SubSeq(answer, n + 1, Len(answer))
  /\ UNCHANGED <<pc, cmd, driver, done, obuf, written, ok, bad, results, sock, up,
                 wire>>

\* A whole answer, with or without its newline; else the driver fails to parse.
Parsed ==
  IF text \in {AnswerCells(k) : k \in 1..Commands} \union
              {Front(AnswerCells(k)) : k \in 1..Commands} /\ text # <<>>
  THEN Dialog!AnswerTo(text[1].cmd)
  ELSE IF text # <<>> /\ text[1] = AnswerCells(0)[1] THEN Dialog!Error
  ELSE Dialog!Failed

\* underflow finds the newline at the end of the chunk: end of file.
AnswerEnds ==
  /\ pc = "read" /\ AtNewline
  /\ EndWith(Parsed)
  /\ chunk' = <<>>
  /\ UNCHANGED <<cmd, driver, done, obuf, written, ok, bad, text, sock, up, wire,
                 answer>>

\* recv returns 0 or -1 and underflow throws.  Out of istream::read the exception
\* sets badbit; RacerAnswerDriver's ostringstream swallows it and the driver
\* parses what it has.  Neither closes the socket.
RecvFails ==
  /\ pc = "read" /\ ~AtNewline
  /\ answer = <<>> /\ sock \in {"closed", "reset"}
  /\ IF driver = "ignore"
     THEN SetBad /\ EndWith(Dialog!Failed)
     ELSE EndWith(Parsed) /\ UNCHANGED bad
  /\ UNCHANGED <<cmd, driver, done, obuf, written, ok, chunk, text, sock, up, wire,
                 answer>>

-----------------------------------------------------------------------------
(* RACER, external. *)

HasLine == \E j \in DOMAIN wire : wire[j].nl
Line == SubSeq(wire, 1, Min({j \in DOMAIN wire : wire[j].nl}))
Rest == SubSeq(wire, Len(Line) + 1, Len(wire))

Evaluate ==
  /\ HasLine
  /\ \/ /\ \E k \in 1..Commands :
             Line = CommandCells(k) /\ answer' = answer \o AnswerCells(k)
     \/ /\ \A k \in 1..Commands : Line # CommandCells(k)
        /\ answer' \in {answer, answer \o AnswerCells(0)}
  /\ wire' = Rest
  /\ UNCHANGED <<client, sock, up>>

\* RACER closes the connection (so it does when a query times out), goes down, or
\* comes up.
HangUp ==
  /\ MayClose /\ sock = "open"
  /\ sock' = "closed" /\ wire' = <<>>
  /\ UNCHANGED <<client, up, answer>>

GoDown ==
  /\ MayClose /\ up /\ sock # "open"
  /\ up' = FALSE
  /\ UNCHANGED <<client, sock, wire, answer>>

ComeUp ==
  /\ ~up
  /\ up' = TRUE
  /\ UNCHANGED <<client, sock, wire, answer>>

\* The session is over.
Rests == pc = "idle" /\ cmd = Commands /\ UNCHANGED vars

ClientStep ==
  \/ PutThrows \/ Put \/ SyncBegins \/ Connect \/ ConnectFails
  \/ (\E n \in 1..BufSize : Send(n)) \/ SendFails \/ SyncEnds
  \/ (\E n \in 1..BufSize : Recv(n)) \/ AnswerEnds \/ RecvFails

Next ==
  \/ \E d \in {"ignore", "parse"} : Begin(d)
  \/ ClientStep \/ Abandon
  \/ Evaluate \/ HangUp \/ GoDown \/ ComeUp \/ Rests

Spec == Init /\ [][Next]_vars

\* The thread that sends and reads runs on; RACER evaluates every line.
FairSpec == Spec /\ WF_vars(ClientStep) /\ WF_vars(Evaluate)

-----------------------------------------------------------------------------
(* Properties. *)

Cells == [cmd : 0..Commands, nl : BOOLEAN, at : Nat]
Results == {Dialog!Error, Dialog!Failed, Dialog!Abandoned}
             \union {Dialog!AnswerTo(k) : k \in 1..Commands}

\* The buffers never grow beyond their size, and each command that ended has one
\* result.  The offset of sync is inside the output buffer as long as the connection
\* is not reset; then it leaves it at the front, and no later send brings it back.
TypeOK ==
  /\ pc \in {"idle", "put", "sync", "read"}
  /\ cmd \in 0..Commands /\ driver \in {"ignore", "parse"}
  /\ pc # "idle" => cmd > 0 /\ done \in 0..CommandLength[cmd]
  /\ obuf \in Seq(Cells) /\ Len(obuf) <= BufSize
  /\ pc = "sync" => written \in Int /\ written <= Len(obuf)
  /\ pc = "sync" /\ (ok \/ sock # "reset") => written >= 0
  /\ ok \in BOOLEAN /\ bad \in BOOLEAN /\ up \in BOOLEAN
  /\ sock \in {"none", "open", "closed", "reset"}
  /\ wire \in Seq(Cells) /\ answer \in Seq(Cells) /\ text \in Seq(Cells)
  /\ chunk \in Seq(Cells) /\ Len(chunk) <= BufSize
  /\ results \in Seq(Results)
  /\ Len(results) = IF pc = "idle" THEN cmd ELSE cmd - 1

\* TCPStream.cpp:340: sync sends the whole output buffer, every character once and
\* in order.  A line RACER reads ends with all the cells of one command, and only
\* cells of commands abandoned right before it can stand in front of them.
LinesAreWhole ==
  HasLine =>
    LET k == Last(Line).cmd
        before == Len(Line) - CommandLength[k]
    IN  /\ k > 0 /\ before >= 0
        /\ SubSeq(Line, before + 1, Len(Line)) = CommandCells(k)
        /\ \A j \in 1..before :
             /\ Line[j].cmd \in DOMAIN results
             /\ results[Line[j].cmd] = Dialog!Abandoned

\* The socket is never closed and opened again, and neither is badbit cleared: one
\* failure, and no later command of the session gets an answer.
FailureIsFinal ==
  \A j, k \in DOMAIN results :
    j < k /\ results[j] = Dialog!Failed
      => results[k] \in {Dialog!Failed, Dialog!Abandoned}

\* The dialog blocks in recv with nobody to speak only behind an abandoned command.
BlocksOnlyBehindAbandoned ==
  (pc = "read" /\ sock = "open" /\ answer = <<>> /\ ~AtNewline /\ ~HasLine)
    => cmd > 1 /\ results[cmd - 1] = Dialog!Abandoned

\* Each command ends in its own answer or fails (RacerDialog).
ImplementsDialog == Dialog!Spec

\* Each command ends: the answer is read or an exception reaches the caller
\* (TCPStream.cpp:342-348, "reset the obuf followed by an error return value").
EveryCommandEnds == pc # "idle" ~> pc = "idle"
=============================================================================
