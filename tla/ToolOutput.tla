----------------------------- MODULE ToolOutput -----------------------------
(***************************************************************************)
(* What becomes of the output of one terminal call:                        *)
(*   filetools terminalTool   runs the command under a time limit          *)
(*   filetools streamWriter   shows the output live while it runs          *)
(*   offload.OnToolEnd        puts a long result into a file               *)
(*   filetools readTool       lets the model read it back page by page     *)
(*   os/exec                  the pipe, the kill, WaitDelay (external)     *)
(*                                                                         *)
(* Output is a sequence of bytes of four kinds: "c" a character of one     *)
(* byte, "n" a line break, "h" and "t" the two bytes of a wide character.  *)
(* streamWriter's buffers are positions in the output: all is 1 .. copied, *)
(* pending is taken+1 .. copied.  Who is "sending" holds streamWriter.mu.  *)
(***************************************************************************)
EXTENDS Integers, Sequences, SequencesExt

CONSTANTS
  MaxBytes,   \* bound: bytes a command writes
  Capacity,   \* capacity of the event channel
  Threshold,  \* offload.Options.Threshold, in bytes
  PageChars,  \* readMaxChars
  Limits      \* the limits the model asks for, in lines

ASSUME OutputAssumption ==
  /\ MaxBytes \in Nat /\ Capacity \in Nat \ {0}
  /\ Threshold \in Nat \ {0} /\ PageChars \in Nat \ {0}
  /\ Limits \subseteq Nat \ {0}

Bytes  == {"c", "n", "h", "t"}
Marker == <<"n", "c">>  \* the line on the timeout or the exit code

VARIABLES
  made,      \* all that the command and its children have written
  pipe,      \* somebody can still write: "open", "closed"
  cmd,       \* the shell: "running", "exited"
  tctx,      \* tctx.Err(): "none", "deadline", "cancelled"
  err,       \* what cmd.Run returns: "none", "exit", "run"
  copied, taken,
  chunk,     \* the positions that are being emitted
  shown,     \* the positions emitted as tool.output
  halves,    \* the ends of chunks that stop inside a character
  ticker,    \* tick(): "waiting", "ticked", "sending", "stopped"
  tool,      \* "running", "closing", "sending", "closed", "returned", "stored"
  outcome,   \* "none", "ok", "timeout", "code", "error"
  result,    \* the text of the result
  offloaded, \* the message refers to a file with it
  offset,    \* the line at which the model reads on
  seen,      \* the lines it has read back
  note,      \* what the last page ended with: "none", "more", "cut", "end"
  buffered, reading

commandVars == <<made, pipe, cmd, tctx>>
streamVars  == <<taken, chunk, shown, halves>>
messageVars == <<offloaded, offset, seen, note>>
eventVars   == <<buffered, reading>>
vars == <<commandVars, err, copied, streamVars, ticker, tool, outcome, result, messageVars,
          eventVars>>

TypeOK ==
  /\ made \in Seq(Bytes) /\ Len(made) <= MaxBytes
  /\ pipe \in {"open", "closed"} /\ cmd \in {"running", "exited"}
  /\ tctx \in {"none", "deadline", "cancelled"} /\ err \in {"none", "exit", "run"}
  /\ copied \in 0 .. Len(made) /\ taken \in 0 .. copied
  /\ chunk \subseteq 1 .. taken /\ shown \subseteq 1 .. taken /\ shown \cap chunk = {}
  /\ halves \subseteq 1 .. taken
  /\ ticker \in {"waiting", "ticked", "sending", "stopped"}
  /\ tool \in {"running", "closing", "sending", "closed", "returned", "stored"}
  /\ ~(ticker = "sending" /\ tool = "sending")
  /\ (chunk # {}) <=> (ticker = "sending" \/ tool = "sending")
  /\ outcome \in {"none", "ok", "timeout", "code", "error"}
  /\ result \in Seq(Bytes) /\ offloaded \in BOOLEAN
  /\ offset \in Nat \ {0} /\ seen \in Seq(Seq(Bytes))
  /\ note \in {"none", "more", "cut", "end"}
  /\ buffered \in 0 .. Capacity /\ reading \in BOOLEAN

-----------------------------------------------------------------------------
(* Text                                                                    *)

\* utf8.Valid
Valid(s) ==
  \A i \in DOMAIN s : /\ s[i] = "h" => i < Len(s) /\ s[i + 1] = "t"
                      /\ s[i] = "t" => i > 1 /\ s[i - 1] = "h"

\* splitCompleteUTF8: how much of s to flush.  The loop never gets to i = Len(s).
Complete(s) ==
  LET cuts == {i \in 1 .. 3 : i < Len(s) /\ Valid(SubSeq(s, 1, Len(s) - i))}
  IN IF Valid(s) \/ cuts = {} THEN Len(s) ELSE Len(s) - Min(cuts)

\* strings.TrimSpace
TrimSpace(s) ==
  LET solid == {i \in DOMAIN s : s[i] # "n"}
  IN IF solid = {} THEN <<>> ELSE SubSeq(s, Min(solid), Max(solid))

\* utf8.RuneCountInString
Runes(s) == Len(SelectSeq(s, LAMBDA b : b # "t"))

\* splitLines: no empty line after a final line break.
Lines(s) ==
  LET body == IF s # <<>> /\ Last(s) = "n" THEN Front(s) ELSE s
      add(ls, b) == IF b = "n" THEN Append(ls, <<>>)
                    ELSE Append(Front(ls), Append(Last(ls), b))
  IN IF body = <<>> THEN <<>> ELSE FoldLeft(add, << <<>> >>, body)

-----------------------------------------------------------------------------
(* The command                                                             *)

Init ==
  /\ made = <<>> /\ pipe = "open" /\ cmd = "running" /\ tctx = "none" /\ err = "none"
  /\ copied = 0 /\ taken = 0 /\ chunk = {} /\ shown = {} /\ halves = {}
  /\ ticker = "waiting" /\ tool = "running" /\ outcome = "none" /\ result = <<>>
  /\ offloaded = FALSE /\ offset = 1 /\ seen = <<>> /\ note = "none"
  /\ buffered = 0 /\ reading = TRUE

\* One byte, in whatever portions the command writes.
Output(b) ==
  /\ pipe = "open" /\ tool = "running" /\ Len(made) < MaxBytes
  /\ (b = "t") <=> (made # <<>> /\ Last(made) = "h")
  /\ made' = Append(made, b)
  /\ UNCHANGED <<pipe, cmd, tctx, err, copied, streamVars, ticker, tool, outcome, result,
                 messageVars, eventVars>>

\* The shell exits, with code 0 or not; children of it may keep the pipe open.  When tctx
\* had ended by then, Run may report that although the exit was a success.
Exit ==
  /\ cmd = "running" /\ cmd' = "exited"
  /\ pipe' \in {"open", "closed"}
  /\ err' \in IF tctx = "none" THEN {"none", "exit"} ELSE {"none", "exit", "run"}
  /\ UNCHANGED <<made, tctx, copied, streamVars, ticker, tool, outcome, result, messageVars,
                 eventVars>>

\* The children end too.
CloseOutput ==
  /\ cmd = "exited" /\ pipe = "open" /\ pipe' = "closed"
  /\ UNCHANGED <<made, cmd, tctx, err, copied, streamVars, ticker, tool, outcome, result,
                 messageVars, eventVars>>

\* timeout_s has passed, ...
Deadline ==
  /\ tool \notin {"returned", "stored"} /\ tctx = "none" /\ tctx' = "deadline"
  /\ UNCHANGED <<made, pipe, cmd, err, copied, streamVars, ticker, tool, outcome, result,
                 messageVars, eventVars>>

\* ... or the call's ctx has ended.
Cancel ==
  /\ tool \notin {"returned", "stored"} /\ tctx = "none" /\ tctx' = "cancelled"
  /\ UNCHANGED <<made, pipe, cmd, err, copied, streamVars, ticker, tool, outcome, result,
                 messageVars, eventVars>>

\* cmd.Cancel: the whole process group is killed, which is an exit with a code.
Kill ==
  /\ cmd = "running" /\ tctx # "none"
  /\ cmd' = "exited" /\ pipe' = "closed" /\ err' = "exit"
  /\ UNCHANGED <<made, tctx, copied, streamVars, ticker, tool, outcome, result, messageVars,
                 eventVars>>

-----------------------------------------------------------------------------
(* streamWriter                                                            *)

Unlocked == ticker # "sending" /\ tool # "sending"

\* Write, called by the goroutine of os/exec that copies the pipe.
Copy(n) ==
  /\ tool = "running" /\ Unlocked
  /\ n \in copied + 1 .. Len(made)
  /\ copied' = n
  /\ UNCHANGED <<commandVars, err, streamVars, ticker, tool, outcome, result, messageVars,
                 eventVars>>

\* Fault: what is not flushed is forgotten.
FlushForgetting ==
  LET upto == taken + Complete(SubSeq(made, taken + 1, copied))
  IN /\ taken' = copied
     /\ chunk' = IF \E i \in taken + 1 .. upto : made[i] # "n" THEN taken + 1 .. upto ELSE {}
     /\ halves' = IF upto > taken /\ made[upto] = "h" THEN halves \cup {upto} ELSE halves

\* flushLocked up to the event: a chunk of nothing but white space is not shown.
Flush ==
  LET upto == taken + Complete(SubSeq(made, taken + 1, copied))
  IN /\ taken' = upto
     /\ chunk' = IF \E i \in taken + 1 .. upto : made[i] # "n" THEN taken + 1 .. upto ELSE {}
     /\ halves' = IF upto > taken /\ made[upto] = "h" THEN halves \cup {upto} ELSE halves

\* EmitEvent: the send blocks while the channel is full, with mu held.
Send ==
  /\ buffered < Capacity /\ buffered' = buffered + 1
  /\ shown' = shown \cup chunk /\ chunk' = {}

\* The select may take a tick that is due even when done is closed.
Tick ==
  /\ ticker = "waiting" /\ ticker' = "ticked"
  /\ UNCHANGED <<commandVars, err, copied, streamVars, tool, outcome, result, messageVars,
                 eventVars>>

TickFlush ==
  /\ ticker = "ticked" /\ Unlocked
  /\ Flush
  /\ ticker' = IF chunk' = {} THEN "waiting" ELSE "sending"
  /\ UNCHANGED <<commandVars, err, copied, shown, tool, outcome, result, messageVars, eventVars>>

TickSend ==
  /\ ticker = "sending" /\ ticker' = "waiting"
  /\ Send
  /\ UNCHANGED <<commandVars, err, copied, taken, halves, tool, outcome, result, messageVars,
                 reading>>

TickStop ==
  /\ ticker = "waiting" /\ tool # "running" /\ ticker' = "stopped"
  /\ UNCHANGED <<commandVars, err, copied, streamVars, tool, outcome, result, messageVars,
                 eventVars>>

-----------------------------------------------------------------------------
(* terminalTool                                                            *)

\* Fault: WaitDelay is not set.
RunReturnsPatient ==
  /\ tool = "running" /\ cmd = "exited" /\ pipe = "closed" /\ copied = Len(made)
  /\ tool' = "closing"
  /\ UNCHANGED <<commandVars, err, copied, streamVars, ticker, outcome, result, messageVars,
                 eventVars>>

\* cmd.Run: the shell has exited and the pipe is drained; or WaitDelay has passed, and
\* what is still to come is given up.  close(w.done) follows.
RunReturns ==
  /\ tool = "running" /\ cmd = "exited"
  /\ \/ pipe = "closed" /\ copied = Len(made) /\ UNCHANGED err
     \/ Unlocked /\ err' = (IF err = "none" THEN "run" ELSE err)
  /\ tool' = "closing"
  /\ UNCHANGED <<commandVars, copied, streamVars, ticker, outcome, result, messageVars,
                 eventVars>>

\* Fault: close only stops the ticker.
CloseFlushNot ==
  /\ tool = "closing" /\ Unlocked
  /\ tool' = "closed"
  /\ UNCHANGED <<commandVars, err, copied, streamVars, ticker, outcome, result, messageVars,
                 eventVars>>

\* The rest of close().
CloseFlush ==
  /\ tool = "closing" /\ Unlocked
  /\ Flush
  /\ tool' = IF chunk' = {} THEN "closed" ELSE "sending"
  /\ UNCHANGED <<commandVars, err, copied, shown, ticker, outcome, result, messageVars,
                 eventVars>>

CloseSend ==
  /\ tool = "sending" /\ tool' = "closed"
  /\ Send
  /\ UNCHANGED <<commandVars, err, copied, taken, halves, ticker, outcome, result, messageVars,
                 reading>>

\* Fault: an error of Run does not matter once there is output.
ReturnLenient ==
  /\ tool = "closed" /\ Unlocked
  /\ LET text == TrimSpace(SubSeq(made, 1, copied))
         ends(o, s) == outcome' = o /\ result' = s
     IN CASE tctx = "deadline" -> ends("timeout", text \o Marker)
          [] tctx # "deadline" /\ err = "exit" -> ends("code", text \o Marker)
          [] OTHER -> ends("ok", text)
  /\ tool' = "returned"
  /\ UNCHANGED <<commandVars, err, copied, streamVars, ticker, messageVars, eventVars>>

\* bytes(), and what terminalTool makes of tctx, of the error and of the text.
Return ==
  /\ tool = "closed" /\ Unlocked
  /\ LET text == TrimSpace(SubSeq(made, 1, copied))
         ends(o, s) == outcome' = o /\ result' = s
     IN CASE tctx = "deadline" -> ends("timeout", text \o Marker)
          [] tctx # "deadline" /\ err = "exit" -> ends("code", text \o Marker)
          [] tctx # "deadline" /\ err = "run" -> ends("error", text)
          [] tctx # "deadline" /\ err = "none" -> ends("ok", text)
  /\ tool' = "returned"
  /\ UNCHANGED <<commandVars, err, copied, streamVars, ticker, messageVars, eventVars>>

-----------------------------------------------------------------------------
(* The result in the history                                               *)

\* offload.OnToolEnd: a long result goes to a file unless that cannot be written.  Pages
\* of read_file are exempt, as it is the replay tool (examples/chat).
OnToolEnd ==
  /\ tool = "returned" /\ tool' = "stored"
  /\ offloaded' \in IF outcome # "error" /\ Len(result) > Threshold THEN BOOLEAN ELSE {FALSE}
  /\ UNCHANGED <<commandVars, err, copied, streamVars, ticker, outcome, result, offset, seen,
                 note, eventVars>>

\* Fault: the hint names the last line of the page.
ReadPageAgain(limit) ==
  /\ offloaded /\ note # "end"
  /\ LET lines == Lines(result)
         last == Min({offset - 1 + limit, Len(lines)})
         page == SubSeq(lines, offset, last)
     IN /\ Runes(FlattenSeq(page)) + Len(page) - 1 <= PageChars
        /\ seen' = seen \o page
        /\ note' = IF last < Len(lines) THEN "more" ELSE "end"
        /\ offset' = last
  /\ UNCHANGED <<commandVars, err, copied, streamVars, ticker, tool, outcome, result,
                 offloaded, eventVars>>

\* read_file on that file: a page of so many lines, with the offset to go on at; or the
\* beginning of a page with too many characters, and no such hint.
ReadPage(limit) ==
  /\ offloaded /\ note # "end"
  /\ LET lines == Lines(result)
         last == Min({offset - 1 + limit, Len(lines)})
         page == SubSeq(lines, offset, last)
     IN IF Runes(FlattenSeq(page)) + Len(page) - 1 > PageChars
          THEN note' = "cut" /\ UNCHANGED <<offset, seen>>
          ELSE /\ seen' = seen \o page
               /\ note' = IF last < Len(lines) THEN "more" ELSE "end"
               /\ offset' = last + 1
  /\ UNCHANGED <<commandVars, err, copied, streamVars, ticker, tool, outcome, result,
                 offloaded, eventVars>>

-----------------------------------------------------------------------------
(* The consumer of events                                                  *)

Deliver ==
  /\ reading /\ buffered > 0 /\ buffered' = buffered - 1
  /\ UNCHANGED <<commandVars, err, copied, streamVars, ticker, tool, outcome, result,
                 messageVars, reading>>

StopReading ==
  /\ reading /\ tool # "stored" /\ reading' = FALSE
  /\ UNCHANGED <<commandVars, err, copied, streamVars, ticker, tool, outcome, result,
                 messageVars, buffered>>

-----------------------------------------------------------------------------

Next ==
  \/ \E b \in Bytes : Output(b)
  \/ Exit
  \/ CloseOutput
  \/ Deadline
  \/ Cancel
  \/ Kill
  \/ \E n \in 1 .. MaxBytes : Copy(n)
  \/ Tick
  \/ TickFlush
  \/ TickSend
  \/ TickStop
  \/ RunReturns
  \/ CloseFlush
  \/ CloseSend
  \/ Return
  \/ OnToolEnd
  \/ \E limit \in Limits : ReadPage(limit)
  \/ Deliver
  \/ StopReading

\* The goroutines of the tool run, a killed process ends, WaitDelay passes, and a consumer
\* that keeps reading takes events.  Nobody has to exit, to tick or to read on.
Spec ==
  /\ Init /\ [][Next]_vars
  /\ WF_vars(Kill) /\ WF_vars(RunReturns) /\ WF_vars(CloseFlush) /\ WF_vars(CloseSend)
  /\ WF_vars(Return) /\ WF_vars(OnToolEnd) /\ WF_vars(TickSend) /\ WF_vars(Deliver)

-----------------------------------------------------------------------------
(* Properties                                                              *)

Returned == tool \in {"returned", "stored"}
Whole    == Valid(SubSeq(made, 1, copied))

\* streamWriter (tools.go:284): when the call returns, everything that is in its result,
\* white space aside, has been shown live, though two goroutines flush.
LiveComplete ==
  Returned /\ Whole => \A i \in 1 .. copied : made[i] # "n" => i \in shown

\* close (tools.go:361): the ticker may still be due, but it shows nothing once the call
\* has returned, unless the output ends inside a character.
QuietAfterReturn == [][Returned /\ Whole => shown' = shown]_shown

\* terminalTool (tools.go:252-268): a result with neither an error nor a marker is that of
\* a command that ended by itself with code 0, and has all that was written.
OkIsComplete ==
  outcome = "ok" => /\ err = "none" /\ tctx # "deadline"
                    /\ result = TrimSpace(made)

\* terminalCmd (terminalcmd_other.go:15) and clampTimeoutS: once the time limit has passed
\* or the call was cancelled, the call returns, whatever the command and its children do,
\* unless the consumer of events has stopped reading.
CallReturns == (tctx # "none") ~> (Returned \/ ~reading)

\* readTool (tools.go:94-111) on what OnToolEnd wrote: a model that goes on at the offset
\* each page names has, after the page without a note, read every line of the result
\* once and in order, whatever limits it asked for on the way.
ReadBackWhole == note = "end" => seen = Lines(result)

\* "截断在多字节字符中间的尾部留在 pending 等下一批，避免实时区闪出乱码" (tools.go:286): the
\* bytes of a character that is not complete wait for the next chunk.
LiveKeepsCharacters ==
  \A i \in halves : ~(i < copied /\ made[i + 1] = "t")

=============================================================================
