----------------------------- MODULE LineEditor ------------------------------
(***************************************************************************)
(* The line editor of a CLI session (class CLIReader of narb/cli.cc and    *)
(* rce/rce_cli.cc): what each key does to the line, and what is sent to    *)
(* the terminal so that it shows the line.  The reader keeps the length of *)
(* the line twice, in buffer and in clen; the password is typed into the   *)
(* same line, unseen.                                                      *)
(*                                                                         *)
(* A command is run by its outcome, see module CmdTree for how it is       *)
(* found.  The operators are functions of the state e of a session.        *)
(***************************************************************************)
EXTENDS Integers, Sequences, SequencesExt

CONSTANTS
  Chars,     (* characters that can be typed                               *)
  Password,  (* cli_password, a line                                       *)
  Prompt,    (* the length of the prompt                                   *)
  Columns,   (* the terminal's width, which it may tell or not             *)
  Depth,     (* MAX_HISTORY_DEPTH                                          *)
  MaxLine    (* bound: the longest line                                    *)

Space == "_"
Cells == Chars \cup {Space}
Lines == UNION {[1 .. n -> Chars] : n \in 0 .. MaxLine}

VARIABLE ed

Blank == [buffer |-> <<>>, cp |-> 0, clen |-> 0, insert |-> TRUE, hi |-> 0,
          history |-> <<>>, width |-> 0, screen |-> <<>>, cur |-> 0,
          passwd |-> Password # <<>>, retry |-> 3, open |-> TRUE,
          trapped |-> FALSE]

Init == ed = Blank

-----------------------------------------------------------------------------
(* The terminal: the cells after the prompt, and the cursor.               *)

(* Writing goes over what is there.                                        *)
Puts(e, t) ==
  LET end == e.cur + Len(t)
      over == [i \in 1 .. IF end < Len(e.screen) THEN Len(e.screen) ELSE end |->
                 IF i \in e.cur + 1 .. end THEN t[i - e.cur] ELSE e.screen[i]]
  IN  [e EXCEPT !.screen = over, !.cur = end]
Back(e, n) == [e EXCEPT !.cur = @ - n]
NewPrompt(e) == [e EXCEPT !.screen = <<>>, !.cur = 0]

(* CLIWriter::WriteBuffer of what is echoed.                               *)
Echo(e, t)  == IF e.passwd THEN e ELSE Puts(e, t)
EchoBack(e, n) == IF e.passwd THEN e ELSE Back(e, n)

-----------------------------------------------------------------------------
(* Keys.                                                                   *)

Replaced(b, i, c) == IF i > Len(b) THEN Append(b, c) ELSE [b EXCEPT ![i] = c]

(* The cursor and the length are moved by the callers.                     *)
WriteChar(e, c) ==
  Echo([e EXCEPT !.buffer = IF e.cp = e.clen THEN Append(@, c) ELSE Replaced(@, e.cp + 1, c)], <<c>>)

(* Mutant: the cursor is not brought back.                                 *)
InsertChar_NoBack(e, c) ==
  LET b == InsertAt(e.buffer, e.cp + 1, c)
  IN  Echo([e EXCEPT !.buffer = b], SubSeq(b, e.cp + 1, Len(b)))
InsertChar(e, c) ==
  LET b == InsertAt(e.buffer, e.cp + 1, c)
  IN  EchoBack(Echo([e EXCEPT !.buffer = b], SubSeq(b, e.cp + 1, Len(b))), e.clen - e.cp)

PrintChar(e, c) ==
  LET w == IF e.insert THEN [InsertChar(e, c) EXCEPT !.clen = @ + 1]
           ELSE [WriteChar(e, c) EXCEPT !.clen = IF e.cp = @ THEN @ + 1 ELSE @]
  IN  [w EXCEPT !.cp = @ + 1]

(* The remainder by a width of 0 traps.                                    *)
BackwardChar(e) ==
  IF e.cp = 0 THEN e
  ELSE IF e.width = 0 THEN [e EXCEPT !.trapped = TRUE]
  ELSE IF (e.cp + Prompt) % e.width = 0 THEN e
  ELSE [EchoBack(e, 1) EXCEPT !.cp = @ - 1]

ForwardChar(e) ==
  IF e.cp = e.clen THEN e ELSE [WriteChar(e, e.buffer[e.cp + 1]) EXCEPT !.cp = @ + 1]

(* The rest is written again, with a space at its end.                     *)
DeleteChar(e) ==
  LET b == RemoveAt(e.buffer, e.cp + 1)
      w == Echo(e, SubSeq(b, e.cp + 1, Len(b)) \o <<Space>>)
  IN  IF e.cp = e.clen THEN e
      ELSE [EchoBack(w, e.clen - e.cp) EXCEPT !.buffer = b, !.clen = @ - 1]

(* BackwardChar down to the beginning; this far from the right edge it     *)
(* neither stops short nor traps.                                          *)
LineBeginning(e) ==
  IF e.cp + Prompt >= e.width THEN e ELSE [EchoBack(e, e.cp) EXCEPT !.cp = 0]
(* ForwardChar up to the end: every character is written over itself.      *)
LineEnd(e) == [Echo(e, SubSeq(e.buffer, e.cp + 1, e.clen)) EXCEPT !.cp = e.clen]

KillLine(e) ==
  LET n == e.clen - e.cp
      w == Echo(e, [i \in 1 .. n |-> Space])
  IN  [EchoBack(w, n) EXCEPT !.buffer = SubSeq(@, 1, e.cp), !.clen = e.cp]

Emptied(e) == [e EXCEPT !.buffer = <<>>, !.cp = 0, !.clen = 0]
InterruptLine(e) == Emptied(NewPrompt(e))
DeleteLine(e) ==
  IF e.cp + Prompt > e.width THEN InterruptLine(e) ELSE Emptied(KillLine(LineBeginning(e)))

Shown(e, b) == Puts([e EXCEPT !.buffer = b, !.cp = Len(b), !.clen = Len(b)], b)
(* Mutant: the line on the screen is not deleted first.                    *)
Recalled_Over(e, i) == [Shown(e, e.history[i + 1]) EXCEPT !.hi = i]
Recalled(e, i) == [Shown(DeleteLine(e), e.history[i + 1]) EXCEPT !.hi = i]
PreviousLine(e) ==
  IF e.hi = 0 THEN e
  ELSE IF e.hi - 1 < Len(e.history) THEN Recalled(e, e.hi - 1)
  ELSE [e EXCEPT !.hi = @ - 1]
NextLine(e) == IF e.hi >= Len(e.history) - 1 THEN e ELSE Recalled(e, e.hi + 1)

-----------------------------------------------------------------------------
(* Return.                                                                 *)

Authenticate(e) ==
  LET f == [e EXCEPT !.retry = @ - 1]
  IN  IF e.buffer = Password THEN Emptied(NewPrompt([e EXCEPT !.passwd = FALSE]))
      ELSE IF e.retry = 0 THEN [f EXCEPT !.open = FALSE]
      ELSE Emptied(NewPrompt(f))

(* The line joins the history unless it is the last one there.             *)
Queued(e) ==
  IF e.buffer = <<>> \/ (e.history # <<>> /\ Last(e.history) = e.buffer) THEN e
  ELSE LET h == Append(IF Len(e.history) = Depth THEN Tail(e.history) ELSE e.history, e.buffer)
       IN  [e EXCEPT !.history = h, !.hi = Len(h) - 1]

(* A command that is found and run leaves an empty line; anything else     *)
(* leaves the line as it is, under a new prompt.                           *)
Outcomes == {"run", "incomplete", "nothing", "ambiguous"}
ExecuteCommand(e, outcome) ==
  LET q == Queued(e)
  IN  IF outcome = "run" THEN [Emptied(NewPrompt(q)) EXCEPT !.hi = @ + 1]
      ELSE Shown(NewPrompt(q), q.buffer)

(* A line is completed in place, or its choices are shown and a new prompt *)
(* comes.                                                                  *)
CompleteCommand(e, b, choices) ==
  IF e.buffer = <<>> THEN e
  ELSE Shown(IF choices THEN NewPrompt(e) ELSE DeleteLine(e), b)

DescribeCommand(e) == Shown(NewPrompt(e), e.buffer)

-----------------------------------------------------------------------------

(* HandleTelnetOption of TELOPT_NAWS: the low byte of the width.           *)
Told(e, w) == [e EXCEPT !.width = w % 256]

Fits(e) == e.clen < MaxLine
Press(f) == ed.open /\ ~ed.trapped /\ ed' = f

Type         == \E c \in Chars : Fits(ed) /\ Press(PrintChar(ed, c))
Backspace    == Press(LET b == BackwardChar(ed) IN IF b.trapped THEN b ELSE DeleteChar(b))
MoveBackward == Press(BackwardChar(ed))
MoveForward  == Press(ForwardChar(ed))
Delete       == Press(DeleteChar(ed))
Home         == Press(LineBeginning(ed))
End          == Press(LineEnd(ed))
Kill         == Press(KillLine(ed))
Interrupt    == Press(InterruptLine(ed))
Erase        == Press(DeleteLine(ed))
Up           == Press(PreviousLine(ed))
Down         == Press(NextLine(ed))
InsertKey    == Press([ed EXCEPT !.insert = ~@])
Resize       == Press(Told(ed, Columns))
Return       == IF ed.passwd THEN Press(Authenticate(ed))
                ELSE \E o \in Outcomes : ed.hi <= Depth /\ Press(ExecuteCommand(ed, o))
Tab          == /\ ~ed.passwd /\ Len(ed.buffer) < MaxLine
                /\ \E c \in Chars, choices \in BOOLEAN :
                     Press(CompleteCommand(ed, Append(ed.buffer, c), choices))
Question     == ~ed.passwd /\ Press(DescribeCommand(ed))

Next ==
  \/ Type \/ Backspace \/ Delete \/ Kill \/ Interrupt \/ Erase
  \/ MoveBackward \/ MoveForward \/ Home \/ End \/ Up \/ Down
  \/ InsertKey \/ Resize \/ Return \/ Tab \/ Question

Spec == Init /\ [][Next]_ed

-----------------------------------------------------------------------------
(* Properties.                                                             *)

(* The two lengths agree, the cursor is within the line, and the terminal  *)
(* shows the line with its cursor where the next key will act, whatever    *)
(* keys came before (as long as the line fits into one row).               *)
ScreenShowsLine ==
  /\ ed.clen = Len(ed.buffer) /\ ed.cp \in 0 .. ed.clen
  /\ ~ed.passwd /\ ed.open =>
       /\ ed.cur = ed.cp
       /\ \A i \in 1 .. Len(ed.screen) :
            ed.screen[i] = IF i <= Len(ed.buffer) THEN ed.buffer[i] ELSE Space
       /\ Len(ed.buffer) <= Len(ed.screen)
=============================================================================
