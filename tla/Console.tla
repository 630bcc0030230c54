------------------------------- MODULE Console -------------------------------
(***************************************************************************)
(* The log service and the line editor that share the console              *)
(* (src/src/system/core/log.cpp, core/user_interface.cpp and               *)
(* handlers/user_interface_handler.cpp): lines of any task written under   *)
(* the sink mutex, the ring that keeps the newest of them, and the prompt  *)
(* and the line being typed, which hooks erase before a log line and draw  *)
(* again after it.                                                         *)
(*                                                                         *)
(* The terminal is external.  It is modelled by the row the cursor is on:  *)
(* a character overwrites the cell under the cursor, \b and \r move the    *)
(* cursor, and \r\n starts a row.  Trailing blanks of a row are not kept.  *)
(*                                                                         *)
(* Only the holder of the sink mutex writes, so what it writes between two *)
(* reads of state of another task is one step.  The editor's state is      *)
(* guarded by a spinlock of its own, held for one access.                  *)
(*                                                                         *)
(* Abstractions.  The prompt is one cell, a log line a few cells of its    *)
(* own.  Lines that the level filters out or that an interrupt drops are   *)
(* not written and are left out, and so is the stamp.  A command writes at *)
(* most one line; the dump of the history ends with a line feed and leaves *)
(* an empty row, as no output does.                                        *)
(***************************************************************************)
EXTENDS Integers, Sequences, FiniteSets

CONSTANTS
  Ui,         \* the task that polls the console
  Writer,     \* the other tasks that log
  Text,       \* lines that are logged or printed
  Warning,    \*   ... the one that says the input is too long
  Length,      \* Length[l]: cells of line l
  Key,        \* printable characters
  EnterKeys,  \* bytes an Enter key sends: "cr", "lf" or both in turn
  LineMax,    \* characters of a line: HX_UI_LINE_MAX - 1
  Capacity,   \* HX_LOG_HISTORY_BYTES
  MaxLines,   \* bound: lines that writers and commands log or print
  MaxEnters,  \* bound: lines typed
  MaxClears   \* bound: "log clear" commands

Task   == Writer \cup {Ui}
Nobody == "nobody"

ASSUME TaskAssumption   == Ui \notin Writer /\ Nobody \notin Task
ASSUME TextAssumption   == Warning \in Text /\ Length \in [Text -> Nat \ {0}]
                             /\ {"prompt", "blank", "newline"} \cap Text = {}
ASSUME EnterAssumption  == EnterKeys \in {<<"cr">>, <<"lf">>, <<"cr", "lf">>}
ASSUME SizeAssumption ==
  /\ LineMax \in Nat \ {0} /\ Capacity \in Nat \ {0}
  /\ MaxLines \in Nat /\ MaxEnters \in Nat /\ MaxClears \in Nat

\* What a cell of the screen or a byte of the ring holds: the n-th part of x.
Part(x, n)  == [of |-> x, part |-> n]
Prompt      == Part("prompt", 1)
Blank       == Part("blank", 1)
NewLineByte == Part("newline", 1)

VARIABLES
  row,      \* the cells of the terminal's last row
  above,    \* while the sink is held: the row that a line was completed on
  sink,     \* holder of g_log_sink_mutex
  ring,     \* g_log_history with its head, tail, used and dropped lines
  buffer,   \* g_ui_line
  overflow, \* g_ui_overflow
  wasCr,    \* g_ui_last_was_cr
  editing,  \* g_ui_editing_active
  host,     \* bytes of an Enter key that are still to come
  task,     \* where each task stands
  logged,   \* history: the log lines of the screen since the ring was cleared, with
            \* their ends, as bytes
  torn,     \* history: the row was drawn while the editor changed its line
  made      \* bounds: lines, enters and clears so far

editor == <<buffer, overflow, wasCr, editing, host>>
consoleVars == <<row, above, sink, ring, editor, task, logged, torn, made>>

\* text, stored: the line being written and whether the ring keeps it;
\* then: where the task goes on after it.
Idle == [pc |-> "idle", text |-> Warning, stored |-> FALSE, then |-> "idle"]

At(t, label)   == task[t].pc = label
Goto(t, label) == task' = [task EXCEPT ![t].pc = label]
Emit(t, text, stored, then) ==
  task' = [task EXCEPT ![t] = [pc |-> "emit", text |-> text, stored |-> stored, then |-> then]]

(***************************************************************************)
(* The terminal.  Output puts the cursor at the end of the row or at its   *)
(* start, and the cursor stands at the end between two writes.             *)
(***************************************************************************)
Largest(S) == CHOOSE n \in S : \A m \in S : m <= n
Trim(s)    == SubSeq(s, 1, Largest({0} \cup {i \in DOMAIN s : s[i] # Blank}))

\* s after text is written from column 0.
Over(s, text) ==
  [i \in 1 .. Largest({Len(s), Len(text)}) |-> IF i <= Len(text) THEN text[i] ELSE s[i]]

Cells(line) == [i \in 1 .. Length[line] |-> Part(line, i)]
Blanks(n)   == [i \in 1 .. n |-> Blank]

\* What a line is in the ring.
Line(line)  == Cells(line) \o <<NewLineByte>>

(***************************************************************************)
(* The history ring.                                                       *)
(***************************************************************************)
NoHistory == [bytes |-> [i \in 0 .. Capacity - 1 |-> Blank],
              head |-> 0, tail |-> 0, used |-> 0, dropped |-> 0]

\* LogHistoryDropOldestByteLocked, n times.
DropOldest(r, n) ==
  LET out == {i \in 0 .. n - 1 : r.bytes[(r.tail + i) % Capacity] = NewLineByte} IN
  [r EXCEPT !.tail = (@ + n) % Capacity, !.used = @ - n, !.dropped = @ + Cardinality(out)]

\* LogHistoryAppendLocked: the oldest bytes make room, and the text is copied
\* in two parts when it reaches the end of the array.
AppendHistory(r, text) ==
  LET kept   == SubSeq(text, Largest({1, Len(text) - Capacity + 1}), Len(text))
      len    == Len(kept)
      room   == DropOldest(r, Largest({0, r.used + len - Capacity}))
      toEnd  == Capacity - r.head
      first  == IF len > toEnd THEN toEnd ELSE len
      second == len - first
  IN  [room EXCEPT
         !.bytes = [i \in DOMAIN @ |->
                      IF i \in r.head .. r.head + first - 1 THEN kept[i - r.head + 1]
                      ELSE IF i < second THEN kept[first + i + 1] ELSE @[i]],
         !.head = (@ + len) % Capacity, !.used = @ + len]

\* LogHistoryCopy into a buffer for n bytes: the newest ones.
HistoryCopy(n) ==
  LET len == IF ring.used > n THEN n ELSE ring.used
      from == (ring.tail + (ring.used - len)) % Capacity
  IN  [i \in 1 .. len |-> ring.bytes[(from + i - 1) % Capacity]]

(***************************************************************************)
(* A line: LogEmitLine, or LogSinkWriteLineRaw, which the ring does not    *)
(* keep.                                                                   *)
(***************************************************************************)
\* LogWriteV: a line is composed before the mutex is asked for.
Log(t) ==
  /\ t \in Writer /\ At(t, "idle") /\ made.lines < MaxLines
  /\ \E l \in Text \ {Warning} : Emit(t, l, TRUE, "idle")
  /\ made' = [made EXCEPT !.lines = @ + 1]
  /\ UNCHANGED <<row, above, sink, ring, editor, logged, torn>>

\* UiOnSinkLockedPreWriteLine: the prompt and the line are blanked out.
Erased == IF editing THEN Over(row, Blanks(1 + Len(buffer))) ELSE row

\* Mistake: the prompt is not counted.
WriteLineKeepingPrompt(t) ==
  /\ At(t, "emit") /\ sink = Nobody
  /\ sink' = t
  /\ above' = IF editing THEN Trim(Over(Over(row, Blanks(Len(buffer))), Cells(task[t].text)))
                         ELSE row \o Cells(task[t].text)
  /\ row' = << >>
  /\ logged' = IF task[t].stored THEN logged \o Line(task[t].text) ELSE logged
  /\ Goto(t, IF task[t].stored THEN "store" ELSE "redraw")
  /\ UNCHANGED <<ring, editor, torn, made>>

\* Mistake: the sink is not held while the line is stored.
WriteLineUnlocked(t) ==
  /\ At(t, "emit") /\ sink = Nobody
  /\ above' = IF editing THEN Trim(Over(Erased, Cells(task[t].text)))
                         ELSE row \o Cells(task[t].text)
  /\ row' = << >>
  /\ logged' = IF task[t].stored THEN logged \o Line(task[t].text) ELSE logged
  /\ Goto(t, IF task[t].stored THEN "store" ELSE "redraw")
  /\ UNCHANGED <<sink, ring, editor, torn, made>>

\* The mutex is taken, the hook erases, the line and its end are written.
WriteLine(t) ==
  /\ At(t, "emit") /\ sink = Nobody
  /\ sink' = t
  /\ above' = IF editing THEN Trim(Over(Erased, Cells(task[t].text)))
                         ELSE row \o Cells(task[t].text)
  /\ row' = << >>
  /\ logged' = IF task[t].stored THEN logged \o Line(task[t].text) ELSE logged
  /\ Goto(t, IF task[t].stored THEN "store" ELSE "redraw")
  /\ UNCHANGED <<ring, editor, torn, made>>

\* LogStoreLine
StoreLine(t) ==
  /\ At(t, "store")
  /\ ring' = AppendHistory(AppendHistory(ring, Cells(task[t].text)), <<NewLineByte>>)
  /\ Goto(t, "redraw")
  /\ UNCHANGED <<row, above, sink, editor, logged, torn, made>>

\* The editor has changed its line, or written its prompt, and has still to
\* show the one or announce the other.
BetweenChanges == task[Ui].pc \in {"echo", "rub", "announce"}

\* Mistake: the prompt is drawn without the line.
RedrawPromptOnly(t) ==
  /\ At(t, "redraw")
  /\ row' = IF editing THEN <<Prompt>> ELSE row
  /\ torn' = BetweenChanges
  /\ above' = << >> /\ sink' = Nobody
  /\ task' = [task EXCEPT ![t] = [Idle EXCEPT !.pc = task[t].then]]
  /\ UNCHANGED <<ring, editor, logged, made>>

\* UiOnSinkLockedPostWriteLine, and the mutex is released.
Redraw(t) ==
  /\ At(t, "redraw")
  /\ row' = IF editing THEN <<Prompt>> \o buffer ELSE row
  /\ torn' = BetweenChanges
  /\ above' = << >> /\ sink' = Nobody
  /\ task' = [task EXCEPT ![t] = [Idle EXCEPT !.pc = task[t].then]]
  /\ UNCHANGED <<ring, editor, logged, made>>

\* LogHistoryClear, asked for by any task's "log clear".  A line that is on the
\* screen and not yet in the ring is stored after it.
ClearHistory ==
  /\ made.clears < MaxClears
  /\ ring' = NoHistory
  /\ logged' = IF sink # Nobody /\ At(sink, "store") THEN Line(task[sink].text) ELSE << >>
  /\ made' = [made EXCEPT !.clears = @ + 1]
  /\ UNCHANGED <<row, above, sink, editor, task, torn>>

(***************************************************************************)
(* The line editor: UserInterfaceHandlerHandleByte.                        *)
(***************************************************************************)
Polls == At(Ui, "idle")

\* UiAppendChar; a character that does not fit condemns the line.
TypeKey ==
  /\ Polls /\ host = << >>
  /\ wasCr' = FALSE
  /\ IF ~overflow /\ Len(buffer) < LineMax
     THEN /\ \E k \in Key : buffer' = Append(buffer, Part(k, 1))
          /\ Goto(Ui, "echo") /\ UNCHANGED overflow
     ELSE overflow' = TRUE /\ UNCHANGED <<buffer, task>>
  /\ UNCHANGED <<row, above, sink, ring, editing, host, logged, torn, made>>

Echo ==
  /\ At(Ui, "echo") /\ sink = Nobody
  /\ row' = Append(row, buffer[Len(buffer)])
  /\ Goto(Ui, "idle")
  /\ UNCHANGED <<above, sink, ring, editor, logged, torn, made>>

\* UiBackspace
Backspace ==
  /\ Polls /\ host = << >>
  /\ wasCr' = FALSE
  /\ IF ~overflow /\ buffer # << >>
     THEN buffer' = SubSeq(buffer, 1, Len(buffer) - 1) /\ Goto(Ui, "rub")
     ELSE UNCHANGED <<buffer, task>>
  /\ UNCHANGED <<row, above, sink, ring, overflow, editing, host, logged, torn, made>>

\* "\b \b", which stops at the start of the row.
Rub ==
  /\ At(Ui, "rub") /\ sink = Nobody
  /\ row' = SubSeq(row, 1, Len(row) - 1)
  /\ Goto(Ui, "idle")
  /\ UNCHANGED <<above, sink, ring, editor, logged, torn, made>>

\* An Enter key is pressed: its bytes will be polled before the next key's.
PressEnter ==
  /\ Polls /\ host = << >> /\ made.enters < MaxEnters
  /\ host' = EnterKeys
  /\ made' = [made EXCEPT !.enters = @ + 1]
  /\ UNCHANGED <<row, above, sink, ring, buffer, overflow, wasCr, editing, task, logged, torn>>

\* A carriage return or a line feed; the line feed of a pair is skipped.
EndLine ==
  /\ Polls /\ host # << >>
  /\ host' = Tail(host)
  /\ IF Head(host) = "lf" /\ wasCr
     THEN wasCr' = FALSE /\ UNCHANGED <<editing, task>>
     ELSE wasCr' = (Head(host) = "cr") /\ editing' = FALSE /\ Goto(Ui, "newline")
  /\ UNCHANGED <<row, above, sink, ring, buffer, overflow, logged, torn, made>>

NewLine ==
  /\ At(Ui, "newline") /\ sink = Nobody
  /\ row' = << >> /\ torn' = FALSE
  /\ Goto(Ui, "line")
  /\ UNCHANGED <<above, sink, ring, editor, logged, made>>

\* UiHandleLine: a line too long is refused with a warning, and cleared after
\* it; another one is cleared and executed.
HandleLine ==
  /\ At(Ui, "line")
  /\ IF overflow THEN Emit(Ui, Warning, TRUE, "clear") /\ UNCHANGED buffer
                 ELSE buffer' = << >> /\ Goto(Ui, "command")
  /\ UNCHANGED <<row, above, sink, ring, overflow, wasCr, editing, host, logged, torn, made>>

ClearLine ==
  /\ At(Ui, "clear")
  /\ buffer' = << >> /\ overflow' = FALSE
  /\ Goto(Ui, "prompt")
  /\ UNCHANGED <<row, above, sink, ring, wasCr, editing, host, logged, torn, made>>

\* CommandExecuteLine: nothing, a line of output, or a line logged.
Execute ==
  /\ At(Ui, "command")
  /\ \/ Goto(Ui, "prompt") /\ UNCHANGED made
     \/ /\ made.lines < MaxLines
        /\ \E l \in Text \ {Warning}, stored \in BOOLEAN : Emit(Ui, l, stored, "prompt")
        /\ made' = [made EXCEPT !.lines = @ + 1]
  /\ UNCHANGED <<row, above, sink, ring, editor, logged, torn>>

\* UiPrompt, also from UserInterfaceHandlerStart.
WritePrompt ==
  /\ At(Ui, "prompt") /\ sink = Nobody
  /\ row' = Append(row, Prompt)
  /\ Goto(Ui, "announce")
  /\ UNCHANGED <<above, sink, ring, editor, logged, torn, made>>

SetEditing ==
  /\ At(Ui, "announce")
  /\ editing' = TRUE
  /\ Goto(Ui, "idle")
  /\ UNCHANGED <<row, above, sink, ring, buffer, overflow, wasCr, host, logged, torn, made>>

(***************************************************************************)
(* Specification.                                                          *)
(***************************************************************************)
\* After the boot, when the interface starts.
ConsoleInit ==
  /\ row = << >> /\ above = << >> /\ sink = Nobody /\ ring = NoHistory
  /\ buffer = << >> /\ overflow = FALSE /\ wasCr = FALSE /\ editing = FALSE
  /\ host = << >>
  /\ task = [t \in Task |-> IF t = Ui THEN [Idle EXCEPT !.pc = "prompt"] ELSE Idle]
  /\ logged = << >> /\ torn = FALSE
  /\ made = [lines |-> 0, enters |-> 0, clears |-> 0]

EditorNext ==
  \/ TypeKey \/ Echo \/ Backspace \/ Rub \/ PressEnter \/ EndLine \/ NewLine
  \/ HandleLine \/ ClearLine \/ Execute \/ WritePrompt \/ SetEditing

ConsoleNext ==
  \/ \E t \in Task : Log(t) \/ WriteLine(t) \/ StoreLine(t) \/ Redraw(t)
  \/ EditorNext
  \/ ClearHistory

ConsoleSpec == ConsoleInit /\ [][ConsoleNext]_consoleVars

(***************************************************************************)
(* Properties.                                                             *)
(***************************************************************************)
ConsoleTypeOK ==
  /\ sink \in Task \cup {Nobody}
  /\ ring.head \in 0 .. Capacity - 1 /\ ring.tail \in 0 .. Capacity - 1
  /\ ring.used \in 0 .. Capacity
  /\ buffer \in Seq({Part(k, 1) : k \in Key}) /\ Len(buffer) <= LineMax
  /\ overflow \in BOOLEAN /\ wasCr \in BOOLEAN /\ editing \in BOOLEAN

\* What the editor shows is what it will execute: when it waits for a byte, the
\* row is the prompt and the line in its buffer, whichever lines other tasks
\* have logged, unless the last of them was drawn just between a change of the
\* line and its echo.
ShellShows ==
  Polls /\ host = << >> /\ sink = Nobody /\ ~torn =>
    /\ editing
    /\ row = <<Prompt>> \o buffer

\* A log line is alone on its row: nothing of the prompt and of the line being
\* typed is left beside it, unless it comes while the editor is between two
\* changes or was drawn so before.
LinesAlone ==
  [][\A t \in Task :
       WriteLine(t) /\ ~torn /\ task[Ui].pc \notin {"rub", "announce", "newline"} =>
         above' = Cells(task[t].text)]_consoleVars

\* The history that "log" prints is what the screen has logged: for a reader
\* with room for n bytes, the newest n bytes of the lines in the order of the
\* screen, although other tasks logged and cleared meanwhile; and the lines
\* counted as dropped are those whose end is no longer there.
RingIsScreen ==
  (\A t \in Task : ~At(t, "store")) =>
    LET Last(n) == SubSeq(logged, Len(logged) - n + 1, Len(logged))
        Ends(s) == Cardinality({i \in DOMAIN s : s[i] = NewLineByte})
    IN  /\ ConsoleTypeOK
        /\ ring.used = IF Len(logged) < Capacity THEN Len(logged) ELSE Capacity
        /\ \A n \in 0 .. Capacity : n <= ring.used => HistoryCopy(n) = Last(n)
        /\ ring.dropped = Ends(logged) - Ends(HistoryCopy(Capacity))
=============================================================================
