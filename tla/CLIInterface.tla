----------------------------- MODULE CLIInterface -----------------------------
(***************************************************************************)
(* The screen and the input line of src/cli/interface.py.                  *)
(*                                                                         *)
(* sys.stdout is replaced: what any thread prints becomes lines in         *)
(* _output_lines, and the event _redraw_output tells the input loop, the   *)
(* only one that draws them.  A step of the loop is what it does between   *)
(* two accesses to the lines or the event.                                 *)
(***************************************************************************)
EXTENDS Integers, Sequences

CONSTANTS
    Printers,       \* threads that print while the prompt is up
    Texts,          \* what may be typed
    MaxLines,       \* bound: lines printed
    MaxKeys         \* bound: keys pressed

Blank == ""     \* an empty line

ASSUME ScreenAssumption == Blank \notin Texts /\ MaxLines \in Nat /\ MaxKeys \in Nat

VARIABLES
    uiAt,           \* where the input loop is
    lines,          \* lines appended to _output_lines so far
    drawn,          \* how many there were when the output was drawn last
    spoilt,         \* ghost: how many there were when drawing failed last
    redraw,         \* _redraw_output
    printers,       \* printers that have appended a line and not set the event yet
    inputBuf,       \* _input_buf
    history,        \* _history
    historyIdx,     \* _history_idx
    keys            \* keys pressed so far

screenVars == <<uiAt, lines, drawn, spoilt, redraw, printers, inputBuf, history,
                historyIdx, keys>>
inputVars == <<inputBuf, history, historyIdx, keys>>

\* test: about to look at the event; clear: has found it set; draw: has cleared
\* it; key: waits for a key;
\* run: is in execute(); after: the command is over.
UIStages == {"test", "clear", "draw", "key", "run", "after", "ended"}

\* _run_curses has written and drawn the two lines of the banner, which are not
\* counted; the event is still set.
ScreenInit ==
    /\ uiAt = "test"
    /\ lines = 0
    /\ drawn = 0
    /\ spoilt = 0
    /\ redraw = TRUE
    /\ printers = {}
    /\ inputBuf = Blank
    /\ history = <<>>
    /\ historyIdx = -1
    /\ keys = 0

-----------------------------------------------------------------------------
(* Printing.                                                               *)

\* _write, under the lock.  An appended line is there to stay: the bound of 500
\* lines is above what a screen shows.
WriteLine(w) ==
    /\ lines < MaxLines
    /\ w \notin printers
    /\ lines' = lines + 1
    /\ printers' = printers \cup {w}
    /\ UNCHANGED <<uiAt, drawn, spoilt, redraw, inputVars>>

SetRedraw(w) ==
    /\ w \in printers
    /\ redraw' = TRUE
    /\ printers' = printers \ {w}
    /\ UNCHANGED <<uiAt, lines, drawn, spoilt, inputVars>>

-----------------------------------------------------------------------------
(* The input loop.                                                         *)

TestRedraw ==
    /\ uiAt = "test"
    /\ uiAt' = IF redraw THEN "clear" ELSE "key"
    /\ UNCHANGED <<lines, drawn, spoilt, redraw, printers, inputVars>>

\* Seeded fault: the output is drawn first and the event cleared afterwards.
ClearRedrawLate ==
    /\ \/ uiAt = "clear" /\ uiAt' = "late" /\ drawn' = lines /\ UNCHANGED redraw
       \/ uiAt = "late" /\ uiAt' = "key" /\ redraw' = FALSE /\ UNCHANGED drawn
    /\ UNCHANGED <<lines, spoilt, printers, inputVars>>

ClearRedraw ==
    /\ uiAt = "clear"
    /\ redraw' = FALSE
    /\ uiAt' = "draw"
    /\ UNCHANGED <<lines, drawn, spoilt, printers, inputVars>>

\* _draw_output copies the lines under the lock; what curses raises is logged.
Drawing ==
    \/ drawn' = lines /\ UNCHANGED spoilt
    \/ spoilt' = lines /\ UNCHANGED drawn

DrawOutput ==
    /\ uiAt \in {"draw", "after"}
    /\ uiAt' = IF uiAt = "draw" THEN "key" ELSE "test"
    /\ Drawing
    /\ UNCHANGED <<lines, redraw, printers, inputVars>>

\* 200 ms without a key.
NoKey ==
    /\ uiAt = "key"
    /\ uiAt' = "test"
    /\ UNCHANGED <<lines, drawn, spoilt, redraw, printers, inputVars>>

\* KEY_RESIZE.
Resize ==
    /\ uiAt = "key"
    /\ uiAt' = "test"
    /\ Drawing
    /\ UNCHANGED <<lines, redraw, printers, inputVars>>

\* Enter: the line is echoed and the command executed, if there is one.
Enter ==
    /\ uiAt = "key"
    /\ keys < MaxKeys
    /\ keys' = keys + 1
    /\ inputBuf' = Blank
    /\ historyIdx' = -1
    /\ \/ inputBuf = Blank /\ uiAt' = "test" /\ UNCHANGED <<lines, redraw, history>>
       \/ /\ inputBuf # Blank /\ lines < MaxLines
          /\ uiAt' = "run"
          /\ lines' = lines + 1
          /\ redraw' = TRUE
          /\ history' = Append(history, inputBuf)
    /\ UNCHANGED <<drawn, spoilt, printers>>

\* The command prints, or the traceback of what it raised is printed.
CommandPrints ==
    /\ uiAt = "run"
    /\ lines < MaxLines
    /\ lines' = lines + 1
    /\ redraw' = TRUE
    /\ UNCHANGED <<uiAt, drawn, spoilt, printers, inputVars>>

\* execute() returns, or raises and is taken to have returned True.
CommandReturns ==
    /\ uiAt = "run"
    /\ uiAt' = "after"
    /\ UNCHANGED <<lines, drawn, spoilt, redraw, printers, inputVars>>

\* It returned False: the output is drawn once more.
CommandEnds ==
    /\ uiAt = "run"
    /\ uiAt' = "ended"
    /\ Drawing
    /\ UNCHANGED <<lines, redraw, printers, inputVars>>

\* The other keys change the line, and the loop goes on.
Key ==
    /\ uiAt = "key"
    /\ keys < MaxKeys
    /\ uiAt' = "test"
    /\ keys' = keys + 1
    /\ UNCHANGED <<lines, drawn, spoilt, redraw, printers>>

\* Seeded fault: the index is not kept below the length of the history.
KeyUpUnbounded ==
    /\ Key
    /\ historyIdx' = IF history = <<>> THEN historyIdx ELSE historyIdx + 1
    /\ inputBuf' = IF historyIdx' \in 0 .. Len(history) - 1
                     THEN history[Len(history) - historyIdx'] ELSE inputBuf
    /\ UNCHANGED history

KeyUp ==
    /\ Key
    /\ \/ history = <<>> /\ UNCHANGED <<historyIdx, inputBuf>>
       \/ /\ history # <<>>
          /\ historyIdx' = IF historyIdx + 1 < Len(history) THEN historyIdx + 1
                                                           ELSE Len(history) - 1
          /\ inputBuf' = history[Len(history) - historyIdx']
    /\ UNCHANGED history

KeyDown ==
    /\ Key
    /\ historyIdx' = IF historyIdx >= 0 THEN historyIdx - 1 ELSE -1
    /\ inputBuf' = CASE historyIdx > 0 -> history[Len(history) - historyIdx']
                     [] historyIdx = 0 -> Blank
                     [] OTHER          -> inputBuf
    /\ UNCHANGED history

\* Any other key changes the line; the index stays where it is.
Edit(text) ==
    /\ Key
    /\ inputBuf' = text
    /\ UNCHANGED <<history, historyIdx>>

ScreenNext ==
    \/ \E w \in Printers : WriteLine(w) \/ SetRedraw(w)
    \/ TestRedraw \/ ClearRedraw \/ DrawOutput \/ NoKey \/ Resize
    \/ Enter \/ KeyUp \/ KeyDown
    \/ \E text \in Texts \cup {Blank} : Edit(text)
    \/ CommandPrints \/ CommandReturns \/ CommandEnds

ScreenSpec == ScreenInit /\ [][ScreenNext]_screenVars

-----------------------------------------------------------------------------
(* Properties.                                                             *)

\* The index is that of an entry, or -1.
ScreenTypeOK ==
    /\ uiAt \in UIStages
    /\ lines \in 0 .. MaxLines
    /\ drawn \in 0 .. lines
    /\ spoilt \in 0 .. lines
    /\ redraw \in BOOLEAN
    /\ printers \subseteq Printers
    /\ inputBuf \in Texts \cup {Blank}
    /\ history \in Seq(Texts)
    /\ historyIdx \in -1 .. Len(history) - 1
    /\ keys \in 0 .. MaxKeys

\* No line is forgotten: one that is not on the screen yet, while the prompt is
\* up, was printed after the event was cleared for the drawing to come, or the
\* event is set, or its printer is about to set it.  Drawing that failed is not
\* repeated.
NoLineForgotten ==
    uiAt # "ended" /\ drawn < lines /\ spoilt < lines =>
        redraw \/ printers # {} \/ uiAt \in {"draw", "after"}
=============================================================================
