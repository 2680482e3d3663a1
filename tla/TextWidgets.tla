---------------------------- MODULE TextWidgets ----------------------------
(***************************************************************************)
(* The two widgets that keep positions in a text while the text and the    *)
(* window change: the prompt (ui_prompt.c), with a cursor and the first    *)
(* character drawn, and the log (ui_logger.c), with the lowest line drawn, *)
(* given as a line and a wrapped part of it.  Characters are counted.      *)
(***************************************************************************)
EXTENDS Integers, Sequences, SequencesExt

CONSTANTS Room,       \* UI_PROMPT_BUFFER_SIZE
          Widths,     \* bound: characters a prompt can show, cols - 3
          LineSizes,  \* bound: the lengths of logged lines
          MaxLines,   \* bound: lines in a log
          Cols, Rows, \* bound: the sizes of the window of a log
          Garbage     \* bound: what memory that was never written holds

ASSUME SizesAssumption == /\ Room \in Nat /\ Widths \subseteq Nat /\ LineSizes \subseteq Nat
                          /\ MaxLines \in Nat /\ Garbage \subseteq Int
                          /\ Cols \subseteq Nat \ {0} /\ Rows \subseteq Nat \ {0}

VARIABLES
  chCursor, displayStart, bufferLen,  \* struct ui_prompt
  cleared,    \* history: the prompt was cleared, its fields are set
  width,      \* the characters the prompt's window can show
  resized,    \* history: the window was resized after the last key
  lineSizes,  \* line_sizes of struct ui_logger, as many as there are lines
  iLine, iWrap,  \* the lowest part drawn, lines and parts counted from 0
  cols, winRows,
  attached,   \* is the log the component of its window
  stale       \* history: the position was kept while lines were wrapped anew

prompt == <<chCursor, displayStart, bufferLen, cleared, width, resized>>
logger == <<lineSizes, iLine, iWrap, cols, winRows, attached, stale>>
wvars  == <<prompt, logger>>
-----------------------------------------------------------------------------
(* The prompt *)

\* ui_prompt_new clears the first pointer of the struct only: the positions are whatever
\* the memory holds until the prompt is cleared.
PromptInit == /\ chCursor \in Garbage /\ displayStart \in Garbage /\ bufferLen \in Garbage
              /\ cleared = FALSE
              /\ width \in Widths /\ resized = FALSE

\* Mutation: a text that got shorter does not move into the window again.
ScrolledNoFill(start, cursor, len) ==
  LET right == IF start < cursor - width THEN cursor - width ELSE start
  IN  IF right > cursor THEN cursor ELSE right
\* The end of ui_prompt_input_cb: where to start drawing so that the cursor is seen and
\* the window is full if the text is long enough.
Scrolled(start, cursor, len) ==
  LET full  == IF len > width /\ len - start < width THEN len - width ELSE start
      right == IF full < cursor - width THEN cursor - width ELSE full
  IN  IF right > cursor THEN cursor ELSE right

Placed(start, cursor, len) ==
  /\ chCursor' = cursor /\ bufferLen' = len
  /\ displayStart' = Scrolled(start, cursor, len)
  /\ resized' = FALSE /\ UNCHANGED <<width, logger>>

Typed(start, cursor, len) == Placed(start, cursor, len) /\ UNCHANGED cleared

Insert == Typed(displayStart, chCursor + (IF bufferLen < Room THEN 1 ELSE 0),
                bufferLen + (IF bufferLen < Room THEN 1 ELSE 0))
Backspace == chCursor > 0 /\ Typed(displayStart, chCursor - 1, bufferLen - 1)
Delete == chCursor < bufferLen /\ Typed(displayStart, chCursor, bufferLen - 1)
Left   == chCursor > 0 /\ Typed(displayStart, chCursor - 1, bufferLen)
Right  == chCursor < bufferLen /\ Typed(displayStart, chCursor + 1, bufferLen)
Home   == Typed(0, 0, bufferLen)
End    == Typed(displayStart, bufferLen, bufferLen)
\* Ctrl-L, every submit_cb of the application and the selection of a contact clear the prompt.
Clear  == Placed(0, 0, 0) /\ cleared' = TRUE
\* A key that changes nothing scrolls all the same.
Other  == Typed(displayStart, chCursor, bufferLen)

ResizePrompt == /\ width' \in Widths /\ resized' = TRUE
                /\ UNCHANGED <<chCursor, displayStart, bufferLen, cleared, logger>>

PromptNext == \/ Insert \/ Backspace \/ Delete \/ Left \/ Right \/ Home \/ End \/ Clear \/ Other
              \/ ResizePrompt
-----------------------------------------------------------------------------
(* The log *)

\* ui_logger_line_size: the parts a line of n characters is wrapped into.
Wraps(n, c) == (IF n = 0 THEN 1 ELSE 0) + (n \div c) + (IF n % c # 0 THEN 1 ELSE 0)
Size == Len(lineSizes)
LineSize(i) == Wraps(lineSizes[i + 1], cols)

LoggerInit == /\ lineSizes = <<>> /\ iLine = 0 /\ iWrap = 0
              /\ cols \in Cols /\ winRows \in Rows
              /\ attached \in BOOLEAN /\ stale = FALSE

AtEnd(sizes, c) == /\ iLine' = Len(sizes) - 1
                   /\ iWrap' = Wraps(Last(sizes), c) - 1
                   /\ stale' = FALSE

\* ui_logger_log_wc: the lines of a text; the window is defined before the first call.
Log == /\ \E sizes \in BoundedSeq(LineSizes, 2) \ {<<>>} :
            /\ Size + Len(sizes) <= MaxLines
            /\ lineSizes' = lineSizes \o sizes
            /\ AtEnd(lineSizes', cols)
       /\ UNCHANGED <<cols, winRows, attached, prompt>>

\* app_ui_chat_refresh writes the chat again: with the position kept if a message came, and
\* other lengths if the friend has another nickname now.
ChatRefresh(keep) ==
  /\ attached
  /\ \E sizes \in BoundedSeq(LineSizes, MaxLines) \ {<<>>} :
       /\ keep => Len(sizes) >= Size
       /\ lineSizes' = sizes
       /\ IF keep /\ Size > 0
          THEN /\ stale' = (stale \/ \E i \in 1..Size : sizes[i] # lineSizes[i])
               /\ UNCHANGED <<iLine, iWrap>>
          ELSE AtEnd(sizes, cols)
  /\ UNCHANGED <<cols, winRows, attached, prompt>>

\* Where the inner loop of KEY_UP can stop, with count parts counted before it: it asks for the
\* size of line number stop_wi, not stop_li, and the sizes beyond the last line are whatever
\* the array holds.
StopWraps(count) ==
  {w \in 0..winRows - count :
     /\ \A v \in 0..w - 1 : v < Size => v < LineSize(v)
     /\ w < Size /\ w < winRows - count => w >= LineSize(w)}

\* The parts counted before the first line and after each of n lines, if the outer loop stops
\* after the n-th.
Counts(n) == {c \in [0..n -> 0..winRows] :
                /\ c[0] = 0
                /\ \A i \in 1..n : c[i - 1] < winRows /\ c[i] - c[i - 1] \in StopWraps(c[i - 1])
                /\ n = Size \/ c[n] = winRows}

\* Where the loops of KEY_UP stop in a log with lines: the line, and the counter of its parts.
Stops == UNION {{<<n, c[n] - c[n - 1]>> : c \in Counts(n)} : n \in 1..Size}

PartUp(i, w) ==
  IF w > 0 THEN iWrap' = w - 1 /\ UNCHANGED iLine
  ELSE iLine' = i - 1 /\ iWrap' = LineSize(i - 1) - 1

LoggerUp == /\ attached /\ Size > 0
            /\ \E stop \in Stops :
                 /\ iLine >= stop[1] \/ iWrap >= stop[2]
                 /\ PartUp(iLine, iWrap)
            /\ UNCHANGED <<lineSizes, cols, winRows, attached, stale, prompt>>

\* In a log without lines KEY_UP leaves line 0: stop_wi is never written, and the sizes of
\* line -1 and the lines before it are read in front of the array.
LoggerKeyEmpty == /\ attached /\ Size = 0
                  /\ iLine' \in Garbage /\ iWrap' \in Garbage
                  /\ UNCHANGED <<lineSizes, cols, winRows, attached, stale, prompt>>

LoggerDown ==
  /\ attached /\ Size > 0
  /\ iLine < Size - 1 \/ iWrap < LineSize(Size - 1) - 1
  /\ IF iWrap < LineSize(iLine) - 1 THEN iWrap' = iWrap + 1 /\ UNCHANGED iLine
     ELSE iLine' = iLine + 1 /\ iWrap' = 0
  /\ UNCHANGED <<lineSizes, cols, winRows, attached, stale, prompt>>

\* app_ui_define: ui_logger_define_cb goes to the end, if the window still calls it.
ResizeLogger ==
  \E c \in Cols, r \in Rows :
    /\ cols' = c /\ winRows' = r
    /\ IF attached /\ Size > 0 THEN AtEnd(lineSizes, c)
       ELSE IF attached THEN iLine' = 0 /\ iWrap' = 0 /\ UNCHANGED stale
       ELSE stale' = (stale \/ (Size > 0 /\ c # cols)) /\ UNCHANGED <<iLine, iWrap>>
    /\ UNCHANGED <<lineSizes, attached, prompt>>

\* The other log takes the window, or this one does.
Attach == attached' = ~attached /\ UNCHANGED <<lineSizes, iLine, iWrap, cols, winRows, stale, prompt>>

LoggerNext == \/ Log \/ \E keep \in BOOLEAN : ChatRefresh(keep)
              \/ LoggerUp \/ LoggerKeyEmpty \/ LoggerDown \/ ResizeLogger \/ Attach

WidgetsInit == PromptInit /\ LoggerInit
WidgetsNext == PromptNext \/ LoggerNext

WidgetsSpec == WidgetsInit /\ [][WidgetsNext]_wvars
-----------------------------------------------------------------------------
(* Properties *)

PromptInRange == cleared =>
  /\ 0 <= chCursor /\ chCursor <= bufferLen /\ bufferLen <= Room
  /\ ~resized => /\ displayStart <= chCursor /\ chCursor <= displayStart + width
                 /\ bufferLen > width => displayStart + width <= bufferLen

LoggerInRange == Size > 0 => /\ iLine \in 0..Size - 1
                             /\ ~stale => iWrap \in 0..LineSize(iLine) - 1

\* Once it was cleared the prompt shows the cursor after any key, and nothing beyond the end
\* of a text that fills the window; a log with lines starts drawing inside one, whatever keys
\* it got before it had lines, unless lines were wrapped anew behind its back.
WidgetsInRange == PromptInRange /\ LoggerInRange
=============================================================================
