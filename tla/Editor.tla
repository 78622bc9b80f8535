------------------------------- MODULE Editor -------------------------------
(***************************************************************************)
(* The entry editor of the menu (common/menu.c, config_entry_editor()):    *)
(* its buffer, the walk that lays the buffer out in a window of the        *)
(* terminal, and the map from cells of the screen back to the buffer.      *)
(*                                                                         *)
(* A character is "a" (any printable one), "tab" or "nl".  Buffer offsets  *)
(* count from 0; x and y count from the first column of the frame and the  *)
(* first row of the window.                                                *)
(***************************************************************************)
EXTENDS Integers, SequencesExt, TLC

CONSTANTS
  Originals,   \* bodies of entries
  MaxBuffer,   \* EDITOR_MAX_BUFFER_SIZE
  LineSize,    \* line_size
  Window,      \* _window_size
  Tab          \* columns from a tab stop to the next

VARIABLES
  pc,          \* "closed", "refresh", "input", "booting" or "failed"
  orig,        \* the body of the selected entry
  buffer,
  cursor,      \* cursor_offset
  row,         \* window_row
  drawn,       \* what the last pass drew
  passes,      \* passes since the last input
  saved,       \* saved_orig_entry, emptied once it has been read
  again        \* booting_from_editor

vars == <<pc, orig, buffer, cursor, row, drawn, passes, saved, again>>

Chars == {"a", "tab", "nl"}
End == "nul"
At(buf, i) == IF i < Len(buf) THEN buf[i + 1] ELSE End
Blank == [row |-> 0, off |-> 0, x |-> 1, y |-> 0, cells |-> << >>, at |-> 0, shown |-> FALSE, cx |-> 1, cy |-> 0]

Init ==
  /\ orig \in Originals
  /\ pc = "closed" /\ again = FALSE
  /\ buffer = << >> /\ cursor = 0 /\ row = 0 /\ drawn = Blank /\ passes = 0 /\ saved = << >>

LineStarts(buf) == {0} \cup {i + 1 : i \in {j \in 0 .. Len(buf) - 1 : At(buf, j) = "nl"}}

(* Where the line of an offset begins, and how long it is from there       *)
get_line_offset(i, buf) == CHOOSE s \in LineStarts(buf) : s <= i /\ \A t \in LineStarts(buf) : t <= i => t <= s

get_line_length(i, buf) ==
  (CHOOSE n \in i .. Len(buf) : At(buf, n) \in {"nl", End} /\ \A m \in i .. n - 1 : At(buf, m) # "nl") - i

Least(a, b) == IF a < b THEN a ELSE b

get_next_line(i, buf) ==
  LET end == i + get_line_length(i, buf)
  IN  IF At(buf, end) = End THEN end
      ELSE end + 1 + Least(i - get_line_offset(i, buf), get_line_length(end + 1, buf))

get_prev_line(i, buf) ==
  LET this == get_line_offset(i, buf)
      prev == get_line_offset(this - 1, buf)
  IN  IF this = 0 THEN 0 ELSE prev + Least(i - this, get_line_length(prev, buf))
-----------------------------------------------------------------------------
(* The walk                                                                *)
Shown(st) == st.row >= row /\ st.row < row + Window

editor_map_cell(st, i) == IF Shown(st) THEN (<<st.x, st.y>> :> i) @@ st.cells ELSE st.cells

MarkCursor(st, i) ==
  IF i # cursor THEN st
  ELSE IF Shown(st) THEN [st EXCEPT !.at = st.row, !.shown = TRUE, !.cx = st.x, !.cy = st.y]
  ELSE [st EXCEPT !.at = st.row]

NextRow(st) ==
  [st EXCEPT !.row = @ + 1, !.x = 1, !.y = IF Shown(st) THEN @ + 1 ELSE @]

(* One cell of a character; the last of a row wraps                        *)
Cell(st, i) ==
  LET put == [st EXCEPT !.cells = editor_map_cell(st, i)]
      wraps == st.off % LineSize = LineSize - 1
      next == IF wraps THEN NextRow(put) ELSE [put EXCEPT !.x = IF Shown(st) THEN @ + 1 ELSE @]
  IN  [next EXCEPT !.off = @ + 1]

Newline(st, i) == [NextRow([st EXCEPT !.cells = editor_map_cell(st, i)]) EXCEPT !.off = 0]

Character(st, i) ==
  LET c == At(buffer, i)
      width == IF c = "tab" THEN Tab - (st.off % Tab) ELSE 1
      marked == MarkCursor(st, i)
  IN  CASE c = End  -> [marked EXCEPT !.cells = editor_map_cell(st, i)]
        [] c = "nl" -> Newline(marked, i)
        [] OTHER    -> FoldLeft(LAMBDA s, k : Cell(s, i), marked, [k \in 1 .. width |-> k])

Walk == FoldLeft(LAMBDA s, k : Character(s, k - 1), Blank, [k \in 1 .. Len(buffer) + 1 |-> k])

(* A bug: the cursor is to be on the row after the window                  *)
BugAnchor(at) == IF at >= row + Window THEN at - Window ELSE at

Anchor(at) == IF at >= row + Window THEN at - Window + 1 ELSE at

Draw ==
  /\ pc = "refresh"
  /\ \E w \in {Walk} :
       /\ drawn' = w
       /\ IF ~w.shown /\ Anchor(w.at) # row
          THEN row' = Anchor(w.at) /\ UNCHANGED pc
          ELSE pc' = "input" /\ UNCHANGED row
  /\ passes' = passes + 1
  /\ UNCHANGED <<orig, buffer, cursor, saved, again>>
-----------------------------------------------------------------------------
Refresh(buf, c) ==
  /\ buffer' = buf /\ cursor' = c
  /\ pc' = "refresh" /\ passes' = 0 /\ drawn' = Blank
  /\ UNCHANGED <<orig, row, saved, again>>

(* Input                                                                   *)
editor_cell_to_offset(x, y) ==
  LET left == {c \in DOMAIN drawn.cells : c[2] = y /\ c[1] <= x}
  IN  IF left = {} THEN -1 ELSE drawn.cells[CHOOSE c \in left : \A d \in left : d[1] <= c[1]]

Click(x, y) ==
  /\ editor_cell_to_offset(x, y) # -1
  /\ Refresh(buffer, editor_cell_to_offset(x, y))

Move ==
  \/ Refresh(buffer, get_next_line(cursor, buffer))
  \/ Refresh(buffer, get_prev_line(cursor, buffer))
  \/ Refresh(buffer, IF cursor > 0 THEN cursor - 1 ELSE 0)
  \/ Refresh(buffer, IF cursor < Len(buffer) THEN cursor + 1 ELSE cursor)
  \/ Refresh(buffer, get_line_offset(cursor, buffer))
  \/ Refresh(buffer, cursor + get_line_length(cursor, buffer))

Without(i) == IF i < Len(buffer) THEN RemoveAt(buffer, i + 1) ELSE buffer

Delete ==
  \/ Refresh(Without(cursor), cursor)
  \/ IF cursor > 0 THEN Refresh(Without(cursor - 1), cursor - 1) ELSE Refresh(buffer, cursor)

Insert(c) ==
  IF Len(buffer) < MaxBuffer - 1 THEN Refresh(InsertAt(buffer, cursor + 1, c), cursor + 1)
  ELSE Refresh(buffer, cursor)

Input ==
  /\ pc = "input"
  /\ \/ Move \/ Delete \/ \E c \in Chars : Insert(c)
     \/ \E x \in 0 .. LineSize + 1, y \in 0 .. Window - 1 : Click(x, y)
-----------------------------------------------------------------------------
(* Opening and leaving                                                     *)
Stripped(body) ==
  LET start == CHOOSE i \in 0 .. Len(body) : At(body, i) # "nl" /\ \A j \in 0 .. i - 1 : At(body, j) = "nl"
  IN  SubSeq(body, start + 1, Len(body))

config_entry_editor ==
  /\ pc = "closed"
  /\ LET body == Stripped(IF again THEN saved ELSE orig)
     IN  IF Len(body) >= MaxBuffer THEN pc' = "failed" /\ UNCHANGED buffer
         ELSE pc' = "refresh" /\ buffer' = body
  /\ cursor' = 0 /\ row' = 0 /\ passes' = 0 /\ drawn' = Blank
  /\ saved' = << >>
  /\ UNCHANGED <<orig, again>>

Closed == buffer' = << >> /\ cursor' = 0 /\ row' = 0 /\ drawn' = Blank /\ passes' = 0

Discard ==
  /\ pc = "input"
  /\ pc' = "closed" /\ again' = FALSE
  /\ Closed
  /\ UNCHANGED <<orig, saved>>

F10 ==
  /\ pc = "input"
  /\ saved' = buffer /\ again' = TRUE /\ pc' = "booting"
  /\ Closed
  /\ UNCHANGED orig

(* The boot fails, and the menu opens the editor once more                 *)
Return ==
  /\ pc = "booting"
  /\ pc' = "closed"
  /\ UNCHANGED <<orig, buffer, cursor, row, drawn, passes, saved, again>>

Next == Draw \/ Input \/ config_entry_editor \/ Discard \/ F10 \/ Return

Spec == Init /\ [][Next]_vars
-----------------------------------------------------------------------------
(* The layout, said without a walk: columns are counted from the start of  *)
(* a line, and a line takes a row for every LineSize of them               *)
RECURSIVE Column(_)
Column(i) ==
  IF i = get_line_offset(i, buffer) THEN 0
  ELSE LET before == Column(i - 1)
       IN  before + (IF At(buffer, i - 1) = "tab" THEN Tab - (before % Tab) ELSE 1)

RECURSIVE FirstRow(_)
FirstRow(s) ==
  IF s = 0 THEN 0
  ELSE FirstRow(get_line_offset(s - 1, buffer)) + (Column(s - 1) \div LineSize) + 1

RowOf(i) == FirstRow(get_line_offset(i, buffer)) + (Column(i) \div LineSize)

Place(i) == <<1 + (Column(i) % LineSize), RowOf(i) - row>>

(* While it waits for input, the editor shows the cursor, on the cell of   *)
(* the character it is at and nowhere else, whatever was typed, deleted,   *)
(* wrapped or scrolled; the cells that a click can hit belong to the       *)
(* characters that are there; and the window is placed in two passes.      *)
CursorOnScreen ==
  /\ passes <= 2
  /\ cursor <= Len(buffer) /\ Len(buffer) < MaxBuffer
  /\ pc = "input" =>
       /\ <<drawn.cx, drawn.cy>> = Place(cursor) /\ drawn.cy \in 0 .. Window - 1
       /\ \A i \in 0 .. Len(buffer) :
            Place(i)[2] \in 0 .. Window - 1 => Place(i) \in DOMAIN drawn.cells /\ drawn.cells[Place(i)] = i
       /\ \A c \in DOMAIN drawn.cells :
            c[1] \in 1 .. LineSize /\ c[2] \in 0 .. Window - 1 /\ drawn.cells[c] \in 0 .. Len(buffer)
=============================================================================
