------------------------------ MODULE RowOrder ------------------------------
(***************************************************************************)
(* The rows of the dashboard as sequences of row keys: the order in which  *)
(* they are shown (tui/dashboard/order.py), their blocks and buckets       *)
(* (buckets.py, ui_state.py), and the cursor of the list that shows them   *)
(* (widgets/session_list_view.py).  Indices start at 0, as in the code.    *)
(* A key stands for one session identity; recency within a host is the     *)
(* order of that host's listing, and nothing else of a row matters here.   *)
(***************************************************************************)
EXTENDS Integers, SequencesExt

IndexOf(rows, k) == SelectInSeq(rows, LAMBDA r : r = k) - 1     \* -1: absent

\* The rows that are kept, in their order.
Keep(acc, keep, k) == IF k \in keep THEN Append(acc, k) ELSE acc
Only(rows, keep) == FoldLeft(LAMBDA acc, k : Keep(acc, keep, k), <<>>, rows)

\* Mutant of Place: every refresh sorts by recency again.
PlaceSorted(order, model) == model

Walk(acc, kept, k) ==
  IF Contains(kept, k)
  THEN [acc EXCEPT !.at = IndexOf(acc.rows, k) + 1]
  ELSE [rows |-> InsertAt(acc.rows, acc.at + 1, k), at |-> acc.at + 1]

(***************************************************************************)
(* place: established rows keep their order, rows that are gone drop out,  *)
(* and a new row goes right behind the row that precedes it in model order.*)
(***************************************************************************)
Place(order, model) ==
  LET kept == Only(order, Range(model))
  IN FoldLeft(LAMBDA acc, k : Walk(acc, kept, k), [rows |-> kept, at |-> 0], model).rows

\* compute_block_starts: where the block of a row differs from the row above.
BlockStarts(rows, Block(_)) ==
  SelectSeq([i \in DOMAIN rows |-> i - 1],
            LAMBDA i : i > 0 => Block(rows[i + 1]) # Block(rows[i]))

\* active_block_index and next_block_start; starts has two members or more.
ActiveBlock(starts, cursor) ==
  Max({0} \union {b \in 0..Len(starts) - 1 : starts[b + 1] <= cursor})
NextBlockStart(starts, cursor, direction) ==
  starts[((ActiveBlock(starts, cursor) + direction) % Len(starts)) + 1]

\* set_rows and move_cursor keep the cursor on a row, or on 0 without rows.
Clamp(i, rows) == Max({0, Min({i, Len(rows) - 1})})

NoRow == [none |-> TRUE]
RowAt(rows, cursor) == IF cursor < Len(rows) THEN [key |-> rows[cursor + 1]] ELSE NoRow

\* Mutant of PinCursor: only the bounds are kept.
ClampOnly(cursor, rows, key) == Clamp(cursor, rows)

\* pin_cursor_to, after set_rows has clamped the cursor.
PinCursor(cursor, rows, row) ==
  IF row # NoRow /\ Contains(rows, row.key)
  THEN IndexOf(rows, row.key)
  ELSE Clamp(cursor, rows)
=============================================================================
