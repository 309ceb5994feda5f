------------------------------ MODULE BlockMap ------------------------------
(***************************************************************************)
(* How the fork-join version of the simulation splits the inner rows of a  *)
(* plate: blocks of the same length, and the last thread takes what is     *)
(* left, up to the last inner row.                                         *)
(***************************************************************************)
EXTENDS Integers

\* The length of a block: 1 when there are as many threads as rows.
get_intervals(evaluating_rows, thread_count) ==
  IF thread_count < evaluating_rows THEN evaluating_rows \div thread_count
                                    ELSE 1

BlockStart(thread_number, evaluating_rows, thread_count) ==
  thread_number * get_intervals(evaluating_rows, thread_count) + 1

\* Mistakes: the end of a block taken for the row after it; the last thread
\* gets a block like the others.
BlockEndPlusOne(thread_number, evaluating_rows, thread_count) ==
  IF thread_number = thread_count - 1
    THEN evaluating_rows
    ELSE (thread_number + 1) * get_intervals(evaluating_rows, thread_count) + 1

BlockEndSameLength(thread_number, evaluating_rows, thread_count) ==
  (thread_number + 1) * get_intervals(evaluating_rows, thread_count)

\* The last row of a block, included.
BlockEnd(thread_number, evaluating_rows, thread_count) ==
  IF thread_number = thread_count - 1
    THEN evaluating_rows
    ELSE (thread_number + 1) * get_intervals(evaluating_rows, thread_count)
=============================================================================
