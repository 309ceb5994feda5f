----------------------------- MODULE StaticMap -----------------------------
(***************************************************************************)
(* How the barrier version of the simulation splits the inner rows of a    *)
(* plate among its threads: a static map by blocks.                        *)
(***************************************************************************)
EXTENDS Integers

\* Threads that will really be used: never more than there are rows.
TeamSize(requested, evaluated_rows) ==
  IF evaluated_rows > requested THEN requested ELSE evaluated_rows

\* Rows given to the threads before thread_number; the first
\* evaluated_rows % thread_count threads get one more.
get_finish_row(thread_number, evaluated_rows, thread_count) ==
  LET residue == evaluated_rows % thread_count
      added   == IF thread_number < residue THEN thread_number ELSE residue
  IN  thread_number * (evaluated_rows \div thread_count) + added

\* First row of a thread and the row after its last one: row 0 is a border,
\* and each thread starts where the previous one finishes.
StartingRow(thread_number, evaluated_rows, thread_count) ==
  get_finish_row(thread_number, evaluated_rows, thread_count) + 1

\* Mistake: the row after the last one taken for the last one.
FinishRowInclusive(thread_number, evaluated_rows, thread_count) ==
  get_finish_row(thread_number + 1, evaluated_rows, thread_count) + 2

FinishRow(thread_number, evaluated_rows, thread_count) ==
  get_finish_row(thread_number + 1, evaluated_rows, thread_count) + 1
=============================================================================
