--------------------------- MODULE MigrationLedger ---------------------------
(***************************************************************************)
(* What the bookkeeping table of pg-migrate promises its readers, with     *)
(* nothing said about locks, transactions or processes.  A session opens   *)
(* the book for one operation at a time, and the operation decides how the *)
(* book may change:                                                        *)
(*                                                                         *)
(*   up          adds rows at the end;                                     *)
(*   reconcile   removes rows and adds rows at the end;                  *)
(*   down        removes rows from the end;                                *)
(*   forget      removes one row;                                          *)
(*   baseline    fills an empty book, all at once.                         *)
(*                                                                         *)
(* A failed row closes the book to all of them but forget.                 *)
(***************************************************************************)
EXTENDS Sequences, Naturals

CONSTANTS Ids, DownScripts

Row == [id : Ids, down : DownScripts, err : BOOLEAN]
Ops == {"up", "reconcile", "down", "forget", "baseline"}

VARIABLES
  book,        \* the rows, in the order they were added
  session      \* the operation that has the book open, or "none"

vars == <<book, session>>

Init == book = << >> /\ session = "none"

Has(m) == \E k \in DOMAIN book : book[k].id = m
Healthy == \A k \in DOMAIN book : ~book[k].err
Without(k) == SubSeq(book, 1, k - 1) \o SubSeq(book, k + 1, Len(book))

Open(op) == session = "none" /\ session' = op /\ UNCHANGED book
Close == session # "none" /\ session' = "none" /\ UNCHANGED book

\* A row for a new ID goes to the end, healthy or not.
Add(row) ==
  /\ session \in {"up", "reconcile"} /\ Healthy /\ ~Has(row.id)
  /\ book' = Append(book, row)
  /\ UNCHANGED session

Remove(k) ==
  /\ \/ session = "down" /\ k = Len(book)
     \/ session = "reconcile"
  /\ Healthy
  /\ book' = Without(k)
  /\ UNCHANGED session

\* A rollback failed halfway: its row stays, with the error.
Fail(k) ==
  /\ \/ session = "down" /\ k = Len(book)
     \/ session = "reconcile"
  /\ Healthy
  /\ book' = [book EXCEPT ![k].err = TRUE]
  /\ UNCHANGED session

Drop(k) ==
  /\ session = "forget"
  /\ book' = Without(k)
  /\ UNCHANGED session

\* Rows for a set of IDs, in ID order and healthy.
Adopt(s) ==
  /\ session = "baseline" /\ book = << >>
  /\ \A j, k \in DOMAIN s : j < k => s[j].id < s[k].id
  /\ \A k \in DOMAIN s : ~s[k].err
  /\ book' = s
  /\ UNCHANGED session

Next ==
  \/ \E op \in Ops : Open(op)
  \/ Close
  \/ \E row \in Row : Add(row)
  \/ \E k \in DOMAIN book : Remove(k) \/ Fail(k) \/ Drop(k)
  \/ Adopt(book')

Spec == Init /\ [][Next]_vars
=============================================================================
