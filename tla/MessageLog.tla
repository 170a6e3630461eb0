----------------------------- MODULE MessageLog -----------------------------
(***************************************************************************)
(* The append-only table pipeline_message of one version, as the engine's  *)
(* queries see it.                                                         *)
(*                                                                         *)
(* Every query of the engine has the same shape: it takes the message with *)
(* the highest seq among those of some class (a kind, a stage and a payload *)
(* flag), or it compares the highest seq of two classes.  A log is         *)
(* therefore abstracted to the classes that occur in it and the order of   *)
(* their latest occurrences:                                               *)
(*                                                                         *)
(*   seen   the classes with at least one message                          *)
(*   newer  the pairs <<a, b>> of distinct classes in seen such that the   *)
(*          latest message of class a has a higher seq than the latest     *)
(*          message of class b                                             *)
(*                                                                         *)
(* The abstraction is exact for these queries (LogIsExact) and needs no    *)
(* bound on the length of the log.                                         *)
(***************************************************************************)
EXTENDS Naturals, Sequences

EmptyLog == [seen |-> {}, newer |-> {}]

\* Insert a message of class k: the identity column seq makes it the newest.
Record(log, k) ==
  [seen  |-> log.seen \cup {k},
   newer |-> {p \in log.newer : p[1] # k /\ p[2] # k}
               \cup {<<k, j>> : j \in log.seen \ {k}}]

\* SELECT ... WHERE class = k LIMIT 1: some message of the class exists.
Has(log, k) == k \in log.seen

\* max(seq) of class a is higher than max(seq) of class b, both non-NULL.
Newer(log, a, b) == <<a, b>> \in log.newer

\* The latest message of class a has no message of class b after it.
NotOutrankedBy(log, a, b) == Has(log, a) /\ ~Newer(log, b, a)

\* The message with the highest seq of the whole log is of class k.
IsLatest(log, k) == Has(log, k) /\ \A j \in log.seen \ {k} : Newer(log, k, j)

\* All logs over a set of classes (the shape only).
Logs(Classes) == [seen : SUBSET Classes, newer : SUBSET (Classes \X Classes)]

-----------------------------------------------------------------------------
(* Claims, of the rows of the table: the classes of the messages by their seq *)

\* Some message of class a comes after every message of class b.
After(rows, a, b) == \E i \in DOMAIN rows : rows[i] = a /\ \A j \in DOMAIN rows : rows[j] = b => j < i

\* The log that rows are abstracted to.
LogOf(rows) ==
  LET classes == {rows[i] : i \in DOMAIN rows} IN
  [seen |-> classes, newer |-> {p \in classes \X classes : After(rows, p[1], p[2])}]

\* Nothing is lost by the abstraction: a message recorded in the log is one more row,
\* and every query reads from the log what it reads from the rows.
LogIsExact(rows, a, b) ==
  LET log == LogOf(rows) IN
  /\ Record(log, a) = LogOf(Append(rows, a))
  /\ Has(log, a) <=> \E i \in DOMAIN rows : rows[i] = a
  /\ IsLatest(log, a) <=> rows # <<>> /\ rows[Len(rows)] = a
  /\ Newer(log, a, b) <=> Has(log, b) /\ After(rows, a, b)
  /\ NotOutrankedBy(log, a, b) <=> Has(log, a) /\ ~After(rows, b, a)
=============================================================================
