----------------------------- MODULE TerminalLog -----------------------------
(***************************************************************************)
(* The output log of a terminal session on disk: appended to with every    *)
(* chunk, cut back to its newer half when it grows past its limit,         *)
(* replayed to a viewer who attaches, deleted when its session is long     *)
(* over.  Pure: a log is the sequence of its bytes, the mark that a        *)
(* rotation leaves is one byte of its own.  A write that fails leaves the  *)
(* log as it was.                                                          *)
(***************************************************************************)
EXTENDS Integers, Sequences, SequencesExt

RotationMark == 0

\* _rotate_log_if_needed: the newer half is kept, behind the mark.
Rotated(log, max) ==
  IF Len(log) <= max THEN log
  ELSE <<RotationMark>> \o SubSeq(log, Len(log) - (max \div 2) + 1, Len(log))

\* _append_chunk_to_log
Appended(log, chunk, max) == Rotated(log \o chunk, max)

\* The log after all the chunks of a session; _create_log_file truncates at its start.
LogOf(chunks, max) == FoldLeft(LAMBDA log, chunk : Appended(log, chunk, max), <<>>, chunks)

\* _replay_log reads it in pieces; nothing is lost between them.
replay_log(log, size) ==
  LET pieces == (Len(log) + size - 1) \div size
      End(i) == IF i * size < Len(log) THEN i * size ELSE Len(log)
  IN [i \in 1..pieces |-> SubSeq(log, (i - 1) * size + 1, End(i))]

\* cleanup_old_logs: the log of a session that ended, or that no row knows any
\* more, when the retention is over since its end or its last write.
Deletable(session, row, retention) ==
  IF row = "none" THEN session.written > retention
  ELSE row = "ended" /\ session.ended > retention

-----------------------------------------------------------------------------
(* Claims *)

Output(chunks) == FlattenSeq(chunks)

\* A viewer who attaches sees the newest output whole: all of it, or half the limit
\* of it at the least, up to the last byte.
ReplayEndsWithOutput(chunks, max, size) ==
  LET shown == FlattenSeq(replay_log(LogOf(chunks, max), size))
      n     == IF Len(Output(chunks)) <= max \div 2 THEN Len(Output(chunks)) ELSE max \div 2
  IN Len(shown) >= n /\ SubSeq(shown, Len(shown) - n + 1, Len(shown))
                        = SubSeq(Output(chunks), Len(Output(chunks)) - n + 1, Len(Output(chunks)))

\* The log never outgrows its limit, and is marked when something is missing.
LogIsBounded(chunks, max) ==
  LET log == LogOf(chunks, max) IN
  /\ Len(log) <= max
  /\ log # Output(chunks) => log[1] = RotationMark

\* The log of a session that runs is never deleted.
LiveLogStays(session, retention) == ~Deletable(session, "running", retention)
=============================================================================
