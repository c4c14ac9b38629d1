-------------------------- MODULE MCSqliteNodeLog --------------------------
(* Small instances of the SQLite node log; processes are interchangeable.  *)
EXTENDS SqliteNodeLog, TLC

ProcSymmetry == Permutations(Procs)
=============================================================================
