------------------------- MODULE MCPostgresNodeLog -------------------------
(* Small instances of the PostgreSQL node log.  One slot: transactions on  *)
(* different slots of the table never meet.                                *)
EXTENDS PostgresNodeLog

=============================================================================
