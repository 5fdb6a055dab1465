------------------------- MODULE MCSqliteAccounting -------------------------
(* Small instances of SqliteAccounting. *)
EXTENDS SqliteAccounting, MCSqliteBackend

=============================================================================
