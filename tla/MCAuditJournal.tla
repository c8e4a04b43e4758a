--------------------------- MODULE MCAuditJournal ---------------------------
(* Small instances of AuditJournal for TLC. *)
EXTENDS AuditJournal
=============================================================================
