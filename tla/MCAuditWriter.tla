---------------------------- MODULE MCAuditWriter ----------------------------
(***************************************************************************)
(* An instance of AuditWriter for TLC: one row refers to an entity that may *)
(* be deleted, the others to none.                                          *)
(***************************************************************************)
EXTENDS AuditWriter

CONSTANTS keyed, e1

MCRefersTo == [row \in Rows |-> IF row = keyed THEN {e1} ELSE {}]
=============================================================================
