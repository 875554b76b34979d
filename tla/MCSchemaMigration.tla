------------------------- MODULE MCSchemaMigration -------------------------
(* SchemaMigration for TLC.                                                *)
EXTENDS SchemaMigration
=============================================================================
