------------------------------ MODULE MCMsSqlCud ------------------------------
(* MsSqlCud over the small world of MCStatementCud.                          *)
EXTENDS MsSqlCud, MCStatementCud
=============================================================================
