------------------------------ MODULE MCMariaDbCud ------------------------------
(* MariaDbCud over the small world of MCStatementCud.                          *)
EXTENDS MariaDbCud, MCStatementCud
=============================================================================
