--------------------------- MODULE MCMigrations ---------------------------
(* The instance of Migrations that TLC checks: the first file is of the    *)
(* kind that runs twice, as most are, the others are not.                  *)
EXTENDS Migrations

MCRerunnable == {1}
=============================================================================
