---------------------------- MODULE MCMigrations ----------------------------
EXTENDS Migrations, TLC

Symmetry == Permutations(Process)
=============================================================================
