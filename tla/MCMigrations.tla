---------------------------- MODULE MCMigrations ----------------------------
(* Migrations from every earlier version, with any number of crashes and    *)
(* lock conflicts: without a counter of them the state space is finite.     *)
EXTENDS Migrations, TLC

=============================================================================
