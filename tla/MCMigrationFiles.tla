-------------------------- MODULE MCMigrationFiles --------------------------
(***************************************************************************)
(* Instances of MigrationFiles: three invocations, two slugs.              *)
(***************************************************************************)
EXTENDS MigrationFiles, TLC

MCSlugs == {"add_posts", "create_users"}
Symmetry == Permutations(Processes)
=============================================================================
