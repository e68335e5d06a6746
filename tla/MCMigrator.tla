------------------------------ MODULE MCMigrator ------------------------------
(* Values for TLC.  Dogus and blueprints are interchangeable.                *)
EXTENDS Migrator, TLC

CONSTANTS d1, d2, b1, b2

TwoDogus == {d1, d2}
OneDogu == {d1}
TwoBlueprints == {b1, b2}
OneBlueprint == {b1}
Symmetric == Permutations(TwoDogus) \cup Permutations(TwoBlueprints)

=============================================================================
