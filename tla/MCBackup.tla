------------------------------ MODULE MCBackup ------------------------------
\* Instances of Backup for TLC.
EXTENDS Backup, TLC

CONSTANTS run1, run2

Symmetry == Permutations(Runs)
=============================================================================
