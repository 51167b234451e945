----------------------------- MODULE MCProactor -----------------------------
\* Small instances of Proactor: descriptors can be exchanged.
EXTENDS Proactor, TLC

\* Both proactors, and every combination of the options except ops_greedy without
\* proactor_greedy.
MCConfigs == {cfg \in Config : cfg.proactor_greedy \/ ~cfg.ops_greedy}

Symmetry == Permutations(Fd)
=============================================================================
