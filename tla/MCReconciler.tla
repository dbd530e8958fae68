------------------------------ MODULE MCReconciler ------------------------------
\* Instances of Reconciler for TLC.
EXTENDS Reconciler, TLC

Interchangeable == Permutations(Callers)
=============================================================================
