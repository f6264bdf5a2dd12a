---------------------------- MODULE MCNamespaces ----------------------------
(***************************************************************************)
(* Applications that share target namespaces, on small instances.          *)
(***************************************************************************)
EXTENDS NamespaceOwnership, TLC

(* Nothing tells two Applications, or two namespaces, apart.               *)
Symmetry == Permutations(Apps) \cup Permutations(Namespaces)
=============================================================================
