------------------------- MODULE MCProviderLifecycle -------------------------
(* The adapters of ProviderLifecycle are interchangeable. *)
EXTENDS ProviderLifecycle, TLC

Symmetric == Permutations(Providers)
==============================================================================
