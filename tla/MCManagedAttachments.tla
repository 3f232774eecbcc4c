------------------------- MODULE MCManagedAttachments -------------------------
(* A file of the loopback client and one of a paired client. *)
EXTENDS ManagedAttachments

CONSTANTS mine, paired, here, there

MCOwner == (mine :> here) @@ (paired :> there)
=============================================================================
