------------------------- MODULE MCProviderDelivery -------------------------
(* Four event logs for TLC, explored with their prefixes: a turn behind a    *)
(* turn and its interrupt, an archival behind a turn, turns of two threads,  *)
(* and the deletion of a thread.                                             *)
EXTENDS ProviderDelivery

CONSTANTS t1, t2

On(t, kind) == [thread |-> t, kind |-> kind]

MCLogs == {<<On(t1, "turnStart"), On(t1, "interrupt"), On(t1, "turnStart")>>,
           <<On(t1, "turnStart"), On(t1, "archived")>>,
           <<On(t1, "turnStart"), On(t2, "turnStart")>>,
           <<On(t1, "turnQueued"), On(t1, "deleted")>>}
=============================================================================
