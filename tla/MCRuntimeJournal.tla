--------------------------- MODULE MCRuntimeJournal ---------------------------
(* Instances of RuntimeJournal for TLC: which events the providers send. *)
EXTENDS RuntimeJournal, TLC

CONSTANTS t, u

Event(turn, kind) == [thread |-> t, turn |-> turn, kind |-> kind]

\* Output of a turn, an end that names no turn, and a duplicate.
MCEvents == {Gap, Event(u, "output"), Event(NoTurn, "turnEnd")}
================================================================================
