--------------------------- MODULE MCCommandEngine ---------------------------
(***************************************************************************)
(* Small instances of CommandEngine.                                       *)
(***************************************************************************)
EXTENDS CommandEngine

CONSTANTS e1, e2, e3, c1, c2, turn, turnOfOther, stopTurn, retention

\* A user command, the same content from another principal, a control command that
\* shares its id with it, and a background command.
MCLaneOf  == [r \in Requests |-> CASE r = stopTurn -> "control" [] r = retention -> "normal"
                                    [] OTHER -> "user"]
MCPrintOf == [r \in Requests |-> CASE r = stopTurn -> "p2" [] r = retention -> "p3"
                                    [] OTHER -> "p1"]
MCOwnerOf == [r \in Requests |-> IF r = turnOfOther THEN "o2" ELSE "o1"]

\* The turn has an attachment that the first principal uploaded; or nothing has one.
MCHolderOf == [p \in Prints |-> IF p = "p1" THEN "o1" ELSE None]
MCNoFiles  == [p \in Prints |-> None]

\* A command, and a call that repeats it, alters it, sends it from another principal, shares
\* its id, or is another command; or one call each lane, with any id.
MCRepeats == [e \in Envelopes |-> [c \in Commands |->
                CASE e = e1 /\ c = c1 -> {turn}
                  [] e = e2 /\ c = c1 -> Requests
                  [] e = e2 /\ c = c2 -> {stopTurn}
                  [] OTHER             -> {}]]
MCOneEach == [e \in Envelopes |-> [c \in Commands |->
                CASE e = e1 -> {turn} [] e = e2 -> {stopTurn} [] e = e3 -> {retention}]]

=============================================================================
