------------------------------ MODULE LogReader ------------------------------
(***************************************************************************)
(* What the engine's event stream promises a subscriber: from the position *)
(* at which it attached it receives the published events in order, each    *)
(* once, and it passes over a sequence number only when that row is gone   *)
(* from the log.  As long as it stays attached it receives every published *)
(* event.                                                                  *)
(***************************************************************************)
EXTENDS Integers

CONSTANT Readers

VARIABLES rows,      \* the sequence numbers of the events in the log
          last,      \* the last sequence number the log has assigned
          published, \* the events up to here have been announced
          position   \* per reader: the last event received, or Detached

readerVars == <<rows, last, published, position>>

Detached == -1

ReaderInit == /\ rows = {}
              /\ last = 0
              /\ published = 0
              /\ position = [s \in Readers |-> Detached]

AppendRows ==
  /\ last' \in Nat
  /\ last' > last
  /\ rows' = rows \cup ((last + 1) .. last')
  /\ UNCHANGED <<published, position>>

Purge ==
  /\ rows' \in SUBSET rows
  /\ UNCHANGED <<last, published, position>>

Announce ==
  /\ published' \in published .. last
  /\ UNCHANGED <<rows, last, position>>

Join(s) ==
  /\ position[s] = Detached
  /\ position' = [position EXCEPT ![s] = published]
  /\ UNCHANGED <<rows, last, published>>

Leave(s) ==
  /\ position' = [position EXCEPT ![s] = Detached]
  /\ UNCHANGED <<rows, last, published>>

\* The next event received: nothing between it and the position is in the log.
Receive(s) ==
  /\ position[s] # Detached
  /\ \E q \in (position[s] + 1) .. published :
       /\ \A r \in rows : ~(position[s] < r /\ r < q)
       /\ position' = [position EXCEPT ![s] = q]
  /\ UNCHANGED <<rows, last, published>>

\* A published event is in the log and not yet received.
Due(s) == \E r \in rows : position[s] < r /\ r <= published

\* The process restarts: every reader is gone.
Reset ==
  /\ published' \in 0 .. last
  /\ position' = [s \in Readers |-> Detached]
  /\ UNCHANGED <<rows, last>>

ReaderNext == \/ AppendRows
              \/ Purge
              \/ Announce
              \/ Reset
              \/ \E s \in Readers : Join(s) \/ Leave(s) \/ Receive(s)

ReaderSpec == /\ ReaderInit
              /\ [][ReaderNext]_readerVars
              /\ \A s \in Readers : WF_readerVars(Due(s) /\ Receive(s))

=============================================================================
