-------------------------------- MODULE Dispatch --------------------------------
(***************************************************************************)
(* What a server that forks promises, and what ForkIntact and ForkFlipped  *)
(* of module Receiver assume: every datagram is handed to one process of   *)
(* its own, in one step, until the server stops because a fork failed.     *)
(***************************************************************************)

CONSTANTS
  Datagrams,     \* the datagrams that may arrive, each once
  Children,      \* the processes there may be at a time
  Nobody         \* what a process that does not exist serves

VARIABLES
  arrived,       \* the datagrams that have arrived
  waiting,       \* those not handed to a process yet
  serving,       \* the datagram each process was forked for
  up             \* is the server running?

dispatchVars == <<arrived, waiting, serving, up>>

DispatchInit ==
  arrived = {} /\ waiting = {} /\ serving = [c \in Children |-> Nobody] /\ up = TRUE

Arrive(d) ==
  /\ d \notin arrived
  /\ arrived' = arrived \cup {d} /\ waiting' = waiting \cup {d}
  /\ UNCHANGED <<serving, up>>

Serve(d, c) ==
  /\ up /\ d \in waiting /\ serving[c] = Nobody
  /\ waiting' = waiting \ {d}
  /\ serving' = [serving EXCEPT ![c] = d]
  /\ UNCHANGED <<arrived, up>>

Leave(c) ==
  /\ serving[c] # Nobody
  /\ serving' = [serving EXCEPT ![c] = Nobody]
  /\ UNCHANGED <<arrived, waiting, up>>

\* The datagram whose fork failed is lost with the server.
Stop(d) ==
  /\ up /\ d \in waiting
  /\ up' = FALSE
  /\ waiting' = waiting \ {d}
  /\ UNCHANGED <<arrived, serving>>

DispatchNext ==
  \/ \E d \in Datagrams : Arrive(d) \/ Stop(d)
  \/ \E d \in Datagrams, c \in Children : Serve(d, c)
  \/ \E c \in Children : Leave(c)

DispatchSpec == DispatchInit /\ [][DispatchNext]_dispatchVars

=============================================================================
