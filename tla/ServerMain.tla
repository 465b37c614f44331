------------------------------- MODULE ServerMain -------------------------------
(***************************************************************************)
(* The server's main process: processServer (server.c) receives a datagram *)
(* and forks a child for it, through forkMod (network-hooks.c), which      *)
(* gives the child a seed of its own; SIGCHLD interrupts it between any    *)
(* two steps and handleZombies reaps the children that have ended.         *)
(*                                                                         *)
(* A signal that is pending is not pending twice, and SIGCHLD is blocked   *)
(* while its handler runs.  The Makefile compiles with gnu99: signal is    *)
(* the BSD one, so the handler stays installed and recvfrom is restarted.  *)
(***************************************************************************)
EXTENDS Integers

CONSTANTS
  Datagrams,     \* the datagrams sent to the server's port
  Children,      \* the processes there may be at a time
  Nobody         \* no datagram

ASSUME NobodyAssumption == Nobody \notin Datagrams

\* What sendErr_init seeds the main process with, unless the environment does.
RANDOM_SEED == 10

VARIABLES
  main,          \* what processServer is doing; "exited": fork failed
  queue,         \* the datagrams in the socket
  arrived,       \* history: those that were ever in it
  buffer,        \* the datagram in buffer and client
  process,       \* the process table: "free", "running" or "zombie"
  first_PDU,     \* the datagram each child was forked for
  sigchld,       \* is SIGCHLD pending?
  handling,      \* is handleZombies running?
  seedSet,       \* is CPE464_OVERRIDE_SEEDRAND set?
  nextSeed,
  seed           \* the seed each child draws its errors with

netSide == <<queue, arrived>>
serverVars == <<main, queue, arrived, buffer, process, first_PDU, sigchld, handling,
                seedSet, nextSeed, seed>>

ServerInit ==
  /\ main = "recvfrom" /\ queue = {} /\ arrived = {} /\ buffer = Nobody
  /\ process = [c \in Children |-> "free"]
  /\ first_PDU = [c \in Children |-> Nobody]
  /\ sigchld = FALSE /\ handling = FALSE
  /\ seedSet \in BOOLEAN
  /\ nextSeed = RANDOM_SEED + 1
  /\ seed = [c \in Children |-> RANDOM_SEED]

Arrival(d) ==
  /\ d \notin arrived
  /\ queue' = queue \cup {d} /\ arrived' = arrived \cup {d}
  /\ UNCHANGED <<main, buffer, process, first_PDU, sigchld, handling, seedSet,
                 nextSeed, seed>>

-----------------------------------------------------------------------------
(* processServer *)

\* Mutant: a call that failed is taken for one that returned a datagram.
Recvfrom_Unchecked(d) ==
  /\ main = "recvfrom" /\ ~handling
  /\ \/ d \in queue /\ queue' = queue \ {d} /\ buffer' = d
     \/ UNCHANGED <<queue, buffer>>
  /\ main' = "fork"
  /\ UNCHANGED <<arrived, process, first_PDU, sigchld, handling, seedSet, nextSeed, seed>>

\* safeRecvfrom returns with a datagram, or ends the process.
Recvfrom(d) ==
  /\ main = "recvfrom" /\ ~handling
  /\ d \in queue
  /\ queue' = queue \ {d}
  /\ buffer' = d
  /\ main' = "fork"
  /\ UNCHANGED <<arrived, process, first_PDU, sigchld, handling, seedSet, nextSeed, seed>>

\* Mutant: nextSeed is incremented in the child, whose copy nobody reads again.
forkMod_InChild(c) ==
  /\ seed' = [seed EXCEPT ![c] = IF seedSet THEN RANDOM_SEED ELSE nextSeed]
  /\ UNCHANGED nextSeed

\* The seed the child is given; setUserMode_SeedRand refuses when the environment
\* has set one, and the child goes on with its parent's.
forkMod(c) ==
  /\ nextSeed' = nextSeed + 1
  /\ seed' = [seed EXCEPT ![c] = IF seedSet THEN RANDOM_SEED ELSE nextSeed]

\* Mutant: the loop does not go back to recvfrom.
Fork_Again(c) ==
  /\ main = "fork" /\ ~handling
  /\ process[c] = "free"
  /\ process' = [process EXCEPT ![c] = "running"]
  /\ first_PDU' = [first_PDU EXCEPT ![c] = buffer]
  /\ forkMod(c)
  /\ UNCHANGED <<main, netSide, buffer, sigchld, handling, seedSet>>

\* The child has a copy of buffer and client; the parent goes back to recvfrom.
Fork(c) ==
  /\ main = "fork" /\ ~handling
  /\ process[c] = "free"
  /\ process' = [process EXCEPT ![c] = "running"]
  /\ first_PDU' = [first_PDU EXCEPT ![c] = buffer]
  /\ forkMod(c)
  /\ main' = "recvfrom"
  /\ UNCHANGED <<netSide, buffer, sigchld, handling, seedSet>>

\* "fork failed": there is no process left, zombies counted, or no memory.
ForkFails ==
  /\ main = "fork" /\ ~handling
  /\ main' = "exited"
  /\ UNCHANGED <<netSide, buffer, process, first_PDU, sigchld, handling, seedSet,
                 nextSeed, seed>>

-----------------------------------------------------------------------------
(* The children's ends and handleZombies *)

\* Some child ends: a zombie until it is waited for, by init when the server is gone.
Exit(c) ==
  /\ process[c] = "running"
  /\ process' = [process EXCEPT ![c] = IF main = "exited" THEN "free" ELSE "zombie"]
  /\ sigchld' = (main # "exited")
  /\ UNCHANGED <<main, netSide, buffer, first_PDU, handling, seedSet, nextSeed, seed>>

\* The zombies of a server that is gone.
Orphan(c) ==
  /\ main = "exited" /\ process[c] = "zombie"
  /\ process' = [process EXCEPT ![c] = "free"]
  /\ UNCHANGED <<main, netSide, buffer, first_PDU, sigchld, handling, seedSet,
                 nextSeed, seed>>

Signal ==
  /\ sigchld /\ ~handling /\ main # "exited"
  /\ sigchld' = FALSE /\ handling' = TRUE
  /\ UNCHANGED <<main, netSide, buffer, process, first_PDU, seedSet, nextSeed, seed>>

\* Mutant: one child is waited for at each signal.
Waitpid_Once(c) ==
  /\ handling /\ process[c] = "zombie"
  /\ process' = [process EXCEPT ![c] = "free"]
  /\ handling' = FALSE
  /\ UNCHANGED <<main, netSide, buffer, first_PDU, sigchld, seedSet, nextSeed, seed>>

\* waitpid returned the number of a child.
Waitpid(c) ==
  /\ handling /\ process[c] = "zombie"
  /\ process' = [process EXCEPT ![c] = "free"]
  /\ UNCHANGED <<main, netSide, buffer, first_PDU, sigchld, handling, seedSet,
                 nextSeed, seed>>

\* Mutant: the loop goes on while waitpid returns 0, that is, while a child runs.
HandlerReturns_WhenAllEnded ==
  /\ handling /\ \A c \in Children : process[c] = "free"
  /\ handling' = FALSE
  /\ UNCHANGED <<main, netSide, buffer, process, first_PDU, sigchld, seedSet,
                 nextSeed, seed>>

\* waitpid returned 0, the children there are still run, or -1, there are none.
HandlerReturns ==
  /\ handling /\ \A c \in Children : process[c] # "zombie"
  /\ handling' = FALSE
  /\ UNCHANGED <<main, netSide, buffer, process, first_PDU, sigchld, seedSet,
                 nextSeed, seed>>

-----------------------------------------------------------------------------

MainStep ==
  \/ \E d \in Datagrams : Recvfrom(d)
  \/ \E c \in Children : Fork(c) \/ Waitpid(c)
  \/ ForkFails \/ Signal \/ HandlerReturns

ServerNext ==
  \/ MainStep
  \/ \E d \in Datagrams : Arrival(d)
  \/ \E c \in Children : Exit(c) \/ Orphan(c)

\* The main process does not stop between two calls, recvfrom returns when there
\* is a datagram and a pending signal is delivered.  No child need ever end.
ServerSpec == ServerInit /\ [][ServerNext]_serverVars /\ WF_serverVars(MainStep)

-----------------------------------------------------------------------------

\* Every variable has the type its declaration in the code gives it, and a child is
\* forked for a datagram that was received: before the first, buffer and client are
\* uninitialized (server.c).
ServerTypeOK ==
  /\ main \in {"recvfrom", "fork", "exited"}
  /\ queue \subseteq Datagrams /\ arrived \subseteq Datagrams
  /\ buffer \in Datagrams \cup {Nobody}
  /\ process \in [Children -> {"free", "running", "zombie"}]
  /\ first_PDU \in [Children -> Datagrams \cup {Nobody}]
  /\ \A c \in Children : process[c] # "free" => first_PDU[c] \in Datagrams
  /\ sigchld \in BOOLEAN /\ handling \in BOOLEAN /\ seedSet \in BOOLEAN
  /\ nextSeed \in Nat /\ seed \in [Children -> Nat]

\* A child that has ended is never forgotten, however many end before one signal
\* is delivered or while its handler runs: the handler is at work, or will be.
ZombieNoticed ==
  \A c \in Children :
    process[c] = "zombie" => main = "exited" \/ sigchld \/ handling

\* "so any child forked will have a different seed value" (network-hooks.c), also
\* from one another, unless the environment sets the seed.
SeedsDiffer ==
  \A c \in Children :
    ~seedSet /\ process[c] # "free" =>
      /\ seed[c] # RANDOM_SEED
      /\ \A b \in Children : process[b] # "free" /\ seed[b] = seed[c] => b = c

\* Every child is reaped after it has ended, though others go on for ever.
ZombiesReaped ==
  \A c \in Children : process[c] = "zombie" ~> process[c] # "zombie" \/ main = "exited"

\* Every datagram that arrives is taken, whatever children end meanwhile and
\* though none of them does, unless a fork fails for one of them.
ArrivedIsTaken == \A d \in Datagrams : d \in queue ~> d \notin queue \/ main = "exited"

Handed == INSTANCE Dispatch WITH
  waiting <- queue \cup (IF main = "fork" THEN {buffer} ELSE {}),
  serving <- [c \in Children |-> IF process[c] = "free" THEN Nobody ELSE first_PDU[c]],
  up <- main # "exited"

\* Receiving, forking and the signals between them amount to one step that hands
\* one datagram to one process of its own: none is lost, none is served twice.
HandedToOneChild == Handed!DispatchSpec

=============================================================================
