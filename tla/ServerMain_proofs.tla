---------------------------- MODULE ServerMain_proofs ----------------------------
(***************************************************************************)
(* The server's main process, for any number of datagrams and processes:   *)
(* the type invariant, no zombie is forgotten, no two children share a     *)
(* seed, and ServerMain implements Dispatch.                               *)
(***************************************************************************)
EXTENDS ServerMain, TLAPS

\* The datagram about to be handed over has been taken off the queue.
HeldInv ==
  /\ main = "fork" => buffer \in Datagrams /\ buffer \notin queue
  /\ main = "fork" => buffer \in arrived
  /\ queue \subseteq arrived

\* A seed that was given is smaller than the next one, and none is the main
\* process's own.
SeedInv ==
  /\ nextSeed > RANDOM_SEED
  /\ \A c \in Children :
       ~seedSet /\ process[c] # "free" => seed[c] > RANDOM_SEED /\ seed[c] < nextSeed
  /\ SeedsDiffer

ServerInv == ServerTypeOK /\ ZombieNoticed /\ HeldInv /\ SeedInv

-----------------------------------------------------------------------------

LEMMA ServerInvInit == ServerInit => ServerInv
<1>1. ServerInit => ServerTypeOK
  <2>1. SUFFICES ASSUME ServerInit PROVE ServerTypeOK
    OBVIOUS
  <2>2. nextSeed \in Nat /\ seed \in [Children -> Nat]
    BY <2>1 DEF ServerInit, RANDOM_SEED
  <2>3. /\ process \in [Children -> {"free", "running", "zombie"}]
        /\ first_PDU \in [Children -> Datagrams \cup {Nobody}]
    BY <2>1 DEF ServerInit
  <2>4. sigchld \in BOOLEAN /\ handling \in BOOLEAN /\ seedSet \in BOOLEAN
    BY <2>1, Zenon DEF ServerInit
  <2> QED
    BY <2>1, <2>2, <2>3, <2>4 DEF ServerInit, ServerTypeOK
<1>2. ServerInit => ZombieNoticed
  BY DEF ServerInit, ZombieNoticed
<1>3. ServerInit => HeldInv
  BY DEF ServerInit, HeldInv
<1>4. ServerInit => SeedInv
  BY DEF ServerInit, SeedInv, SeedsDiffer, RANDOM_SEED
<1> QED
  BY <1>1, <1>2, <1>3, <1>4 DEF ServerInv

LEMMA TypeStep == ServerTypeOK /\ HeldInv /\ [ServerNext]_serverVars => ServerTypeOK'
<1>1. SUFFICES ASSUME ServerTypeOK, HeldInv, [ServerNext]_serverVars PROVE ServerTypeOK'
  OBVIOUS
<1>2. ASSUME NEW d \in Datagrams, Recvfrom(d) \/ Arrival(d) PROVE ServerTypeOK'
  BY <1>1, <1>2 DEF Recvfrom, Arrival, ServerTypeOK
<1>3. ASSUME NEW c \in Children, Fork(c) PROVE ServerTypeOK'
  BY <1>1, <1>3 DEF Fork, forkMod, ServerTypeOK, HeldInv, netSide, RANDOM_SEED
<1>4. ASSUME NEW c \in Children, Waitpid(c) \/ Exit(c) \/ Orphan(c) PROVE ServerTypeOK'
  BY <1>1, <1>4 DEF Waitpid, Exit, Orphan, ServerTypeOK, netSide
<1>5. ASSUME ForkFails \/ Signal \/ HandlerReturns PROVE ServerTypeOK'
  BY <1>1, <1>5 DEF ForkFails, Signal, HandlerReturns, ServerTypeOK, netSide
<1>6. CASE UNCHANGED serverVars
  BY <1>1, <1>6 DEF serverVars, ServerTypeOK
<1> QED
  BY <1>1, <1>2, <1>3, <1>4, <1>5, <1>6 DEF ServerNext, MainStep

\* A child that ends leaves a signal, and the handler returns only when it has
\* found no zombie.
LEMMA ZombieStep ==
  ServerTypeOK /\ ZombieNoticed /\ [ServerNext]_serverVars => ZombieNoticed'
<1>1. SUFFICES ASSUME ServerTypeOK, ZombieNoticed, [ServerNext]_serverVars
               PROVE  ZombieNoticed'
  OBVIOUS
<1>2. ASSUME NEW d \in Datagrams, Recvfrom(d) \/ Arrival(d) PROVE ZombieNoticed'
  BY <1>1, <1>2 DEF Recvfrom, Arrival, ZombieNoticed
<1>3. ASSUME NEW c \in Children, Fork(c) PROVE ZombieNoticed'
  BY <1>1, <1>3 DEF Fork, ZombieNoticed, ServerTypeOK
<1>4. ASSUME NEW c \in Children, Waitpid(c) \/ Exit(c) \/ Orphan(c) PROVE ZombieNoticed'
  BY <1>1, <1>4 DEF Waitpid, Exit, Orphan, ZombieNoticed, ServerTypeOK
<1>5. ASSUME ForkFails \/ Signal \/ HandlerReturns PROVE ZombieNoticed'
  BY <1>1, <1>5 DEF ForkFails, Signal, HandlerReturns, ZombieNoticed
<1>6. CASE UNCHANGED serverVars
  BY <1>1, <1>6 DEF serverVars, ZombieNoticed
<1> QED
  BY <1>1, <1>2, <1>3, <1>4, <1>5, <1>6 DEF ServerNext, MainStep

LEMMA HeldStep == ServerTypeOK /\ HeldInv /\ [ServerNext]_serverVars => HeldInv'
<1>1. SUFFICES ASSUME ServerTypeOK, HeldInv, [ServerNext]_serverVars PROVE HeldInv'
  OBVIOUS
<1>2. ASSUME NEW d \in Datagrams, Recvfrom(d) \/ Arrival(d) PROVE HeldInv'
  BY <1>1, <1>2 DEF Recvfrom, Arrival, HeldInv
<1>3. ASSUME NEW c \in Children, Fork(c) PROVE HeldInv'
  BY <1>1, <1>3 DEF Fork, HeldInv, ServerTypeOK, netSide
<1>4. ASSUME NEW c \in Children, Waitpid(c) \/ Exit(c) \/ Orphan(c) PROVE HeldInv'
  BY <1>1, <1>4 DEF Waitpid, Exit, Orphan, HeldInv, ServerTypeOK, netSide
<1>5. ASSUME ForkFails \/ Signal \/ HandlerReturns PROVE HeldInv'
  BY <1>1, <1>5 DEF ForkFails, Signal, HandlerReturns, HeldInv, netSide
<1>6. CASE UNCHANGED serverVars
  BY <1>1, <1>6 DEF serverVars, HeldInv
<1> QED
  BY <1>1, <1>2, <1>3, <1>4, <1>5, <1>6 DEF ServerNext, MainStep

\* Only a fork gives a seed, and the one it gives is larger than all before.
LEMMA SeedStep == ServerTypeOK /\ SeedInv /\ [ServerNext]_serverVars => SeedInv'
<1>1. SUFFICES ASSUME ServerTypeOK, SeedInv, [ServerNext]_serverVars PROVE SeedInv'
  OBVIOUS
<1>2. ASSUME NEW d \in Datagrams, Recvfrom(d) \/ Arrival(d) PROVE SeedInv'
  BY <1>1, <1>2 DEF Recvfrom, Arrival, SeedInv, SeedsDiffer
<1>3. ASSUME NEW c \in Children, Fork(c) PROVE SeedInv'
  <2>1. /\ nextSeed' = nextSeed + 1 /\ seedSet' = seedSet
        /\ process' = [process EXCEPT ![c] = "running"]
        /\ seed' = [seed EXCEPT ![c] = IF seedSet THEN RANDOM_SEED ELSE nextSeed]
    BY <1>3 DEF Fork, forkMod
  <2>2. nextSeed' > RANDOM_SEED
    BY <1>1, <2>1 DEF SeedInv, ServerTypeOK, RANDOM_SEED
  <2>3. ASSUME NEW b \in Children, ~seedSet', process'[b] # "free"
        PROVE  seed'[b] > RANDOM_SEED /\ seed'[b] < nextSeed'
    BY <1>1, <2>1, <2>3 DEF SeedInv, ServerTypeOK, RANDOM_SEED
  <2>4. ASSUME NEW b \in Children, NEW e \in Children, ~seedSet',
               process'[b] # "free", process'[e] # "free", seed'[b] = seed'[e]
        PROVE  b = e
    BY <1>1, <2>1, <2>4 DEF SeedInv, SeedsDiffer, ServerTypeOK, RANDOM_SEED
  <2>5. \A b \in Children : ~seedSet' /\ process'[b] # "free" => seed'[b] # RANDOM_SEED
    BY <2>3 DEF RANDOM_SEED
  <2> QED
    BY <2>2, <2>3, <2>4, <2>5 DEF SeedInv, SeedsDiffer, RANDOM_SEED
<1>4. ASSUME NEW c \in Children, Waitpid(c) \/ Exit(c) \/ Orphan(c) PROVE SeedInv'
  BY <1>1, <1>4 DEF Waitpid, Exit, Orphan, SeedInv, SeedsDiffer, ServerTypeOK
<1>5. ASSUME ForkFails \/ Signal \/ HandlerReturns PROVE SeedInv'
  BY <1>1, <1>5 DEF ForkFails, Signal, HandlerReturns, SeedInv, SeedsDiffer
<1>6. CASE UNCHANGED serverVars
  BY <1>1, <1>6 DEF serverVars, SeedInv, SeedsDiffer
<1> QED
  BY <1>1, <1>2, <1>3, <1>4, <1>5, <1>6 DEF ServerNext, MainStep

\* What is known of the main process in every state.
THEOREM ServerInvariant == ServerSpec => []ServerInv
<1>1. ServerInv /\ [ServerNext]_serverVars => ServerInv'
  BY TypeStep, ZombieStep, HeldStep, SeedStep DEF ServerInv
<1> QED
  BY <1>1, ServerInvInit, PTL DEF ServerSpec

\* Every variable of the main process keeps its type.
THEOREM ServerTypes == ServerSpec => []ServerTypeOK
<1>1. ServerInv => ServerTypeOK
  BY DEF ServerInv
<1> QED
  BY <1>1, ServerInvariant, PTL

\* handleZombies forgets no child that has ended, however many there are and
\* whenever their signals are delivered.
THEOREM ZombiesNoticed == ServerSpec => []ZombieNoticed
<1>1. ServerInv => ZombieNoticed
  BY DEF ServerInv
<1> QED
  BY <1>1, ServerInvariant, PTL

\* forkMod gives every child a seed that no other process of the server draws with.
THEOREM ChildrenSeedsDiffer == ServerSpec => []SeedsDiffer
<1>1. ServerInv => SeedsDiffer
  BY DEF ServerInv, SeedInv
<1> QED
  BY <1>1, ServerInvariant, PTL

-----------------------------------------------------------------------------
(* ServerMain implements Dispatch *)

Waiting == queue \cup (IF main = "fork" THEN {buffer} ELSE {})
Serving == [c \in Children |-> IF process[c] = "free" THEN Nobody ELSE first_PDU[c]]

LEMMA MappedInit == ServerInit => Handed!DispatchInit
  BY DEF ServerInit, Handed!DispatchInit

\* A step that moves no datagram and no process is a stutter.
LEMMA MappedStutter ==
  ASSUME arrived' = arrived, Waiting' = Waiting, Serving' = Serving,
         (main # "exited")' = (main # "exited")
  PROVE  UNCHANGED Handed!dispatchVars
  BY DEF Waiting, Serving, Handed!dispatchVars

LEMMA MappedStep ==
  ServerInv /\ [ServerNext]_serverVars => [Handed!DispatchNext]_(Handed!dispatchVars)
<1>0. SUFFICES ASSUME ServerInv, [ServerNext]_serverVars
               PROVE  [Handed!DispatchNext]_(Handed!dispatchVars)
  OBVIOUS
<1> USE DEF ServerInv
<1>1. ASSUME NEW d \in Datagrams, Arrival(d) PROVE Handed!Arrive(d)
  BY <1>0, <1>1 DEF Arrival, Handed!Arrive
<1>2. ASSUME NEW d \in Datagrams, Recvfrom(d) PROVE UNCHANGED Handed!dispatchVars
  <2>1. Waiting' = Waiting
    BY <1>2 DEF Recvfrom, Waiting
  <2>2. Serving' = Serving /\ arrived' = arrived
    BY <1>2 DEF Recvfrom, Serving
  <2>3. (main # "exited")' = (main # "exited")
    BY <1>2 DEF Recvfrom
  <2> QED
    BY <2>1, <2>2, <2>3, MappedStutter
<1>3. ASSUME NEW c \in Children, Fork(c) PROVE Handed!Serve(buffer, c)
  <2>1. main = "fork" /\ process[c] = "free" /\ main' = "recvfrom"
    BY <1>3 DEF Fork
  <2>2. buffer \notin queue /\ buffer \in Datagrams
    BY <1>0, <2>1 DEF HeldInv
  <2>3. Waiting' = Waiting \ {buffer} /\ buffer \in Waiting
    BY <1>3, <2>1, <2>2 DEF Fork, netSide, Waiting
  <2>4. Serving' = [Serving EXCEPT ![c] = buffer]
    BY <1>0, <1>3, <2>1 DEF Fork, Serving, ServerTypeOK
  <2>5. arrived' = arrived /\ Serving[c] = Nobody
    BY <1>3, <2>1 DEF Fork, netSide, Serving
  <2> QED
    BY <2>1, <2>3, <2>4, <2>5 DEF Handed!Serve, Waiting, Serving
<1>4. ASSUME ForkFails PROVE Handed!Stop(buffer)
  <2>1. main = "fork" /\ main' = "exited"
    BY <1>4 DEF ForkFails
  <2>2. buffer \notin queue /\ buffer \in Datagrams
    BY <1>0, <2>1 DEF HeldInv
  <2>3. Waiting' = Waiting \ {buffer} /\ buffer \in Waiting
    BY <1>4, <2>1, <2>2 DEF ForkFails, netSide, Waiting
  <2>4. Serving' = Serving /\ arrived' = arrived
    BY <1>4 DEF ForkFails, netSide, Serving
  <2> QED
    BY <2>1, <2>3, <2>4 DEF Handed!Stop, Waiting, Serving
<1>5. ASSUME NEW c \in Children, Waitpid(c) \/ Orphan(c) PROVE Handed!Leave(c)
  <2>1. /\ process[c] = "zombie" /\ process' = [process EXCEPT ![c] = "free"]
        /\ UNCHANGED <<main, queue, arrived, buffer, first_PDU>>
    BY <1>5 DEF Waitpid, Orphan, netSide
  <2>2. Serving[c] # Nobody
    BY <1>0, <2>1, NobodyAssumption DEF Serving, ServerTypeOK
  <2>3. Serving' = [Serving EXCEPT ![c] = Nobody]
    BY <1>0, <2>1 DEF Serving, ServerTypeOK
  <2> QED
    BY <2>1, <2>2, <2>3 DEF Handed!Leave, Serving
<1>6. ASSUME NEW c \in Children, Exit(c)
      PROVE  Handed!Leave(c) \/ UNCHANGED Handed!dispatchVars
  <2>1. /\ process[c] = "running"
        /\ UNCHANGED <<main, queue, arrived, buffer, first_PDU>>
        /\ process' = [process EXCEPT ![c] = IF main = "exited" THEN "free" ELSE "zombie"]
    BY <1>6 DEF Exit, netSide
  <2>2. Serving[c] # Nobody
    BY <1>0, <2>1, NobodyAssumption DEF Serving, ServerTypeOK
  <2>3. ASSUME main = "exited" PROVE Handed!Leave(c)
    <3>1. Serving' = [Serving EXCEPT ![c] = Nobody]
      BY <1>0, <2>1, <2>3 DEF Serving, ServerTypeOK
    <3> QED
      BY <2>1, <2>2, <3>1 DEF Handed!Leave, Serving
  <2>4. ASSUME main # "exited" PROVE UNCHANGED Handed!dispatchVars
    <3>1. Serving' = Serving
      BY <1>0, <2>1, <2>4 DEF Serving, ServerTypeOK
    <3> QED
      BY <2>1, <3>1, MappedStutter DEF Waiting
  <2> QED
    BY <2>3, <2>4
<1>7. ASSUME Signal \/ HandlerReturns \/ UNCHANGED serverVars
      PROVE  UNCHANGED Handed!dispatchVars
  <2>1. UNCHANGED <<main, queue, arrived, buffer, process, first_PDU>>
    BY <1>7 DEF Signal, HandlerReturns, serverVars, netSide
  <2> QED
    BY <2>1, MappedStutter DEF Waiting, Serving
<1>8. ASSUME NEW c \in Children, Fork(c) PROVE buffer \in Datagrams
  BY <1>0, <1>8 DEF Fork, HeldInv
<1>9. ASSUME ForkFails PROVE buffer \in Datagrams
  BY <1>0, <1>9 DEF ForkFails, HeldInv
<1> QED
  BY <1>0, <1>1, <1>2, <1>3, <1>4, <1>5, <1>6, <1>7, <1>8, <1>9
  DEF ServerNext, MainStep, Handed!DispatchNext

\* The main process hands every datagram to one process of its own, none twice,
\* though signals interrupt it anywhere: it implements Dispatch.
THEOREM ServerImplementsDispatch == ServerSpec => HandedToOneChild
<1>1. ServerSpec => [][Handed!DispatchNext]_(Handed!dispatchVars)
  BY MappedStep, ServerInvariant, PTL DEF ServerSpec
<1> QED
  BY <1>1, MappedInit, PTL DEF ServerSpec, HandedToOneChild, Handed!DispatchSpec

=============================================================================
