--------------------------- MODULE ServerProofs ---------------------------
(***************************************************************************)
(* The server for every number of clients, of maps and of food: its state  *)
(* keeps its type, no validation ends the process once the maps exist, and *)
(* what each client is sent.                                               *)
(*                                                                         *)
(* The first two rest on the capacity of the connection list, which only   *)
(* the test in on_client_connect() bounds: at_get_map() has no other       *)
(* protection. The welcomes are followed from the connection to the tasks  *)
(* posted for it: who is in the list and where, which maps were taken      *)
(* before which, and how far the environment was when each of them was     *)
(* read.                                                                   *)
(***************************************************************************)
EXTENDS Server, SequenceTheorems, TLAPS

USE DEF envVars, ioVars, vars

\* The environment: how far its thread is says which maps exist and which of
\* the vectors may still grow.
EnvInv ==
    /\ EnvTypeOK
    /\ env \in {"none", "building", "growing"} => m_maps < m_map_count
    /\ env \in {"feeding", "running"} => m_maps = m_map_count
    /\ \A i \in Maps : i >= fed => food[i] < MAX_FOOD_PER_MAP

\* What the server's own variables add to their types.
Capacity == Len(m_deqConnections) <= m_map_count

Serving == io # "idle" => serving \in Clients

ServerInv == TypeOK /\ EnvInv /\ Capacity /\ Serving /\ ThrowsOnlyAtStartUp

\* The types of the variables that only the io thread changes, part by part.
IoTypes ==
    /\ accepting \in BOOLEAN
    /\ io \in {"idle", "denying"} \union Places
    /\ serving \in Clients \union {NoClient}
    /\ tasks \in Seq(Clients \X Messages)
    /\ m_deqConnections \in Seq(Clients)
    /\ socket \in [Clients -> {"none", "open", "closed", "destroyed"}]
    /\ validated \in Seq(Clients)
    /\ welcome \in [Clients -> WelcomeRecord]
    /\ sent \in [Clients -> Seq(Messages)]
    /\ crash \in {"no", "remote_endpoint", "out_of_range", "dangling"}

ClientTypes ==
    /\ started \in BOOLEAN
    /\ backlog \in Seq(Clients)
    /\ client \in [Clients -> {"outside", "waiting", "denied", "silent", "answered",
                               "left", "lost"}]

LEMMA AppendIn ==
    ASSUME NEW S, NEW s \in Seq(S), NEW x \in S
    PROVE  Append(s, x) \in Seq(S)
  BY AppendProperties

LEMMA TypeParts == TypeOK <=> EnvTypeOK /\ ClientTypes /\ IoTypes
  BY DEF TypeOK, ClientTypes, IoTypes

-----------------------------------------------------------------------------
(* The environment thread. *)

LEMMA EnvInitial == EnvInit => EnvInv
  BY EnvironmentAssumption DEF EnvInit, EnvInv, EnvTypeOK, Maps

LEMMA EnvStays == EnvInv /\ UNCHANGED envVars => EnvInv'
  BY DEF EnvInv, EnvTypeOK

LEMMA EnvNext == EnvInv /\ (StartThread \/ EnvStep) => EnvInv'
  <1> SUFFICES ASSUME EnvInv, StartThread \/ EnvStep PROVE EnvInv'
    OBVIOUS
  <1> USE EnvironmentAssumption
  <1>1. CASE StartThread
    BY <1>1 DEF StartThread, EnvInv, EnvTypeOK
  <1>2. CASE BeginMap
    BY <1>2 DEF BeginMap, EnvInv, EnvTypeOK
  <1>3. CASE EndMap
    BY <1>3 DEF EndMap, EnvInv, EnvTypeOK
  <1>4. CASE FeedMap
    <2>1. /\ env = "feeding" /\ fed < m_map_count /\ env' = env /\ m_maps' = m_maps
          /\ food' = [food EXCEPT ![fed] = @ + 1]
          /\ fed' = IF food[fed] + 1 = MAX_FOOD_PER_MAP THEN fed + 1 ELSE fed
      BY <1>4 DEF FeedMap
    <2>2. /\ fed \in Maps /\ fed \in Nat /\ food \in [Maps -> 0..MAX_FOOD_PER_MAP]
          /\ food[fed] < MAX_FOOD_PER_MAP /\ food[fed] \in Nat
      BY <2>1 DEF EnvInv, EnvTypeOK, Maps
    <2>3. food' \in [Maps -> 0..MAX_FOOD_PER_MAP] /\ fed' \in 0..m_map_count
      <3>1. food[fed] + 1 \in 0..MAX_FOOD_PER_MAP
        BY <2>2, EnvironmentAssumption
      <3>2. food' \in [Maps -> 0..MAX_FOOD_PER_MAP]
        <4>1. /\ food \in [Maps -> 0..MAX_FOOD_PER_MAP] /\ fed \in Maps
              /\ food' = [food EXCEPT ![fed] = food[fed] + 1]
          BY <2>1, <2>2
        <4> QED BY <3>1, <4>1
      <3>3. fed' \in 0..m_map_count
        <4>1. fed \in Nat /\ m_map_count \in Nat /\ fed < m_map_count
          BY <2>1, <2>2
        <4>2. fed' = fed \/ fed' = fed + 1
          BY <2>1
        <4> QED BY <4>1, <4>2
      <3> QED BY <3>2, <3>3
    <2>4. ASSUME NEW i \in Maps, i >= fed' PROVE food'[i] < MAX_FOOD_PER_MAP
      <3>1. i \in Nat /\ fed' \in Nat /\ food'[i] = IF i = fed THEN food[i] + 1 ELSE food[i]
        BY <2>1, <2>2, <2>3 DEF Maps
      <3>2. i >= fed /\ food[i] \in 0..MAX_FOOD_PER_MAP
        BY <2>1, <2>2, <2>4, <3>1
      <3>3. food[i] < MAX_FOOD_PER_MAP
        BY <3>2 DEF EnvInv
      <3>4. i = fed => food[i] + 1 # MAX_FOOD_PER_MAP
        BY <2>1, <2>2, <2>4, <3>1
      <3> QED BY <3>1, <3>2, <3>3, <3>4
    <2> QED BY <2>1, <2>3, <2>4 DEF EnvInv, EnvTypeOK
  <1>5. CASE Launch
    BY <1>5 DEF Launch, EnvInv, EnvTypeOK
  <1> QED BY <1>1, <1>2, <1>3, <1>4, <1>5 DEF EnvStep
-----------------------------------------------------------------------------
(* The clients, and the steps of the server they share no variable with. *)

LEMMA IoStays ==
    ASSUME IoTypes, Capacity, Serving, UNCHANGED ioVars
    PROVE  IoTypes' /\ Capacity' /\ Serving'
  BY DEF IoTypes, Capacity, Serving

LEMMA ClientNext ==
    ASSUME ServerInv, NEW c \in Clients, ClientStep(c)
    PROVE  ServerInv'
  <1>1. UNCHANGED <<envVars, ioVars, started>>
    BY DEF ClientStep, Dial, Answer, Leave
  <1>2. ClientTypes'
    <2>1. ClientTypes
      BY TypeParts DEF ServerInv
    <2>2. client' \in [Clients -> {"outside", "waiting", "denied", "silent", "answered",
                                   "left", "lost"}]
      BY <2>1 DEF ClientStep, Dial, Answer, Leave, ClientTypes
    <2>3. backlog' \in Seq(Clients)
      BY <2>1 DEF ClientStep, Dial, Answer, Leave, ClientTypes
    <2> QED BY <2>1, <2>2, <2>3, <1>1 DEF ClientTypes
  <1>3. EnvInv' /\ EnvTypeOK'
    BY <1>1, EnvStays DEF ServerInv, EnvInv
  <1>4. IoTypes' /\ Capacity' /\ Serving'
    BY <1>1, IoStays, TypeParts DEF ServerInv
  <1>5. ThrowsOnlyAtStartUp'
    BY <1>1 DEF ServerInv, ThrowsOnlyAtStartUp
  <1>6. TypeOK'
    BY <1>2, <1>3, <1>4 DEF TypeOK, ClientTypes, IoTypes
  <1> QED BY <1>3, <1>4, <1>5, <1>6 DEF ServerInv

LEMMA ThreadsNext ==
    ASSUME ServerInv, StartServer \/ StartEnvironment \/ Simulate
    PROVE  ServerInv'
  <1>1. CASE StartServer
    <2>1. UNCHANGED <<envVars, backlog, client, io, serving, tasks, m_deqConnections,
                      socket, validated, welcome, sent, crash>>
          /\ started' = TRUE /\ accepting' = TRUE
      BY <1>1 DEF StartServer
    <2>2. EnvInv' /\ EnvTypeOK'
      BY <2>1, EnvStays DEF ServerInv, EnvInv
    <2>3. ClientTypes' /\ IoTypes'
      BY <2>1, TypeParts DEF ServerInv, ClientTypes, IoTypes
    <2>4. Capacity' /\ Serving' /\ ThrowsOnlyAtStartUp'
      BY <2>1 DEF ServerInv, Capacity, Serving, ThrowsOnlyAtStartUp
    <2> QED BY <2>2, <2>3, <2>4 DEF ServerInv, TypeOK, ClientTypes, IoTypes
  <1>2. CASE StartEnvironment \/ Simulate
    <2>1. UNCHANGED <<started, backlog, client, ioVars>> /\ crash = "no"
          /\ (StartThread \/ EnvStep)
      BY <1>2 DEF StartEnvironment, Simulate
    <2>2. EnvInv' /\ EnvTypeOK'
      BY <2>1, EnvNext DEF ServerInv, EnvInv
    <2>3. ClientTypes' /\ IoTypes' /\ Capacity' /\ Serving'
      BY <2>1, IoStays, TypeParts DEF ServerInv, ClientTypes
    <2>4. ThrowsOnlyAtStartUp'
      BY <2>1 DEF ThrowsOnlyAtStartUp
    <2> QED BY <2>2, <2>3, <2>4 DEF ServerInv, TypeOK, ClientTypes, IoTypes
  <1> QED BY <1>1, <1>2
-----------------------------------------------------------------------------
(* The io thread. *)

LEMMA AcceptNext ==
    ASSUME ServerInv, NEW c \in Clients, Accept(c)
    PROVE  ServerInv'
  <1>t. ClientTypes /\ IoTypes /\ EnvInv /\ EnvTypeOK
    BY TypeParts DEF ServerInv
  <1>1. UNCHANGED <<envVars, started, validated, welcome, sent>>
        /\ backlog # <<>> /\ backlog' = Tail(backlog)
        /\ socket' = [socket EXCEPT ![c] = "open"]
        /\ io = "idle" /\ crash = "no"
        /\ crash' \in {"no", "remote_endpoint"}
    BY DEF Accept, AcceptThrows, Approve, Deny, TakeFirst, IoReady
  <1>2. backlog' \in Seq(Clients)
        /\ socket' \in [Clients -> {"none", "open", "closed", "destroyed"}]
    BY <1>t, <1>1 DEF ClientTypes, IoTypes
  <1>3. client' \in [Clients -> {"outside", "waiting", "denied", "silent", "answered",
                                 "left", "lost"}]
    BY <1>t DEF Accept, AcceptThrows, Approve, Deny, ClientTypes
  <1>4. tasks' \in Seq(Clients \X Messages)
    <2> DEFINE T == Clients \X Messages
    <2>1. tasks' = tasks \/ \E m \in Messages : tasks' = Append(tasks, <<c, m>>)
      BY DEF Accept, AcceptThrows, Approve, Deny, post, Messages
    <2>2. \A m \in Messages : <<c, m>> \in T
      OBVIOUS
    <2>3. tasks \in Seq(T)
      BY <1>t DEF IoTypes
    <2> HIDE DEF T
    <2>4. \A m \in Messages : Append(tasks, <<c, m>>) \in Seq(T)
      BY <2>2, <2>3, AppendIn
    <2>5. tasks' \in Seq(T)
      BY <2>1, <2>3, <2>4
    <2> QED BY <2>5 DEF T
  <1>5. m_deqConnections' \in Seq(Clients) /\ Capacity'
    <2>1. CASE m_deqConnections' = m_deqConnections
      BY <2>1, <1>t DEF ServerInv, Capacity, IoTypes
    <2>2. CASE Approve(c)
      BY <2>2, <1>t, EnvironmentAssumption
      DEF Approve, get_connections, m_nMapsCount, Capacity, IoTypes
    <2> QED BY <2>1, <2>2 DEF Accept, AcceptThrows, Deny
  <1>6. /\ io' \in {"idle", "denying"} \union Places
        /\ serving' \in Clients \union {NoClient} /\ accepting' \in BOOLEAN
        /\ Serving'
    BY <1>t, <1>1 DEF Accept, AcceptThrows, Approve, Deny, IoTypes, Serving
  <1>7. EnvInv' /\ EnvTypeOK'
    BY <1>1, <1>t, EnvStays DEF EnvInv
  <1>8. ThrowsOnlyAtStartUp'
    BY <1>1 DEF ThrowsOnlyAtStartUp
  <1>9. ClientTypes' /\ IoTypes'
    BY <1>t, <1>1, <1>2, <1>3, <1>4, <1>5, <1>6 DEF ClientTypes, IoTypes
  <1> QED BY <1>5, <1>6, <1>7, <1>8, <1>9 DEF ServerInv, TypeOK, ClientTypes, IoTypes

LEMMA CloseNext ==
    ASSUME ServerInv, (\E c \in Clients : Close(c)) \/ EndDenial
    PROVE  ServerInv'
  <1>t. ClientTypes /\ IoTypes /\ EnvInv /\ EnvTypeOK
    BY TypeParts DEF ServerInv
  <1>1. UNCHANGED <<envVars, started, backlog, client, tasks, m_deqConnections,
                    validated, welcome, sent, crash>> /\ crash = "no"
    BY DEF Close, EndDenial, IoReady
  <1>2. socket' \in [Clients -> {"none", "open", "closed", "destroyed"}]
    BY <1>t DEF Close, EndDenial, IoTypes
  <1>3. /\ io' = "idle" /\ serving' \in Clients \union {NoClient}
        /\ accepting' \in BOOLEAN
    BY <1>t DEF Close, EndDenial, IoReady, IoTypes
  <1>4. EnvInv' /\ EnvTypeOK'
    BY <1>1, <1>t, EnvStays DEF EnvInv
  <1>5. ClientTypes' /\ IoTypes'
    BY <1>t, <1>1, <1>2, <1>3 DEF ClientTypes, IoTypes
  <1>6. Capacity' /\ Serving' /\ ThrowsOnlyAtStartUp'
    BY <1>1, <1>3 DEF ServerInv, Capacity, Serving, ThrowsOnlyAtStartUp
  <1> QED BY <1>4, <1>5, <1>6 DEF ServerInv, TypeOK, ClientTypes, IoTypes

LEMMA RunTaskNext ==
    ASSUME ServerInv, RunTask
    PROVE  ServerInv'
  <1>t. ClientTypes /\ IoTypes /\ EnvInv /\ EnvTypeOK
    BY TypeParts DEF ServerInv
  <1> DEFINE c == Head(tasks)[1]
             m == Head(tasks)[2]
  <1>1. UNCHANGED <<envVars, started, backlog, client, accepting, io, serving,
                    m_deqConnections, socket, validated, welcome>>
        /\ tasks # <<>> /\ tasks' = Tail(tasks)
        /\ crash' \in {"no", "dangling"}
        /\ (sent' = sent \/ sent' = [sent EXCEPT ![c] = Append(@, m)])
    BY DEF RunTask, IoReady
  <1>2. Head(tasks) \in Clients \X Messages /\ tasks' \in Seq(Clients \X Messages)
    BY <1>t, <1>1, HeadTailProperties DEF IoTypes
  <1>3. c \in Clients /\ m \in Messages
    BY <1>2
  <1> HIDE DEF c, m
  <1>4. sent' \in [Clients -> Seq(Messages)]
    <2>1. sent[c] \in Seq(Messages) /\ sent \in [Clients -> Seq(Messages)]
      BY <1>t, <1>3 DEF IoTypes
    <2>2. Append(sent[c], m) \in Seq(Messages)
      BY <2>1, <1>3, AppendIn
    <2> QED BY <1>1, <2>1, <2>2
  <1>5. EnvInv' /\ EnvTypeOK'
    BY <1>1, <1>t, EnvStays DEF EnvInv
  <1>6. ClientTypes' /\ IoTypes'
    BY <1>t, <1>1, <1>2, <1>4 DEF ClientTypes, IoTypes
  <1>7. Capacity' /\ Serving' /\ ThrowsOnlyAtStartUp'
    BY <1>1 DEF ServerInv, Capacity, Serving, ThrowsOnlyAtStartUp
  <1> QED BY <1>5, <1>6, <1>7 DEF ServerInv, TypeOK, ClientTypes, IoTypes

\* A welcome stays one, whichever part of it is read next.
LEMMA WelcomeUpdates ==
    ASSUME NEW w \in WelcomeRecord
    PROVE  /\ w.map \in Maps
           /\ w.wild \subseteq Parts
           /\ \A R \in SUBSET Parts : [w EXCEPT !.wild = R] \in WelcomeRecord
           /\ \A b \in BOOLEAN, i \in Maps :
                 [w EXCEPT !.map = i, !.early = b] \in WelcomeRecord
           /\ \A n \in 0..WildSize, R \in SUBSET Parts :
                 [w EXCEPT !.size = n, !.wild = R] \in WelcomeRecord
           /\ \A n \in 0..MAX_FOOD_PER_MAP : /\ [w EXCEPT !.copied = n] \in WelcomeRecord
                                             /\ [w EXCEPT !.count = n] \in WelcomeRecord
  BY DEF WelcomeRecord

LEMMA ValidateNext ==
    ASSUME ServerInv, NEW c \in Clients, Validate(c)
    PROVE  ServerInv'
  <1>t. ClientTypes /\ IoTypes /\ EnvInv /\ EnvTypeOK
    BY TypeParts DEF ServerInv
  <1>1. UNCHANGED <<envVars, started, backlog, client, accepting, tasks,
                    m_deqConnections, socket, sent, crash>>
        /\ crash = "no" /\ io' = "layout" /\ serving' = c
        /\ validated' = Append(validated, c)
    BY DEF Validate, IoReady
  <1>2. get_connections - 1 \in Maps
    <2>1. \E i \in 1..Len(m_deqConnections) : TRUE
      BY DEF Validate, Connected, get_connections
    <2> QED BY <2>1, <1>t, EnvironmentAssumption
      DEF ServerInv, Capacity, get_connections, Maps, IoTypes
  <1>3. welcome' \in [Clients -> WelcomeRecord]
    <2>1. welcome \in [Clients -> WelcomeRecord] /\ welcome[c] \in WelcomeRecord
      BY <1>t DEF IoTypes
    <2>2. PICK b \in BOOLEAN :
            welcome' = [welcome EXCEPT ![c] =
                          [@ EXCEPT !.map = get_connections - 1, !.early = b]]
      BY DEF Validate
    <2>3. [welcome[c] EXCEPT !.map = get_connections - 1, !.early = b] \in WelcomeRecord
      BY <2>1, <1>2, WelcomeUpdates
    <2> QED BY <2>1, <2>2, <2>3
  <1>4. validated' \in Seq(Clients)
    BY <1>t, <1>1, AppendIn DEF IoTypes
  <1>5. EnvInv' /\ EnvTypeOK'
    BY <1>1, <1>t, EnvStays DEF EnvInv
  <1>6. ClientTypes' /\ IoTypes'
    BY <1>t, <1>1, <1>3, <1>4 DEF ClientTypes, IoTypes, Places
  <1>7. Capacity' /\ Serving' /\ ThrowsOnlyAtStartUp'
    BY <1>1 DEF ServerInv, Capacity, Serving, ThrowsOnlyAtStartUp
  <1> QED BY <1>5, <1>6, <1>7 DEF ServerInv, TypeOK, ClientTypes, IoTypes

\* at_get_map() may throw only while a map is still missing.
LEMMA MissingMap ==
    ASSUME EnvInv, NEW i \in Maps, "out_of_range" \in at_get_map(i)
    PROVE  env \in {"none", "building", "growing"}
  BY EnvironmentAssumption DEF EnvInv, EnvTypeOK, Maps, at_get_map

LEMMA WelcomingNext ==
    ASSUME ServerInv, Welcoming
    PROVE  ServerInv'
  <1>t. ClientTypes /\ IoTypes /\ EnvInv /\ EnvTypeOK
    BY TypeParts DEF ServerInv
  <1>1. UNCHANGED <<envVars, started, backlog, client, accepting,
                    m_deqConnections, socket, validated, sent>>
        /\ crash = "no" /\ io \in Places
    BY DEF Welcoming, MapThrows, SendLayout, SendConfig, SendSize, ReadArgument,
       SendEntities, Elsewhere, In, Places
  <1>2. serving \in Clients /\ Told \in WelcomeRecord /\ Told.map \in Maps
    <2>1. serving \in Clients
      BY <1>1 DEF ServerInv, Serving, Places
    <2>2. Told \in WelcomeRecord
      BY <1>t, <2>1 DEF Told, IoTypes
    <2> QED BY <2>1, <2>2, WelcomeUpdates
  <1>3. crash' = "no" \/ (crash' = "out_of_range" /\ env \in {"none", "building", "growing"})
    <2>1. CASE MapThrows
      BY <2>1, <1>t, <1>2, MissingMap DEF MapThrows
    <2>2. CASE ~MapThrows
      BY <2>2, <1>1 DEF Welcoming, SendLayout, SendConfig, SendSize, ReadArgument,
         SendEntities
    <2> QED BY <2>1, <2>2
  <1>4. tasks' \in Seq(Clients \X Messages)
    <2> DEFINE T == Clients \X Messages
    <2>1. tasks' = tasks \/ \E m \in Messages : tasks' = Append(tasks, <<serving, m>>)
      BY DEF Welcoming, MapThrows, SendLayout, SendConfig, SendSize, ReadArgument,
         SendEntities, post, Messages
    <2>2. \A m \in Messages : <<serving, m>> \in T
      BY <1>2
    <2>3. tasks \in Seq(T)
      BY <1>t DEF IoTypes
    <2> HIDE DEF T
    <2>4. \A m \in Messages : Append(tasks, <<serving, m>>) \in Seq(T)
      BY <2>2, <2>3, AppendIn
    <2>5. tasks' \in Seq(T)
      BY <2>1, <2>3, <2>4
    <2> QED BY <2>5 DEF T
  <1>5. welcome' \in [Clients -> WelcomeRecord]
    <2>1. food[Told.map] \in 0..MAX_FOOD_PER_MAP /\ food[Told.map] \in 0..WildSize
      BY <1>t, <1>2, EnvironmentAssumption DEF EnvTypeOK, WildSize
    <2>2. welcome \in [Clients -> WelcomeRecord]
      BY <1>t DEF IoTypes
    <2> DEFINE Becomes(w) == welcome' = [welcome EXCEPT ![serving] = w]
    <2>3. CASE MapThrows
      BY <2>3, <2>2 DEF MapThrows
    <2>4. CASE SendLayout \/ SendConfig
      <3>1. PICK read :
              Becomes([Told EXCEPT !.wild = @ \union Remains("map", read)])
        BY <2>4 DEF SendLayout, SendConfig, Told
      <3>2. Told.wild \union Remains("map", read) \in SUBSET Parts
        BY <1>2, WelcomeUpdates DEF Remains, Parts
      <3>3. [Told EXCEPT !.wild = Told.wild \union Remains("map", read)] \in WelcomeRecord
        BY <1>2, <3>2, WelcomeUpdates
      <3> QED BY <3>1, <3>3, <2>2
    <2>5. CASE SendSize
      <3>0. PICK read : \E size \in Sizes(Told.map, read) :
              Becomes([Told EXCEPT !.size = size, !.wild = @ \union Remains("size", read)])
        BY <2>5 DEF SendSize, Told
      <3>1. PICK size \in Sizes(Told.map, read) :
              Becomes([Told EXCEPT !.size = size, !.wild = @ \union Remains("size", read)])
        BY <3>0
      <3>2. size \in 0..WildSize
        BY <2>1, <3>1 DEF Sizes
      <3>3. Told.wild \union Remains("size", read) \in SUBSET Parts
        BY <1>2, WelcomeUpdates DEF Remains, Parts
      <3>4. [Told EXCEPT !.size = size, !.wild = Told.wild \union Remains("size", read)]
              \in WelcomeRecord
        BY <1>2, <3>2, <3>3, WelcomeUpdates
      <3> QED BY <3>1, <3>4, <2>2
    <2>6. CASE ReadArgument \/ SendEntities
      <3>1. \/ Becomes([Told EXCEPT !.copied = food[Told.map]])
            \/ Becomes([Told EXCEPT !.count = food[Told.map]])
        BY <2>6 DEF ReadArgument, SendEntities, Told
      <3>2. /\ [Told EXCEPT !.copied = food[Told.map]] \in WelcomeRecord
            /\ [Told EXCEPT !.count = food[Told.map]] \in WelcomeRecord
        BY <1>2, <2>1, WelcomeUpdates
      <3> QED BY <3>1, <3>2, <2>2
    <2> QED BY <2>3, <2>4, <2>5, <2>6 DEF Welcoming
  <1>6. io' \in {"idle"} \union Places /\ serving' \in Clients \union {NoClient}
        /\ (io' # "idle" => serving' = serving)
    BY <1>1, <1>2 DEF Welcoming, MapThrows, SendLayout, SendConfig, SendSize,
       ReadArgument, SendEntities, Places
  <1>7. EnvInv' /\ EnvTypeOK'
    BY <1>1, <1>t, EnvStays DEF EnvInv
  <1>8. ClientTypes' /\ IoTypes'
    BY <1>t, <1>1, <1>3, <1>4, <1>5, <1>6 DEF ClientTypes, IoTypes
  <1>9. Capacity' /\ Serving' /\ ThrowsOnlyAtStartUp'
    BY <1>1, <1>2, <1>3, <1>6 DEF ServerInv, Capacity, Serving, ThrowsOnlyAtStartUp
  <1> QED BY <1>7, <1>8, <1>9 DEF ServerInv, TypeOK, ClientTypes, IoTypes
-----------------------------------------------------------------------------
LEMMA ServerInit == Init => ServerInv
  <1> SUFFICES ASSUME Init PROVE ServerInv
    OBVIOUS
  <1>1. EnvInv /\ EnvTypeOK
    BY EnvInitial DEF Init, EnvInv
  <1>2. NoWelcome \in WelcomeRecord
    BY EnvironmentAssumption DEF NoWelcome, WelcomeRecord, Maps, WildSize
  <1>3. ClientTypes /\ IoTypes
    <2>1. welcome \in [Clients -> WelcomeRecord]
      BY <1>2 DEF Init
    <2>2. tasks \in Seq(Clients \X Messages) /\ sent \in [Clients -> Seq(Messages)]
      BY DEF Init
    <2>3. ClientTypes
      <3>1. client \in [Clients -> {"outside", "waiting", "denied", "silent",
                                    "answered", "left", "lost"}]
        BY DEF Init
      <3>2. backlog \in Seq(Clients)
        BY DEF Init
      <3>3. started \in BOOLEAN
        BY DEF Init
      <3> QED BY <3>1, <3>2, <3>3 DEF ClientTypes
    <2>4. m_deqConnections \in Seq(Clients) /\ validated \in Seq(Clients)
      BY DEF Init
    <2>5. socket \in [Clients -> {"none", "open", "closed", "destroyed"}]
      BY DEF Init
    <2>6. accepting = FALSE /\ io = "idle" /\ serving = NoClient /\ crash = "no"
      BY DEF Init
    <2> QED BY <2>1, <2>2, <2>3, <2>4, <2>5, <2>6 DEF IoTypes
  <1>4. Capacity /\ Serving /\ ThrowsOnlyAtStartUp
    BY EnvironmentAssumption DEF Init, Capacity, Serving, ThrowsOnlyAtStartUp
  <1> QED BY <1>1, <1>3, <1>4 DEF ServerInv, TypeOK, ClientTypes, IoTypes

LEMMA ServerNext == ServerInv /\ [Next]_vars => ServerInv'
  <1> SUFFICES ASSUME ServerInv, [Next]_vars PROVE ServerInv'
    OBVIOUS
  <1>1. CASE UNCHANGED vars
    <2>1. UNCHANGED <<envVars, ioVars, started, backlog, client>>
      BY <1>1
    <2>2. EnvInv' /\ EnvTypeOK'
      BY <2>1, EnvStays DEF ServerInv, EnvInv
    <2>3. IoTypes' /\ Capacity' /\ Serving'
      BY <2>1, IoStays, TypeParts DEF ServerInv
    <2>4. ClientTypes' /\ ThrowsOnlyAtStartUp'
      BY <2>1, TypeParts DEF ServerInv, ClientTypes, ThrowsOnlyAtStartUp
    <2> QED BY <2>2, <2>3, <2>4 DEF ServerInv, TypeOK, ClientTypes, IoTypes
  <1>2. CASE \E c \in Clients : ClientStep(c)
    BY <1>2, ClientNext
  <1>3. CASE StartServer \/ StartEnvironment \/ Simulate
    BY <1>3, ThreadsNext
  <1>4. CASE \E c \in Clients : Accept(c)
    BY <1>4, AcceptNext
  <1>5. CASE (\E c \in Clients : Close(c)) \/ EndDenial
    BY <1>5, CloseNext
  <1>6. CASE \E c \in Clients : Validate(c)
    BY <1>6, ValidateNext
  <1>7. CASE RunTask
    BY <1>7, RunTaskNext
  <1>8. CASE Welcoming
    BY <1>8, WelcomingNext
  <1> QED
    BY <1>1, <1>2, <1>3, <1>4, <1>5, <1>6, <1>7, <1>8 DEF Next, IoStep

(* The state of the server is always what ServerInv says. *)
THEOREM ServerInvariant == Spec => []ServerInv
  BY ServerInit, ServerNext, PTL DEF Spec

(* Every variable keeps its type; in particular every welcome is about a map of
   the server and never takes more entities than a map has. *)
THEOREM ServerTypeCorrect == Spec => []TypeOK
  <1>1. ServerInv => TypeOK
    BY DEF ServerInv
  <1> QED BY <1>1, ServerInvariant, PTL

(* No validation ends the server once the maps exist, however many clients come,
   go and are denied (Server.cpp:55,61,67,76). *)
THEOREM NeverThrowsLater == Spec => []ThrowsOnlyAtStartUp
  <1>1. ServerInv => ThrowsOnlyAtStartUp
    BY DEF ServerInv
  <1> QED BY <1>1, ServerInvariant, PTL
-----------------------------------------------------------------------------
(* What the server tells its clients: every client gets its welcome in       *)
(* order, made from one map that it shares only with clients it overlapped   *)
(* with, consistent once the environment runs and covering what it announced *)
(* even before.                                                              *)

\* The clients in the backlog, in m_deqConnections, and those validated.
Elements(s) == {s[i] : i \in 1..Len(s)}
Distinct(s) == \A i, j \in 1..Len(s) : s[i] = s[j] => i = j
Queued == Elements(backlog)
Kept == Elements(m_deqConnections)
Validated == Elements(validated)

\* The handler at work is about c.
Welcomes(c) == io \in Places /\ serving = c
Denies(c) == io = "denying" /\ serving = c

(* A client is in one place: it dials once, is taken from the backlog once, and
   its Connection is kept, or denied and destroyed. *)
Place(c) ==
    /\ client[c] = "outside" \/ c \in Queued => socket[c] = "none"
    /\ c \in Queued => client[c] # "outside"
    /\ c \in Kept => socket[c] \in {"open", "closed"}
    /\ c \in Validated => c \in Kept
    /\ Denies(c) => c \notin Kept /\ socket[c] # "none"
    /\ Welcomes(c) => c \in Validated
    /\ socket[c] = "open" /\ crash = "no" => c \in Kept \/ Denies(c)
Registry ==
    /\ Distinct(backlog) /\ Distinct(m_deqConnections) /\ Distinct(validated)
    /\ \A c \in Clients : Place(c)

LEMMA ElementsAppend ==
    ASSUME NEW S, NEW s \in Seq(S), NEW x \in S
    PROVE  /\ Elements(Append(s, x)) = Elements(s) \union {x}
           /\ Distinct(s) /\ x \notin Elements(s) => Distinct(Append(s, x))
<1> DEFINE t == Append(s, x)
<1>1. /\ Len(t) = Len(s) + 1 /\ t[Len(s) + 1] = x /\ Len(s) \in Nat
      /\ \A i \in 1..Len(s) : t[i] = s[i]
  BY AppendProperties, LenProperties
<1> HIDE DEF t
<1>2. Elements(t) = Elements(s) \union {x}
  BY <1>1 DEF Elements
<1>3. ASSUME Distinct(s), x \notin Elements(s) PROVE Distinct(t)
  BY <1>1, <1>3 DEF Elements, Distinct
<1> QED
  BY <1>2, <1>3 DEF t

LEMMA ElementsTail ==
    ASSUME NEW S, NEW s \in Seq(S), s # <<>>, Distinct(s)
    PROVE  /\ Elements(Tail(s)) = Elements(s) \ {Head(s)}
           /\ Head(s) \in Elements(s)
           /\ Distinct(Tail(s))
<1> DEFINE t == Tail(s)
<1>1. /\ Len(s) \in Nat \ {0} /\ Len(t) = Len(s) - 1 /\ Head(s) = s[1]
      /\ \A i \in 1..Len(t) : t[i] = s[i + 1]
  BY HeadTailProperties, EmptySeq, LenProperties
<1> HIDE DEF t
<1>2. ASSUME NEW x \in Elements(t) PROVE x \in Elements(s) \ {s[1]}
  <2>1. PICK i \in 1..Len(t) : x = t[i]
    BY DEF Elements
  <2>2. i + 1 \in 1..Len(s) /\ 1 \in 1..Len(s) /\ i + 1 # 1 /\ x = s[i + 1]
    BY <1>1, <2>1
  <2> QED
    BY <2>2 DEF Elements, Distinct
<1>3. ASSUME NEW x \in Elements(s), x # s[1] PROVE x \in Elements(t)
  <2>1. PICK i \in 1..Len(s) : x = s[i]
    BY DEF Elements
  <2>2. i - 1 \in 1..Len(t) /\ t[i - 1] = s[i]
    BY <1>1, <1>3, <2>1
  <2> QED
    BY <2>1, <2>2 DEF Elements
<1>4. Distinct(t)
  BY <1>1 DEF Distinct
<1>5. s[1] \in Elements(s)
  BY <1>1 DEF Elements
<1> QED
  BY <1>1, <1>2, <1>3, <1>4, <1>5 DEF t

-----------------------------------------------------------------------------
LEMMA RegistryInit == Init => Registry
  BY DEF Init, Registry, Place, Distinct, Elements, Queued, Kept, Validated, Denies, Welcomes,
         Places

\* Steps that move no client: what a handler is about may change, if it still
\* is about a validated client, and a crash is never undone.
LEMMA RegistryStays ==
    ASSUME Registry, UNCHANGED <<backlog, client, m_deqConnections, socket, validated>>,
           crash' = "no" => crash = "no",
           \/ UNCHANGED <<io, serving>>
           \/ io \in Places /\ io' \in Places /\ serving' = serving
           \/ io \in Places /\ io' = "idle"
    PROVE  Registry'
<1>1. Queued' = Queued /\ Kept' = Kept /\ Validated' = Validated
  BY DEF Queued, Kept, Validated
<1>2. \A c \in Clients : Place(c)'
  BY <1>1 DEF Registry, Place, Denies, Welcomes, Places
<1> QED
  BY <1>2 DEF Registry

LEMMA RegistryClient ==
    ASSUME ServerInv, Registry, NEW c \in Clients, ClientStep(c) PROVE Registry'
<1>t. /\ backlog \in Seq(Clients)
      /\ client \in [Clients -> {"outside", "waiting", "denied", "silent", "answered",
                                 "left", "lost"}]
  BY DEF ServerInv, TypeOK
<1>1. UNCHANGED <<m_deqConnections, socket, validated, io, serving, crash>>
  BY DEF ClientStep, Dial, Answer, Leave
<1>2. Kept' = Kept /\ Validated' = Validated
  BY <1>1 DEF Kept, Validated
<1>3. CASE Dial(c)
  <2>1. /\ client[c] = "outside" /\ client'[c] = "waiting" /\ backlog' = Append(backlog, c)
        /\ \A d \in Clients : d # c => client'[d] = client[d]
    BY <1>3, <1>t DEF Dial
  <2>2. socket[c] = "none" /\ c \notin Queued
    BY <2>1 DEF Registry, Place
  <2>3. Queued' = Queued \union {c} /\ Distinct(backlog')
    BY <1>t, <2>1, <2>2, ElementsAppend DEF Queued, Registry
  <2>4. \A d \in Clients : Place(d)'
    BY <1>1, <1>2, <2>1, <2>2, <2>3 DEF Registry, Place, Denies, Welcomes
  <2> QED
    BY <1>1, <2>3, <2>4 DEF Registry
<1>4. CASE Answer(c) \/ Leave(c)
  <2>1. /\ backlog' = backlog /\ client'[c] # "outside" /\ client[c] # "outside"
        /\ \A d \in Clients : d # c => client'[d] = client[d]
    BY <1>4, <1>t DEF Answer, Leave
  <2>2. Queued' = Queued
    BY <2>1 DEF Queued
  <2>3. \A d \in Clients : Place(d)'
    BY <1>1, <1>2, <2>1, <2>2 DEF Registry, Place, Denies, Welcomes
  <2> QED
    BY <1>1, <2>1, <2>3 DEF Registry
<1> QED
  BY <1>3, <1>4 DEF ClientStep

LEMMA RegistryAccept ==
    ASSUME ServerInv, Registry, NEW c \in Clients, Accept(c)
    PROVE  /\ Registry'
           /\ c \notin Kept /\ c \notin Validated /\ socket[c] = "none"
<1>t. /\ backlog \in Seq(Clients) /\ m_deqConnections \in Seq(Clients)
      /\ client \in [Clients -> {"outside", "waiting", "denied", "silent", "answered",
                                 "left", "lost"}]
      /\ socket \in [Clients -> {"none", "open", "closed", "destroyed"}]
  BY DEF ServerInv, TypeOK
<1>1. /\ backlog # <<>> /\ c = Head(backlog) /\ backlog' = Tail(backlog)
      /\ socket'[c] = "open" /\ \A d \in Clients : d # c => socket'[d] = socket[d]
      /\ io = "idle" /\ crash = "no" /\ validated' = validated
  BY <1>t DEF Accept, AcceptThrows, Approve, Deny, TakeFirst, IoReady
<1>2. Queued' = Queued \ {c} /\ c \in Queued /\ Distinct(backlog')
  BY <1>t, <1>1, ElementsTail DEF Queued, Registry
<1>3. socket[c] = "none" /\ client[c] # "outside" /\ c \notin Kept /\ c \notin Validated
  BY <1>2 DEF Registry, Place
<1>4. client'[c] # "outside" /\ \A d \in Clients : d # c => client'[d] = client[d]
  BY <1>t, <1>3 DEF Accept, AcceptThrows, Approve, Deny
<1>5. Validated' = Validated
  BY <1>1 DEF Validated
<1>6. CASE AcceptThrows(c)
  <2>1. UNCHANGED <<m_deqConnections, io, serving>> /\ crash' = "remote_endpoint"
    BY <1>6 DEF AcceptThrows
  <2>2. Kept' = Kept
    BY <2>1 DEF Kept
  <2>3. \A d \in Clients : Place(d)'
    BY <1>1, <1>2, <1>3, <1>4, <1>5, <2>1, <2>2
    DEF Registry, Place, Denies, Welcomes, Places
  <2> QED
    BY <1>1, <1>2, <1>3, <2>1, <2>3 DEF Registry
<1>7. CASE Approve(c)
  <2>1. /\ m_deqConnections' = Append(m_deqConnections, c)
        /\ UNCHANGED <<io, serving, crash>>
    BY <1>7 DEF Approve
  <2>2. Kept' = Kept \union {c} /\ Distinct(m_deqConnections')
    BY <1>t, <1>3, <2>1, ElementsAppend DEF Kept, Registry
  <2>3. \A d \in Clients : Place(d)'
    BY <1>1, <1>2, <1>3, <1>4, <1>5, <2>1, <2>2
    DEF Registry, Place, Denies, Welcomes, Places
  <2> QED
    BY <1>1, <1>2, <1>3, <2>2, <2>3 DEF Registry
<1>8. CASE Deny(c)
  <2>1. /\ UNCHANGED <<m_deqConnections, crash>> /\ io' = "denying" /\ serving' = c
    BY <1>8 DEF Deny
  <2>2. Kept' = Kept
    BY <2>1 DEF Kept
  <2>3. \A d \in Clients : Place(d)'
    BY <1>1, <1>2, <1>3, <1>4, <1>5, <2>1, <2>2
    DEF Registry, Place, Denies, Welcomes, Places
  <2> QED
    BY <1>1, <1>2, <1>3, <2>1, <2>3 DEF Registry
<1> QED
  BY <1>3, <1>6, <1>7, <1>8 DEF Accept

LEMMA RegistryClose ==
    ASSUME ServerInv, Registry, (\E c \in Clients : Close(c)) \/ EndDenial
    PROVE  Registry'
<1>t. socket \in [Clients -> {"none", "open", "closed", "destroyed"}]
  BY DEF ServerInv, TypeOK
<1>1. UNCHANGED <<backlog, client, m_deqConnections, validated, crash>> /\ crash = "no"
  BY DEF Close, EndDenial, IoReady
<1>2. Queued' = Queued /\ Kept' = Kept /\ Validated' = Validated
  BY <1>1 DEF Queued, Kept, Validated
<1>3. ASSUME NEW c \in Clients, Close(c) PROVE Registry'
  <2>1. /\ c \in Kept /\ socket'[c] = "closed"
        /\ \A d \in Clients : d # c => socket'[d] = socket[d]
        /\ UNCHANGED <<io, serving>> /\ io = "idle"
    BY <1>t, <1>3 DEF Close, IoReady, Connected, Kept, Elements, get_connections
  <2>2. \A d \in Clients : Place(d)'
    BY <1>1, <1>2, <2>1 DEF Registry, Place, Denies, Welcomes, Places
  <2> QED
    BY <1>1, <2>2 DEF Registry
<1>4. CASE EndDenial
  <2>1. /\ io = "denying" /\ io' = "idle" /\ serving \in Clients
        /\ socket'[serving] = "destroyed"
        /\ \A d \in Clients : d # serving => socket'[d] = socket[d]
    BY <1>t, <1>4 DEF EndDenial, ServerInv, Serving
  <2>2. \A d \in Clients : Place(d)'
    BY <1>1, <1>2, <2>1 DEF Registry, Place, Denies, Welcomes, Places
  <2> QED
    BY <1>1, <2>2 DEF Registry
<1> QED
  BY <1>3, <1>4

LEMMA RegistryValidate ==
    ASSUME ServerInv, Registry, NEW c \in Clients, Validate(c)
    PROVE  /\ Registry' /\ c \in Kept /\ c \notin Validated
           /\ Validated' = Validated \union {c} /\ Kept' = Kept
<1>t. validated \in Seq(Clients)
  BY DEF ServerInv, TypeOK
<1>1. /\ UNCHANGED <<backlog, client, m_deqConnections, socket, crash>>
      /\ io' = "layout" /\ serving' = c /\ io = "idle" /\ crash = "no"
      /\ validated' = Append(validated, c)
  BY DEF Validate, IoReady
<1>2. Queued' = Queued /\ Kept' = Kept
  BY <1>1 DEF Queued, Kept
<1>3. c \in Kept /\ c \notin Validated
  BY DEF Validate, Connected, Kept, Validated, Elements, get_connections
<1>4. Validated' = Validated \union {c} /\ Distinct(validated')
  BY <1>t, <1>1, <1>3, ElementsAppend DEF Validated, Registry
<1>5. \A d \in Clients : Place(d)'
  BY <1>1, <1>2, <1>3, <1>4 DEF Registry, Place, Denies, Welcomes, Places
<1> QED
  BY <1>1, <1>2, <1>3, <1>4, <1>5 DEF Registry

LEMMA WelcomingFrame ==
    ASSUME ServerInv, Welcoming
    PROVE  /\ UNCHANGED <<backlog, client, m_deqConnections, socket, validated, sent>>
           /\ io \in Places /\ crash = "no" /\ serving \in Clients
           /\ \/ io' \in Places /\ serving' = serving
              \/ io' = "idle"
<1>1. UNCHANGED <<backlog, client, m_deqConnections, socket, validated, sent>>
  BY DEF Welcoming, MapThrows, SendLayout, SendConfig, SendSize, ReadArgument, SendEntities,
         Elsewhere
<1>2. io \in Places /\ crash = "no"
  BY DEF Welcoming, MapThrows, SendLayout, SendConfig, SendSize, ReadArgument, SendEntities,
         In, Places
<1>3. serving \in Clients
  BY <1>2 DEF ServerInv, Serving, Places
<1>4. (io' \in Places /\ serving' = serving) \/ io' = "idle"
  BY <1>2 DEF Welcoming, MapThrows, SendLayout, SendConfig, SendSize, ReadArgument,
              SendEntities, Places
<1> QED
  BY <1>1, <1>2, <1>3, <1>4

LEMMA RegistryNext == ServerInv /\ Registry /\ [Next]_vars => Registry'
<1> SUFFICES ASSUME ServerInv, Registry, [Next]_vars PROVE Registry'
  OBVIOUS
<1>1. CASE UNCHANGED vars
  BY <1>1, RegistryStays
<1>2. CASE \E c \in Clients : ClientStep(c)
  BY <1>2, RegistryClient
<1>3. CASE StartServer \/ StartEnvironment \/ Simulate \/ RunTask
  <2>1. /\ UNCHANGED <<backlog, client, m_deqConnections, socket, validated, io, serving>>
        /\ crash' = "no" => crash = "no"
    BY <1>3 DEF StartServer, StartEnvironment, Simulate, RunTask, IoReady
  <2> QED
    BY <2>1, RegistryStays
<1>4. CASE \E c \in Clients : Accept(c)
  BY <1>4, RegistryAccept
<1>5. CASE (\E c \in Clients : Close(c)) \/ EndDenial
  BY <1>5, RegistryClose
<1>6. CASE \E c \in Clients : Validate(c)
  BY <1>6, RegistryValidate
<1>7. CASE Welcoming
  BY <1>7, WelcomingFrame, RegistryStays
<1> QED
  BY <1>1, <1>2, <1>3, <1>4, <1>5, <1>6, <1>7 DEF Next, IoStep
-----------------------------------------------------------------------------
(* Which map a welcome is about: the connections are counted, so the maps rise
   with the validations, and who gets map n was among the first n + 1. *)
Early(c) ==
    /\ welcome[c].map < get_connections
    /\ \E k \in 1..(welcome[c].map + 1) : m_deqConnections[k] = c
MapsInOrder ==
    /\ \A i \in 1..Len(validated) : Early(validated[i])
    /\ \A i, j \in 1..Len(validated) :
          i < j => welcome[validated[i]].map <= welcome[validated[j]].map

LEMMA WelcomeKinds ==
    ASSUME ServerInv
    PROVE  /\ welcome \in [Clients -> WelcomeRecord]
           /\ \A c \in Clients : /\ welcome[c] \in WelcomeRecord
                                 /\ welcome[c].map \in Maps /\ welcome[c].map \in Nat
<1>1. welcome \in [Clients -> WelcomeRecord]
  BY DEF ServerInv, TypeOK
<1>2. \A c \in Clients : welcome[c] \in WelcomeRecord
  BY <1>1
<1> QED
  BY <1>1, <1>2 DEF WelcomeRecord, Maps

\* The callback changes only its own welcome, and neither its map nor early.
LEMMA WelcomeFrame ==
    ASSUME ServerInv, Welcoming
    PROVE  /\ \A d \in Clients : d # serving => welcome'[d] = welcome[d]
           /\ \A d \in Clients : /\ welcome'[d].map = welcome[d].map
                                 /\ welcome'[d].early = welcome[d].early
<1>1. welcome \in [Clients -> WelcomeRecord] /\ serving \in Clients
      /\ Told \in WelcomeRecord
  BY WelcomeKinds, WelcomingFrame DEF Told
<1>2. \/ welcome' = welcome
      \/ \E b : welcome' = [welcome EXCEPT ![serving] = [Told EXCEPT !.wild = b]]
      \/ \E n, b : welcome' = [welcome EXCEPT ![serving] = [Told EXCEPT !.size = n, !.wild = b]]
      \/ \E n : welcome' = [welcome EXCEPT ![serving] = [Told EXCEPT !.copied = n]]
      \/ \E n : welcome' = [welcome EXCEPT ![serving] = [Told EXCEPT !.count = n]]
  <2>1. CASE SendSize
    <3>1. PICK read, n :
            welcome' = [welcome EXCEPT
              ![serving] = [Told EXCEPT !.size = n, !.wild = @ \union Remains("size", read)]]
      BY <2>1 DEF SendSize, Told
    <3> QED
      BY <3>1
  <2>2. CASE MapThrows \/ SendLayout \/ SendConfig \/ ReadArgument \/ SendEntities
    BY <2>2 DEF MapThrows, SendLayout, SendConfig, ReadArgument, SendEntities, Told
  <2> QED
    BY <2>1, <2>2 DEF Welcoming
<1>3. \/ welcome' = welcome
      \/ \E w : /\ welcome' = [welcome EXCEPT ![serving] = w]
               /\ w.map = Told.map /\ w.early = Told.early
  BY <1>1, <1>2 DEF WelcomeRecord
<1> QED
  BY <1>1, <1>3 DEF Told

LEMMA MapsStay ==
    ASSUME MapsInOrder, UNCHANGED <<validated, m_deqConnections>>, validated \in Seq(Clients),
           \A c \in Clients : welcome'[c].map = welcome[c].map
    PROVE  MapsInOrder'
<1>1. /\ validated' = validated /\ m_deqConnections' = m_deqConnections
      /\ \A i \in 1..Len(validated) : welcome'[validated[i]].map = welcome[validated[i]].map
  BY ElementOfSeq
<1>2. \A i \in 1..Len(validated) : Early(validated[i])'
  BY <1>1 DEF MapsInOrder, Early, get_connections
<1> QED
  BY <1>1, <1>2 DEF MapsInOrder

LEMMA MapsNext ==
    ASSUME ServerInv, Registry, MapsInOrder, [Next]_vars PROVE MapsInOrder'
<1>t. validated \in Seq(Clients) /\ m_deqConnections \in Seq(Clients)
      /\ Len(validated) \in Nat /\ get_connections \in Nat
      /\ welcome \in [Clients -> WelcomeRecord]
  BY WelcomeKinds DEF ServerInv, TypeOK, get_connections
<1>v. \A i \in 1..Len(validated) : validated[i] \in Clients
  BY <1>t, ElementOfSeq
<1>1. CASE UNCHANGED <<validated, m_deqConnections, welcome>>
  BY <1>1, <1>t, MapsStay
<1>2. CASE Welcoming
  <2>1. UNCHANGED <<validated, m_deqConnections>>
    BY <1>2, WelcomingFrame
  <2>2. \A c \in Clients : welcome'[c].map = welcome[c].map
    BY <1>2, WelcomeFrame
  <2> QED
    BY <2>1, <2>2, <1>t, MapsStay
<1>3. ASSUME NEW c \in Clients, Approve(c) PROVE MapsInOrder'
  <2>1. /\ m_deqConnections' = Append(m_deqConnections, c)
        /\ UNCHANGED <<validated, welcome>>
    BY <1>3 DEF Approve
  <2>2. /\ Len(m_deqConnections') = get_connections + 1
        /\ \A k \in 1..get_connections : m_deqConnections'[k] = m_deqConnections[k]
    BY <1>t, <2>1, AppendProperties DEF get_connections
  <2>3. \A i \in 1..Len(validated) : Early(validated[i])'
    <3> SUFFICES ASSUME NEW i \in 1..Len(validated) PROVE Early(validated[i])'
      OBVIOUS
    <3> DEFINE n == welcome[validated[i]].map
    <3>1. n \in Nat /\ n < get_connections
          /\ \E k \in 1..(n + 1) : m_deqConnections[k] = validated[i]
      BY <1>v, WelcomeKinds DEF MapsInOrder, Early
    <3>2. n < Len(m_deqConnections')
          /\ \E k \in 1..(n + 1) : m_deqConnections'[k] = validated[i]
      <4>1. \A k \in 1..(n + 1) : k \in 1..get_connections
        BY <3>1, <1>t
      <4> QED
        BY <3>1, <2>2, <4>1, <1>t
    <3> QED
      BY <3>2, <2>1 DEF Early, get_connections
  <2> QED
    BY <2>1, <2>3 DEF MapsInOrder
<1>4. ASSUME NEW c \in Clients, Validate(c) PROVE MapsInOrder'
  <2> DEFINE n == Len(validated)
  <2>1. /\ validated' = Append(validated, c) /\ m_deqConnections' = m_deqConnections
        /\ welcome' = [welcome EXCEPT ![c].map = get_connections - 1,
                                      ![c].early = env # "running"]
    BY <1>4 DEF Validate
  <2>2. /\ welcome'[c].map = get_connections - 1
        /\ \A d \in Clients : d # c => welcome'[d] = welcome[d]
    BY <2>1, <1>t DEF WelcomeRecord
  <2>3. /\ Len(validated') = n + 1 /\ validated'[n + 1] = c
        /\ \A i \in 1..n : validated'[i] = validated[i] /\ validated[i] # c
    BY <1>t, <2>1, <1>4, AppendProperties DEF Validate
  <2>4. \A i \in 1..n : /\ Early(validated[i])'
                        /\ welcome'[validated[i]].map = welcome[validated[i]].map
                        /\ welcome[validated[i]].map \in Nat
                        /\ welcome[validated[i]].map < get_connections
    BY <1>v, <2>1, <2>2, <2>3, WelcomeKinds DEF MapsInOrder, Early, get_connections
  <2>5. Early(c)'
    <3>1. PICK k \in 1..get_connections : m_deqConnections[k] = c
      BY <1>4 DEF Validate, Connected
    <3> QED
      BY <3>1, <2>1, <2>2, <1>t DEF Early, get_connections
  <2> HIDE DEF n
  <2>6. n \in Nat
    BY <1>t DEF n
  <2>7. \A i \in 1..(n + 1) : i \in 1..n \/ i = n + 1
    BY <2>6
  <2>8. \A i \in 1..Len(validated') : Early(validated[i])'
    BY <2>3, <2>4, <2>5, <2>7
  <2>9. ASSUME NEW i \in 1..Len(validated'), NEW j \in 1..Len(validated'), i < j
        PROVE  welcome'[validated'[i]].map <= welcome'[validated'[j]].map
    <3>1. i \in 1..n /\ (j \in 1..n \/ j = n + 1)
      BY <2>3, <2>6, <2>9
    <3>2. CASE j \in 1..n
      <4>1. welcome[validated[i]].map <= welcome[validated[j]].map
        BY <3>1, <3>2, <2>9 DEF MapsInOrder, n
      <4> QED
        BY <3>1, <3>2, <2>3, <2>4, <4>1
    <3>3. CASE j = n + 1
      <4>1. welcome'[validated'[j]].map = get_connections - 1
        BY <3>3, <2>2, <2>3
      <4>2. welcome'[validated'[i]].map \in Nat
            /\ welcome'[validated'[i]].map < get_connections
        BY <3>1, <2>3, <2>4
      <4> QED
        BY <4>1, <4>2, <1>t
    <3> QED
      BY <3>1, <3>2, <3>3
  <2> QED
    BY <2>8, <2>9 DEF MapsInOrder
<1>5. \/ UNCHANGED <<validated, m_deqConnections, welcome>>
      \/ Welcoming
      \/ \E c \in Clients : Approve(c) \/ Validate(c)
  BY DEF Next, IoStep, ClientStep, Dial, Answer, Leave, StartServer, StartEnvironment,
         Simulate, Accept, AcceptThrows, Deny, Close, EndDenial, RunTask
<1> QED
  BY <1>1, <1>2, <1>3, <1>4, <1>5

LEMMA MapsInit == Init => MapsInOrder
  BY DEF Init, MapsInOrder

LEMMA MapsShared ==
    ASSUME ServerInv, Registry, MapsInOrder PROVE SharedMapOnlyIfOverlapping
<1> SUFFICES ASSUME NEW i \in 1..Len(validated), NEW j \in 1..Len(validated), i < j,
                    welcome[validated[i]].map = welcome[validated[j]].map
             PROVE  Position(validated[j]) <= welcome[validated[i]].map + 1
  BY DEF MapsInOrder, SharedMapOnlyIfOverlapping
<1> DEFINE c == validated[j]
           n == welcome[c].map
<1>1. c \in Clients /\ n \in Nat /\ get_connections \in Nat
  BY ElementOfSeq, WelcomeKinds DEF ServerInv, TypeOK, get_connections
<1>2. n < get_connections
  BY DEF MapsInOrder, Early
<1>3. PICK k \in 1..(n + 1) : m_deqConnections[k] = c
  BY DEF MapsInOrder, Early
<1>4. k \in 1..get_connections
  BY <1>1, <1>2
<1>5. Position(c) = k
  BY <1>3, <1>4 DEF Position, Registry, Distinct, get_connections
<1> QED
  BY <1>1, <1>5
-----------------------------------------------------------------------------
(* What a welcome says: entities are only added, so the size announced stays
   covered, and once the environment runs nothing that is read changes. *)
Fed == /\ env = "running" => fed = m_map_count
       /\ \A i \in Maps : i < fed => food[i] = MAX_FOOD_PER_MAP

\* How far the welcome of c is: the fields that are read already.
SizeKnown(c) == c \in Validated /\ (Welcomes(c) => io \in {"entities", "copy", "count"})
CopiedKnown(c) == c \in Validated /\ (Welcomes(c) => io = "count")
CountKnown(c) == c \in Validated /\ (Welcomes(c) => io = "copy")

Covered(c) ==
    SizeKnown(c) /\ "size" \notin welcome[c].wild =>
        /\ welcome[c].size <= food[welcome[c].map]
        /\ CopiedKnown(c) => welcome[c].size <= welcome[c].copied
        /\ CountKnown(c) => welcome[c].size <= welcome[c].count

InTime(c) ==
    c \in Validated /\ ~welcome[c].early =>
        /\ env = "running"
        /\ welcome[c].wild = {}
        /\ SizeKnown(c) => welcome[c].size = MAX_FOOD_PER_MAP
        /\ CopiedKnown(c) => welcome[c].copied = MAX_FOOD_PER_MAP
        /\ CountKnown(c) => welcome[c].count = MAX_FOOD_PER_MAP

WelcomeOf(c) ==
    /\ c \notin Validated => welcome[c].wild = {}
    /\ Covered(c)
    /\ InTime(c)
WelcomeInv == Fed /\ \A c \in Clients : WelcomeOf(c)

LEMMA FedInit == Init => Fed
  BY DEF Init, EnvInit, Fed, Maps

\* Food is only added, and nothing happens to it once the environment runs.
LEMMA FedNext ==
    ASSUME EnvInv, Fed, StartThread \/ EnvStep \/ UNCHANGED envVars
    PROVE  /\ Fed'
           /\ env = "running" => UNCHANGED envVars
           /\ \A i \in Maps : food[i] <= food'[i] /\ food'[i] \in Nat
<1>t. /\ food \in [Maps -> 0..MAX_FOOD_PER_MAP] /\ fed \in Nat /\ m_map_count \in Nat
      /\ MAX_FOOD_PER_MAP \in Nat /\ \A i \in Maps : food[i] \in Nat /\ i \in Nat
  BY EnvironmentAssumption DEF EnvInv, EnvTypeOK, Maps
<1>1. env = "running" => UNCHANGED envVars
  BY DEF StartThread, EnvStep, BeginMap, EndMap, FeedMap, Launch
<1>2. CASE UNCHANGED <<fed, food>> /\ (env' = "running" => fed = m_map_count)
  <2>1. Fed'
    BY <1>2 DEF Fed
  <2> QED
    BY <1>1, <1>2, <1>t, <2>1
<1>3. CASE FeedMap
  <2>1. /\ env = "feeding" /\ env' = "feeding" /\ fed < m_map_count
        /\ food' = [food EXCEPT ![fed] = food[fed] + 1]
        /\ fed' = IF food[fed] + 1 = MAX_FOOD_PER_MAP THEN fed + 1 ELSE fed
    BY <1>3 DEF FeedMap
  <2>2. food'[fed] = food[fed] + 1 /\ \A i \in Maps : i # fed => food'[i] = food[i]
    BY <1>t, <2>1 DEF Maps
  <2>3. \A i \in Maps : i < fed' => food'[i] = MAX_FOOD_PER_MAP
    BY <1>t, <2>1, <2>2 DEF Fed
  <2>4. Fed'
    BY <2>1, <2>3 DEF Fed
  <2>5. \A i \in Maps : food[i] <= food'[i] /\ food'[i] \in Nat
    BY <1>t, <2>2
  <2> QED
    BY <1>1, <2>4, <2>5
<1>4. FeedMap \/ (UNCHANGED <<fed, food>> /\ (env' = "running" => fed = m_map_count))
  BY DEF StartThread, EnvStep, BeginMap, EndMap, Launch, Fed
<1> QED
  BY <1>2, <1>3, <1>4

LEMMA ToldStays ==
    ASSUME ServerInv, NEW d \in Clients, WelcomeOf(d), welcome'[d] = welcome[d],
           Validated' = Validated, Welcomes(d)' => Welcomes(d) /\ io' = io,
           Welcomes(d) => Welcomes(d)',
           env = "running" => env' = "running",
           \A i \in Maps : food[i] <= food'[i] /\ food'[i] \in Nat
    PROVE  WelcomeOf(d)'
<1>1. /\ SizeKnown(d)' => SizeKnown(d)
      /\ CopiedKnown(d)' => CopiedKnown(d)
      /\ CountKnown(d)' => CountKnown(d)
  BY DEF SizeKnown, CopiedKnown, CountKnown
<1>2. Covered(d)'
  <2>0. welcome[d].map \in Maps /\ welcome[d].size \in 0..WildSize
    BY WelcomeKinds DEF WelcomeRecord
  <2>1. /\ welcome[d].map \in Maps /\ food[welcome[d].map] \in Nat
        /\ welcome[d].size \in Nat
    BY <2>0, EnvironmentAssumption DEF ServerInv, TypeOK, EnvTypeOK
  <2>2. food[welcome[d].map] <= food'[welcome[d].map] /\ food'[welcome[d].map] \in Nat
    BY <2>1
  <2> QED
    BY <1>1, <2>1, <2>2 DEF WelcomeOf, Covered
<1>3. InTime(d)'
  BY <1>1 DEF WelcomeOf, InTime
<1> QED
  BY <1>2, <1>3 DEF WelcomeOf

LEMMA Running ==
    ASSUME EnvInv, Fed, env = "running", NEW i \in Maps
    PROVE  food[i] = MAX_FOOD_PER_MAP /\ at_get_map(i) = {"map"}
<1>1. i \in Nat /\ i < m_map_count /\ fed = m_map_count /\ m_maps = m_map_count
  BY EnvironmentAssumption DEF EnvInv, Fed, Maps
<1> QED
  BY <1>1 DEF Fed, at_get_map

\* What each step of the callback does to the welcome of the client it serves.
LEMMA ToldByRead ==
    ASSUME ServerInv, Registry, Fed, NEW c \in Clients, c = serving, WelcomeOf(c),
           SendLayout \/ SendConfig
    PROVE  WelcomeOf(c)'
<1>1. /\ c \in Clients /\ Welcomes(c) /\ c \in Validated /\ Validated' = Validated
      /\ io \in {"layout", "config"} /\ io' \in {"config", "size"} /\ Welcomes(c)'
      /\ UNCHANGED envVars /\ serving' = serving
  <2>1. io \in {"layout", "config"} /\ io' \in {"config", "size"} /\ UNCHANGED envVars
        /\ serving' = serving /\ validated' = validated
    BY DEF SendLayout, SendConfig, In, Elsewhere
  <2>2. Welcomes(c) /\ Welcomes(c)'
    BY <2>1 DEF Welcomes, Places
  <2> QED
    BY <2>1, <2>2 DEF Registry, Place, Validated
<1>2. PICK read \in at_get_map(Told.map) :
        welcome' = [welcome EXCEPT ![c].wild = @ \union Remains("map", read)]
  BY DEF SendLayout, SendConfig
<1>3. welcome'[c] = [welcome[c] EXCEPT !.wild = @ \union Remains("map", read)]
  BY <1>1, <1>2, WelcomeKinds
<1>4. welcome[c] \in WelcomeRecord /\ welcome[c].map \in Maps
  BY <1>1, WelcomeKinds
<1>5. /\ welcome'[c].early = welcome[c].early
      /\ read # "wild" => welcome'[c].wild = welcome[c].wild
  BY <1>3, <1>4 DEF WelcomeRecord, Remains
<1>6. ~SizeKnown(c)' /\ ~CopiedKnown(c)' /\ ~CountKnown(c)'
  BY <1>1 DEF SizeKnown, CopiedKnown, CountKnown
<1>7. env = "running" => read # "wild"
  BY <1>2, <1>4, Running DEF ServerInv, Told
<1>8. InTime(c)'
  BY <1>1, <1>5, <1>6, <1>7 DEF WelcomeOf, InTime
<1> QED
  BY <1>1, <1>6, <1>8 DEF WelcomeOf, Covered

LEMMA ToldBySize ==
    ASSUME ServerInv, Registry, Fed, NEW c \in Clients, c = serving, WelcomeOf(c),
           SendSize
    PROVE  WelcomeOf(c)'
<1>1. /\ c \in Clients /\ Welcomes(c) /\ c \in Validated /\ Validated' = Validated
      /\ io' = "entities" /\ Welcomes(c)'
      /\ UNCHANGED envVars /\ serving' = serving
  <2>1. io = "size" /\ io' = "entities" /\ UNCHANGED envVars
        /\ serving' = serving /\ validated' = validated
    BY DEF SendSize, In, Elsewhere
  <2>2. Welcomes(c) /\ Welcomes(c)'
    BY <2>1 DEF Welcomes, Places
  <2> QED
    BY <2>1, <2>2 DEF Registry, Place, Validated
<1>r. PICK read \in at_get_map(Told.map) : \E size \in Sizes(Told.map, read) :
        welcome' = [welcome EXCEPT ![c].size = size,
                                   ![c].wild = @ \union Remains("size", read)]
  BY DEF SendSize
<1>2. PICK size \in Sizes(Told.map, read) :
        welcome' = [welcome EXCEPT ![c].size = size,
                                   ![c].wild = @ \union Remains("size", read)]
  BY <1>r
<1>3. welcome[c] \in WelcomeRecord /\ welcome[c].map \in Maps /\ welcome \in [Clients -> WelcomeRecord]
  BY <1>1, WelcomeKinds
<1>4. /\ welcome'[c].early = welcome[c].early /\ welcome'[c].map = welcome[c].map
      /\ welcome'[c].wild = welcome[c].wild \union Remains("size", read)
      /\ welcome'[c].size = size
  BY <1>1, <1>2, <1>3 DEF WelcomeRecord
<1>5. ~CopiedKnown(c)' /\ ~CountKnown(c)'
  BY <1>1 DEF CopiedKnown, CountKnown
<1>6. Covered(c)'
  <2>1. food[welcome[c].map] \in Nat /\ food' = food
    BY <1>1, <1>3, EnvironmentAssumption DEF ServerInv, TypeOK, EnvTypeOK
  <2>2. "size" \notin welcome'[c].wild => size = food[welcome[c].map]
    BY <1>1, <1>2, <1>4 DEF Remains, Sizes, Told
  <2> QED
    BY <1>4, <1>5, <2>1, <2>2 DEF Covered
<1>7. env = "running" => /\ Remains("size", read) = {}
                         /\ size = food[welcome[c].map] /\ size = MAX_FOOD_PER_MAP
  BY <1>1, <1>r, <1>2, <1>3, Running DEF ServerInv, Told, Remains, Sizes
<1>8. InTime(c)'
  BY <1>1, <1>4, <1>5, <1>7 DEF WelcomeOf, InTime
<1> QED
  BY <1>1, <1>6, <1>8 DEF WelcomeOf

\* The argument read first, and the one that completes the last message.
LEMMA ToldByArguments ==
    ASSUME ServerInv, Registry, Fed, NEW c \in Clients, c = serving, WelcomeOf(c),
           ReadArgument \/ SendEntities
    PROVE  WelcomeOf(c)'
<1> DEFINE n == food[welcome[c].map]
<1>1. /\ c \in Clients /\ io \in {"entities", "count", "copy"} /\ UNCHANGED envVars
      /\ validated' = validated
  BY WelcomingFrame DEF Welcoming, ReadArgument, SendEntities, In, Elsewhere
<1>2. Welcomes(c) /\ c \in Validated /\ Validated' = Validated /\ SizeKnown(c)
  BY <1>1 DEF Registry, Place, Validated, Welcomes, Places, SizeKnown
<1>3. welcome[c] \in WelcomeRecord /\ welcome[c].map \in Maps /\ welcome \in [Clients -> WelcomeRecord]
      /\ n \in Nat /\ welcome[c].size \in Nat
  BY <1>1, WelcomeKinds, EnvironmentAssumption
  DEF ServerInv, TypeOK, EnvTypeOK, WelcomeRecord, WildSize
<1>4. /\ welcome'[c].early = welcome[c].early /\ welcome'[c].wild = welcome[c].wild
      /\ welcome'[c].map = welcome[c].map /\ welcome'[c].size = welcome[c].size
      /\ CopiedKnown(c)' => welcome'[c].copied = n \/ (CopiedKnown(c) /\ welcome'[c].copied = welcome[c].copied)
      /\ CountKnown(c)' => welcome'[c].count = n \/ (CountKnown(c) /\ welcome'[c].count = welcome[c].count)
  <2>1. CASE welcome' = [welcome EXCEPT ![c].copied = n] /\ io \in {"entities", "copy"}
             /\ (CountKnown(c)' => io = "copy")
    BY <2>1, <1>1, <1>2, <1>3 DEF WelcomeRecord, CountKnown
  <2>2. CASE welcome' = [welcome EXCEPT ![c].count = n] /\ io \in {"entities", "count"}
             /\ (CopiedKnown(c)' => io = "count")
    BY <2>2, <1>1, <1>2, <1>3 DEF WelcomeRecord, CopiedKnown
  <2>3. CASE ReadArgument
    <3>1. PICK first \in {"copied", "count"} :
            /\ io = "entities" /\ io' = IF first = "copied" THEN "count" ELSE "copy"
            /\ welcome' = [welcome EXCEPT ![c][first] = n] /\ serving' = serving
      BY <2>3 DEF ReadArgument, In, Told
    <3>2. Welcomes(c)'
      BY <3>1 DEF Welcomes, Places
    <3>3. first = "copied" => ~CountKnown(c)'
      BY <3>1, <3>2 DEF CountKnown
    <3>4. first = "count" => ~CopiedKnown(c)'
      BY <3>1, <3>2 DEF CopiedKnown
    <3> QED
      BY <3>1, <3>3, <3>4, <2>1, <2>2
  <2>4. CASE SendEntities
    BY <2>4, <2>1, <2>2 DEF SendEntities, In, Told
  <2> QED
    BY <2>3, <2>4
<1>5. Covered(c)'
  <2>1. "size" \notin welcome[c].wild =>
            /\ welcome[c].size <= n
            /\ CopiedKnown(c) => welcome[c].size <= welcome[c].copied
            /\ CountKnown(c) => welcome[c].size <= welcome[c].count
    BY <1>2 DEF WelcomeOf, Covered
  <2> QED
    BY <1>1, <1>4, <2>1 DEF Covered
<1>6. env = "running" => n = MAX_FOOD_PER_MAP
  BY <1>3, Running DEF ServerInv
<1>7. InTime(c)'
  BY <1>1, <1>2, <1>4, <1>6 DEF WelcomeOf, InTime
<1> QED
  BY <1>2, <1>5, <1>7 DEF WelcomeOf

LEMMA ToldByValidation ==
    ASSUME ServerInv, Registry, NEW c \in Clients, WelcomeOf(c), Validate(c)
    PROVE  WelcomeOf(c)'
<1>1. /\ c \notin Validated /\ c \in Validated'
      /\ welcome' = [welcome EXCEPT ![c].map = get_connections - 1,
                                    ![c].early = env # "running"]
      /\ io' = "layout" /\ serving' = c /\ UNCHANGED envVars
  BY RegistryValidate DEF Validate
<1>2. ~SizeKnown(c)' /\ ~CopiedKnown(c)' /\ ~CountKnown(c)'
  BY <1>1 DEF SizeKnown, CopiedKnown, CountKnown, Welcomes, Places
<1>3. /\ welcome'[c].wild = welcome[c].wild
      /\ welcome'[c].early = (env # "running")
  BY <1>1, WelcomeKinds DEF WelcomeRecord
<1>4. InTime(c)'
  BY <1>1, <1>2, <1>3 DEF WelcomeOf, InTime
<1> QED
  BY <1>1, <1>2, <1>4 DEF WelcomeOf, Covered

LEMMA WelcomeNext ==
    ASSUME ServerInv, Registry, WelcomeInv, [Next]_vars PROVE WelcomeInv'
<1>1. EnvInv /\ Fed
  BY DEF ServerInv, WelcomeInv
<1>2. StartThread \/ EnvStep \/ UNCHANGED envVars
  BY DEF Next, IoStep, ClientStep, Dial, Answer, Leave, StartServer, StartEnvironment,
         Simulate, Accept, AcceptThrows, Approve, Deny, Close, Validate, EndDenial, RunTask,
         Welcoming, MapThrows, SendLayout, SendConfig, SendSize, ReadArgument,
         SendEntities, Elsewhere
<1>3. /\ Fed'
      /\ env = "running" => env' = "running"
      /\ \A i \in Maps : food[i] <= food'[i] /\ food'[i] \in Nat
  BY <1>1, <1>2, FedNext
<1>4. ASSUME NEW d \in Clients PROVE WelcomeOf(d)'
  <2>1. WelcomeOf(d)
    BY DEF WelcomeInv
  <2>2. CASE UNCHANGED <<welcome, validated>>
             /\ (UNCHANGED <<io, serving>> \/ (io \notin Places /\ io' \notin Places))
    <3>1. welcome'[d] = welcome[d] /\ Validated' = Validated
      BY <2>2 DEF Validated
    <3>2. (Welcomes(d)' => Welcomes(d) /\ io' = io) /\ (Welcomes(d) => Welcomes(d)')
      BY <2>2 DEF Welcomes
    <3> QED
      BY <1>3, <2>1, <3>1, <3>2, ToldStays
  <2>3. CASE Welcoming /\ d # serving
    <3>1. welcome'[d] = welcome[d] /\ Validated' = Validated
      BY <2>3, WelcomingFrame, WelcomeFrame DEF Validated
    <3>2. ~Welcomes(d) /\ ~Welcomes(d)'
      BY <2>3, WelcomingFrame DEF Welcomes, Places
    <3> QED
      BY <1>3, <2>1, <3>1, <3>2, ToldStays
  <2>4. CASE Welcoming /\ d = serving /\ ~MapThrows
    BY <1>1, <2>1, <2>4, ToldByRead, ToldBySize, ToldByArguments DEF Welcoming
  <2>5. CASE MapThrows
    <3>1. welcome'[d] = welcome[d] /\ Validated' = Validated /\ UNCHANGED <<io, serving>>
      BY <2>5 DEF MapThrows, Elsewhere, Validated
    <3>2. (Welcomes(d)' => Welcomes(d) /\ io' = io) /\ (Welcomes(d) => Welcomes(d)')
      BY <3>1 DEF Welcomes
    <3> QED
      BY <1>3, <2>1, <3>1, <3>2, ToldStays
  <2>6. ASSUME NEW c \in Clients, Validate(c) PROVE WelcomeOf(d)'
    <3>1. CASE c = d
      BY <2>1, <2>6, <3>1, ToldByValidation
    <3>2. CASE c # d
      <4>1. welcome'[d] = welcome[d] /\ (d \in Validated' <=> d \in Validated)
        <5>1. Validated' = Validated \union {c}
          BY <2>6, RegistryValidate
        <5>2. welcome'[d] = welcome[d]
          BY <2>6, <3>2, WelcomeKinds DEF Validate
        <5> QED
          BY <3>2, <5>1, <5>2
      <4>2. ~Welcomes(d) /\ ~Welcomes(d)'
        BY <2>6, <3>2 DEF Validate, IoReady, Welcomes, Places
      <4>3. /\ SizeKnown(d)' => SizeKnown(d)
            /\ CopiedKnown(d)' => CopiedKnown(d)
            /\ CountKnown(d)' => CountKnown(d)
            /\ UNCHANGED envVars
        BY <4>1, <4>2, <2>6 DEF SizeKnown, CopiedKnown, CountKnown, Validate
      <4>4. Covered(d)' /\ InTime(d)'
        BY <2>1, <4>1, <4>3 DEF WelcomeOf, Covered, InTime
      <4> QED
        BY <2>1, <4>1, <4>4 DEF WelcomeOf
    <3> QED
      BY <3>1, <3>2
  <2>7. \/ UNCHANGED <<welcome, validated>>
           /\ (UNCHANGED <<io, serving>> \/ (io \notin Places /\ io' \notin Places))
        \/ Welcoming
        \/ \E c \in Clients : Validate(c)
    <3>1. CASE UNCHANGED vars
      BY <3>1
    <3>2. CASE (\E c \in Clients : ClientStep(c)) \/ StartServer \/ StartEnvironment \/ Simulate
      BY <3>2 DEF ClientStep, Dial, Answer, Leave, StartServer, StartEnvironment, Simulate
    <3>3. CASE \E c \in Clients : Accept(c)
      BY <3>3 DEF Accept, AcceptThrows, Approve, Deny, TakeFirst, IoReady, Places
    <3>4. CASE (\E c \in Clients : Close(c)) \/ EndDenial \/ RunTask
      BY <3>4 DEF Close, EndDenial, RunTask, Places
    <3> QED
      BY <3>1, <3>2, <3>3, <3>4 DEF Next, IoStep
  <2> QED
    BY <2>2, <2>3, <2>4, <2>5, <2>6, <2>7
<1> QED
  BY <1>3, <1>4 DEF WelcomeInv

LEMMA WelcomeInit == Init => WelcomeInv
<1> SUFFICES ASSUME Init PROVE WelcomeInv
  OBVIOUS
<1>1. ASSUME NEW c \in Clients PROVE WelcomeOf(c)
  <2>1. welcome[c] = NoWelcome /\ c \notin Validated
    BY DEF Init, Validated, Elements
  <2> QED
    BY <2>1 DEF WelcomeOf, Covered, InTime, SizeKnown, NoWelcome
<1> QED
  BY <1>1, FedInit DEF WelcomeInv

\* A client whose welcome is complete has all of it read.
LEMMA WelcomesTold ==
    ASSUME WelcomeInv, Registry, NEW c \in Clients, c \in Welcomed
    PROVE  /\ ~welcome[c].early => /\ welcome[c].wild = {}
                                   /\ welcome[c].size = MAX_FOOD_PER_MAP
                                   /\ welcome[c].copied = MAX_FOOD_PER_MAP
                                   /\ welcome[c].count = MAX_FOOD_PER_MAP
           /\ \/ /\ welcome[c].size <= welcome[c].copied
                 /\ welcome[c].size <= welcome[c].count
              \/ welcome[c].early /\ "size" \in welcome[c].wild
<1>1. c \in Validated /\ ~Welcomes(c)
  BY DEF Welcomed, Validated, Elements, Welcomes
<1>2. SizeKnown(c) /\ CopiedKnown(c) /\ CountKnown(c)
  BY <1>1 DEF SizeKnown, CopiedKnown, CountKnown
<1>3. WelcomeOf(c)
  BY DEF WelcomeInv
<1> QED
  BY <1>1, <1>2, <1>3 DEF WelcomeOf, InTime, Covered

LEMMA WelcomedClients == ServerInv => Welcomed \subseteq Clients
  BY ElementOfSeq DEF ServerInv, TypeOK, Welcomed
-----------------------------------------------------------------------------
(* The order of a welcome: what was posted for a client and not sent yet are
   the next messages of its script, in this order, among those of others. *)
Script == <<"Server_Accept", "Send_Map_Console_Layout", "Send_Map_Layout",
            "Send_Entities_Size", "Send_Entities">>
Number(m) == IF m = "Server_Accept" THEN 1
             ELSE IF m = "Send_Map_Console_Layout" THEN 2
             ELSE IF m = "Send_Map_Layout" THEN 3
             ELSE IF m = "Send_Entities_Size" THEN 4
             ELSE IF m = "Send_Entities" THEN 5 ELSE 6

\* The tasks of c in t are the messages after the first "done" up to "all".
Runs(t, c, done, all) ==
    /\ \A i \in 1..Len(t) : t[i][1] = c => Number(t[i][2]) \in (done + 1)..all
    /\ \A i, j \in 1..Len(t) : i < j /\ t[i][1] = c /\ t[j][1] = c
                                => Number(t[i][2]) < Number(t[j][2])
    /\ \A k \in (done + 1)..all : \E i \in 1..Len(t) : t[i][1] = c /\ Number(t[i][2]) = k

\* How much of its script was posted for c.
Posted(c) == IF c \notin Kept THEN 0
             ELSE IF c \notin Validated THEN 1
             ELSE IF ~Welcomes(c) THEN 5
             ELSE IF io = "layout" THEN 1
             ELSE IF io = "config" THEN 2
             ELSE IF io = "size" THEN 3
             ELSE 4

SentInOrder(c) == /\ Len(sent[c]) <= 5
                  /\ \A i \in 1..Len(sent[c]) : Number(sent[c][i]) = i

OrderOf(c) ==
    /\ SentInOrder(c)
    /\ c \notin Kept => sent[c] = <<>>
    /\ socket[c] = "none" => \A i \in 1..Len(tasks) : tasks[i][1] # c
    /\ socket[c] = "open" /\ c \in Kept => /\ Len(sent[c]) <= Posted(c)
                                           /\ Runs(tasks, c, Len(sent[c]), Posted(c))
OrderInv == \A c \in Clients : OrderOf(c)

LEMMA Numbers ==
    ASSUME NEW m \in Messages
    PROVE  /\ Number(m) \in 1..6
           /\ Number(m) <= 5 => Script[Number(m)] = m
  BY DEF Messages, Number, Script

LEMMA TaskKinds ==
    ASSUME NEW t \in Seq(Clients \X Messages), NEW i \in 1..Len(t)
    PROVE  t[i][1] \in Clients /\ t[i][2] \in Messages /\ Number(t[i][2]) \in 1..6
<1>1. t[i] \in Clients \X Messages
  BY ElementOfSeq
<1>2. t[i][1] \in Clients /\ t[i][2] \in Messages
  BY <1>1
<1> QED
  BY <1>2, Numbers

LEMMA RunsPosted ==
    ASSUME NEW t \in Seq(Clients \X Messages), NEW c \in Clients, NEW d \in Clients,
           NEW m \in Messages, NEW done \in Nat, NEW all \in Nat, done <= all,
           Runs(t, c, done, all)
    PROVE  /\ d # c => Runs(Append(t, <<d, m>>), c, done, all)
           /\ d = c /\ Number(m) = all + 1 => Runs(Append(t, <<d, m>>), c, done, all + 1)
<1> DEFINE u == Append(t, <<d, m>>)
           n == Len(t)
<1>1. /\ n \in Nat /\ Len(u) = n + 1 /\ u[n + 1] = <<d, m>>
      /\ \A i \in 1..n : u[i] = t[i]
  <2>1. <<d, m>> \in Clients \X Messages
    OBVIOUS
  <2> QED
    BY <2>1, AppendProperties, LenProperties
<1>2. u[n + 1][1] = d /\ u[n + 1][2] = m
  BY <1>1
<1> HIDE DEF u, n
<1>4. \A i \in 1..(n + 1) : i \in 1..n \/ i = n + 1
  BY <1>1
<1>5. /\ \A i \in 1..n : t[i][1] = c => Number(t[i][2]) \in (done + 1)..all
      /\ \A i, j \in 1..n : i < j /\ t[i][1] = c /\ t[j][1] = c
                            => Number(t[i][2]) < Number(t[j][2])
      /\ \A k \in (done + 1)..all : \E i \in 1..n : t[i][1] = c /\ Number(t[i][2]) = k
  BY DEF Runs, n
<1>6. CASE d # c
  <2>1. \A i \in 1..(n + 1) : u[i][1] = c => i \in 1..n
    BY <1>2, <1>4, <1>6
  <2>2. \A i \in 1..n : i \in 1..(n + 1)
    BY <1>1
  <2> QED
    BY <1>1, <1>5, <1>6, <2>1, <2>2 DEF Runs, u
<1>7. CASE d = c /\ Number(m) = all + 1
  <2>1. \A i \in 1..(n + 1) : u[i][1] = c => Number(u[i][2]) \in (done + 1)..(all + 1)
    <3>1. \A i \in 1..n : u[i][1] = c => Number(u[i][2]) \in (done + 1)..all
      BY <1>1, <1>5
    <3>2. (done + 1)..all \subseteq (done + 1)..(all + 1)
      OBVIOUS
    <3>3. Number(u[n + 1][2]) \in (done + 1)..(all + 1)
      BY <1>2, <1>7
    <3> QED
      BY <3>1, <3>2, <3>3, <1>4
  <2>2. ASSUME NEW i \in 1..(n + 1), NEW j \in 1..(n + 1), i < j, u[i][1] = c, u[j][1] = c
        PROVE  Number(u[i][2]) < Number(u[j][2])
    <3>1. i \in 1..n
      BY <1>1, <2>2
    <3>2. CASE j \in 1..n
      BY <3>1, <3>2, <1>1, <1>5, <2>2
    <3>3. CASE j = n + 1
      <4>1. Number(u[j][2]) = all + 1
        BY <3>3, <1>2, <1>7
      <4>2. Number(u[i][2]) \in (done + 1)..all
        BY <3>1, <1>1, <1>5, <2>2
      <4> QED
        BY <4>1, <4>2
    <3> QED
      BY <3>2, <3>3, <1>4
  <2>3. ASSUME NEW k \in (done + 1)..(all + 1)
        PROVE  \E i \in 1..(n + 1) : u[i][1] = c /\ Number(u[i][2]) = k
    <3>1. CASE k \in (done + 1)..all
      <4>1. PICK i \in 1..n : t[i][1] = c /\ Number(t[i][2]) = k
        BY <3>1, <1>5
      <4> QED
        BY <4>1, <1>1
    <3>2. CASE k = all + 1
      BY <3>2, <1>1, <1>2, <1>7
    <3> QED
      BY <3>1, <3>2
  <2> QED
    BY <1>1, <1>7, <2>1, <2>2, <2>3 DEF Runs, u
<1> QED
  BY <1>6, <1>7 DEF u

LEMMA RunsRun ==
    ASSUME NEW t \in Seq(Clients \X Messages), t # <<>>, NEW c \in Clients,
           NEW done \in Nat, NEW all \in Nat, Runs(t, c, done, all)
    PROVE  /\ Head(t)[1] # c => Runs(Tail(t), c, done, all)
           /\ Head(t)[1] = c => /\ Number(Head(t)[2]) = done + 1 /\ done < all
                                /\ Runs(Tail(t), c, done + 1, all)
<1> DEFINE u == Tail(t)
           n == Len(t)
<1>1. /\ n \in Nat \ {0} /\ Len(u) = n - 1 /\ Head(t) = t[1]
      /\ \A i \in 1..(n - 1) : u[i] = t[i + 1]
  BY HeadTailProperties, EmptySeq, LenProperties
<1> HIDE DEF u, n
<1>3. /\ \A i \in 1..n : t[i][1] = c => Number(t[i][2]) \in (done + 1)..all
      /\ \A i, j \in 1..n : i < j /\ t[i][1] = c /\ t[j][1] = c
                            => Number(t[i][2]) < Number(t[j][2])
      /\ \A k \in (done + 1)..all : \E i \in 1..n : t[i][1] = c /\ Number(t[i][2]) = k
  BY DEF Runs, n
<1>4. \A i \in 1..(n - 1) : i + 1 \in 1..n /\ i + 1 # 1
  BY <1>1
<1>5. \A i \in 1..n : i = 1 \/ (i - 1 \in 1..(n - 1) /\ u[i - 1] = t[i] /\ 1 < i)
  BY <1>1
<1>6. \A i, j \in 1..(n - 1) : i < j /\ u[i][1] = c /\ u[j][1] = c
                              => Number(u[i][2]) < Number(u[j][2])
  <2> SUFFICES ASSUME NEW i \in 1..(n - 1), NEW j \in 1..(n - 1), i < j,
                      u[i][1] = c, u[j][1] = c
               PROVE  Number(u[i][2]) < Number(u[j][2])
    OBVIOUS
  <2>1. i + 1 \in 1..n /\ j + 1 \in 1..n /\ i + 1 < j + 1
        /\ u[i] = t[i + 1] /\ u[j] = t[j + 1]
    BY <1>1
  <2> QED
    BY <2>1, <1>3
<1>7. CASE t[1][1] # c
  <2>1. \A i \in 1..(n - 1) : u[i][1] = c => Number(u[i][2]) \in (done + 1)..all
    BY <1>1, <1>3, <1>4
  <2>2. \A k \in (done + 1)..all : \E i \in 1..(n - 1) : u[i][1] = c /\ Number(u[i][2]) = k
    BY <1>3, <1>5, <1>7
  <2> QED
    BY <1>1, <1>6, <1>7, <2>1, <2>2 DEF Runs, u
<1>8. CASE t[1][1] = c
  <2> DEFINE h == Number(t[1][2])
  <2>1. 1 \in 1..n
    BY <1>1
  <2>2. h \in (done + 1)..all
    BY <1>3, <1>8, <2>1
  <2>3. \A i \in 1..n : t[i][1] = c /\ i # 1 => h < Number(t[i][2])
    BY <1>3, <1>5, <1>8, <2>1
  <2> HIDE DEF h
  <2>4. h = done + 1
    <3>1. done + 1 \in (done + 1)..all
      BY <2>2
    <3>2. PICK i \in 1..n : t[i][1] = c /\ Number(t[i][2]) = done + 1
      BY <3>1, <1>3
    <3>3. CASE i = 1
      BY <3>2, <3>3 DEF h
    <3>4. CASE i # 1
      BY <3>2, <3>4, <2>2, <2>3
    <3> QED
      BY <3>3, <3>4
  <2>5. \A i \in 1..(n - 1) : u[i][1] = c => Number(u[i][2]) \in (done + 2)..all
    <3> SUFFICES ASSUME NEW i \in 1..(n - 1), u[i][1] = c
                 PROVE  Number(u[i][2]) \in (done + 2)..all
      OBVIOUS
    <3>1. i + 1 \in 1..n /\ i + 1 # 1 /\ u[i] = t[i + 1]
      BY <1>1, <1>4
    <3>2. Number(t[i + 1][2]) \in (done + 1)..all /\ h < Number(t[i + 1][2])
      BY <3>1, <1>3, <2>3
    <3> QED
      BY <3>1, <3>2, <2>4
  <2>6. ASSUME NEW k \in (done + 2)..all
        PROVE  \E i \in 1..(n - 1) : u[i][1] = c /\ Number(u[i][2]) = k
    <3>1. k \in (done + 1)..all /\ k # done + 1
      OBVIOUS
    <3>2. PICK i \in 1..n : t[i][1] = c /\ Number(t[i][2]) = k
      BY <3>1, <1>3
    <3>3. i # 1
      BY <3>1, <3>2, <2>4 DEF h
    <3> QED
      BY <3>2, <3>3, <1>5
  <2>7. (done + 1) + 1 = done + 2 /\ done < all
    BY <2>2
  <2>8. Runs(u, c, done + 1, all)
    BY <1>1, <1>6, <2>5, <2>6, <2>7 DEF Runs
  <2> QED
    BY <1>1, <1>8, <2>4, <2>7, <2>8 DEF h, u
<1> QED
  BY <1>1, <1>7, <1>8 DEF u

LEMMA OrderKinds ==
    ASSUME ServerInv, NEW c \in Clients
    PROVE  /\ sent \in [Clients -> Seq(Messages)] /\ sent[c] \in Seq(Messages)
           /\ Len(sent[c]) \in Nat
           /\ tasks \in Seq(Clients \X Messages)
           /\ Posted(c) \in Nat /\ Posted(c) <= 5
<1>1. sent \in [Clients -> Seq(Messages)] /\ tasks \in Seq(Clients \X Messages)
  BY DEF ServerInv, TypeOK
<1>2. Posted(c) \in Nat /\ Posted(c) <= 5
  BY DEF Posted
<1> QED
  BY <1>1, <1>2, LenProperties

\* Steps that post nothing for c and send nothing to it.
LEMMA OrderStays ==
    ASSUME ServerInv, NEW c \in Clients, OrderOf(c), sent'[c] = sent[c],
           Posted(c)' = Posted(c), c \in Kept' <=> c \in Kept,
           \/ socket'[c] = socket[c]
           \/ socket'[c] \in {"closed", "destroyed"},
           \/ tasks' = tasks
           \/ \E d \in Clients, m \in Messages : d # c /\ tasks' = Append(tasks, <<d, m>>)
    PROVE  OrderOf(c)'
<1>1. SentInOrder(c)' /\ (c \notin Kept' => sent'[c] = <<>>)
  BY DEF OrderOf, SentInOrder
<1>2. socket'[c] = socket[c] \/ (socket'[c] # "open" /\ socket'[c] # "none")
  OBVIOUS
<1>3. socket[c] = "none" => \A i \in 1..Len(tasks') : tasks'[i][1] # c
  <2>1. CASE tasks' = tasks
    BY <2>1 DEF OrderOf
  <2>2. ASSUME NEW d \in Clients, NEW m \in Messages, d # c, tasks' = Append(tasks, <<d, m>>),
               socket[c] = "none"
        PROVE  \A i \in 1..Len(tasks') : tasks'[i][1] # c
    <3>1. <<d, m>> \in Clients \X Messages
      OBVIOUS
    <3>2. /\ Len(tasks') = Len(tasks) + 1 /\ tasks'[Len(tasks) + 1] = <<d, m>>
          /\ Len(tasks) \in Nat /\ \A i \in 1..Len(tasks) : tasks'[i] = tasks[i]
      BY <3>1, <2>2, OrderKinds, AppendProperties, LenProperties
    <3>3. \A i \in 1..Len(tasks) : tasks[i][1] # c
      BY <2>2 DEF OrderOf
    <3>4. \A i \in 1..Len(tasks') : i \in 1..Len(tasks) \/ i = Len(tasks) + 1
      BY <3>2
    <3>5. tasks'[Len(tasks) + 1][1] # c
      BY <3>2, <2>2
    <3> QED
      BY <3>2, <3>3, <3>4, <3>5
  <2> QED
    BY <2>1, <2>2
<1>4. Len(sent[c]) <= Posted(c) /\ Runs(tasks, c, Len(sent[c]), Posted(c))
        => Runs(tasks', c, Len(sent[c]), Posted(c))
  <2>1. SUFFICES ASSUME Len(sent[c]) <= Posted(c), Runs(tasks, c, Len(sent[c]), Posted(c))
                 PROVE  Runs(tasks', c, Len(sent[c]), Posted(c))
    OBVIOUS
  <2>2. CASE tasks' = tasks
    BY <2>1, <2>2
  <2>3. ASSUME NEW d \in Clients, NEW m \in Messages, d # c, tasks' = Append(tasks, <<d, m>>)
        PROVE  Runs(tasks', c, Len(sent[c]), Posted(c))
    BY <2>1, <2>3, OrderKinds, RunsPosted
  <2> QED
    BY <2>2, <2>3
<1>5. socket'[c] = "open" /\ c \in Kept'
        => /\ Len(sent'[c]) <= Posted(c)'
           /\ Runs(tasks', c, Len(sent'[c]), Posted(c)')
  BY <1>2, <1>4 DEF OrderOf
<1> QED
  BY <1>1, <1>2, <1>3, <1>5 DEF OrderOf

LEMMA PostedStays ==
    ASSUME NEW c \in Clients, c \in Kept' <=> c \in Kept, c \in Validated' <=> c \in Validated,
           Welcomes(c)' <=> Welcomes(c), Welcomes(c) => io' = io
    PROVE  Posted(c)' = Posted(c)
  BY DEF Posted

\* Posting the next message of c's script.
LEMMA OrderPosts ==
    ASSUME ServerInv, NEW c \in Clients, OrderOf(c), sent' = sent, c \in Kept',
           NEW m \in Messages, Number(m) = Posted(c) + 1, tasks' = Append(tasks, <<c, m>>),
           Posted(c)' = Posted(c) + 1, socket'[c] \in {"open", "closed"},
           socket'[c] = "open" => /\ Len(sent[c]) <= Posted(c)
                                  /\ Runs(tasks, c, Len(sent[c]), Posted(c))
    PROVE  OrderOf(c)'
<1>1. SentInOrder(c)'
  BY DEF OrderOf, SentInOrder
<1>2. socket'[c] = "open" => Runs(tasks', c, Len(sent'[c]), Posted(c)')
  BY OrderKinds, RunsPosted
<1>3. socket'[c] = "open" => Len(sent'[c]) <= Posted(c)'
  BY OrderKinds
<1> QED
  BY <1>1, <1>2, <1>3 DEF OrderOf

LEMMA OrderAccept ==
    ASSUME ServerInv, Registry, OrderInv, NEW c \in Clients, Accept(c),
           NEW d \in Clients
    PROVE  OrderOf(d)'
<1>1. /\ socket' = [socket EXCEPT ![c] = "open"] /\ socket'[c] = "open"
      /\ \A e \in Clients : e # c => socket'[e] = socket[e]
      /\ io = "idle" /\ io' \in {"idle", "denying"} /\ validated' = validated /\ sent' = sent
  BY DEF Accept, AcceptThrows, Approve, Deny, TakeFirst, IoReady, ServerInv, TypeOK
<1>2. c \notin Kept /\ c \notin Validated /\ socket[c] = "none"
  BY RegistryAccept
<1>3. Kept' = Kept \/ (Approve(c) /\ Kept' = Kept \union {c})
  <2>1. m_deqConnections' = m_deqConnections
        \/ (Approve(c) /\ m_deqConnections' = Append(m_deqConnections, c))
    BY DEF Accept, AcceptThrows, Approve, Deny
  <2>2. m_deqConnections \in Seq(Clients)
    BY DEF ServerInv, TypeOK
  <2>3. Elements(Append(m_deqConnections, c)) = Kept \union {c}
    BY <2>2, ElementsAppend DEF Kept
  <2> QED
    BY <2>1, <2>3 DEF Kept
<1>4. Validated' = Validated
  BY <1>1 DEF Validated
<1>5. ~Welcomes(d) /\ ~Welcomes(d)'
  BY <1>1 DEF Welcomes, Places
<1>6. tasks' = tasks \/ \E m \in Messages : tasks' = Append(tasks, <<c, m>>)
  BY DEF Accept, AcceptThrows, Approve, Deny, post, Messages
<1>7. OrderOf(d)
  BY DEF OrderInv
<1>8. CASE d # c
  <2>1. d \in Kept' <=> d \in Kept
    BY <1>3, <1>8
  <2>2. Posted(d)' = Posted(d)
    BY <1>4, <1>5, <2>1, PostedStays
  <2>3. tasks' = tasks \/ \E e \in Clients, m \in Messages :
                              e # d /\ tasks' = Append(tasks, <<e, m>>)
    BY <1>6, <1>8
  <2> QED
    BY <1>1, <1>7, <1>8, <2>1, <2>2, <2>3, OrderStays
<1>9. CASE d = c /\ Kept' = Kept
  BY <1>1, <1>2, <1>7, <1>9 DEF OrderOf, SentInOrder
<1>10. CASE d = c /\ Approve(c) /\ Kept' = Kept \union {c}
  <2>1. tasks' = Append(tasks, <<c, "Server_Accept">>) /\ "Server_Accept" \in Messages
        /\ Number("Server_Accept") = 1
    BY <1>10 DEF Approve, post, Messages, Number
  <2>2. Posted(c) = 0 /\ Posted(c)' = 1
    BY <1>2, <1>4, <1>10 DEF Posted
  <2>3. /\ sent[c] = <<>> /\ Len(sent[c]) = 0
        /\ \A i \in 1..Len(tasks) : tasks[i][1] # c
    BY <1>2, <1>7, <1>10 DEF OrderOf
  <2>4. Runs(tasks, c, 0, 0)
    BY <2>3 DEF Runs
  <2>5. c \in Kept'
    BY <1>10
  <2> QED
    BY <1>1, <1>7, <1>10, <2>1, <2>2, <2>3, <2>4, <2>5, OrderPosts
<1> QED
  BY <1>3, <1>8, <1>9, <1>10

LEMMA OrderValidate ==
    ASSUME ServerInv, Registry, OrderInv, NEW c \in Clients, Validate(c),
           NEW d \in Clients
    PROVE  OrderOf(d)'
<1>1. /\ UNCHANGED <<tasks, socket, sent>> /\ io = "idle" /\ io' = "layout" /\ serving' = c
  BY DEF Validate, IoReady
<1>2. c \in Kept /\ c \notin Validated /\ Validated' = Validated \union {c} /\ Kept' = Kept
  BY RegistryValidate
<1>3. CASE d # c
  <2>1. ~Welcomes(d) /\ ~Welcomes(d)'
    BY <1>1, <1>3 DEF Welcomes, Places
  <2>2. d \in Validated' <=> d \in Validated
    BY <1>2, <1>3
  <2> QED
    BY <1>2, <2>1, <2>2, PostedStays, <1>1, OrderStays DEF OrderInv
<1>4. CASE d = c
  <2>1. Welcomes(c)' /\ c \in Validated'
    BY <1>1, <1>2 DEF Welcomes, Places
  <2>2. Posted(c) = 1 /\ Posted(c)' = 1
    BY <1>1, <1>2, <2>1 DEF Posted
  <2> QED
    BY <1>1, <1>2, <1>4, <2>2, OrderStays DEF OrderInv
<1> QED
  BY <1>3, <1>4

LEMMA OrderWelcoming ==
    ASSUME ServerInv, Registry, OrderInv, Welcoming, NEW d \in Clients
    PROVE  OrderOf(d)'
<1>1. /\ UNCHANGED <<m_deqConnections, socket, validated, sent>>
      /\ io \in Places /\ serving \in Clients
      /\ (io' \in Places /\ serving' = serving) \/ io' = "idle"
  BY WelcomingFrame
<1>2. Kept' = Kept /\ Validated' = Validated
  BY <1>1 DEF Kept, Validated
<1>3. CASE d # serving
  <2>1. ~Welcomes(d) /\ ~Welcomes(d)'
    BY <1>1, <1>3 DEF Welcomes, Places
  <2>2. Posted(d)' = Posted(d)
    BY <1>2, <2>1, PostedStays
  <2>3. tasks' = tasks \/ \E m \in Messages : tasks' = Append(tasks, <<serving, m>>)
    BY DEF Welcoming, MapThrows, SendLayout, SendConfig, SendSize, ReadArgument, SendEntities,
           post, Messages
  <2>4. tasks' = tasks \/ \E e \in Clients, m \in Messages :
                              e # d /\ tasks' = Append(tasks, <<e, m>>)
    BY <1>1, <1>3, <2>3
  <2> QED
    BY <1>1, <1>2, <2>2, <2>4, OrderStays DEF OrderInv
<1>4. CASE d = serving
  <2>1. Welcomes(d) /\ d \in Validated /\ d \in Kept /\ socket[d] \in {"open", "closed"}
    BY <1>1, <1>4 DEF Welcomes, Registry, Place
  <2>2. socket'[d] = "open" => /\ Len(sent[d]) <= Posted(d)
                               /\ Runs(tasks, d, Len(sent[d]), Posted(d))
    BY <1>1, <2>1 DEF OrderInv, OrderOf
  <2>3. d \in Kept' /\ socket'[d] \in {"open", "closed"} /\ OrderOf(d) /\ sent' = sent
    BY <1>1, <1>2, <2>1 DEF OrderInv
  <2>4. CASE MapThrows \/ ReadArgument
    <3>1. /\ tasks' = tasks /\ serving' = serving
          /\ io' = io \/ (io = "entities" /\ io' \in {"copy", "count"})
      BY <2>4 DEF MapThrows, ReadArgument, In
    <3>2. Posted(d)' = Posted(d)
      BY <1>1, <1>2, <1>4, <2>1, <3>1 DEF Posted, Welcomes, Places
    <3> QED
      BY <1>1, <1>2, <2>3, <3>1, <3>2, OrderStays
  <2>5. CASE SendLayout
    <3>1. /\ io = "layout" /\ io' = "config" /\ serving' = serving
          /\ tasks' = Append(tasks, <<d, "Send_Map_Console_Layout">>)
      BY <1>4, <2>5 DEF SendLayout, In, post
    <3>2. Posted(d) = 1 /\ Posted(d)' = 2
      BY <1>2, <1>4, <2>1, <3>1 DEF Posted, Welcomes, Places
    <3>3. "Send_Map_Console_Layout" \in Messages /\ Number("Send_Map_Console_Layout") = 2
      BY DEF Messages, Number
    <3> QED
      BY <2>2, <2>3, <3>1, <3>2, <3>3, OrderPosts
  <2>6. CASE SendConfig
    <3>1. /\ io = "config" /\ io' = "size" /\ serving' = serving
          /\ tasks' = Append(tasks, <<d, "Send_Map_Layout">>)
      BY <1>4, <2>6 DEF SendConfig, In, post
    <3>2. Posted(d) = 2 /\ Posted(d)' = 3
      BY <1>2, <1>4, <2>1, <3>1 DEF Posted, Welcomes, Places
    <3>3. "Send_Map_Layout" \in Messages /\ Number("Send_Map_Layout") = 3
      BY DEF Messages, Number
    <3> QED
      BY <2>2, <2>3, <3>1, <3>2, <3>3, OrderPosts
  <2>7. CASE SendSize
    <3>1. /\ io = "size" /\ io' = "entities" /\ serving' = serving
          /\ tasks' = Append(tasks, <<d, "Send_Entities_Size">>)
      BY <1>4, <2>7 DEF SendSize, In, post
    <3>2. Posted(d) = 3 /\ Posted(d)' = 4
      BY <1>2, <1>4, <2>1, <3>1 DEF Posted, Welcomes, Places
    <3>3. "Send_Entities_Size" \in Messages /\ Number("Send_Entities_Size") = 4
      BY DEF Messages, Number
    <3> QED
      BY <2>2, <2>3, <3>1, <3>2, <3>3, OrderPosts
  <2>8. CASE SendEntities
    <3>1. /\ io \in {"copy", "count"} /\ io' = "idle"
          /\ tasks' = Append(tasks, <<d, "Send_Entities">>)
      BY <1>4, <2>8 DEF SendEntities, In, post
    <3>2. Posted(d) = 4 /\ Posted(d)' = 5
      BY <1>2, <1>4, <2>1, <3>1 DEF Posted, Welcomes, Places
    <3>3. "Send_Entities" \in Messages /\ Number("Send_Entities") = 5
      BY DEF Messages, Number
    <3> QED
      BY <2>2, <2>3, <3>1, <3>2, <3>3, OrderPosts
  <2> QED
    BY <2>4, <2>5, <2>6, <2>7, <2>8 DEF Welcoming
<1> QED
  BY <1>3, <1>4

\* A task that runs is the next message of its client's script.
LEMMA OrderRun ==
    ASSUME ServerInv, Registry, OrderInv, RunTask, NEW d \in Clients
    PROVE  OrderOf(d)'
<1> DEFINE c == Head(tasks)[1]
           m == Head(tasks)[2]
<1>1. /\ UNCHANGED <<m_deqConnections, socket, validated, io, serving>>
      /\ io = "idle" /\ crash = "no" /\ tasks # <<>> /\ tasks' = Tail(tasks)
      /\ sent' = IF socket[c] = "open" THEN [sent EXCEPT ![c] = Append(@, m)] ELSE sent
  BY DEF RunTask, IoReady
<1>t. tasks \in Seq(Clients \X Messages) /\ sent \in [Clients -> Seq(Messages)]
  BY OrderKinds
<1>2. Head(tasks) \in Clients \X Messages /\ Head(tasks) = tasks[1] /\ 1 \in 1..Len(tasks)
      /\ Len(tasks') = Len(tasks) - 1 /\ Len(tasks) \in Nat
      /\ \A i \in 1..Len(tasks') : tasks'[i] = tasks[i + 1]
  BY <1>t, <1>1, HeadTailProperties, EmptySeq, LenProperties
<1>3. c \in Clients /\ m \in Messages
  BY <1>2
<1> HIDE DEF c, m
<1>4. Kept' = Kept /\ Validated' = Validated /\ Posted(d)' = Posted(d)
  <2>1. Kept' = Kept /\ Validated' = Validated
    BY <1>1 DEF Kept, Validated
  <2>2. ~Welcomes(d) /\ ~Welcomes(d)'
    BY <1>1 DEF Welcomes, Places
  <2> QED
    BY <2>1, <2>2, PostedStays
<1>5. OrderOf(d) /\ Len(sent[d]) \in Nat /\ Posted(d) \in Nat /\ Posted(d) <= 5
      /\ sent[d] \in Seq(Messages)
  BY OrderKinds DEF OrderInv
<1>6. socket[d] = "none" => \A i \in 1..Len(tasks') : tasks'[i][1] # d
  <2>1. \A i \in 1..Len(tasks') : i + 1 \in 1..Len(tasks)
    BY <1>2
  <2> QED
    BY <1>2, <1>5, <2>1 DEF OrderOf
<1>7. CASE d # c \/ socket[d] # "open"
  <2>1. sent'[d] = sent[d]
    BY <1>1, <1>3, <1>7, <1>t
  <2>2. socket[d] = "open" /\ d \in Kept
          => Len(sent[d]) <= Posted(d) /\ Runs(tasks', d, Len(sent[d]), Posted(d))
    BY <1>1, <1>5, <1>7, <1>t, RunsRun DEF OrderOf, c
  <2> QED
    BY <1>1, <1>4, <1>5, <1>6, <2>1, <2>2 DEF OrderOf, SentInOrder
<1>8. CASE d = c /\ socket[d] = "open"
  <2>1. d \in Kept
    BY <1>1, <1>8 DEF Registry, Place, Denies
  <2>2. Len(sent[d]) <= Posted(d) /\ Runs(tasks, d, Len(sent[d]), Posted(d))
    BY <1>5, <1>8, <2>1 DEF OrderOf
  <2>3. /\ Number(m) = Len(sent[d]) + 1 /\ Len(sent[d]) < Posted(d)
        /\ Runs(tasks', d, Len(sent[d]) + 1, Posted(d))
    BY <1>1, <1>5, <1>8, <1>t, <2>2, RunsRun DEF c, m
  <2>4. sent'[d] = Append(sent[d], m)
    BY <1>1, <1>3, <1>8, <1>t
  <2> DEFINE n == Len(sent[d])
  <2>5. /\ Len(sent'[d]) = n + 1 /\ sent'[d][n + 1] = m
        /\ \A i \in 1..n : sent'[d][i] = sent[d][i]
    BY <1>3, <1>5, <2>4, AppendProperties
  <2>6. SentInOrder(d)'
    <3>1. \A i \in 1..n : Number(sent[d][i]) = i
      BY <1>5 DEF OrderOf, SentInOrder
    <3>2. n \in Nat /\ n + 1 <= 5 /\ Number(m) = n + 1
      BY <1>5, <2>3
    <3> HIDE DEF n
    <3>3. \A i \in 1..(n + 1) : i \in 1..n \/ i = n + 1
      BY <3>2
    <3>4. \A i \in 1..(n + 1) : Number(sent'[d][i]) = i
      BY <2>5, <3>1, <3>2, <3>3
    <3> QED
      BY <2>5, <3>2, <3>4 DEF SentInOrder
  <2>7. /\ Len(sent'[d]) <= Posted(d)'
        /\ Runs(tasks', d, Len(sent'[d]), Posted(d)')
    BY <1>4, <1>5, <2>3, <2>5
  <2> QED
    BY <1>1, <1>4, <1>8, <2>1, <2>6, <2>7 DEF OrderOf
<1> QED
  BY <1>7, <1>8

LEMMA OrderNext ==
    ASSUME ServerInv, Registry, OrderInv, [Next]_vars PROVE OrderInv'
<1> SUFFICES ASSUME NEW d \in Clients PROVE OrderOf(d)'
  BY DEF OrderInv
<1>1. CASE /\ UNCHANGED <<m_deqConnections, validated, sent, tasks>>
           /\ UNCHANGED <<io, serving>> \/ (io \notin Places /\ io' \notin Places)
           /\ socket'[d] = socket[d] \/ socket'[d] \in {"closed", "destroyed"}
  <2>1. Kept' = Kept /\ Validated' = Validated
    BY <1>1 DEF Kept, Validated
  <2>2. (Welcomes(d)' <=> Welcomes(d)) /\ (Welcomes(d) => io' = io)
    BY <1>1 DEF Welcomes
  <2>3. Posted(d)' = Posted(d)
    BY <2>1, <2>2, PostedStays
  <2> QED
    BY <1>1, <2>1, <2>3, OrderStays DEF OrderInv
<1>2. CASE \E c \in Clients : Accept(c) \/ Validate(c)
  BY <1>2, OrderAccept, OrderValidate
<1>3. CASE Welcoming
  BY <1>3, OrderWelcoming
<1>4. CASE RunTask
  BY <1>4, OrderRun
<1>5. CASE (\E c \in Clients : Close(c)) \/ EndDenial
  <2>1. /\ UNCHANGED <<m_deqConnections, validated, sent, tasks>>
        /\ UNCHANGED <<io, serving>> \/ (io \notin Places /\ io' \notin Places)
    BY <1>5 DEF Close, EndDenial, Places
  <2>2. socket'[d] = socket[d] \/ socket'[d] \in {"closed", "destroyed"}
    BY <1>5 DEF Close, EndDenial, ServerInv, TypeOK
  <2> QED
    BY <1>1, <2>1, <2>2
<1>6. CASE \/ UNCHANGED vars
           \/ \E c \in Clients : ClientStep(c)
           \/ StartServer \/ StartEnvironment \/ Simulate
  BY <1>1, <1>6 DEF ClientStep, Dial, Answer, Leave, StartServer, StartEnvironment, Simulate
<1> QED
  BY <1>2, <1>3, <1>4, <1>5, <1>6 DEF Next, IoStep

LEMMA OrderInit == Init => OrderInv
<1> SUFFICES ASSUME Init, NEW c \in Clients PROVE OrderOf(c)
  BY DEF OrderInv
<1>1. sent[c] = <<>> /\ tasks = <<>> /\ socket[c] = "none"
  BY DEF Init
<1> QED
  BY <1>1 DEF OrderOf, SentInOrder

LEMMA OrderSent == ServerInv /\ OrderInv => WelcomeInOrder
<1> SUFFICES ASSUME ServerInv, OrderInv, NEW c \in Clients
             PROVE  \E n \in 0..5 : sent[c] = SubSeq(Script, 1, n)
  BY DEF WelcomeInOrder, Script
<1> DEFINE n == Len(sent[c])
<1>1. n \in 0..5 /\ sent[c] \in Seq(Messages) /\ \A i \in 1..n : Number(sent[c][i]) = i
  <2>1. n \in Nat /\ sent[c] \in Seq(Messages)
    BY OrderKinds
  <2>2. n <= 5 /\ \A i \in 1..n : Number(sent[c][i]) = i
    BY DEF OrderInv, OrderOf, SentInOrder
  <2> HIDE DEF n
  <2>3. n \in 0..5
    BY <2>1, <2>2
  <2> QED
    BY <2>1, <2>2, <2>3
<1>2. \A i \in 1..n : sent[c][i] \in Messages
  BY <1>1, ElementOfSeq
<1>3. \A i \in 1..n : sent[c][i] = Script[i]
  BY <1>1, <1>2, Numbers
<1>4. /\ SubSeq(Script, 1, n) \in Seq(Messages) /\ Len(SubSeq(Script, 1, n)) = n
      /\ \A i \in 1..n : SubSeq(Script, 1, n)[i] = Script[i]
  <2>1. Script \in Seq(Messages) /\ Len(Script) = 5
    BY DEF Script, Messages
  <2> QED
    BY <1>1, <2>1, SubSeqProperties
<1>5. sent[c] = SubSeq(Script, 1, n)
  BY <1>1, <1>3, <1>4, SeqEqual
<1> QED
  BY <1>1, <1>5
-----------------------------------------------------------------------------
LEMMA WelcomesInitial ==
    Init => ServerInv /\ Registry /\ MapsInOrder /\ WelcomeInv /\ OrderInv
  BY ServerInit, RegistryInit, MapsInit, WelcomeInit, OrderInit

LEMMA WelcomesStep ==
    ServerInv /\ Registry /\ MapsInOrder /\ WelcomeInv /\ OrderInv /\ [Next]_vars
      => (ServerInv /\ Registry /\ MapsInOrder /\ WelcomeInv /\ OrderInv)'
  BY ServerNext, RegistryNext, MapsNext, WelcomeNext, OrderNext

(* Where each client is, which map it got, what it was told and in which order:
   the state of the server is always as these four say. *)
THEOREM WelcomesInvariant ==
    Spec => [](ServerInv /\ Registry /\ MapsInOrder /\ WelcomeInv /\ OrderInv)
  BY WelcomesInitial, WelcomesStep, PTL DEF Spec

(* Two clients that share a map overlapped: the later one was accepted before
   the earlier one was validated (Server.cpp:55,61,67,70). *)
THEOREM MapsSharedByOverlap == Spec => []SharedMapOnlyIfOverlapping
  BY MapsShared, WelcomesInvariant, PTL

(* A welcome made while the environment runs is whole: one map of the server and
   all of its entities, as many as announced. *)
THEOREM WelcomesWhole == Spec => []WelcomeIntact
<1>1. ServerInv /\ Registry /\ WelcomeInv => WelcomeIntact
  BY WelcomedClients, WelcomesTold DEF WelcomeIntact
<1> QED
  BY <1>1, WelcomesInvariant, PTL

(* Whenever a welcome is made, its last message is copied from what was announced
   or more, and counts as many, unless the size announced was itself read from
   the remains of a map, before the environment ran (Server.cpp:67, 70,
   NetMsg.h:131, Client.cpp:80). *)
THEOREM SizeCovered == Spec => []AnnouncedCovered
<1>1. ServerInv /\ Registry /\ WelcomeInv => AnnouncedCovered
  BY WelcomedClients, WelcomesTold DEF AnnouncedCovered
<1> QED
  BY <1>1, WelcomesInvariant, PTL

(* Every client gets a prefix of its script: approval, layout, map, size and
   entities, however the tasks of the clients interleave. *)
THEOREM ScriptFollowed == Spec => []WelcomeInOrder
  BY OrderSent, WelcomesInvariant, PTL
=============================================================================
