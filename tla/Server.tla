------------------------------- MODULE Server -------------------------------
(***************************************************************************)
(* The server application: Server_Interface's accept loop and connection   *)
(* list, and Server's callbacks.  All of it runs in the io thread, one     *)
(* handler at a time, while the environment thread is still building what  *)
(* on_client_validated() hands out; that callback is therefore split at    *)
(* each of its reads of the environment, every other handler is one step.  *)
(*                                                                         *)
(* A client is the Connection object the server makes for it.  What the    *)
(* two ends exchange before and after is Connection's matter: here a       *)
(* client answers the challenge, right or wrong, or leaves.                *)
(***************************************************************************)
EXTENDS Environment, Sequences, FiniteSets

CONSTANTS Clients,
          NoClient

ASSUME ServerAssumption == NoClient \notin Clients

VARIABLES
    started,  \* start_server() has returned: the io thread runs
    backlog,  \* the clients that the acceptor has not seen yet
    client,   \* of each client: outside, waiting (in the backlog), denied,
              \* silent, answered (the challenge, rightly), left after that,
              \* or lost: it left before or it answered wrongly
    accepting, \* async_accept is outstanding
    io,       \* idle, denying (asleep in on_client_connect), or the place in
              \* on_client_validated where the io thread is
    serving,  \* the client that handler is about, or NoClient
    tasks,    \* what send() posted: <<client, message>>, run in FIFO order
    m_deqConnections,
    socket,   \* is_connected() of each client's Connection
    validated, \* the clients that passed, in order
    welcome,  \* what each of them is being told
    sent,     \* the messages handed to each client's write loop
    crash     \* why the process was terminated, "no" while it was not

ioVars == <<accepting, io, serving, tasks, m_deqConnections, socket, validated,
            welcome, sent, crash>>
vars == <<envVars, started, backlog, client, ioVars>>

\* m_nMapsCount, which the server also gives to its Environment
m_nMapsCount == m_map_count

get_connections == Len(m_deqConnections)

\* A welcome: the number of the map, what was read from the remains of one (its
\* layout or configuration, its size), the size announced, the entities copied
\* and those counted for the last message.  The flag early, for the properties
\* only, says that the environment was not running when the callback began.
NoWelcome == [map |-> 0, wild |-> {}, size |-> 0, copied |-> 0, count |-> 0,
              early |-> FALSE]
Parts == {"map", "size"}
WildSize == MAX_FOOD_PER_MAP + 1 \* stands for every size that no map has
WelcomeRecord == [map : Maps, wild : SUBSET Parts, size : 0..WildSize,
                  copied : 0..MAX_FOOD_PER_MAP, count : 0..MAX_FOOD_PER_MAP,
                  early : BOOLEAN]
Places == {"layout", "config", "size", "entities", "copy", "count"}
Messages == {"Server_Accept", "Server_Denial", "Send_Map_Console_Layout",
             "Send_Map_Layout", "Send_Entities_Size", "Send_Entities"}

TypeOK ==
    /\ EnvTypeOK
    /\ started \in BOOLEAN
    /\ backlog \in Seq(Clients)
    /\ client \in [Clients -> {"outside", "waiting", "denied", "silent", "answered",
                               "left", "lost"}]
    /\ accepting \in BOOLEAN
    /\ io \in {"idle", "denying"} \union Places
    /\ serving \in Clients \union {NoClient}
    /\ tasks \in Seq(Clients \X Messages)
    /\ m_deqConnections \in Seq(Clients)
    /\ socket \in [Clients -> {"none", "open", "closed", "destroyed"}]
    /\ validated \in Seq(Clients)
    /\ welcome \in [Clients -> WelcomeRecord]
    /\ sent \in [Clients -> Seq(Messages)]
    /\ crash \in {"no", "remote_endpoint", "out_of_range", "dangling"}

Init ==
    /\ EnvInit
    /\ started = FALSE
    /\ backlog = <<>>
    /\ client = [c \in Clients |-> "outside"]
    /\ accepting = FALSE
    /\ io = "idle"
    /\ serving = NoClient
    /\ tasks = <<>>
    /\ m_deqConnections = <<>>
    /\ socket = [c \in Clients |-> "none"]
    /\ validated = <<>>
    /\ welcome = [c \in Clients |-> NoWelcome]
    /\ sent = [c \in Clients |-> <<>>]
    /\ crash = "no"
-----------------------------------------------------------------------------
(* The clients, as far as the server can tell.                             *)

\* The acceptor listens since the Server was constructed.
Dial(c) ==
    /\ client[c] = "outside"
    /\ client' = [client EXCEPT ![c] = "waiting"]
    /\ backlog' = Append(backlog, c)
    /\ UNCHANGED <<envVars, started, ioVars>>

\* A client that received the challenge answers it.
Answer(c) ==
    /\ client[c] = "silent"
    /\ \E answer \in {"answered", "lost"} : client' = [client EXCEPT ![c] = answer]
    /\ UNCHANGED <<envVars, started, backlog, ioVars>>

Leave(c) ==
    /\ client[c] \in {"waiting", "silent", "answered"}
    /\ client' = [client EXCEPT ![c] = IF @ = "answered" THEN "left" ELSE "lost"]
    /\ UNCHANGED <<envVars, started, backlog, ioVars>>
-----------------------------------------------------------------------------
(* The threads are started: run().                                         *)

StartServer ==
    /\ ~started
    /\ started' = TRUE
    /\ accepting' = TRUE
    /\ UNCHANGED <<envVars, backlog, client, io, serving, tasks, m_deqConnections,
                   socket, validated, welcome, sent, crash>>

StartEnvironment ==
    /\ started /\ crash = "no"
    /\ StartThread
    /\ UNCHANGED <<started, backlog, client, ioVars>>

Simulate ==
    /\ crash = "no"
    /\ EnvStep
    /\ UNCHANGED <<started, backlog, client, ioVars>>
-----------------------------------------------------------------------------
(* The io thread: accepting.                                               *)

IoReady == started /\ crash = "no" /\ io = "idle"

post(c, m) == tasks' = Append(tasks, <<c, m>>)

\* The accept handler up to on_client_connect(): the Connection is built.
TakeFirst(c) ==
    /\ IoReady /\ accepting
    /\ backlog # <<>> /\ c = Head(backlog)
    /\ backlog' = Tail(backlog)
    /\ socket' = [socket EXCEPT ![c] = "open"]

\* remote_endpoint() throws for a client that reset the connection already.
AcceptThrows(c) ==
    /\ TakeFirst(c)
    /\ client[c] = "lost"
    /\ crash' = "remote_endpoint"
    /\ UNCHANGED <<envVars, started, client, accepting, io, serving, tasks,
                   m_deqConnections, validated, welcome, sent>>

\* on_client_connect() says yes: the connection is kept and challenged, and
\* the next client is waited for.
ApproveOneTooMany(c) ==
    /\ TakeFirst(c)
    /\ get_connections <= m_nMapsCount
    /\ post(c, "Server_Accept")
    /\ m_deqConnections' = Append(m_deqConnections, c)
    /\ client' = [client EXCEPT ![c] = IF @ = "waiting" THEN "silent" ELSE @]
    /\ UNCHANGED <<envVars, started, accepting, io, serving, validated, welcome,
                   sent, crash>>
Approve(c) ==
    /\ TakeFirst(c)
    /\ get_connections < m_nMapsCount
    /\ post(c, "Server_Accept")
    /\ m_deqConnections' = Append(m_deqConnections, c)
    /\ client' = [client EXCEPT ![c] = IF @ = "waiting" THEN "silent" ELSE @]
    /\ UNCHANGED <<envVars, started, accepting, io, serving, validated, welcome,
                   sent, crash>>

\* on_client_connect() says no: it posts the denial and sleeps, for the client
\* to receive it, but the posted task needs the thread that sleeps.
Deny(c) ==
    /\ TakeFirst(c)
    /\ get_connections >= m_nMapsCount
    /\ post(c, "Server_Denial")
    /\ client' = [client EXCEPT ![c] = IF @ = "waiting" THEN "denied" ELSE @]
    /\ io' = "denying"
    /\ serving' = c
    /\ accepting' = FALSE
    /\ UNCHANGED <<envVars, started, m_deqConnections, validated, welcome, sent,
                   crash>>

\* The handler ends; nothing holds the denied Connection any more.
DenyForGood ==
    /\ io = "denying" /\ crash = "no"
    /\ socket' = [socket EXCEPT ![serving] = "destroyed"]
    /\ io' = "idle"
    /\ serving' = NoClient
    /\ UNCHANGED <<envVars, started, backlog, client, accepting, tasks,
                   m_deqConnections, validated, welcome, sent, crash>>
EndDenial ==
    /\ io = "denying" /\ crash = "no"
    /\ socket' = [socket EXCEPT ![serving] = "destroyed"]
    /\ io' = "idle"
    /\ serving' = NoClient
    /\ accepting' = TRUE
    /\ UNCHANGED <<envVars, started, backlog, client, tasks, m_deqConnections,
                   validated, welcome, sent, crash>>
-----------------------------------------------------------------------------
(* The io thread: posted tasks and completed reads.                        *)

\* The lambda of send() uses its Connection, whether it still exists or not.
RunTaskTwice ==
    LET c == Head(tasks)[1]
        m == Head(tasks)[2]
    IN /\ IoReady
       /\ tasks # <<>> /\ Len(sent[c]) < 6
       /\ UNCHANGED tasks
       /\ sent' = [sent EXCEPT ![c] = Append(@, m)]
       /\ UNCHANGED crash
       /\ UNCHANGED <<envVars, started, backlog, client, accepting, io, serving,
                      m_deqConnections, socket, validated, welcome>>
RunTask ==
    LET c == Head(tasks)[1]
        m == Head(tasks)[2]
    IN /\ IoReady
       /\ tasks # <<>>
       /\ tasks' = Tail(tasks)
       /\ sent' = IF socket[c] = "open"
                    THEN [sent EXCEPT ![c] = Append(@, m)] ELSE sent
       /\ crash' \in IF socket[c] = "destroyed" THEN {"no", "dangling"} ELSE {"no"}
       /\ UNCHANGED <<envVars, started, backlog, client, accepting, io, serving,
                      m_deqConnections, socket, validated, welcome>>

Connected(c) == c \in {m_deqConnections[i] : i \in 1..get_connections}
                /\ socket[c] = "open"

\* A wrong answer, or a read that fails because the client is gone: the socket
\* is closed, but the Connection stays in m_deqConnections.
Close(c) ==
    /\ IoReady
    /\ Connected(c)
    /\ client[c] \in {"left", "lost"}
    /\ socket' = [socket EXCEPT ![c] = "closed"]
    /\ UNCHANGED <<envVars, started, backlog, client, accepting, io, serving,
                   tasks, m_deqConnections, validated, welcome, sent, crash>>

\* The right answer: on_client_validated() is entered; it takes the map of the
\* connection that is the newest now.
ValidateCountOpen(c) ==
    /\ IoReady
    /\ Connected(c)
    /\ client[c] \in {"answered", "left"}
    /\ \A i \in 1..Len(validated) : validated[i] # c
    /\ validated' = Append(validated, c)
    /\ welcome' = [welcome EXCEPT
                     ![c].map = Cardinality({d \in Clients : Connected(d)}) - 1,
                     ![c].early = env # "running"]
    /\ io' = "layout"
    /\ serving' = c
    /\ UNCHANGED <<envVars, started, backlog, client, accepting, tasks,
                   m_deqConnections, socket, sent, crash>>
Validate(c) ==
    /\ IoReady
    /\ Connected(c)
    /\ client[c] \in {"answered", "left"}
    /\ \A i \in 1..Len(validated) : validated[i] # c
    /\ validated' = Append(validated, c)
    /\ welcome' = [welcome EXCEPT ![c].map = get_connections - 1,
                                  ![c].early = env # "running"]
    /\ io' = "layout"
    /\ serving' = c
    /\ UNCHANGED <<envVars, started, backlog, client, accepting, tasks,
                   m_deqConnections, socket, sent, crash>>
-----------------------------------------------------------------------------
(* The io thread inside on_client_validated(), for the client serving.     *)

In(place) == io = place /\ crash = "no"
Told == welcome[serving]

\* Everything else stays as it is while the callback runs.
Elsewhere == UNCHANGED <<envVars, started, backlog, client, accepting,
                         m_deqConnections, socket, validated, sent>>

\* What a part read from the remains of a map adds to wild, and the sizes that
\* get_entities_size() may then give: the vector's, or any at all.
Remains(part, read) == IF read = "wild" THEN {part} ELSE {}
Sizes(i, read) == IF read = "wild" THEN 0..WildSize ELSE {food[i]}

\* at_get_map() throws through the handler and run() of the io_context.
MapThrows ==
    /\ \E place \in {"layout", "config", "size"} : In(place)
    /\ "out_of_range" \in at_get_map(Told.map)
    /\ crash' = "out_of_range"
    /\ UNCHANGED <<io, serving, tasks, welcome>>
    /\ Elsewhere

SendLayout ==
    /\ In("layout")
    /\ \E read \in at_get_map(Told.map) \ {"out_of_range"} :
         welcome' = [welcome EXCEPT ![serving].wild = @ \union Remains("map", read)]
    /\ post(serving, "Send_Map_Console_Layout")
    /\ io' = "config"
    /\ UNCHANGED <<serving, crash>>
    /\ Elsewhere

SendConfigLate ==
    /\ In("config")
    /\ \E read \in at_get_map(Told.map) \ {"out_of_range"} :
         welcome' = [welcome EXCEPT ![serving].wild = @ \union Remains("map", read)]
    /\ UNCHANGED tasks
    /\ io' = "size"
    /\ UNCHANGED <<serving, crash>>
    /\ Elsewhere
SendConfig ==
    /\ In("config")
    /\ \E read \in at_get_map(Told.map) \ {"out_of_range"} :
         welcome' = [welcome EXCEPT ![serving].wild = @ \union Remains("map", read)]
    /\ post(serving, "Send_Map_Layout")
    /\ io' = "size"
    /\ UNCHANGED <<serving, crash>>
    /\ Elsewhere

SizeOfNextMap ==
    /\ In("size")
    /\ \E read \in at_get_map(Told.map) \ {"out_of_range"} :
         \E size \in Sizes((Told.map + 1) % m_map_count, read) :
           welcome' = [welcome EXCEPT ![serving].size = size,
                                      ![serving].wild = @ \union Remains("size", read)]
    /\ post(serving, "Send_Entities_Size")
    /\ io' = "entities"
    /\ UNCHANGED <<serving, crash>>
    /\ Elsewhere
SendSize ==
    /\ In("size")
    /\ \E read \in at_get_map(Told.map) \ {"out_of_range"} :
         \E size \in Sizes(Told.map, read) :
           welcome' = [welcome EXCEPT ![serving].size = size,
                                      ![serving].wild = @ \union Remains("size", read)]
    /\ post(serving, "Send_Entities_Size")
    /\ io' = "entities"
    /\ UNCHANGED <<serving, crash>>
    /\ Elsewhere

\* The two arguments get_vector().data() and size(), in either order.
ReadArgument ==
    /\ \E first \in {"copied", "count"} :
         \/ /\ In("entities")
            /\ welcome' = [welcome EXCEPT ![serving][first] = food[Told.map]]
            /\ io' = IF first = "copied" THEN "count" ELSE "copy"
    /\ UNCHANGED <<serving, tasks, crash>>
    /\ Elsewhere

SendEntities ==
    /\ \/ /\ In("count")
          /\ welcome' = [welcome EXCEPT ![serving].count = food[Told.map]]
       \/ /\ In("copy")
          /\ welcome' = [welcome EXCEPT ![serving].copied = food[Told.map]]
    /\ post(serving, "Send_Entities")
    /\ io' = "idle"
    /\ serving' = NoClient
    /\ UNCHANGED crash
    /\ Elsewhere
-----------------------------------------------------------------------------
ClientStep(c) == Dial(c) \/ Answer(c) \/ Leave(c)

Accept(c) == AcceptThrows(c) \/ Approve(c) \/ Deny(c)

Welcoming == MapThrows \/ SendLayout \/ SendConfig \/ SendSize \/ ReadArgument
             \/ SendEntities

IoStep == \/ \E c \in Clients : Accept(c) \/ Close(c) \/ Validate(c)
          \/ EndDenial \/ RunTask \/ Welcoming

Next == \/ \E c \in Clients : ClientStep(c)
        \/ StartServer \/ StartEnvironment \/ Simulate
        \/ IoStep

Spec == Init /\ [][Next]_vars

\* Both threads run whenever they can, and the io_context executes every handler
\* that is ready.  No client has to do anything.
FairSpec ==
    /\ Spec
    /\ WF_vars(StartServer) /\ WF_vars(StartEnvironment) /\ WF_vars(Simulate)
    /\ WF_vars(RunTask) /\ WF_vars(EndDenial) /\ WF_vars(Welcoming)
    /\ WF_vars(\E c \in Clients : Accept(c))
    /\ \A c \in Clients : WF_vars(Close(c)) /\ WF_vars(Validate(c))
-----------------------------------------------------------------------------
Position(c) == CHOOSE i \in 1..get_connections : m_deqConnections[i] = c

\* The clients whose welcome is complete.
Welcomed == {validated[i] : i \in 1..Len(validated)}
            \ (IF io \in Places THEN {serving} ELSE {})

(* Clients get different maps unless their handshakes overlap: of two clients
   with the same map the later one was accepted before the earlier one was
   validated, when both were counted (Server.cpp:55,61,67,70). *)
SharedMapOnlyIfOverlapping ==
    \A i, j \in 1..Len(validated) :
        i < j =>
            LET mapI == welcome[validated[i]].map
                mapJ == welcome[validated[j]].map
            IN mapI <= mapJ /\ (mapI = mapJ => Position(validated[j]) <= mapI + 1)

(* Once the environment runs, a welcome is consistent: it is made from one map
   of the server, complete, and announces as many entities as it brings. *)
WelcomeIntact ==
    \A c \in Welcomed :
        LET w == welcome[c] IN
        ~w.early => /\ w.wild = {}
                    /\ w.size = MAX_FOOD_PER_MAP
                    /\ w.copied = MAX_FOOD_PER_MAP /\ w.count = MAX_FOOD_PER_MAP

(* Even while food is still being added, the last message of a welcome is made
   of at least as many entities as were announced, which the client takes from
   its end (NetMsg.h:131, Client.cpp:80).  The one exception is a size that was
   itself read from the remains of a map, in a welcome begun before the
   environment ran (Server.cpp:67): it may be any number, and the client's
   subtraction then wraps. *)
AnnouncedCovered ==
    \A c \in Welcomed :
        LET w == welcome[c] IN
        \/ w.size <= w.copied /\ w.size <= w.count
        \/ w.early /\ "size" \in w.wild

(* A validation cannot bring the server down once the maps exist: no index ever
   exceeds the number of maps. *)
ThrowsOnlyAtStartUp ==
    crash = "out_of_range" => env \in {"none", "building", "growing"}

(* A client gets the approval, then layout, map, size and entities, in this
   order and once, however its welcome interleaves with other clients' tasks:
   m_start() uses the map and the size when it gets the entities
   (Client.cpp:80,82). *)
WelcomeInOrder ==
    \A c \in Clients :
        \E n \in 0..5 : sent[c] = SubSeq(<<"Server_Accept", "Send_Map_Console_Layout",
                                           "Send_Map_Layout", "Send_Entities_Size",
                                           "Send_Entities">>, 1, n)

(* The acceptor never stops: whoever dials is approved or denied, and after each
   client, a denied one too, async_accept is outstanding again, unless the
   process ended (NetServerInterface.h:126). *)
AcceptLoop ==
    /\ \A c \in Clients : client[c] = "waiting" ~> client[c] # "waiting" \/ crash # "no"
    /\ []<>(started => accepting \/ crash # "no")

(* A client that passes the handshake gets its whole welcome, unless it is lost
   or the process ended. *)
WelcomeComplete ==
    \A c \in Clients : (\E i \in 1..Len(validated) : validated[i] = c)
                          ~> \/ Len(sent[c]) = 5
                             \/ socket[c] = "closed"
                             \/ crash # "no"
-----------------------------------------------------------------------------
(* What is said of the program and does not hold. *)

(* "number of Maps/Clients" (Server.h:21): every client has a map of its own. *)
MapOfItsOwn ==
    \A i, j \in 1..Len(validated) :
        i # j => welcome[validated[i]].map # welcome[validated[j]].map

(* "Max Clients connected" (Server.cpp:87): a client is denied only while as
   many clients as there are maps are connected. *)
DeniedOnlyIfFull ==
    io = "denying" => Cardinality({c \in Clients : Connected(c)}) = m_nMapsCount

(* "primes the asio context with a new task of writing the provided message"
   (NetConnection.h:143): a task that was posted finds its connection. *)
TaskFindsConnection ==
    \A i \in 1..Len(tasks) : socket[tasks[i][1]] # "destroyed"
=============================================================================
