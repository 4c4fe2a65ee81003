---------------------------- MODULE ClientStart ----------------------------
(***************************************************************************)
(* What a client makes of the messages of MessagePump: m_start() takes the *)
(* five of the welcome, on_message() the entities that follow.  Message k  *)
(* is the k-th that the server sends: Server_Accept, the four of           *)
(* on_client_validated(), and Send_Entities from then on.  The server's    *)
(* side is the module Server: its WelcomeInOrder gives the order, its      *)
(* AnnouncedCovered that the welcome holds as many entities as announced.  *)
(* The exception that AnnouncedCovered names, a size that was read from    *)
(* the remains of a map, is left out: this is the client of a welcome      *)
(* without it.  From then on the server sends nothing; that what it might  *)
(* send holds as many again is assumed.                                    *)
(***************************************************************************)
EXTENDS MessagePump, Message

CONSTANT MaxEntities \* bound: entities in a message

\* No body comes near the range of size_t.
ASSUME StartAssumption == /\ MaxEntities \in Nat
                          /\ sizeof.size_t + MaxEntities * sizeof.Entity < SizeT
                          /\ StartUp = 5

VARIABLES announced,        \* by the server: what Send_Entities_Size says,
          carried,          \* and how many entities message k really holds
          GOT,              \* the flags of m_start() that were assigned; only
                            \* GOT_ENTITIES has a value before that
          M_STARTUP_OKAY,
          console,          \* which layout m_console was created with last
          m_map,            \* the console that the map was made for, if any
          m_nentities_size,
          m_ent_buffer,
          m_entities,
          undefined         \* undefined behaviour was met

serverVars == <<announced, carried>>
entityVars == <<m_ent_buffer, m_entities>>
startVars == <<GOT, M_STARTUP_OKAY, console, m_map, m_nentities_size>>
clientVars == <<startVars, entityVars, undefined>>
allVars == <<vars, serverVars, clientVars>>

Flags == {"CONSOLE", "MAP", "ENTITIES_SIZE", "ENTITIES"}
-----------------------------------------------------------------------------
(* What the server sends.                                                  *)

Entity(k, j) == [type |-> "Entity", message |-> k, index |-> j]
Entities(k) == [j \in 1..carried[k] |-> Entity(k, j)]

WelcomeSameId == <<"Server_Accept", "Send_Map_Console_Layout", "Send_Map_Console_Layout",
                   "Send_Entities_Size", "Send_Entities">>
Welcome == <<"Server_Accept", "Send_Map_Console_Layout", "Send_Map_Layout",
             "Send_Entities_Size", "Send_Entities">>
header_id(k) == IF k <= StartUp THEN Welcome[k] ELSE "Send_Entities"

\* on_client_validated() goes on with the message of the size when it adds the
\* entities: their message begins with it.
body(k) ==
    LET size_message == append(<<>>, [type |-> "size_t", value |-> announced], sizeof.size_t)
    IN CASE header_id(k) = "Server_Accept" -> <<>>
         [] header_id(k) = "Send_Map_Console_Layout" ->
              append(<<>>, [type |-> "WinConsoleLayout"], sizeof.WinConsoleLayout)
         [] header_id(k) = "Send_Map_Layout" -> append(<<>>, [type |-> "MapConfig"], sizeof.MapConfig)
         [] header_id(k) = "Send_Entities_Size" -> size_message
         [] header_id(k) = "Send_Entities" ->
              push_back_complex(IF k = StartUp THEN size_message ELSE <<>>, Entities(k), sizeof.Entity)
-----------------------------------------------------------------------------
Fresh == Entity(0, 0)  \* a default-constructed one

StartTypeOK ==
    /\ TypeOK
    /\ announced \in 0..MaxEntities
    /\ carried \in [StartUp..MaxMessages -> announced..MaxEntities]
    /\ GOT \subseteq Flags
    /\ M_STARTUP_OKAY \in BOOLEAN
    /\ console \in {"default", "map"}
    /\ m_map \in {"none", "default", "map"}
    /\ m_nentities_size = Len(m_ent_buffer)
    /\ undefined \in BOOLEAN

StartInit ==
    /\ Init
    /\ announced \in 0..MaxEntities
    /\ carried \in [StartUp..MaxMessages -> announced..MaxEntities]
    /\ GOT = {}
    /\ M_STARTUP_OKAY = FALSE
    /\ console = "default"
    /\ m_map = "none"
    /\ m_nentities_size = 0
    /\ m_ent_buffer = <<>>
    /\ m_entities = <<>>
    /\ undefined = FALSE

\* std::vector::resize().  It destroys what it drops and what it moves, and an
\* Entity that came with a message has its sender's pointer to virtual functions.
Reserved(vector, n) == vector
resized(vector, n) == [j \in 1..n |-> IF j <= Len(vector) THEN vector[j] ELSE Fresh]
Destroyed(vector, n) == n # Len(vector) /\ \E j \in DOMAIN vector : vector[j] # Fresh
-----------------------------------------------------------------------------
(* m_start(): the branches of its switch, for message k.                   *)

GetAccept(k) ==
    /\ header_id(k) = "Server_Accept"
    /\ UNCHANGED clientVars

GetConsole(k) ==
    /\ header_id(k) = "Send_Map_Console_Layout"
    /\ undefined' = (undefined \/ Outside(body(k), sizeof.WinConsoleLayout))
    /\ console' = "map"
    /\ GOT' = GOT \union {"CONSOLE"}
    /\ UNCHANGED <<M_STARTUP_OKAY, m_map, m_nentities_size, entityVars>>

GetMapUnflagged(k) ==
    /\ header_id(k) = "Send_Map_Layout"
    /\ m_map' = console
    /\ UNCHANGED <<GOT, M_STARTUP_OKAY, console, m_nentities_size, entityVars, undefined>>
GetMap(k) ==
    /\ header_id(k) = "Send_Map_Layout"
    /\ undefined' = (undefined \/ Outside(body(k), sizeof.MapConfig))
    /\ m_map' = console
    /\ GOT' = GOT \union {"MAP"}
    /\ UNCHANGED <<M_STARTUP_OKAY, console, m_nentities_size, entityVars>>

GetEntitiesSize(k) ==
    /\ header_id(k) = "Send_Entities_Size"
    /\ m_nentities_size' = pull(body(k), sizeof.size_t).value
    /\ undefined' = \/ undefined \/ Outside(body(k), sizeof.size_t)
                    \/ Destroyed(m_ent_buffer, m_nentities_size')
    /\ m_ent_buffer' = resized(m_ent_buffer, m_nentities_size')
    /\ m_entities' = resized(m_entities, m_nentities_size')
    /\ GOT' = GOT \union {"ENTITIES_SIZE"}
    /\ UNCHANGED <<M_STARTUP_OKAY, console, m_map>>

\* Here and in on_message(): the entities of message k.
TakeEntities(k) ==
    /\ m_ent_buffer' = pull_complex(body(k), m_nentities_size, sizeof.Entity)
    /\ m_entities' = m_ent_buffer'

GetEntities(k) ==
    /\ header_id(k) = "Send_Entities"
    /\ TakeEntities(k)
    /\ GOT' = GOT \union {"ENTITIES"}
    /\ \E wild \in SUBSET (Flags \ GOT') : M_STARTUP_OKAY' = (Flags \subseteq GOT' \union wild)
    /\ undefined' = \/ undefined \/ Outside(body(k), m_nentities_size * sizeof.Entity)
                    \/ m_map = "none" \/ GOT' # Flags
    /\ UNCHANGED <<console, m_map, m_nentities_size>>

StartPop ==
    /\ PollTake
    /\ LET k == Head(deqQueue)
       IN GetAccept(k) \/ GetConsole(k) \/ GetMap(k) \/ GetEntitiesSize(k) \/ GetEntities(k)
    /\ pc' = IF M_STARTUP_OKAY' THEN "update" ELSE "poll"
    /\ UNCHANGED serverVars

\* update() with on_message().
OnMessage ==
    /\ Handle
    /\ IF header_id(inHand) = "Send_Entities"
         THEN /\ TakeEntities(inHand)
              /\ undefined' = (undefined \/ Outside(body(inHand), m_nentities_size * sizeof.Entity))
         ELSE UNCHANGED <<entityVars, undefined>>
    /\ UNCHANGED <<serverVars, startVars>>
-----------------------------------------------------------------------------
StartMain ==
    \/ StartPop
    \/ OnMessage
    \/ /\ Poll \/ PollEmpty \/ EnterUpdate \/ Rewait \/ Test \/ Pop
       /\ UNCHANGED <<serverVars, clientVars>>

StartNext ==
    \/ StartMain
    \/ (Arrive \/ Close \/ Spurious) /\ UNCHANGED <<serverVars, clientVars>>

\* The main thread is scheduled whenever it can run.
StartSpec == StartInit /\ [][StartNext]_allVars /\ WF_allVars(StartMain)
-----------------------------------------------------------------------------
(* MessagePump counts the messages of the welcome, m_start() collects flags: it
   stops polling with the fifth message and not before, whatever the flags that
   nobody has assigned happen to hold (Client.cpp:50, 84). *)
CountsTheWelcome == Spec

(* Nothing undefined happens on the way: no read beyond a body, no flag read before
   it was assigned, no entities before there is a map to draw them on, and no
   destructor of an entity that came as bytes (NetMsg.h:131-135, Client.cpp:75-84). *)
NothingUndefined == ~undefined

(* The client's entities are whole, in the server's order, and all from the newest
   message handled: the last ones in it, though the welcome's begins with a number
   and may hold more entities than it announced (Server.cpp:65-71). *)
EntitiesAsSent ==
    LET taken == {k \in 1..Len(handled) : header_id(handled[k]) = "Send_Entities"}
    IN taken # {} =>
        \E k \in taken : /\ \A l \in taken : l <= k
                         /\ m_entities = SubSeq(Entities(k), carried[k] - announced + 1, carried[k])

(* The map keeps itself inside the console it is made for, so that has to be the
   console of the map and not the one the client began with (Client.cpp:65, 70). *)
MapMadeForItsConsole == m_map # "none" => m_map = "map"
=============================================================================
