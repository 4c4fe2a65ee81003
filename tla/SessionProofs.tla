--------------------------- MODULE SessionProofs ---------------------------
(***************************************************************************)
(* Session for every number of clients, connections and calls.             *)
(*                                                                         *)
(* The client: which sockets disconnect() may leave open, and that it      *)
(* leaves nothing running. The second needs only that a client outside a   *)
(* connection has no thread and that handlers run in threads. The first is *)
(* not inductive: it speaks of the time after disconnect(), while the      *)
(* close is posted before, and a client connects again with a socket of    *)
(* the same kind. So the close is followed from the moment it is posted,   *)
(* and a socket exists only once its connection was begun.                 *)
(*                                                                         *)
(* The server: its list names a connection once and, between calls, no     *)
(* null pointer. During message_all_clients() the nulls are behind the     *)
(* cursor, and the connections that were visited have the message. What    *)
(* erase_null() leaves is shown by induction over the sets of the places   *)
(* it has seen.                                                            *)
(***************************************************************************)
EXTENDS Session, SequenceTheorems, FiniteSetTheorems, WellFoundedInduction, TLAPS

Threads ==
    \A c \in Clients : /\ main[c] = "out" => thread[c] = "none"
                       /\ handler[c] # "none" => thread[c] = "running"

\* Connections not begun have no socket, and nobody closes another's.
Owned ==
    \A c \in Clients :
        /\ main[c] = "in" \/ thread[c] # "none" => session[c] \in 1..MaxConnects
        /\ \A n \in 1..MaxConnects : n > session[c] => socket[<<c, n>>] = "none"
        /\ \A x \in closes[c] : x[1] = c /\ socket[x] # "none"

ClosePosted ==
    \A c \in Clients, n \in 1..MaxConnects :
        (main[c] # "in" \/ n < session[c]) /\ socket[<<c, n>>] = "open" => <<c, n>> \in closes[c]

ClientInv == ClientTypeOK /\ Threads /\ Owned /\ ClosePosted

USE SessionAssumption DEF Connections

LEMMA ClientInit == Init => ClientInv
  BY DEF Init, ClientInv, ClientTypeOK, Threads, Owned, ClosePosted

LEMMA Connecting ==
    ASSUME ClientInv, NEW d \in Clients, connect_to_server(d) PROVE ClientInv'
  <1> USE DEF ClientInv
  <1>1. /\ session[d] \in 0..MaxConnects /\ session[d] + 1 \in 1..MaxConnects
        /\ <<d, session[d] + 1>> \in Connections
        /\ session' = [session EXCEPT ![d] = session[d] + 1]
        /\ socket' = [socket EXCEPT ![<<d, session[d] + 1>>] = "open"]
        /\ main[d] = "out" /\ main' = [main EXCEPT ![d] = "in"]
        /\ thread' = [thread EXCEPT ![d] = "running"]
        /\ work' = [work EXCEPT ![d] = "connect"]
        /\ UNCHANGED <<stopped, handler, closes>>
    BY DEF connect_to_server, m_uptrConnection, ClientTypeOK
  <1>2. ClientTypeOK'
    BY <1>1 DEF ClientTypeOK
  <1>3. Threads'
    BY <1>1 DEF Threads, ClientTypeOK
  <1>4. \A c \in Clients, n \in 1..MaxConnects :
            socket'[<<c, n>>] = IF c = d /\ n = session[d] + 1 THEN "open" ELSE socket[<<c, n>>]
    BY <1>1 DEF ClientTypeOK
  <1>5. \A c \in Clients : session'[c] = IF c = d THEN session[d] + 1 ELSE session[c]
    BY <1>1 DEF ClientTypeOK
  <1>6. Owned'
    BY <1>1, <1>4, <1>5 DEF Owned, ClientTypeOK
  <1>7. ClosePosted'
    <2> SUFFICES ASSUME NEW c \in Clients, NEW n \in 1..MaxConnects,
                        main'[c] # "in" \/ n < session'[c], socket'[<<c, n>>] = "open"
                 PROVE  <<c, n>> \in closes[c]
      BY <1>1 DEF ClosePosted
    <2>1. CASE c = d
      <3>1. n < session[d] + 1 /\ socket[<<d, n>>] = "open"
        BY <2>1, <1>1, <1>4, <1>5 DEF ClientTypeOK
      <3> QED BY <2>1, <3>1, <1>1 DEF ClosePosted
    <2>2. CASE c # d
      BY <2>2, <1>1, <1>4, <1>5 DEF ClosePosted, ClientTypeOK
    <2> QED BY <2>1, <2>2
  <1> QED BY <1>2, <1>3, <1>6, <1>7

\* disconnect() and what is left of it.
LEMMA Leaving ==
    ASSUME ClientInv, NEW d \in Clients, disconnect(d) \/ Disconnecting(d) PROVE ClientInv'
  <1> USE DEF ClientInv
  <1>1. CASE disconnect(d)
    <2>1. /\ main[d] \in {"in", "out"} /\ main' = [main EXCEPT ![d] = "stop"]
          /\ UNCHANGED <<session, stopped, thread, handler, work, socket>>
      BY <1>1 DEF disconnect, Leave
    <2>2. main[d] = "in" => session[d] \in 1..MaxConnects /\ <<d, session[d]>> \in Connections
      BY DEF Owned
    <2>3. \/ /\ main[d] = "in" /\ socket[<<d, session[d]>>] = "open"
             /\ closes' = [closes EXCEPT ![d] = closes[d] \union {<<d, session[d]>>}]
          \/ /\ ~(main[d] = "in" /\ socket[<<d, session[d]>>] = "open")
             /\ closes' = closes
      BY <1>1 DEF disconnect, Leave, m_uptrConnection
    <2>4. ClientTypeOK' /\ Threads'
      <3>1. closes' \in [Clients -> SUBSET Connections]
        BY <2>2, <2>3 DEF ClientTypeOK
      <3>2. main' \in [Clients -> {"out", "in", "stop", "join"}]
        BY <2>1 DEF ClientTypeOK
      <3>3. Threads'
        BY <2>1 DEF ClientTypeOK, Threads
      <3> QED BY <2>1, <3>1, <3>2, <3>3 DEF ClientTypeOK
    <2>5. Owned'
      <3>1. \A c \in Clients : \A x \in closes'[c] : x \in closes[c] \/ (c = d /\ x = <<d, session[d]>>)
        BY <2>3 DEF ClientTypeOK
      <3>2. \A c \in Clients : \A x \in closes'[c] : x[1] = c /\ socket[x] # "none"
        BY <2>3, <3>1 DEF Owned
      <3>3. \A c \in Clients : main'[c] = "in" => main[c] = "in"
        BY <2>1 DEF ClientTypeOK
      <3> QED BY <2>1, <3>2, <3>3 DEF Owned
    <2>6. /\ \A c \in Clients : closes[c] \subseteq closes'[c]
          /\ main[d] = "in" /\ socket[<<d, session[d]>>] = "open" => <<d, session[d]>> \in closes'[d]
      BY <2>3 DEF ClientTypeOK
    <2>7. ClosePosted'
      <3> SUFFICES ASSUME NEW c \in Clients, NEW n \in 1..MaxConnects,
                          main'[c] # "in" \/ n < session[c], socket[<<c, n>>] = "open"
                   PROVE  <<c, n>> \in closes'[c]
        BY <2>1 DEF ClosePosted
      <3>1. CASE main[c] # "in" \/ n < session[c]
        BY <2>6, <3>1 DEF ClosePosted
      <3>2. CASE main[c] = "in" /\ ~(n < session[c])
        <4>1. c = d
          BY <2>1, <3>2 DEF ClientTypeOK
        <4>2. n = session[d]
          BY <4>1, <3>2, <2>2 DEF Owned
        <4> QED BY <3>2, <4>1, <4>2, <2>6
      <3> QED BY <3>1, <3>2
    <2> QED BY <2>4, <2>5, <2>7
  <1>2. CASE StopContext(d)
    <2>1. /\ main[d] = "stop" /\ main' = [main EXCEPT ![d] = "join"]
          /\ stopped' = [stopped EXCEPT ![d] = TRUE]
          /\ UNCHANGED <<session, thread, handler, work, closes, socket>>
      BY <1>2 DEF StopContext
    <2>2. ClientTypeOK' /\ Threads' /\ Owned'
      BY <2>1 DEF ClientTypeOK, Threads, Owned
    <2>3. ClosePosted'
      BY <2>1 DEF ClientTypeOK, ClosePosted
    <2> QED BY <2>2, <2>3
  <1>3. CASE JoinAndRelease(d)
    <2>1. /\ main[d] = "join" /\ thread[d] # "running"
          /\ main' = [main EXCEPT ![d] = "out"] /\ thread' = [thread EXCEPT ![d] = "none"]
          /\ UNCHANGED <<session, stopped, handler, work, closes, socket>>
      BY <1>3 DEF JoinAndRelease
    <2>2. ClientTypeOK' /\ Threads' /\ Owned'
      BY <2>1 DEF ClientTypeOK, Threads, Owned
    <2>3. ClosePosted'
      BY <2>1 DEF ClientTypeOK, ClosePosted
    <2> QED BY <2>2, <2>3
  <1> QED BY <1>1, <1>2, <1>3 DEF Disconnecting

LEMMA Running ==
    ASSUME ClientInv, NEW d \in Clients, IoThread(d) PROVE ClientInv'
  <1> USE DEF ClientInv
  <1>1. CASE BeginHandler(d)
    <2>1. PICK h \in {"close", "connected", "failed"} : Begin(d, h)
      BY <1>1 DEF BeginHandler
    <2>2. /\ thread[d] = "running" /\ handler' = [handler EXCEPT ![d] = h]
          /\ UNCHANGED <<main, session, stopped, thread, work, closes, socket>>
      BY <2>1 DEF Begin
    <2>3. ClientTypeOK' /\ Threads'
      BY <2>2 DEF ClientTypeOK, Threads
    <2>4. Owned' /\ ClosePosted'
      BY <2>2 DEF Owned, ClosePosted
    <2> QED BY <2>3, <2>4
  <1>2. CASE EndHandler(d)
    <2>1. /\ handler' = [handler EXCEPT ![d] = "none"]
          /\ UNCHANGED <<main, session, stopped, thread>>
      BY <1>2 DEF EndHandler
    <2>2. Threads'
      BY <2>1 DEF Threads, ClientTypeOK
    <2>3. CASE RunClose(d)
      <3>1. /\ socket' = [x \in Connections |-> IF x \in closes[d] THEN "closed" ELSE socket[x]]
            /\ closes' = [closes EXCEPT ![d] = {}] /\ work' = work
        BY <2>3 DEF RunClose
      <3>2. ClientTypeOK'
        BY <2>1, <3>1 DEF ClientTypeOK
      <3>3. \A c \in Clients : closes'[c] = IF c = d THEN {} ELSE closes[c]
        BY <3>1 DEF ClientTypeOK
      <3>4. \A x \in closes[d] : socket[x] # "none"
        BY DEF Owned
      <3>5. Owned'
        <4>1. \A x \in Connections : socket[x] = "none" <=> socket'[x] = "none"
          BY <3>1, <3>4
        <4>2. \A c \in Clients, n \in 1..MaxConnects : n > session'[c] => socket'[<<c, n>>] = "none"
          BY <2>1, <4>1 DEF Owned
        <4>3. \A c \in Clients : \A x \in closes'[c] : x[1] = c /\ socket'[x] # "none"
          BY <3>3, <4>1 DEF Owned, ClientTypeOK
        <4> QED BY <2>1, <4>2, <4>3 DEF Owned
      <3>6. ClosePosted'
        BY <2>1, <3>1, <3>3 DEF ClosePosted
      <3> QED BY <2>2, <3>2, <3>5, <3>6
    <2>4. CASE OnConnected(d)
      <3>1. closes' = closes /\ socket' = socket /\ work' = [work EXCEPT ![d] = "read"]
        BY <2>4 DEF OnConnected
      <3> QED BY <2>1, <2>2, <3>1 DEF ClientTypeOK, Owned, ClosePosted
    <2>5. CASE OnFailed(d)
      <3>1. /\ closes' = closes /\ work' = [work EXCEPT ![d] = "none"]
            /\ \/ socket' = socket
               \/ work[d] = "read" /\ socket' = [socket EXCEPT ![<<d, session[d]>>] = "closed"]
        BY <2>5 DEF OnFailed, m_uptrConnection
      <3>2. ClientTypeOK'
        BY <2>1, <3>1 DEF ClientTypeOK
      <3>3. \A x \in Connections :
                socket'[x] = socket[x] \/ (x = <<d, session[d]>> /\ socket'[x] = "closed")
        BY <3>1 DEF ClientTypeOK
      <3>4. Owned'
        <4>1. \A c \in Clients, n \in 1..MaxConnects : n > session'[c] => socket'[<<c, n>>] = "none"
          BY <2>1, <3>3 DEF Owned, ClientTypeOK
        <4>2. \A c \in Clients : \A x \in closes'[c] : x[1] = c /\ socket'[x] # "none"
          BY <3>1, <3>3 DEF Owned, ClientTypeOK
        <4> QED BY <4>1, <4>2, <2>1 DEF Owned
      <3>5. ClosePosted'
        BY <2>1, <3>1, <3>3 DEF ClosePosted
      <3> QED BY <2>2, <3>2, <3>4, <3>5
    <2> QED BY <1>2, <2>3, <2>4, <2>5 DEF EndHandler
  <1>3. CASE RunReturns(d)
    <2>1. /\ thread[d] = "running" /\ handler[d] = "none"
          /\ thread' = [thread EXCEPT ![d] = "ended"] /\ stopped' = [stopped EXCEPT ![d] = TRUE]
          /\ UNCHANGED <<main, session, handler, work, closes, socket>>
      BY <1>3 DEF RunReturns
    <2>2. ClientTypeOK' /\ Threads'
      BY <2>1 DEF ClientTypeOK, Threads
    <2>3. Owned' /\ ClosePosted'
      BY <2>1 DEF Owned, ClosePosted
    <2> QED BY <2>2, <2>3
  <1> QED BY <1>1, <1>2, <1>3 DEF IoThread

\* The other steps are none of the client's.
LEMMA OthersStep ==
    ASSUME [Next]_vars
    PROVE  \/ \E c \in Clients :
                connect_to_server(c) \/ disconnect(c) \/ Disconnecting(c) \/ IoThread(c)
           \/ UNCHANGED clientVars
  <1>1. CASE \E x \in Connections : TcpSettle(x) \/ Break(x) \/ ServerStep(x) \/ message_client(x)
    BY <1>1 DEF TcpSettle, Break, ServerStep, Accept, ReadFails, message_client
  <1>2. CASE \E ignore \in Connections \union {nullptr} : message_all_clients(ignore)
    BY <1>2 DEF message_all_clients
  <1>3. CASE Calling \/ stop_server
    BY <1>3 DEF Calling, VisitConnected, VisitClosed, EndCall, stop_server
  <1>4. CASE UNCHANGED vars
    BY <1>4 DEF vars
  <1> QED BY <1>1, <1>2, <1>3, <1>4 DEF Next

LEMMA ClientNext == ClientInv /\ [Next]_vars => ClientInv'
  <1> SUFFICES ASSUME ClientInv, [Next]_vars PROVE ClientInv'
    OBVIOUS
  <1>1. CASE \E c \in Clients : connect_to_server(c) \/ disconnect(c) \/ Disconnecting(c) \/ IoThread(c)
    BY <1>1, Connecting, Leaving, Running
  <1>2. CASE UNCHANGED clientVars
    BY <1>2 DEF clientVars, ClientInv, ClientTypeOK, Threads, Owned, ClosePosted
  <1> QED BY <1>1, <1>2, OthersStep

\* The client's part of the type invariant and what makes it inductive
\* (NetClientInterface.h:68-103).
THEOREM SessionInvariant == Spec => []ClientInv
  BY ClientInit, ClientNext, PTL DEF Spec

\* A socket that disconnect() leaves open has a close that the stop of the
\* io_context overtook, for any clients and any number of connections
\* (NetClientInterface.h:94-97).
THEOREM OnlyOvertakenStayOpen == Spec => []OpenOnlyIfOvertaken
  <1>1. ClientInv => OpenOnlyIfOvertaken
    BY DEF ClientInv, ClosePosted, OpenOnlyIfOvertaken
  <1> QED BY <1>1, SessionInvariant, PTL

\* Nothing of client c changes.
QuietIn(c) == /\ handler'[c] = handler[c] /\ work'[c] = work[c] /\ closes'[c] = closes[c]
              /\ \A n \in 1..MaxConnects : socket'[<<c, n>>] = socket[<<c, n>>]

LEMMA QuietStep ==
    ASSUME ClientInv, [Next]_vars, NEW c \in Clients, main[c] = "out", main'[c] = "out"
    PROVE  QuietIn(c)
  <1> USE DEF ClientInv
  <1>1. thread[c] = "none" /\ handler[c] = "none"
    BY DEF Threads
  <1>2. CASE UNCHANGED clientVars
    BY <1>2 DEF clientVars, QuietIn
  <1>3. ASSUME NEW d \in Clients, connect_to_server(d) \/ disconnect(d) \/ Disconnecting(d) PROVE d # c
    BY <1>3 DEF connect_to_server, disconnect, Leave, Disconnecting, StopContext, JoinAndRelease,
                ClientTypeOK
  <1>4. ASSUME NEW d \in Clients, connect_to_server(d) \/ disconnect(d) \/ Disconnecting(d)
        PROVE  QuietIn(c)
    <2>1. d # c
      BY <1>3, <1>4
    <2>2. CASE connect_to_server(d)
      <3>1. /\ UNCHANGED <<handler, closes>> /\ work' = [work EXCEPT ![d] = "connect"]
            /\ socket' = [socket EXCEPT ![<<d, session'[d]>>] = "open"]
        BY <2>2 DEF connect_to_server, m_uptrConnection
      <3> QED BY <2>1, <3>1 DEF QuietIn, ClientTypeOK
    <2>3. CASE disconnect(d)
      <3>1. /\ UNCHANGED <<handler, work, socket>>
            /\ \/ closes' = closes
               \/ closes' = [closes EXCEPT ![d] = closes[d] \union {<<d, session[d]>>}]
        BY <2>3 DEF disconnect, Leave, m_uptrConnection
      <3> QED BY <2>1, <3>1 DEF QuietIn, ClientTypeOK
    <2>4. CASE Disconnecting(d)
      BY <2>4 DEF Disconnecting, StopContext, JoinAndRelease, QuietIn
    <2> QED BY <1>4, <2>2, <2>3, <2>4
  <1>5. ASSUME NEW d \in Clients, IoThread(d) PROVE QuietIn(c)
    <2>1. d # c
      BY <1>1, <1>5 DEF IoThread, BeginHandler, Begin, EndHandler, RunClose, OnConnected, OnFailed,
                        RunReturns
    <2>2. CASE BeginHandler(d) \/ RunReturns(d)
      <3>1. /\ UNCHANGED <<closes, work, socket>>
            /\ handler' = handler \/ \E h : handler' = [handler EXCEPT ![d] = h]
        BY <2>2 DEF BeginHandler, Begin, RunReturns
      <3> QED BY <2>1, <3>1 DEF QuietIn, ClientTypeOK
    <2>3. CASE EndHandler(d)
      <3>1. handler' = [handler EXCEPT ![d] = "none"]
        BY <2>3 DEF EndHandler
      <3>2. CASE RunClose(d)
        <4>1. \A n \in 1..MaxConnects : <<c, n>> \notin closes[d]
          BY <2>1 DEF Owned
        <4>2. /\ socket' = [x \in Connections |-> IF x \in closes[d] THEN "closed" ELSE socket[x]]
              /\ closes' = [closes EXCEPT ![d] = {}] /\ work' = work
          BY <3>2 DEF RunClose
        <4> QED BY <2>1, <3>1, <4>1, <4>2 DEF QuietIn, ClientTypeOK
      <3>3. CASE OnConnected(d)
        BY <2>1, <3>1, <3>3 DEF OnConnected, QuietIn, ClientTypeOK
      <3>4. CASE OnFailed(d)
        <4>1. /\ closes' = closes /\ work' = [work EXCEPT ![d] = "none"]
              /\ \/ socket' = socket
                 \/ socket' = [socket EXCEPT ![<<d, session[d]>>] = "closed"]
          BY <3>4 DEF OnFailed, m_uptrConnection
        <4> QED BY <2>1, <3>1, <4>1 DEF QuietIn, ClientTypeOK
      <3> QED BY <2>3, <3>2, <3>3, <3>4 DEF EndHandler
    <2> QED BY <1>5, <2>2, <2>3 DEF IoThread
  <1> QED BY <1>2, <1>4, <1>5, OthersStep DEF Next

\* Outside a connection nothing of a client runs or changes any more
\* (NetClientInterface.h:97-102).
THEOREM NothingRunsAfterDisconnect == Spec => QuietAfterDisconnect
  <1>1. ClientInv /\ [Next]_vars =>
            [\A c \in Clients : main[c] = "out" /\ main'[c] = "out" =>
                /\ handler'[c] = handler[c] /\ work'[c] = work[c] /\ closes'[c] = closes[c]
                /\ \A n \in 1..MaxConnects : socket'[<<c, n>>] = socket[<<c, n>>]]_vars
    BY QuietStep DEF QuietIn
  <1> QED BY <1>1, SessionInvariant, PTL DEF Spec, QuietAfterDisconnect
-----------------------------------------------------------------------------
(* The loop that removes null pointers, for a list of any length.          *)

LEMMA MaxIsIn ==
    ASSUME NEW n \in Nat, NEW S \in SUBSET (1..n), S # {}
    PROVE  Max(S) \in S /\ \A k \in S : k <= Max(S)
<1> DEFINE R == StrictSubsetOrdering(Nat)
           T == {k..n : k \in S}
<1>1. T \subseteq FiniteSubsetsOf(Nat) /\ T # {}
  <2>1. ASSUME NEW k \in S PROVE IsFiniteSet(k..n) /\ (k..n) \subseteq Nat
    <3>1. k \in Nat /\ k \in Int /\ n \in Int
      OBVIOUS
    <3>2. IsFiniteSet(k..n)
      BY <3>1, FS_Interval, Zenon
    <3> QED
      BY <3>1, <3>2
  <2> QED
    BY <2>1 DEF FiniteSubsetsOf
<1>2. IsWellFoundedOn(R, FiniteSubsetsOf(Nat))
  BY FS_StrictSubsetOrderingWellFounded
<1>3. \E above \in T : \A other \in T : ~(<<other, above>> \in R)
  <2> HIDE DEF R, T
  <2> QED
    BY <1>1, <1>2, WFMin
<1>4. PICK x \in S : \A other \in T : ~(<<other, x..n>> \in R)
  BY <1>3
<1>5. ASSUME NEW y \in S PROVE x >= y
  <2>1. SUFFICES ASSUME y > x PROVE FALSE
    OBVIOUS
  <2>2. (y..n) \subseteq (x..n) /\ x \in x..n /\ x \notin y..n
    BY <2>1
  <2>3. (y..n) \in SUBSET Nat /\ (x..n) \in SUBSET Nat
    OBVIOUS
  <2>4. <<y..n, x..n>> \in R
    BY <2>2, <2>3 DEF StrictSubsetOrdering
  <2> QED
    BY <1>4, <2>4
<1>6. Max(S) \in S /\ \A y \in S : Max(S) >= y
  BY <1>5 DEF Max
<1>7. S \subseteq Int
  OBVIOUS
<1> QED
  BY <1>6, <1>7

(* What holds of a set of naturals if it does without the largest of them holds of
   every set of them. *)
LEMMA WithoutTheLast ==
    ASSUME NEW n \in Nat, NEW Good, {} \in Good,
           \A s \in SUBSET (1..n) : s # {} /\ s \ {Max(s)} \in Good => s \in Good
    PROVE  \A s \in SUBSET (1..n) : s \in Good
<1> DEFINE R == StrictSubsetOrdering(Nat)
           Bad == {s \in SUBSET (1..n) : s \notin Good}
<1>1. Bad \subseteq FiniteSubsetsOf(Nat)
  <2>1. \A s \in SUBSET (1..n) : IsFiniteSet(s) /\ s \subseteq Nat
    <3>1. IsFiniteSet(1..n) /\ (1..n) \subseteq Nat
      BY FS_Interval
    <3>2. \A s \in SUBSET (1..n) : IsFiniteSet(s)
      BY <3>1, FS_Subset
    <3> QED
      BY <3>1, <3>2
  <2> QED
    BY <2>1 DEF FiniteSubsetsOf
<1>2. IsWellFoundedOn(R, FiniteSubsetsOf(Nat))
  BY FS_StrictSubsetOrderingWellFounded
<1>3. SUFFICES ASSUME Bad # {} PROVE FALSE
  OBVIOUS
<1>4. \E least \in Bad : \A other \in Bad : ~(<<other, least>> \in R)
  <2> HIDE DEF R, Bad
  <2> QED
    BY <1>1, <1>2, <1>3, WFMin
<1>5. PICK s \in Bad : \A other \in Bad : ~(<<other, s>> \in R)
  BY <1>4
<1>6. Max(s) \in s /\ s # {}
  BY MaxIsIn
<1>7. <<s \ {Max(s)}, s>> \in R
  <2> DEFINE t == s \ {Max(s)}
  <2>1. s \in SUBSET Nat /\ t \in SUBSET Nat
    <3>1. s \subseteq 1..n /\ (1..n) \subseteq Nat /\ t \subseteq s
      OBVIOUS
    <3> HIDE DEF t
    <3> QED
      BY <3>1
  <2>2. t \subseteq s /\ t # s
    BY <1>6
  <2> HIDE DEF t
  <2>3. <<t, s>> \in R
    BY <2>1, <2>2 DEF StrictSubsetOrdering
  <2> QED
    BY <2>3 DEF t
<1>8. s \ {Max(s)} \in SUBSET (1..n) /\ s \ {Max(s)} \in Good
  BY <1>5, <1>7
<1> QED
  BY <1>6, <1>8

LEMMA MaxIs ==
    ASSUME NEW n \in Nat, NEW S \in SUBSET (1..n), NEW m \in S, \A k \in S : k <= m
    PROVE  Max(S) = m
<1>1. S # {} /\ Max(S) \in S /\ \A k \in S : k <= Max(S)
  BY MaxIsIn
<1> DEFINE M == Max(S)
<1>2. M \in 1..n /\ m \in 1..n /\ m <= M /\ M <= m
  BY <1>1
<1> HIDE DEF M
<1>3. M = m
  BY <1>2
<1> QED
  BY <1>3 DEF M

(* What is left of a list of which the last element seen is x. *)
Then(kept, x) == IF x = nullptr THEN kept ELSE Append(kept, x)

(* The fold over the elements with numbers in s, if h is the one over fewer. *)
Step(list, h, s) == IF s = {} THEN <<>> ELSE Then(h[s \ {Max(s)}], list[Max(s)])

LEMMA FoldExists ==
    ASSUME NEW n \in Nat, NEW list
    PROVE  \E h : h = [s \in SUBSET (1..n) |-> Step(list, h, s)]
<1> DEFINE Exists(T) == \E h : h = [s \in SUBSET T |-> Step(list, h, s)]
           Good == {T \in SUBSET (1..n) : Exists(T)}
<1>1. {} \in Good
  <2> DEFINE h == [s \in SUBSET {} |-> <<>>]
  <2>1. \A s \in SUBSET {} : Step(list, h, s) = <<>>
    BY DEF Step
  <2>2. h = [s \in SUBSET {} |-> Step(list, h, s)]
    BY <2>1
  <2> QED
    BY <2>2
<1>2. ASSUME NEW T \in SUBSET (1..n), T # {}, T \ {Max(T)} \in Good PROVE T \in Good
  <2> DEFINE m == Max(T)
             U == T \ {m}
  <2>1. m \in T /\ \A k \in T : k <= m
    BY <1>2, MaxIsIn
  <2>2. PICK g : g = [s \in SUBSET U |-> Step(list, g, s)]
    BY <1>2
  <2> HIDE DEF m
  <2> DEFINE h == [s \in SUBSET T |-> IF m \in s THEN Then(g[s \ {m}], list[m]) ELSE g[s]]
  <2>3. \A s \in SUBSET U : h[s] = g[s]
    OBVIOUS
  <2>4. ASSUME NEW s \in SUBSET T, m \in s PROVE h[s] = Step(list, h, s)
    <3>1. Max(s) = m
      <4>1. s \in SUBSET (1..n) /\ \A k \in s : k <= m
        BY <2>1
      <4> QED
        BY <2>4, <4>1, MaxIs
    <3>2. s \ {m} \in SUBSET U /\ s # {}
      BY <2>4
    <3>3. h[s] = Then(g[s \ {m}], list[m])
      BY <2>4
    <3>4. h[s \ {m}] = g[s \ {m}]
      BY <2>3, <3>2
    <3> HIDE DEF h
    <3> QED
      BY <3>1, <3>2, <3>3, <3>4 DEF Step
  <2>5. ASSUME NEW s \in SUBSET T, m \notin s PROVE h[s] = Step(list, h, s)
    <3>1. s \in SUBSET U
      BY <2>5
    <3>2. h[s] = Step(list, g, s)
      BY <2>2, <2>3, <3>1
    <3>3. s \ {Max(s)} \in SUBSET U
      BY <3>1
    <3>4. h[s \ {Max(s)}] = g[s \ {Max(s)}]
      BY <2>3, <3>3
    <3> HIDE DEF h
    <3> QED
      BY <3>2, <3>4 DEF Step
  <2>6. h = [s \in SUBSET T |-> Step(list, h, s)]
    <3>1. \A s \in SUBSET T : h[s] = Step(list, h, s)
      BY <2>4, <2>5
    <3>2. h = [s \in SUBSET T |-> h[s]]
      OBVIOUS
    <3> HIDE DEF h
    <3> QED
      BY <3>1, <3>2
  <2> QED
    BY <2>6
<1>3. 1..n \in Good
  <2>1. \A T \in SUBSET (1..n) : T # {} /\ T \ {Max(T)} \in Good => T \in Good
    BY <1>2
  <2> HIDE DEF Good
  <2> QED
    BY <1>1, <2>1, WithoutTheLast
<1> QED
  BY <1>3

(* Nobody is listed twice. *)
Distinct(list) == \A i, j \in DOMAIN list : list[i] = list[j] /\ list[i] # nullptr => i = j
Listed(list, x) == \E i \in DOMAIN list : list[i] = x

LEMMA AppendedList ==
    ASSUME NEW S, NEW list \in Seq(S), NEW x \in S
    PROVE  /\ Append(list, x) \in Seq(S)
           /\ Len(Append(list, x)) = Len(list) + 1 /\ Len(list) \in Nat
           /\ DOMAIN list = 1..Len(list)
           /\ DOMAIN Append(list, x) = 1..(Len(list) + 1)
           /\ Append(list, x)[Len(list) + 1] = x
           /\ \A i \in DOMAIN list : Append(list, x)[i] = list[i] /\ i \in DOMAIN Append(list, x)
           /\ \A y : Listed(Append(list, x), y) <=> Listed(list, y) \/ y = x
           /\ Distinct(list) /\ ~Listed(list, x) => Distinct(Append(list, x))
<1> DEFINE more == Append(list, x)
<1>1. /\ more \in Seq(S) /\ Len(more) = Len(list) + 1 /\ Len(list) \in Nat
      /\ DOMAIN list = 1..Len(list) /\ DOMAIN more = 1..(Len(list) + 1)
      /\ more[Len(list) + 1] = x
      /\ \A i \in 1..Len(list) : more[i] = list[i]
  BY AppendProperties, LenProperties
<1> HIDE DEF more
<1>2. \A i \in DOMAIN more : i \in DOMAIN list \/ i = Len(list) + 1
  BY <1>1
<1>3. \A i \in DOMAIN list : i \in DOMAIN more
  BY <1>1
<1>4. Len(list) + 1 \in DOMAIN more
  BY <1>1
<1>5. \A y : Listed(more, y) <=> Listed(list, y) \/ y = x
  BY <1>1, <1>2, <1>3, <1>4 DEF Listed
<1>6. Distinct(list) /\ ~Listed(list, x) => Distinct(more)
  BY <1>1, <1>2, <1>3, <1>4 DEF Listed, Distinct
<1> QED
  BY <1>1, <1>3, <1>5, <1>6 DEF more

(* std::remove() leaves everything else, once. *)
THEOREM NullsErased ==
    ASSUME NEW list \in Seq(Connections \union {nullptr}), Distinct(list)
    PROVE  /\ erase_null(list) \in Seq(Connections)
           /\ \A x : Listed(erase_null(list), x) <=> x # nullptr /\ Listed(list, x)
           /\ Distinct(erase_null(list))
<1> DEFINE D == DOMAIN list
           Fold == CHOOSE h : h = [s \in SUBSET D |-> Step(list, h, s)]
           Left(s) == /\ Fold[s] \in Seq(Connections)
                      /\ \A x : Listed(Fold[s], x) <=> x # nullptr /\ \E i \in s : list[i] = x
                      /\ Distinct(Fold[s])
           Good == {s \in SUBSET D : Left(s)}
<1>1. erase_null(list) = Fold[D]
  BY Zenon DEF erase_null, FoldLeft, MapThenFoldSet, Step, Then
<1>2. D = 1..Len(list) /\ Len(list) \in Nat /\ \A i \in D : list[i] \in Connections \union {nullptr}
  BY LenProperties, ElementOfSeq
<1>3. Fold = [s \in SUBSET D |-> Step(list, Fold, s)]
  <2>1. \E h : h = [s \in SUBSET D |-> Step(list, h, s)]
    <3>1. Len(list) \in Nat
      BY <1>2
    <3>2. \E h : h = [s \in SUBSET (1..Len(list)) |-> Step(list, h, s)]
      <4> DEFINE n == Len(list)
      <4> HIDE DEF n
      <4>1. n \in Nat
        BY <3>1 DEF n
      <4>2. \E h : h = [s \in SUBSET (1..n) |-> Step(list, h, s)]
        BY <4>1, FoldExists, Zenon
      <4> QED
        BY <4>2 DEF n
    <3> QED
      BY <1>2, <3>2, Zenon
  <2> QED
    BY <2>1, Zenon
<1> HIDE DEF Fold, D
<1>4. Left({})
  <2>1. Fold[{}] = <<>>
    BY <1>3 DEF Step
  <2>2. <<>> \in Seq(Connections) /\ DOMAIN <<>> = {}
    OBVIOUS
  <2> QED
    BY <2>1, <2>2 DEF Listed, Distinct
<1>5. ASSUME NEW s \in SUBSET D, s # {}, Left(s \ {Max(s)}) PROVE Left(s)
  <2> DEFINE m == Max(s)
             t == s \ {m}
             x == list[m]
             kept == Fold[t]
  <2>1. m \in s
    BY <1>2, <1>5, MaxIsIn
  <2>2. Fold[s] = Then(kept, x)
    BY <1>3, <1>5 DEF Step
  <2>3. Left(t)
    BY <1>5
  <2>4. kept \in Seq(Connections) /\ Distinct(kept)
        /\ \A y : Listed(kept, y) <=> y # nullptr /\ \E i \in t : list[i] = y
    BY <2>3
  <2>5. \A y : (\E i \in s : list[i] = y) <=> y = x \/ \E i \in t : list[i] = y
    BY <2>1
  <2> HIDE DEF kept, t, x, m
  <2>6. CASE x = nullptr
    <3>1. Fold[s] = kept
      BY <2>2, <2>6 DEF Then
    <3> QED
      BY <2>4, <2>5, <2>6, <3>1
  <2>7. CASE x # nullptr
    <3>1. Fold[s] = Append(kept, x)
      BY <2>2, <2>7 DEF Then
    <3>2. m \in D /\ x \in Connections
      BY <1>2, <2>1, <2>7 DEF x
    <3>3. ~Listed(kept, x)
      <4>1. \A i \in t : list[i] # x
        BY <2>1, <2>7, <3>2 DEF Distinct, D, t, x
      <4> QED
        BY <2>4, <4>1
    <3>4. /\ Append(kept, x) \in Seq(Connections)
          /\ \A y : Listed(Append(kept, x), y) <=> Listed(kept, y) \/ y = x
          /\ Distinct(Append(kept, x))
      BY <2>4, <3>2, <3>3, AppendedList
    <3> QED
      BY <2>4, <2>5, <2>7, <3>1, <3>4
  <2> QED
    BY <2>6, <2>7
<1>6. D \in Good
  <2>1. {} \in Good /\ \A s \in SUBSET (1..Len(list)) : s # {} /\ s \ {Max(s)} \in Good => s \in Good
    <3>1. {} \in Good
      BY <1>4
    <3>2. ASSUME NEW s \in SUBSET (1..Len(list)), s # {}, s \ {Max(s)} \in Good PROVE s \in Good
      <4>1. s \in SUBSET D /\ Left(s \ {Max(s)})
        BY <1>2, <3>2
      <4> HIDE DEF Left
      <4> QED
        BY <1>5, <3>2, <4>1
    <3> QED
      BY <3>1, <3>2
  <2> HIDE DEF Good
  <2> QED
    BY <1>2, <2>1, WithoutTheLast
<1>7. Left(D)
  BY <1>6
<1> QED
  BY <1>1, <1>7 DEF Listed, D
-----------------------------------------------------------------------------
(* The server's list.                                                      *)

Calls == [running : {TRUE}, msg : 0..MaxCalls, pIgnoreClient : Connections \union {nullptr},
          cursor : Nat \ {0}, invalid_client_exists : BOOLEAN]

ServerTypeOK ==
    /\ peer \in [Connections -> {"none", "open", "closed"}]
    /\ m_deqConnections \in Seq(Connections \union {nullptr})
    /\ call = Idle \/ call \in Calls
    /\ calls \in 0..MaxCalls
    /\ sent \in [Connections -> Seq(0..MaxCalls)]
    /\ server \in {"running", "stopped", "torn"}

LinkTypeOK == tcp \in [Connections -> {"none", "syn", "up", "refused", "down"}]

(* Whoever is listed was accepted, once. *)
Members ==
    /\ Distinct(m_deqConnections)
    /\ \A i \in DOMAIN m_deqConnections :
          m_deqConnections[i] # nullptr => peer[m_deqConnections[i]] # "none"

(* Null pointers are behind the cursor of a call that is going to erase them. *)
Nulls ==
    /\ ~call.running => \A i \in DOMAIN m_deqConnections : m_deqConnections[i] # nullptr
    /\ call.running => call.cursor <= Len(m_deqConnections) + 1
    /\ call.running /\ server # "torn" =>
          \A i \in DOMAIN m_deqConnections :
              m_deqConnections[i] = nullptr => i < call.cursor /\ call.invalid_client_exists

(* The number of a message is new, and whoever the cursor has passed has it. *)
Never(s, m) == \A k \in DOMAIN s : s[k] # m
Once(s, m) == \E k \in DOMAIN s : s[k] = m /\ \A j \in DOMAIN s : s[j] = m => j = k

Numbers ==
    /\ \A x \in Connections : \A k \in DOMAIN sent[x] : sent[x][k] <= calls
    /\ call.running => call.msg \in {0, calls}
Met ==
    call.running /\ call.msg # 0 /\ server # "torn" =>
        \A i \in DOMAIN m_deqConnections :
            m_deqConnections[i] # nullptr =>
                IF i < call.cursor /\ m_deqConnections[i] # call.pIgnoreClient
                  THEN Once(sent[m_deqConnections[i]], call.msg)
                  ELSE Never(sent[m_deqConnections[i]], call.msg)

ListInv == ServerTypeOK /\ Members /\ Nulls /\ Numbers /\ Met

LEMMA CallKinds ==
    ASSUME ServerTypeOK
    PROVE  /\ ~Idle.running
           /\ call.running => call \in Calls /\ call.cursor \in Nat /\ call.cursor >= 1
                              /\ call.msg \in 0..MaxCalls
           /\ \A i \in DOMAIN m_deqConnections : m_deqConnections[i] \in Connections \union {nullptr}
           /\ DOMAIN m_deqConnections = 1..Len(m_deqConnections) /\ Len(m_deqConnections) \in Nat
<1>1. ~Idle.running
  BY DEF Idle
<1>2. call.running => call \in Calls
  BY <1>1, Zenon DEF ServerTypeOK
<1>3. call \in Calls => call.cursor \in Nat /\ call.cursor >= 1 /\ call.msg \in 0..MaxCalls
  BY DEF Calls
<1>4. /\ \A i \in DOMAIN m_deqConnections : m_deqConnections[i] \in Connections \union {nullptr}
      /\ DOMAIN m_deqConnections = 1..Len(m_deqConnections) /\ Len(m_deqConnections) \in Nat
  BY LenProperties, ElementOfSeq DEF ServerTypeOK
<1> QED
  BY <1>1, <1>2, <1>3, <1>4

(* What a message appended to those sent does. *)
LEMMA SentOnceMore ==
    ASSUME NEW s \in Seq(0..MaxCalls), NEW m \in 0..MaxCalls, NEW bound \in Nat, m <= bound,
           \A k \in DOMAIN s : s[k] <= bound
    PROVE  /\ Append(s, m) \in Seq(0..MaxCalls)
           /\ \A k \in DOMAIN Append(s, m) : Append(s, m)[k] <= bound
           /\ Never(s, m) => Once(Append(s, m), m)
<1> DEFINE more == Append(s, m)
<1>1. /\ more \in Seq(0..MaxCalls) /\ DOMAIN s = 1..Len(s) /\ Len(s) \in Nat
      /\ DOMAIN more = 1..(Len(s) + 1) /\ more[Len(s) + 1] = m
      /\ \A k \in DOMAIN s : more[k] = s[k]
  BY AppendedList
<1> HIDE DEF more
<1>2. \A k \in DOMAIN more : k \in DOMAIN s \/ k = Len(s) + 1
  BY <1>1
<1>3. Len(s) + 1 \in DOMAIN more
  BY <1>1
<1>4. \A k \in DOMAIN more : more[k] <= bound
  BY <1>1, <1>2
<1>5. Never(s, m) => Once(more, m)
  BY <1>1, <1>2, <1>3 DEF Never, Once
<1> QED
  BY <1>1, <1>4, <1>5 DEF more

LEMMA ListInit == Init => ListInv /\ LinkTypeOK
<1> SUFFICES ASSUME Init PROVE ListInv /\ LinkTypeOK
  OBVIOUS
<1>1. /\ m_deqConnections = <<>> /\ DOMAIN <<>> = {} /\ call = Idle /\ calls = 0
      /\ \A x \in Connections : sent[x] = <<>>
  BY DEF Init
<1>2. ServerTypeOK /\ LinkTypeOK
  BY <1>1 DEF Init, ServerTypeOK, LinkTypeOK
<1>3. ~call.running
  BY <1>1 DEF Idle
<1> QED
  BY <1>1, <1>2, <1>3, Zenon DEF ListInv, Members, Distinct, Nulls, Numbers, Met

LEMMA ListAccept ==
    ASSUME ListInv, NEW x \in Connections, Accept(x) PROVE ListInv'
<1> DEFINE list == m_deqConnections
           more == Append(list, x)
<1>1. ServerTypeOK /\ Members /\ Nulls /\ Numbers /\ Met
  BY DEF ListInv
<1>2. /\ peer[x] = "none" /\ server = "running"
      /\ peer' = [peer EXCEPT ![x] = "open"] /\ m_deqConnections' = more
      /\ server' = IF call.running THEN "torn" ELSE server
      /\ call' = call /\ calls' = calls /\ sent' = sent
  BY DEF Accept
<1>3. list \in Seq(Connections \union {nullptr})
  BY <1>1 DEF ServerTypeOK
<1>4. ~Listed(list, x)
  BY <1>1, <1>2, SessionAssumption DEF Members, Listed
<1>5. /\ more \in Seq(Connections \union {nullptr})
      /\ Len(more) = Len(list) + 1 /\ Len(list) \in Nat
      /\ DOMAIN list = 1..Len(list) /\ DOMAIN more = 1..(Len(list) + 1)
      /\ more[Len(list) + 1] = x
      /\ \A i \in DOMAIN list : more[i] = list[i]
      /\ Distinct(more)
  BY <1>1, <1>3, <1>4, AppendedList DEF Members
<1> HIDE DEF more
<1>6. \A i \in DOMAIN more : i \in DOMAIN list \/ (i = Len(list) + 1 /\ more[i] = x)
  BY <1>5
<1>7. ServerTypeOK'
  BY <1>1, <1>2, <1>5 DEF ServerTypeOK
<1>8. Members'
  <2>1. \A y \in Connections : peer[y] # "none" => peer'[y] # "none"
    BY <1>1, <1>2 DEF ServerTypeOK
  <2>2. peer'[x] # "none" /\ x # nullptr
    BY <1>1, <1>2 DEF ServerTypeOK
  <2>3. \A i \in DOMAIN list : list[i] \in Connections \union {nullptr}
    BY <1>1, CallKinds
  <2>4. \A i \in DOMAIN more : more[i] # nullptr => peer'[more[i]] # "none"
    BY <1>1, <1>5, <1>6, <2>1, <2>2, <2>3 DEF Members
  <2> QED
    BY <1>2, <1>5, <2>4 DEF Members
<1>9. Nulls'
  <2>1. ASSUME ~call.running PROVE \A i \in DOMAIN more : more[i] # nullptr
    BY <1>1, <1>5, <1>6, <2>1 DEF Nulls
  <2>2. ASSUME call.running PROVE call.cursor <= Len(more) + 1 /\ server' = "torn"
    BY <1>1, <1>2, <1>5, <2>2, CallKinds DEF Nulls
  <2> QED
    BY <1>2, <2>1, <2>2, Zenon DEF Nulls
<1>10. Numbers'
  BY <1>1, <1>2 DEF Numbers
<1>11. Met'
  BY <1>2, Zenon DEF Met
<1> QED
  BY <1>7, <1>8, <1>9, <1>10, <1>11 DEF ListInv

LEMMA ListFails ==
    ASSUME ListInv, \/ \E x \in Connections : ReadFails(x)
                    \/ stop_server
    PROVE  ListInv'
<1>1. ServerTypeOK /\ Members /\ Nulls /\ Numbers /\ Met
  BY DEF ListInv
<1>2. /\ UNCHANGED <<m_deqConnections, call, calls, sent>>
      /\ peer' = peer \/ \E x \in Connections : peer' = [peer EXCEPT ![x] = "closed"]
      /\ server' = server \/ (server' = "stopped" /\ server = "running")
  BY DEF ReadFails, listVars, stop_server
<1>3. peer' \in [Connections -> {"none", "open", "closed"}]
      /\ \A y \in Connections : peer[y] # "none" => peer'[y] # "none"
  BY <1>1, <1>2 DEF ServerTypeOK
<1>4. server' \in {"running", "stopped", "torn"} /\ (server' # "torn" => server # "torn")
  BY <1>1, <1>2 DEF ServerTypeOK
<1>5. ServerTypeOK'
  BY <1>1, <1>2, <1>3, <1>4 DEF ServerTypeOK
<1>6. Members'
  BY <1>1, <1>2, <1>3, CallKinds DEF Members
<1>7. Nulls' /\ Met'
  BY <1>1, <1>2, <1>4, Zenon DEF Nulls, Met
<1>8. Numbers'
  BY <1>1, <1>2 DEF Numbers
<1> QED
  BY <1>5, <1>6, <1>7, <1>8 DEF ListInv

LEMMA ListCalled ==
    ASSUME ListInv, \/ \E x \in Connections : message_client(x)
                    \/ \E ignore \in Connections \union {nullptr} : message_all_clients(ignore)
    PROVE  ListInv'
<1> DEFINE list == m_deqConnections
<1>1. ServerTypeOK /\ Members /\ Nulls /\ Numbers /\ Met
  BY DEF ListInv
<1>2. /\ ~call.running /\ calls < MaxCalls /\ UNCHANGED <<peer, m_deqConnections, server>>
      /\ calls' = calls + 1
  BY DEF message_client, message_all_clients, BeginCall
<1>3. calls \in Nat /\ calls' \in 0..MaxCalls /\ calls < calls'
  BY <1>1, <1>2 DEF ServerTypeOK
<1>4. Members'
  BY <1>2, <1>1 DEF Members
<1>5. CASE call' = call /\ \E x \in Connections : sent' = [sent EXCEPT ![x] = Append(@, calls + 1)]
  <2>1. PICK x \in Connections : sent' = [sent EXCEPT ![x] = Append(sent[x], calls')]
    BY <1>2, <1>5
  <2>2. sent[x] \in Seq(0..MaxCalls) /\ \A k \in DOMAIN sent[x] : sent[x][k] <= calls'
    <3>1. sent[x] \in Seq(0..MaxCalls) /\ \A k \in DOMAIN sent[x] : sent[x][k] <= calls
      BY <1>1 DEF ServerTypeOK, Numbers
    <3>2. \A k \in DOMAIN sent[x] : sent[x][k] \in 0..MaxCalls
      BY <3>1, LenProperties, ElementOfSeq
    <3> QED
      BY <1>3, <3>1, <3>2
  <2>3. calls' \in Nat /\ calls' <= calls'
    BY <1>3
  <2>4. /\ Append(sent[x], calls') \in Seq(0..MaxCalls)
        /\ \A k \in DOMAIN Append(sent[x], calls') : Append(sent[x], calls')[k] <= calls'
    <3> DEFINE c == calls'
    <3>1. c \in 0..MaxCalls /\ c \in Nat /\ c <= c /\ \A k \in DOMAIN sent[x] : sent[x][k] <= c
      BY <1>3, <2>2, <2>3
    <3> HIDE DEF c
    <3>2. /\ Append(sent[x], c) \in Seq(0..MaxCalls)
          /\ \A k \in DOMAIN Append(sent[x], c) : Append(sent[x], c)[k] <= c
      BY <2>2, <3>1, SentOnceMore
    <3> QED
      BY <3>2 DEF c
  <2>5. sent' \in [Connections -> Seq(0..MaxCalls)]
    BY <1>1, <2>1, <2>4 DEF ServerTypeOK
  <2>6. \A y \in Connections : sent'[y] = IF y = x THEN Append(sent[x], calls') ELSE sent[y]
    BY <1>1, <2>1 DEF ServerTypeOK
  <2>7. \A y \in Connections : \A k \in DOMAIN sent'[y] : sent'[y][k] <= calls'
    <3>1. ASSUME NEW y \in Connections, NEW k \in DOMAIN sent[y] PROVE sent[y][k] <= calls'
      <4>1. sent[y] \in Seq(0..MaxCalls) /\ sent[y][k] <= calls
        BY <1>1 DEF ServerTypeOK, Numbers
      <4>2. sent[y][k] \in 0..MaxCalls
        BY <4>1, LenProperties, ElementOfSeq
      <4> QED
        BY <1>3, <4>1, <4>2
    <3> QED
      BY <2>4, <2>6, <3>1
  <2>8. ServerTypeOK'
    BY <1>1, <1>2, <1>3, <1>5, <2>5 DEF ServerTypeOK
  <2>9. Nulls' /\ Numbers' /\ Met'
    <3>1. ~call'.running /\ m_deqConnections' = m_deqConnections
      BY <1>2, <1>5
    <3>2. \A i \in DOMAIN m_deqConnections : m_deqConnections[i] # nullptr
      BY <1>1, <1>2 DEF Nulls
    <3> QED
      BY <2>7, <3>1, <3>2, Zenon DEF Nulls, Numbers, Met
  <2> QED
    BY <1>4, <2>8, <2>9 DEF ListInv
<1>6. CASE /\ sent' = sent
           /\ \E message \in {0, calls'}, ignore \in Connections \union {nullptr},
                 cursor \in {1, Len(list) + 1}, invalid \in BOOLEAN :
                /\ call' = [running |-> TRUE, msg |-> message, pIgnoreClient |-> ignore,
                            cursor |-> cursor, invalid_client_exists |-> invalid]
                /\ message # 0 => cursor = 1
  <2>1. PICK message \in {0, calls'}, ignore \in Connections \union {nullptr},
             cursor \in {1, Len(list) + 1}, invalid \in BOOLEAN :
               /\ call' = [running |-> TRUE, msg |-> message, pIgnoreClient |-> ignore,
                           cursor |-> cursor, invalid_client_exists |-> invalid]
               /\ message # 0 => cursor = 1
    BY <1>6
  <2>2. Len(list) \in Nat /\ DOMAIN list = 1..Len(list)
    BY <1>1, CallKinds
  <2>3. /\ call'.running /\ call'.msg = message /\ call'.cursor = cursor
        /\ call'.pIgnoreClient = ignore
    BY <2>1
  <2>4. call' \in Calls
    BY <1>3, <2>1, <2>2 DEF Calls
  <2>5. \A x \in Connections : \A k \in DOMAIN sent[x] :
           sent[x][k] <= calls' /\ sent[x][k] # calls'
    <3>1. ASSUME NEW x \in Connections, NEW k \in DOMAIN sent[x]
          PROVE  sent[x][k] <= calls' /\ sent[x][k] # calls'
      <4>1. sent[x] \in Seq(0..MaxCalls) /\ sent[x][k] <= calls
        BY <1>1 DEF ServerTypeOK, Numbers
      <4>2. sent[x][k] \in 0..MaxCalls
        BY <4>1, LenProperties, ElementOfSeq
      <4> QED
        BY <1>3, <4>1, <4>2
    <3> QED
      BY <3>1
  <2>6. ServerTypeOK'
    BY <1>1, <1>2, <1>3, <1>6, <2>4 DEF ServerTypeOK
  <2>7. Nulls'
    <3>1. \A i \in DOMAIN list : list[i] # nullptr
      BY <1>1, <1>2 DEF Nulls
    <3>2. cursor <= Len(list) + 1
      BY <2>2
    <3> QED
      BY <1>2, <2>3, <3>1, <3>2, Zenon DEF Nulls
  <2>8. Numbers'
    BY <1>6, <2>3, <2>5 DEF Numbers
  <2>9. ASSUME message # 0, NEW i \in DOMAIN list, list[i] # nullptr
        PROVE  ~(i < cursor) /\ Never(sent[list[i]], message)
    <3>1. ~(i < cursor)
      BY <2>1, <2>2, <2>9
    <3>2. list[i] \in Connections /\ message = calls'
      BY <1>1, <2>9, CallKinds
    <3> QED
      BY <2>5, <3>1, <3>2 DEF Never
  <2>10. Met'
    BY <1>2, <1>6, <2>3, <2>9, Zenon DEF Met
  <2> QED
    BY <1>4, <2>6, <2>7, <2>8, <2>10 DEF ListInv
<1>7. CASE \E x \in Connections : message_client(x)
  <2>1. PICK x \in Connections : message_client(x)
    BY <1>7
  <2>2. CASE peer[x] = "open"
    BY <1>5, <2>1, <2>2 DEF message_client
  <2>3. CASE peer[x] # "open"
    <3>1. /\ sent' = sent
          /\ call' = [running |-> TRUE, msg |-> 0, pIgnoreClient |-> nullptr,
                      cursor |-> Len(list) + 1, invalid_client_exists |-> TRUE]
      BY <2>1, <2>3 DEF message_client, BeginCall
    <3> QED
      BY <1>6, <3>1
  <2> QED
    BY <2>2, <2>3
<1>8. CASE \E ignore \in Connections \union {nullptr} : message_all_clients(ignore)
  <2>1. PICK ignore \in Connections \union {nullptr} : message_all_clients(ignore)
    BY <1>8
  <2>2. /\ sent' = sent
        /\ call' = [running |-> TRUE, msg |-> calls', pIgnoreClient |-> ignore,
                    cursor |-> 1, invalid_client_exists |-> FALSE]
    BY <2>1, <1>2 DEF message_all_clients, BeginCall
  <2> QED
    BY <1>6, <2>2
<1> QED
  BY <1>7, <1>8

(* The element at the cursor is no null pointer, and the next one is next. *)
LEMMA AtCursor ==
    ASSUME ListInv, InLoop
    PROVE  /\ call.running /\ server # "torn" /\ call \in Calls
           /\ call.cursor \in DOMAIN m_deqConnections
           /\ client \in Connections /\ client # nullptr /\ peer[client] \in {"open", "closed"}
           /\ call.cursor + 1 \in Nat \ {0} /\ call.cursor + 1 <= Len(m_deqConnections) + 1
           /\ \A i \in DOMAIN m_deqConnections :
                 i < call.cursor + 1 <=> i < call.cursor \/ i = call.cursor
           /\ ~(call.cursor < call.cursor)
<1>1. ServerTypeOK /\ Members /\ Nulls
  BY DEF ListInv
<1>2. call.running /\ server # "torn" /\ call.cursor <= Len(m_deqConnections)
  BY DEF InLoop
<1>3. /\ call \in Calls /\ call.cursor \in Nat /\ call.cursor >= 1
      /\ Len(m_deqConnections) \in Nat /\ DOMAIN m_deqConnections = 1..Len(m_deqConnections)
  BY <1>1, <1>2, CallKinds, Zenon
<1>4. /\ call.cursor \in DOMAIN m_deqConnections /\ ~(call.cursor < call.cursor)
      /\ call.cursor + 1 \in Nat \ {0} /\ call.cursor + 1 <= Len(m_deqConnections) + 1
      /\ \A i \in DOMAIN m_deqConnections :
            i < call.cursor + 1 <=> i < call.cursor \/ i = call.cursor
  BY <1>2, <1>3
<1>5. client # nullptr
  BY <1>1, <1>2, <1>4, Zenon DEF Nulls, client
<1>6. client \in Connections
  BY <1>1, <1>4, <1>5, CallKinds DEF client
<1>7. peer[client] \in {"open", "closed"}
  BY <1>1, <1>4, <1>5, <1>6 DEF Members, ServerTypeOK, client
<1> QED
  BY <1>2, <1>3, <1>4, <1>5, <1>6, <1>7

LEMMA ListVisitConnected == ASSUME ListInv, VisitConnected PROVE ListInv'
<1> DEFINE list == m_deqConnections
           c == call.cursor
           x == client
<1>1. ServerTypeOK /\ Members /\ Nulls /\ Numbers /\ Met
  BY DEF ListInv
<1>2. /\ InLoop /\ UNCHANGED <<peer, m_deqConnections, calls, server>>
      /\ call' = [call EXCEPT !.cursor = @ + 1]
      /\ sent' = IF Addressed THEN [sent EXCEPT ![client] = Append(@, call.msg)] ELSE sent
  BY DEF VisitConnected
<1>3. /\ call.running /\ server # "torn" /\ call \in Calls /\ c \in DOMAIN list
      /\ x \in Connections /\ x # nullptr /\ c + 1 \in Nat \ {0} /\ c + 1 <= Len(list) + 1
      /\ \A i \in DOMAIN list : i < c + 1 <=> i < c \/ i = c
      /\ ~(c < c) /\ x = list[c]
  BY <1>2, AtCursor DEF client
<1>4. /\ call' \in Calls /\ call'.cursor = c + 1 /\ call'.msg = call.msg
      /\ call'.pIgnoreClient = call.pIgnoreClient
      /\ call'.invalid_client_exists = call.invalid_client_exists
  BY <1>2, <1>3 DEF Calls
<1>5. call'.running
  BY <1>4 DEF Calls
<1>6. /\ call.msg \in 0..MaxCalls /\ calls \in Nat /\ call.msg <= calls
  <2>1. call.msg \in {0, calls} /\ calls \in 0..MaxCalls
    BY <1>1, <1>3, Zenon DEF Numbers, ServerTypeOK
  <2> QED
    BY <2>1
<1>7. sent[x] \in Seq(0..MaxCalls) /\ \A k \in DOMAIN sent[x] : sent[x][k] <= calls
  BY <1>1, <1>3 DEF ServerTypeOK, Numbers
<1>8. /\ Append(sent[x], call.msg) \in Seq(0..MaxCalls)
      /\ \A k \in DOMAIN Append(sent[x], call.msg) : Append(sent[x], call.msg)[k] <= calls
      /\ Never(sent[x], call.msg) => Once(Append(sent[x], call.msg), call.msg)
  BY <1>6, <1>7, SentOnceMore
<1>9. \A y \in Connections :
         sent'[y] = IF y = x /\ x # call.pIgnoreClient THEN Append(sent[x], call.msg) ELSE sent[y]
  BY <1>1, <1>2, <1>3 DEF Addressed, ServerTypeOK
<1>10. ServerTypeOK'
  <2>1. sent' \in [Connections -> Seq(0..MaxCalls)]
    BY <1>1, <1>2, <1>8 DEF ServerTypeOK
  <2> QED
    BY <1>1, <1>2, <1>4, <2>1 DEF ServerTypeOK
<1> HIDE DEF c, x, list
<1>11. Members'
  BY <1>1, <1>2 DEF Members
<1>12. Nulls'
  <2>1. \A i \in DOMAIN list : list[i] = nullptr => i < c + 1 /\ call.invalid_client_exists
    BY <1>1, <1>3, Zenon DEF Nulls, list, c
  <2> QED
    BY <1>2, <1>3, <1>4, <1>5, <2>1, Zenon DEF Nulls, list
<1>13. Numbers'
  <2>1. \A y \in Connections : \A k \in DOMAIN sent'[y] : sent'[y][k] <= calls
    BY <1>1, <1>8, <1>9 DEF Numbers
  <2>2. call.msg \in {0, calls}
    BY <1>1, <1>3, Zenon DEF Numbers
  <2> QED
    BY <1>2, <1>4, <2>1, <2>2, Zenon DEF Numbers
<1>14. ASSUME call.msg # 0, NEW i \in DOMAIN list, list[i] # nullptr
       PROVE  IF i < c + 1 /\ list[i] # call.pIgnoreClient
                THEN Once(sent'[list[i]], call.msg) ELSE Never(sent'[list[i]], call.msg)
  <2>1. IF i < c /\ list[i] # call.pIgnoreClient
          THEN Once(sent[list[i]], call.msg) ELSE Never(sent[list[i]], call.msg)
    BY <1>1, <1>3, <1>14, Zenon DEF Met, list, c
  <2>2. list[i] \in Connections
    BY <1>1, <1>14, CallKinds DEF list
  <2>3. CASE i = c
    <3>1. list[i] = x
      BY <1>3, <2>3
    <3> QED
      BY <1>3, <1>8, <1>9, <2>1, <2>3, <3>1, Zenon
  <2>4. CASE i # c
    <3>1. list[i] # x
      BY <1>1, <1>3, <1>14, <2>4 DEF Members, Distinct, list
    <3>2. sent'[list[i]] = sent[list[i]]
      BY <1>9, <2>2, <3>1
    <3> QED
      BY <1>3, <2>1, <2>4, <3>2, Zenon
  <2> QED
    BY <2>3, <2>4
<1>15. Met'
  BY <1>2, <1>4, <1>14, Zenon DEF Met, list
<1> QED
  BY <1>10, <1>11, <1>12, <1>13, <1>15 DEF ListInv

LEMMA ListVisitClosed == ASSUME ListInv, VisitClosed PROVE ListInv'
<1> DEFINE list == m_deqConnections
           c == call.cursor
           left == [list EXCEPT ![c] = nullptr]
<1>1. ServerTypeOK /\ Members /\ Nulls /\ Numbers /\ Met
  BY DEF ListInv
<1>2. /\ InLoop /\ UNCHANGED <<peer, calls, sent, server>>
      /\ m_deqConnections' = left
      /\ call' = [call EXCEPT !.cursor = @ + 1, !.invalid_client_exists = TRUE]
  BY DEF VisitClosed
<1>3. /\ call.running /\ server # "torn" /\ call \in Calls /\ c \in DOMAIN list
      /\ c + 1 \in Nat \ {0} /\ c + 1 <= Len(list) + 1
      /\ \A i \in DOMAIN list : i < c + 1 <=> i < c \/ i = c
  BY <1>2, AtCursor
<1>4. /\ call' \in Calls /\ call'.cursor = c + 1 /\ call'.msg = call.msg
      /\ call'.pIgnoreClient = call.pIgnoreClient
  BY <1>2, <1>3 DEF Calls
<1>5. call'.running /\ call'.invalid_client_exists
  BY <1>2, <1>3 DEF Calls
<1>6. /\ list \in Seq(Connections \union {nullptr}) /\ DOMAIN list = 1..Len(list)
      /\ Len(list) \in Nat
  BY <1>1, CallKinds DEF ServerTypeOK
<1>7. /\ left \in Seq(Connections \union {nullptr}) /\ Len(left) = Len(list)
      /\ DOMAIN left = DOMAIN list
      /\ \A i \in DOMAIN list : left[i] = IF i = c THEN nullptr ELSE list[i]
  <2>1. left \in Seq(Connections \union {nullptr}) /\ Len(left) = Len(list)
    BY <1>3, <1>6, ExceptSeq
  <2> QED
    BY <2>1
<1>8. ServerTypeOK'
  BY <1>1, <1>2, <1>4, <1>7 DEF ServerTypeOK
<1> HIDE DEF c, left, list
<1>9. Members'
  <2>1. Distinct(left)
    BY <1>1, <1>7 DEF Members, Distinct, list
  <2>2. \A i \in DOMAIN left : left[i] # nullptr => peer[left[i]] # "none"
    BY <1>1, <1>7 DEF Members, list
  <2> QED
    BY <1>2, <2>1, <2>2 DEF Members
<1>10. Nulls'
  <2>1. \A i \in DOMAIN list : list[i] = nullptr => i < c
    BY <1>1, <1>3, Zenon DEF Nulls, list, c
  <2>2. \A i \in DOMAIN left : left[i] = nullptr => i < c + 1
    BY <1>3, <1>7, <2>1, Zenon
  <2> QED
    BY <1>2, <1>3, <1>4, <1>5, <1>7, <2>2, Zenon DEF Nulls
<1>11. Numbers'
  <2>1. call.msg \in {0, calls}
    BY <1>1, <1>3, Zenon DEF Numbers
  <2> QED
    BY <1>1, <1>2, <1>4, <2>1 DEF Numbers
<1>12. ASSUME call.msg # 0, NEW i \in DOMAIN left, left[i] # nullptr
       PROVE  IF i < c + 1 /\ left[i] # call.pIgnoreClient
                THEN Once(sent[left[i]], call.msg) ELSE Never(sent[left[i]], call.msg)
  <2>1. i \in DOMAIN list /\ i # c /\ left[i] = list[i]
    BY <1>7, <1>12
  <2>2. IF i < c /\ list[i] # call.pIgnoreClient
          THEN Once(sent[list[i]], call.msg) ELSE Never(sent[list[i]], call.msg)
    BY <1>1, <1>3, <1>12, <2>1, Zenon DEF Met, list, c
  <2> QED
    BY <1>3, <2>1, <2>2, Zenon
<1>13. Met'
  BY <1>2, <1>4, <1>12, Zenon DEF Met
<1> QED
  BY <1>8, <1>9, <1>10, <1>11, <1>13 DEF ListInv

LEMMA ListEndCall == ASSUME ListInv, EndCall PROVE ListInv'
<1> DEFINE list == m_deqConnections
<1>1. ServerTypeOK /\ Members /\ Nulls /\ Numbers /\ Met
  BY DEF ListInv
<1>2. /\ call.running /\ server # "torn" /\ call' = Idle
      /\ UNCHANGED <<peer, calls, sent, server>>
      /\ list' = IF call.invalid_client_exists THEN erase_null(list) ELSE list
  BY DEF EndCall
<1>3. list \in Seq(Connections \union {nullptr}) /\ Distinct(list)
  BY <1>1 DEF ServerTypeOK, Members
<1>4. /\ list' \in Seq(Connections \union {nullptr}) /\ Distinct(list')
      /\ \A i \in DOMAIN list' : list'[i] # nullptr /\ Listed(list, list'[i])
  <2>1. CASE list' = erase_null(list)
    <3>1. /\ erase_null(list) \in Seq(Connections) /\ Distinct(erase_null(list))
          /\ \A x : Listed(erase_null(list), x) <=> x # nullptr /\ Listed(list, x)
      BY <1>3, NullsErased
    <3>2. erase_null(list) \in Seq(Connections \union {nullptr})
      BY <3>1, SeqMonotonic
    <3> QED
      BY <2>1, <3>1, <3>2 DEF Listed
  <2>2. CASE list' = list /\ ~call.invalid_client_exists
    <3>1. \A i \in DOMAIN list : list[i] # nullptr
      BY <1>1, <1>2, <2>2, Zenon DEF Nulls
    <3> QED
      BY <1>3, <2>2, <3>1 DEF Listed
  <2> QED
    BY <1>2, <2>1, <2>2, Zenon
<1>5. ~call'.running
  BY <1>2 DEF Idle
<1>6. ServerTypeOK'
  BY <1>1, <1>2, <1>4 DEF ServerTypeOK
<1>7. Members'
  BY <1>1, <1>2, <1>4 DEF Members, Listed
<1>8. Nulls' /\ Met'
  BY <1>4, <1>5, Zenon DEF Nulls, Met
<1>9. Numbers'
  <2>1. \A x \in Connections : \A k \in DOMAIN sent'[x] : sent'[x][k] <= calls'
    BY <1>1, <1>2 DEF Numbers
  <2> QED
    BY <1>5, <2>1, Zenon DEF Numbers
<1> QED
  BY <1>6, <1>7, <1>8, <1>9 DEF ListInv

LEMMA ClientSteps ==
    ASSUME ClientInv, LinkTypeOK, NEW c \in Clients,
           connect_to_server(c) \/ disconnect(c) \/ Disconnecting(c) \/ IoThread(c)
    PROVE  LinkTypeOK' /\ UNCHANGED serverVars
<1>1. CASE connect_to_server(c)
  <2>1. /\ tcp' = [tcp EXCEPT ![m_uptrConnection(c)'] = "syn"] /\ UNCHANGED serverVars
    BY <1>1 DEF connect_to_server
  <2> QED
    BY <2>1 DEF LinkTypeOK
<1>2. CASE disconnect(c) \/ Disconnecting(c)
  BY <1>2 DEF disconnect, Leave, Disconnecting, StopContext, JoinAndRelease, LinkTypeOK
<1>3. CASE BeginHandler(c) \/ RunReturns(c)
  BY <1>3 DEF BeginHandler, Begin, RunReturns, LinkTypeOK
<1>4. CASE EndHandler(c)
  BY <1>4 DEF EndHandler, RunClose, OnConnected, OnFailed, LinkTypeOK
<1> QED
  BY <1>1, <1>2, <1>3, <1>4 DEF IoThread

LEMMA ListStays == ASSUME ListInv, UNCHANGED serverVars PROVE ListInv'
<1>1. /\ peer' = peer /\ m_deqConnections' = m_deqConnections /\ call' = call
      /\ calls' = calls /\ sent' = sent /\ server' = server
  BY DEF serverVars, listVars
<1>2. ServerTypeOK' /\ Members'
  BY <1>1 DEF ListInv, ServerTypeOK, Members
<1>3. Nulls' /\ Numbers' /\ Met'
  BY <1>1, Zenon DEF ListInv, Nulls, Numbers, Met
<1> QED
  BY <1>2, <1>3 DEF ListInv

LEMMA ListNext ==
    ASSUME ClientInv, ListInv, LinkTypeOK, [Next]_vars PROVE ListInv' /\ LinkTypeOK'
<1>1. ASSUME NEW c \in Clients,
             connect_to_server(c) \/ disconnect(c) \/ Disconnecting(c) \/ IoThread(c)
      PROVE  ListInv' /\ LinkTypeOK'
  BY <1>1, ClientSteps, ListStays
<1>2. ASSUME NEW x \in Connections, TcpSettle(x) \/ Break(x) PROVE ListInv' /\ LinkTypeOK'
  <2>1. UNCHANGED serverVars /\ LinkTypeOK'
    BY <1>2 DEF TcpSettle, Break, LinkTypeOK
  <2> QED
    BY <2>1, ListStays
<1>3. ASSUME NEW x \in Connections, ServerStep(x) \/ message_client(x)
      PROVE  ListInv' /\ LinkTypeOK'
  <2>1. LinkTypeOK'
    BY <1>3 DEF ServerStep, Accept, ReadFails, message_client, LinkTypeOK
  <2> QED
    BY <1>3, <2>1, ListAccept, ListFails, ListCalled DEF ServerStep
<1>4. ASSUME NEW ignore \in Connections \union {nullptr}, message_all_clients(ignore)
      PROVE  ListInv' /\ LinkTypeOK'
  <2>1. LinkTypeOK'
    BY <1>4 DEF message_all_clients, LinkTypeOK
  <2> QED
    BY <1>4, <2>1, ListCalled
<1>5. ASSUME Calling \/ stop_server PROVE ListInv' /\ LinkTypeOK'
  <2>1. LinkTypeOK'
    BY <1>5 DEF Calling, VisitConnected, VisitClosed, EndCall, stop_server, LinkTypeOK
  <2> QED
    BY <1>5, <2>1, ListVisitConnected, ListVisitClosed, ListEndCall, ListFails DEF Calling
<1>6. CASE UNCHANGED vars
  <2>1. UNCHANGED serverVars /\ LinkTypeOK'
    BY <1>6 DEF vars, LinkTypeOK
  <2> QED
    BY <2>1, ListStays
<1> QED
  BY <1>1, <1>2, <1>3, <1>4, <1>5, <1>6 DEF Next

\* The list of the server, at every point of a call that goes through it
\* (NetServerInterface.h:96-165).
THEOREM ListInvariant == Spec => [](ListInv /\ LinkTypeOK)
  BY ListInit, ListNext, SessionInvariant, PTL DEF Spec

\* Every variable of clients, kernels and server keeps its type, and the cursor
\* stays in the list or just behind it (NetServerInterface.h:139-165).
THEOREM SessionTypeCorrect == Spec => []TypeOK
<1>1. ASSUME ClientInv, ListInv, LinkTypeOK PROVE TypeOK
  <2>1. ClientTypeOK /\ ServerTypeOK /\ Nulls
    BY <1>1 DEF ClientInv, ListInv
  <2>2. \A i \in DOMAIN m_deqConnections : m_deqConnections[i] \in Connections \union {nullptr}
    BY <2>1, CallKinds
  <2>3. ASSUME call.running PROVE call.cursor \in 1..(Len(m_deqConnections) + 1)
    <3>1. /\ call.cursor \in Nat /\ call.cursor >= 1 /\ Len(m_deqConnections) \in Nat
          /\ call.cursor <= Len(m_deqConnections) + 1
      BY <2>1, <2>3, CallKinds, Zenon DEF Nulls
    <3> QED
      BY <3>1
  <2>4. /\ tcp \in [Connections -> {"none", "syn", "up", "refused", "down"}]
        /\ peer \in [Connections -> {"none", "open", "closed"}]
        /\ calls \in 0..MaxCalls
        /\ server \in {"running", "stopped", "torn"}
    BY <1>1, <2>1 DEF ServerTypeOK, LinkTypeOK
  <2> QED
    BY <2>1, <2>2, <2>3, <2>4, Zenon DEF TypeOK
<1> QED
  BY <1>1, SessionInvariant, ListInvariant, PTL

\* A call never meets a null pointer, and none is left in the list between calls,
\* whatever connections end while it runs (NetServerInterface.h:145-164).
THEOREM NullsNeverMet == Spec => []NoNullMet
<1>1. ASSUME ListInv PROVE NoNullMet
  <2>1. ASSUME call.running, InLoop PROVE client # nullptr
    BY <1>1, <2>1, AtCursor
  <2>2. ASSUME ~call.running PROVE nullptr \notin ToSet(m_deqConnections)
    <3>1. \A i \in DOMAIN m_deqConnections : m_deqConnections[i] # nullptr
      BY <1>1, <2>2, Zenon DEF ListInv, Nulls
    <3> QED
      BY <3>1 DEF ToSet
  <2> QED
    BY <2>1, <2>2, Zenon DEF NoNullMet
<1> QED
  BY <1>1, ListInvariant, PTL

\* Nobody leaves the list but a connection that is closed, and of a connection that
\* is open a call loses nothing: std::remove() moves what is behind a hole forward,
\* it does not drop it (NetServerInterface.h:149-164).
THEOREM OnlyTheClosedLeave == Spec => OnlyClosedLeave
<1>1. ASSUME ListInv, [Next]_vars, NEW x \in Connections,
             Listed(m_deqConnections, x), ~Listed(m_deqConnections', x)
      PROVE  peer[x] = "closed"
  <2>1. ServerTypeOK /\ Members /\ Nulls /\ nullptr \notin Connections
    BY <1>1, SessionAssumption DEF ListInv
  <2>2. CASE VisitClosed
    <3>1. /\ InLoop /\ ~is_connected
          /\ m_deqConnections' = [m_deqConnections EXCEPT ![call.cursor] = nullptr]
      BY <2>2 DEF VisitClosed
    <3>2. client \in Connections /\ client # nullptr /\ peer[client] \in {"open", "closed"}
      BY <1>1, <3>1, AtCursor
    <3>3. peer[client] = "closed"
      BY <3>1, <3>2 DEF is_connected
    <3>4. PICK i \in DOMAIN m_deqConnections : m_deqConnections[i] = x
      BY <1>1 DEF Listed
    <3>5. i = call.cursor
      <4>1. SUFFICES ASSUME i # call.cursor PROVE FALSE
        OBVIOUS
      <4>2. i \in DOMAIN m_deqConnections' /\ m_deqConnections'[i] = x
        BY <3>1, <3>4, <4>1
      <4> QED
        BY <1>1, <4>2 DEF Listed
    <3> QED
      BY <3>3, <3>4, <3>5 DEF client
  <2>3. CASE EndCall
    <3>1. m_deqConnections' = erase_null(m_deqConnections)
      BY <1>1, <2>3, Zenon DEF EndCall
    <3>2. Listed(erase_null(m_deqConnections), x)
      BY <1>1, <2>1, NullsErased DEF ServerTypeOK, Members
    <3> QED
      BY <1>1, <3>1, <3>2
  <2>4. CASE \E y \in Connections : Accept(y)
    <3>1. PICK y \in Connections : m_deqConnections' = Append(m_deqConnections, y)
      BY <2>4 DEF Accept
    <3>2. Listed(m_deqConnections', x)
      <4>1. \A z : Listed(Append(m_deqConnections, y), z) <=> Listed(m_deqConnections, z) \/ z = y
        <5> DEFINE list == m_deqConnections
                   S == Connections \union {nullptr}
        <5>1. list \in Seq(S) /\ y \in S
          BY <2>1 DEF ServerTypeOK
        <5> HIDE DEF list, S
        <5>2. \A z : Listed(Append(list, y), z) <=> Listed(list, z) \/ z = y
          BY <5>1, AppendedList
        <5> QED
          BY <5>2 DEF list
      <4> QED
        BY <1>1, <3>1, <4>1
    <3> QED
      BY <1>1, <3>2
  <2>5. m_deqConnections' # m_deqConnections
    BY <1>1
  <2>6. CASE UNCHANGED serverVars
    BY <2>5, <2>6 DEF serverVars, listVars
  <2>7. ASSUME NEW c \in Clients,
               connect_to_server(c) \/ disconnect(c) \/ Disconnecting(c) \/ IoThread(c)
        PROVE  UNCHANGED serverVars
    BY <2>7 DEF connect_to_server, disconnect, Leave, Disconnecting, StopContext, JoinAndRelease, IoThread,
                BeginHandler, Begin, EndHandler, RunReturns
  <2>8. ASSUME \/ \E y \in Connections : TcpSettle(y) \/ Break(y) \/ ReadFails(y) \/ message_client(y)
               \/ \E ignore \in Connections \union {nullptr} : message_all_clients(ignore)
               \/ stop_server \/ VisitConnected \/ UNCHANGED vars
        PROVE  m_deqConnections' = m_deqConnections
    BY <2>8 DEF TcpSettle, Break, ReadFails, message_client, message_all_clients, stop_server,
                VisitConnected, vars, serverVars, listVars
  <2> QED
    BY <1>1, <2>2, <2>3, <2>4, <2>5, <2>6, <2>7, <2>8 DEF Next, ServerStep, Calling
<1>2. ASSUME ListInv, [Next]_vars
      PROVE  \A x \in Connections :
                x \in ToSet(m_deqConnections) /\ x \notin ToSet(m_deqConnections') => peer[x] = "closed"
  <2>1. \A x : x \in ToSet(m_deqConnections) <=> Listed(m_deqConnections, x)
    BY DEF ToSet, Listed
  <2>2. \A x : x \in ToSet(m_deqConnections') <=> Listed(m_deqConnections', x)
    BY DEF ToSet, Listed
  <2> QED
    BY <1>1, <1>2, <2>1, <2>2
<1>3. ListInv /\ [Next]_vars =>
        [\A x \in Connections :
            x \in ToSet(m_deqConnections) /\ x \notin ToSet(m_deqConnections')
              => peer[x] = "closed"]_vars
  BY <1>2
<1> QED
  BY <1>3, ListInvariant, PTL DEF Spec, OnlyClosedLeave

\* When message_all_clients() returns, whoever is in the list has the message once
\* and the ignored client has not (NetServerInterface.h:147-153).
THEOREM EverybodyIsReached == Spec => EveryoneReached
<1> DEFINE Those(x) == {k \in DOMAIN sent[x] : sent[x][k] = call.msg}
<1>1. ASSUME ClientInv, ListInv, [Next]_vars, call.running, ~call'.running
      PROVE  call.cursor > Len(m_deqConnections) /\ server # "torn"
  <2>1. call' # call
    BY <1>1, Zenon
  <2>2. ASSUME NEW c \in Clients,
               connect_to_server(c) \/ disconnect(c) \/ Disconnecting(c) \/ IoThread(c)
        PROVE  call' = call
    BY <2>2 DEF connect_to_server, disconnect, Leave, Disconnecting, StopContext, JoinAndRelease, IoThread,
                BeginHandler, Begin, EndHandler, RunReturns, serverVars, listVars
  <2>3. ASSUME \/ \E y \in Connections : TcpSettle(y) \/ Break(y) \/ ServerStep(y)
               \/ stop_server \/ UNCHANGED vars
        PROVE  call' = call
    BY <2>3 DEF TcpSettle, Break, ServerStep, Accept, ReadFails, stop_server, vars, serverVars, listVars
  <2>4. ASSUME \/ \E y \in Connections : message_client(y)
               \/ \E ignore \in Connections \union {nullptr} : message_all_clients(ignore)
        PROVE  ~call.running
    BY <2>4 DEF message_client, message_all_clients
  <2>5. ASSUME VisitConnected \/ VisitClosed PROVE call'.running
    <3>1. call \in Calls
      BY <1>1, <2>5, AtCursor DEF VisitConnected, VisitClosed
    <3>2. call'.running = TRUE
      BY <2>5, <3>1 DEF VisitConnected, VisitClosed, Calls
    <3> QED
      BY <3>2
  <2>6. EndCall
    BY <1>1, <2>1, <2>2, <2>3, <2>4, <2>5, Zenon DEF Next, Calling
  <2> QED
    BY <2>6 DEF EndCall
<1>2. ASSUME ClientInv, ListInv, [Next]_vars, call.running, ~call'.running, call.msg # 0,
             NEW i \in DOMAIN m_deqConnections, m_deqConnections[i] # nullptr
      PROVE  Cardinality(Those(m_deqConnections[i]))
               = IF m_deqConnections[i] = call.pIgnoreClient THEN 0 ELSE 1
  <2> DEFINE x == m_deqConnections[i]
  <2>1. call.cursor > Len(m_deqConnections) /\ server # "torn" /\ ServerTypeOK /\ Met
    BY <1>1, <1>2, Zenon DEF ListInv
  <2>2. i < call.cursor
    <3>1. /\ call.cursor \in Nat /\ DOMAIN m_deqConnections = 1..Len(m_deqConnections)
          /\ Len(m_deqConnections) \in Nat
      BY <1>2, <2>1, CallKinds, Zenon
    <3> QED
      BY <2>1, <3>1
  <2>3. IF x # call.pIgnoreClient THEN Once(sent[x], call.msg) ELSE Never(sent[x], call.msg)
    BY <1>2, <2>1, <2>2, Zenon DEF Met
  <2> HIDE DEF x
  <2>4. CASE x = call.pIgnoreClient
    <3>1. Those(x) = {}
      BY <2>3, <2>4 DEF Never
    <3>2. Cardinality({}) = 0
      BY FS_EmptySet
    <3> QED
      BY <2>4, <3>1, <3>2 DEF x
  <2>5. CASE x # call.pIgnoreClient
    <3>1. PICK k \in DOMAIN sent[x] : sent[x][k] = call.msg /\ \A j \in DOMAIN sent[x] : sent[x][j] = call.msg => j = k
      BY <2>3, <2>5 DEF Once
    <3>2. Those(x) = {k}
      BY <3>1
    <3>3. Cardinality({k}) = 1
      BY FS_Singleton
    <3> QED
      BY <2>5, <3>2, <3>3 DEF x
  <2> QED
    BY <2>4, <2>5
<1>3. ClientInv /\ ListInv /\ [Next]_vars =>
        [call.running /\ ~call'.running /\ call.msg # 0 =>
          \A i \in DOMAIN m_deqConnections :
              LET x == m_deqConnections[i]
                  times == Cardinality({k \in DOMAIN sent[x] : sent[x][k] = call.msg})
              IN x # nullptr => times = (IF x = call.pIgnoreClient THEN 0 ELSE 1)]_vars
  BY <1>2, Zenon
<1> QED
  BY <1>3, SessionInvariant, ListInvariant, PTL DEF Spec, EveryoneReached
=============================================================================
