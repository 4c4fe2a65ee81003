------------------------------ MODULE Session ------------------------------
(***************************************************************************)
(* The life of a connection as its owners see it.  A client's application  *)
(* connects and disconnects through Client_Interface, which gives each     *)
(* connection the same io_context and a thread that runs it; the server's  *)
(* application writes to clients through the list of Server_Interface.     *)
(* What the two ends say to each other is in Connection; here a connection *)
(* is open or not.  Connection x = <<c, n>> is the n-th of client c.       *)
(***************************************************************************)
EXTENDS Naturals, Sequences, SequencesExt

CONSTANTS Clients,
          MaxConnects, \* bound: connections per client
          MaxCalls,    \* bound: calls of message_client, message_all_clients
          nullptr

Connections == Clients \X (1..MaxConnects)

ASSUME SessionAssumption ==
    /\ MaxConnects \in Nat \ {0}
    /\ MaxCalls \in Nat
    /\ nullptr \notin Connections

VARIABLES main,     \* where a client's application is: out of a connection, in
                    \* one, or in disconnect() before stop or before join
          session,  \* the number of its newest connection
          stopped,  \* its io_context is
          thread,   \* m_ContextThread
          handler,  \* what its thread is executing
          work,     \* the asynchronous operation outstanding
          closes,   \* connections whose close is posted
          socket,   \* m_socket of a client's connections
          tcp       \* the connections as the kernels know them

VARIABLES peer,             \* m_socket of the server's connections
          m_deqConnections,
          call,             \* the running message_...(): what it sends, to whom
                            \* not, where it is, whom it has met
          calls,            \* calls so far
          sent,             \* numbers of the messages posted for a connection
          server            \* running, stopped by stop_server(), or torn: the
                            \* list was changed by two threads at a time

clientVars == <<main, session, stopped, thread, handler, work, closes, socket>>
listVars == <<m_deqConnections, call, calls, sent, server>>
serverVars == <<peer, listVars>>
vars == <<clientVars, tcp, serverVars>>

Idle == [running |-> FALSE, cursor |-> 0]

ClientTypeOK ==
    /\ main \in [Clients -> {"out", "in", "stop", "join"}]
    /\ session \in [Clients -> 0..MaxConnects]
    /\ stopped \in [Clients -> BOOLEAN]
    /\ thread \in [Clients -> {"none", "running", "ended"}]
    /\ handler \in [Clients -> {"none", "connected", "failed", "close"}]
    /\ work \in [Clients -> {"none", "connect", "read"}]
    /\ closes \in [Clients -> SUBSET Connections]
    /\ socket \in [Connections -> {"none", "open", "closed"}]

TypeOK ==
    /\ ClientTypeOK
    /\ tcp \in [Connections -> {"none", "syn", "up", "refused", "down"}]
    /\ peer \in [Connections -> {"none", "open", "closed"}]
    /\ \A i \in DOMAIN m_deqConnections : m_deqConnections[i] \in Connections \union {nullptr}
    /\ call.running => call.cursor \in 1..(Len(m_deqConnections) + 1)
    /\ calls \in 0..MaxCalls
    /\ server \in {"running", "stopped", "torn"}

Init ==
    /\ main = [c \in Clients |-> "out"]
    /\ session = [c \in Clients |-> 0]
    /\ stopped = [c \in Clients |-> FALSE]
    /\ thread = [c \in Clients |-> "none"]
    /\ handler = [c \in Clients |-> "none"]
    /\ work = [c \in Clients |-> "none"]
    /\ closes = [c \in Clients |-> {}]
    /\ socket = [x \in Connections |-> "none"]
    /\ tcp = [x \in Connections |-> "none"]
    /\ peer = [x \in Connections |-> "none"]
    /\ m_deqConnections = <<>>
    /\ call = Idle
    /\ calls = 0
    /\ sent = [x \in Connections |-> <<>>]
    /\ server = "running"

m_uptrConnection(c) == <<c, session[c]>>
-----------------------------------------------------------------------------
(* The client's application.                                               *)

\* The old thread was joined; nothing restarts an io_context that was stopped.
connect_to_server(c) ==
    /\ main[c] = "out" /\ session[c] < MaxConnects
    /\ main' = [main EXCEPT ![c] = "in"]
    /\ session' = [session EXCEPT ![c] = @ + 1]
    /\ socket' = [socket EXCEPT ![m_uptrConnection(c)'] = "open"]
    /\ tcp' = [tcp EXCEPT ![m_uptrConnection(c)'] = "syn"]
    /\ work' = [work EXCEPT ![c] = "connect"]
    /\ thread' = [thread EXCEPT ![c] = "running"]
    /\ UNCHANGED <<stopped, handler, closes, serverVars>>

\* disconnect(): a close is posted if is_connected(), which a connection that
\* never came about still is and no connection is not; the rest is done in every
\* case, so that a client that disconnects before it ever connected has an
\* io_context that is stopped for good,
Leave(c, connected) ==
    /\ main[c] \in {"in", "out"}
    /\ main' = [main EXCEPT ![c] = "stop"]
    /\ closes' = IF connected
                   THEN [closes EXCEPT ![c] = @ \union {m_uptrConnection(c)}] ELSE closes
    /\ UNCHANGED <<session, stopped, thread, handler, work, socket, tcp, serverVars>>
DisconnectIfReading(c) == Leave(c, main[c] = "in" /\ work[c] = "read")
disconnect(c) == Leave(c, main[c] = "in" /\ socket[m_uptrConnection(c)] = "open")

\* the io_context is stopped,
StopContext(c) ==
    /\ main[c] = "stop"
    /\ main' = [main EXCEPT ![c] = "join"]
    /\ stopped' = [stopped EXCEPT ![c] = TRUE]
    /\ UNCHANGED <<session, thread, handler, work, closes, socket, tcp, serverVars>>

\* the thread joined if there is one, and the pointer to the connection forgotten.
DetachAndRelease(c) ==
    /\ main[c] = "join"
    /\ main' = [main EXCEPT ![c] = "out"]
    /\ UNCHANGED <<session, stopped, thread, handler, work, closes, socket, tcp, serverVars>>
JoinAndRelease(c) ==
    /\ main[c] = "join" /\ thread[c] # "running"
    /\ main' = [main EXCEPT ![c] = "out"]
    /\ thread' = [thread EXCEPT ![c] = "none"]
    /\ UNCHANGED <<session, stopped, handler, work, closes, socket, tcp, serverVars>>
-----------------------------------------------------------------------------
(* The client's io thread.                                                 *)

\* run() takes the next handler unless the io_context was stopped; one that has
\* begun goes on to its end.
Begin(c, h) ==
    /\ thread[c] = "running" /\ ~stopped[c] /\ handler[c] = "none"
    /\ handler' = [handler EXCEPT ![c] = h]
    /\ UNCHANGED <<main, session, stopped, thread, work, closes, socket, tcp, serverVars>>

BeginHandler(c) ==
    LET x == m_uptrConnection(c)
    IN \/ closes[c] # {} /\ Begin(c, "close")
       \/ work[c] = "connect" /\ socket[x] = "open" /\ tcp[x] \in {"up", "down"} /\ Begin(c, "connected")
       \/ /\ \/ work[c] = "connect" /\ (socket[x] = "closed" \/ tcp[x] \in {"refused", "down"})
             \/ work[c] = "read" /\ (socket[x] = "closed" \/ tcp[x] = "down")
          /\ Begin(c, "failed")

\* The task that disconnect() posted.
RunClose(c) ==
    /\ handler[c] = "close"
    /\ socket' = [x \in Connections |-> IF x \in closes[c] THEN "closed" ELSE socket[x]]
    /\ tcp' = [x \in Connections |-> IF x \in closes[c] THEN "down" ELSE tcp[x]]
    /\ closes' = [closes EXCEPT ![c] = {}]
    /\ UNCHANGED work

\* The handlers of async_connect and of the reads.
OnConnected(c) ==
    /\ handler[c] = "connected"
    /\ work' = [work EXCEPT ![c] = "read"]
    /\ UNCHANGED <<closes, socket, tcp>>
OnFailed(c) ==
    /\ handler[c] = "failed"
    /\ work' = [work EXCEPT ![c] = "none"]
    /\ socket' = IF work[c] = "read" THEN [socket EXCEPT ![m_uptrConnection(c)] = "closed"]
                 ELSE socket
    /\ UNCHANGED <<closes, tcp>>

EndHandler(c) ==
    /\ RunClose(c) \/ OnConnected(c) \/ OnFailed(c)
    /\ handler' = [handler EXCEPT ![c] = "none"]
    /\ UNCHANGED <<main, session, stopped, thread, serverVars>>

\* run() returns when it is stopped or out of work, and then counts as stopped.
RunReturns(c) ==
    /\ thread[c] = "running" /\ handler[c] = "none"
    /\ stopped[c] \/ (work[c] = "none" /\ closes[c] = {})
    /\ thread' = [thread EXCEPT ![c] = "ended"]
    /\ stopped' = [stopped EXCEPT ![c] = TRUE]
    /\ UNCHANGED <<main, session, handler, work, closes, socket, tcp, serverVars>>
-----------------------------------------------------------------------------
(* The kernels and the link.                                               *)

TcpSettle(x) ==
    /\ tcp[x] = "syn"
    /\ \E outcome \in {"up", "refused"} : tcp' = [tcp EXCEPT ![x] = outcome]
    /\ UNCHANGED <<clientVars, serverVars>>
Break(x) ==
    /\ tcp[x] = "up"
    /\ tcp' = [tcp EXCEPT ![x] = "down"]
    /\ UNCHANGED <<clientVars, serverVars>>
-----------------------------------------------------------------------------
(* The server's io thread.                                                 *)

\* The accept handler, for a client that on_client_connect() approves.
Accept(x) ==
    /\ tcp[x] = "up" /\ peer[x] = "none" /\ server = "running"
    /\ peer' = [peer EXCEPT ![x] = "open"]
    /\ m_deqConnections' = Append(m_deqConnections, x)
    /\ server' = IF call.running THEN "torn" ELSE server
    /\ UNCHANGED <<clientVars, tcp, call, calls, sent>>

\* A read fails.
NoticeOnly(x) ==
    /\ peer[x] = "open" /\ tcp[x] = "down" /\ server = "running"
    /\ UNCHANGED vars
ReadFails(x) ==
    /\ peer[x] = "open" /\ tcp[x] = "down" /\ server = "running"
    /\ peer' = [peer EXCEPT ![x] = "closed"]
    /\ UNCHANGED <<clientVars, tcp, listVars>>
-----------------------------------------------------------------------------
(* The server's application, in its main thread.                           *)

\* After stop_server() nothing is accepted or read; what is sent stays posted.
stop_server ==
    /\ server = "running" /\ ~call.running
    /\ server' = "stopped"
    /\ UNCHANGED <<clientVars, tcp, peer, m_deqConnections, call, calls, sent>>

BeginCall(message, ignore, cursor, invalid) ==
    /\ call' = [running |-> TRUE, msg |-> message, pIgnoreClient |-> ignore, cursor |-> cursor,
                invalid_client_exists |-> invalid]
    /\ calls' = calls + 1

\* message_client() for a connection that the application still holds.  The one
\* that is closed is reset before it is looked for, so that only null pointers
\* are removed.  Message 0 is none.
message_client(x) ==
    /\ ~call.running /\ calls < MaxCalls /\ server # "torn" /\ peer[x] # "none"
    /\ IF peer[x] = "open"
         THEN /\ sent' = [sent EXCEPT ![x] = Append(@, calls + 1)]
              /\ calls' = calls + 1
              /\ UNCHANGED call
         ELSE /\ BeginCall(0, nullptr, Len(m_deqConnections) + 1, TRUE)
              /\ UNCHANGED sent
    /\ UNCHANGED <<clientVars, tcp, peer, m_deqConnections, server>>

message_all_clients(ignore) ==
    /\ ~call.running /\ calls < MaxCalls /\ server # "torn"
    /\ BeginCall(calls + 1, ignore, 1, FALSE)
    /\ UNCHANGED <<clientVars, tcp, peer, m_deqConnections, sent, server>>

\* Its loop, one element at a time.
InLoop == call.running /\ call.cursor <= Len(m_deqConnections) /\ server # "torn"
client == m_deqConnections[call.cursor]
is_connected == client # nullptr /\ peer[client] = "open"

AddressAll == TRUE
Addressed == client # call.pIgnoreClient
VisitConnected ==
    /\ InLoop /\ is_connected
    /\ sent' = IF Addressed
                 THEN [sent EXCEPT ![client] = Append(@, call.msg)] ELSE sent
    /\ call' = [call EXCEPT !.cursor = @ + 1]
    /\ UNCHANGED <<clientVars, tcp, peer, m_deqConnections, calls, server>>
ResetIgnored ==
    /\ InLoop /\ (~is_connected \/ client = call.pIgnoreClient)
    /\ m_deqConnections' = [m_deqConnections EXCEPT ![call.cursor] = nullptr]
    /\ call' = [call EXCEPT !.cursor = @ + 1, !.invalid_client_exists = TRUE]
    /\ UNCHANGED <<clientVars, tcp, peer, calls, sent, server>>
VisitAndErase ==
    /\ InLoop /\ ~is_connected
    /\ m_deqConnections' = RemoveAt(m_deqConnections, call.cursor)
    /\ call' = [call EXCEPT !.cursor = @ + 1]
    /\ UNCHANGED <<clientVars, tcp, peer, calls, sent, server>>
VisitClosed ==
    /\ InLoop /\ ~is_connected
    /\ m_deqConnections' = [m_deqConnections EXCEPT ![call.cursor] = nullptr]
    /\ call' = [call EXCEPT !.cursor = @ + 1, !.invalid_client_exists = TRUE]
    /\ UNCHANGED <<clientVars, tcp, peer, calls, sent, server>>

\* std::remove() and erase() of the null pointers.
erase_null(list) ==
    FoldLeft(LAMBDA kept, x : IF x = nullptr THEN kept ELSE Append(kept, x), <<>>, list)

EraseNone ==
    /\ call.running /\ call.cursor > Len(m_deqConnections) /\ server # "torn"
    /\ call' = Idle
    /\ UNCHANGED <<clientVars, tcp, peer, m_deqConnections, calls, sent, server>>
EndCall ==
    /\ call.running /\ call.cursor > Len(m_deqConnections) /\ server # "torn"
    /\ m_deqConnections' = IF call.invalid_client_exists
                             THEN erase_null(m_deqConnections) ELSE m_deqConnections
    /\ call' = Idle
    /\ UNCHANGED <<clientVars, tcp, peer, calls, sent, server>>
-----------------------------------------------------------------------------
IoThread(c) == BeginHandler(c) \/ EndHandler(c) \/ RunReturns(c)
Disconnecting(c) == StopContext(c) \/ JoinAndRelease(c)
ServerStep(x) == Accept(x) \/ ReadFails(x)
Calling == VisitConnected \/ VisitClosed \/ EndCall

Next ==
    \/ \E c \in Clients : connect_to_server(c) \/ disconnect(c) \/ Disconnecting(c) \/ IoThread(c)
    \/ \E x \in Connections : TcpSettle(x) \/ Break(x) \/ ServerStep(x) \/ message_client(x)
    \/ \E ignore \in Connections \union {nullptr} : message_all_clients(ignore)
    \/ Calling \/ stop_server

Spec == Init /\ [][Next]_vars

\* Threads that can run do, and the kernels settle every attempt to connect.
FairSpec ==
    /\ Spec
    /\ \A c \in Clients : WF_vars(Disconnecting(c)) /\ WF_vars(IoThread(c))
    /\ \A x \in Connections : WF_vars(TcpSettle(x)) /\ WF_vars(ServerStep(x))
    /\ WF_vars(Calling)
-----------------------------------------------------------------------------
(* A socket that is still open after disconnect() is one whose close was overtaken
   by the stop: it was asked for, also while the attempt to connect was pending or
   after it had failed (NetClientInterface.h:94-97). *)
OpenOnlyIfOvertaken ==
    \A c \in Clients, n \in 1..MaxConnects :
        (main[c] = "out" \/ n < session[c]) /\ socket[<<c, n>>] = "open" => <<c, n>> \in closes[c]

(* Once disconnect() has returned, nothing of the connection runs any more, so that
   its owner may go: a handler that was under way has ended, a task left behind
   stays where it is (NetClientInterface.h:97-102). *)
QuietAfterDisconnect ==
    [][\A c \in Clients : main[c] = "out" /\ main'[c] = "out" =>
          /\ handler'[c] = handler[c] /\ work'[c] = work[c] /\ closes'[c] = closes[c]
          /\ \A n \in 1..MaxConnects : socket'[<<c, n>>] = socket[<<c, n>>]]_vars

(* A connection that a client has closed is closed by the server too, and by nothing
   but a read (NetConnection.h:233); one whose close was overtaken is not. *)
ServerNotices ==
    \A x \in Connections :
        socket[x] = "closed" /\ peer[x] = "open" ~> peer[x] = "closed" \/ server # "running"

(* A connection leaves the list only if it was found closed by a call that has reset
   it, the ignored client does not (NetServerInterface.h:149-164). *)
OnlyClosedLeave ==
    [][\A x \in Connections :
          x \in ToSet(m_deqConnections) /\ x \notin ToSet(m_deqConnections') => peer[x] = "closed"]_vars

(* No null pointer is met: on_client_disconnect() would be called with it, which
   Server's dereferences (NetServerInterface.h:156-164, Server.cpp:96). *)
NoNullMet ==
    IF call.running THEN InLoop => client # nullptr
    ELSE nullptr \notin ToSet(m_deqConnections)

(* When message_all_clients() returns, every client that is listed and open was sent
   the message once, the ignored one excepted (NetServerInterface.h:147-153). *)
EveryoneReached ==
    [][call.running /\ ~call'.running /\ call.msg # 0 =>
          \A i \in DOMAIN m_deqConnections :
              LET x == m_deqConnections[i]
                  times == Cardinality({k \in DOMAIN sent[x] : sent[x][k] = call.msg})
              IN x # nullptr => times = (IF x = call.pIgnoreClient THEN 0 ELSE 1)]_vars
=============================================================================
