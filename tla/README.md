# Species-Simulator: a verification project

TLA+ models of the client-server framework under `common/network` and of the
server and client programs built on it, checked by TLC on small instances and,
where it says so, proved by TLAPS for every value of the constants. All paths
below are relative to the repository.

## 1. The system

Two programs. The **server** owns an *environment* cut into maps (two of them in
`server/src/main.cpp`), fills each map with food and sends a client that passes a
handshake one map and its entities. The **client** displays the map, updates it
whenever entities arrive and sends entities back. Both sit on a small network
framework over asio: one io thread per process runs `io_context::run()`.

| component | state | operations | how it interacts |
|---|---|---|---|
| `Connection<T>` (`NetConnection.h`) | socket, out queue, the message being read, handshake words | `connect_to_server`, `connect_to_client`, `send`, `disconnect`, eight completion handlers | posts tasks to the io thread; pushes received messages to the queue of its owner; calls `on_client_validated` |
| `TSQueue<T>` (`NetTSQueue.h`) | deque, mutex, condition variable | `push_back`, `pop_front`, `empty`, `wait`, accessors | shared by io thread and main thread |
| `Message<T>` (`NetMsg.h`) | header (id, size), body | `<<`, `>>`, `push_back_complex`, `pull_complex` | what connections carry |
| `Client_Interface<T>` | connection, queue, io thread | `connect_to_server`, `disconnect`, `send`, `update` | base of `Client` |
| `Server_Interface<T>` | acceptor, `m_deqConnections`, queue, io thread | `start_server`, `stop_server`, accept handler, `message_client`, `message_all_clients`, `update` | base of `Server`; calls its callbacks |
| `Server` | map count, vectors of entities, environment and its thread | `run`, `on_client_connect`, `on_client_validated`, ... | callbacks run in the io thread and read the environment |
| `Environment` | maps, map threads | `run`, `m_instanciate_maps`, `m_create_entities`, `at_get_map` | a thread of its own, no lock around `m_maps` |
| `Client`, `ClientMap` | console, map, entities | `run`, `m_start`, `on_message`; the map's thread | main thread and map thread share a `TSVector` |
| `Map`, `TSVector<T>` | grid of entities; vector, mutex, condition variable pointer | `run`, `update_entities`, `draw_line`; `wait`, `operator=`, ... | writer notifies, map thread waits |
| `TSConsoleBuffer`, `WinConsole` | characters; the console's screen buffer and window | `write_character`, `create_console`, `write_raw_buffer` | display |

What is hard here: three to five threads (main, io, environment or map threads)
around unlocked state; asynchronous reads and writes whose order is kept only by
the handlers' discipline; an 8-byte handshake word and an 8-byte header that
nothing on the wire tells apart; links that break at any moment; objects whose
life ends while a task still holds `this`; bodies that are bytes without a description;
a console whose resizing may be refused without anybody noticing. What makes the parts correct:

* **Connection**: at most one write outstanding and never none while messages
  wait; every read finds the unit it is meant for; messages arrive once, in order,
  with their own body; both ends notice the end of a link.
* **TSQueue and pump**: no lost wake-up, no pop of an empty deque, each message
  handled once in order, start-up messages by the start-up only.
* **Server**: the acceptor never stops; a welcome is complete, in order and about
  one map; an index never exceeds the maps; capacity means connected clients.
* **TSVector and Map**: an update that finds the map's thread waiting wakes it and
  is shown, unless a position outside the grid ends the client; what is sent is not older than what is shown; an entity is on the map
  where it is and nowhere else, and on the screen of the server and of its client.
* **Client start-up and Message**: the welcome's five messages, and nothing else, end
  the start-up; no read beyond a body, no flag read before it was assigned; the
  entities are the sender's, whole and in order.
* **Sessions**: what `disconnect()` leaves behind changes no more; the list of
  connections loses closed ones only, and a message to all reaches all.
* **Console**: whatever terminal the program finds, its map is shown as a whole.

## 2. Modules

| module | models | state ↔ code |
|---|---|---|
| `Channel` | what one direction of a connection promises | `sent`, `delivered`, `phase`: no code, the abstract specification |
| `Connection` | both `Connection<T>` objects of a link, their io threads, the TCP stream | `qOut` = `m_qMessagesOut`, `tempIn`/`tempBody` = header and body of `m_tempMessageIn`, `inbox`/`bodies` = what was pushed to `m_qMessagesIn`, `handshakeOut`; `writing`, `reading`, `validating` = the outstanding asio operations; `posted`, `ran`, `closeTask` = the io_context's task queue |
| `ConnectionInv` | the inductive invariants of `Connection`, in named parts | - |
| `ConnectionProofs`, `ConnectionOrderProofs` | theorems about `Connection`: that its loops go on, and the order of what they carry | - |
| `TSQueue` | the queue with its condition variable | `sleeping`, `woken` = threads inside `cv_push.wait()` and on their way out |
| `Session`, `SessionProofs` | `connect_to_server` and `disconnect` of `Client_Interface` again and again; `message_client`, `message_all_clients`, `stop_server` of `Server_Interface`; theorems | `main` = statement of `disconnect()`, `stopped`/`thread`/`handler` = the io_context and who runs it, `closes` = closes posted, `socket`/`peer` = `m_socket` of the two ends, `call` = the running `message_...()` |
| `MessagePump` | `TSQueue` between the io thread and a main thread that runs `m_start()` and then `update()` | `pc` = position of the main thread, `count` = `nMessageCount` |
| `MessagePumpProofs` | theorems about `MessagePump` | - |
| `Message` | `<<`, `>>`, `push_back_complex`, `pull_complex` | a body is a sequence of words, word i of object v is `<<v, i>>`; beyond it `Garbage` |
| `ClientStart` | `MessagePump` and `Message` with the client's handlers: the switch of `m_start()`, its flags, `on_message()` | `GOT` = the flags assigned, `console`, `m_map`, `m_nentities_size`, `m_ent_buffer`, `m_entities`; `undefined` = undefined behaviour was met |
| `ClientStartProofs` | theorems about `Message` and `ClientStart`: the refinement, and what the client holds of what was sent | - |
| `Environment` | start-up of the simulation in its thread | `m_maps`, `food[i]` = size of `m_incomming_entities[i]` |
| `Server` | accept loop, connection list and callbacks, on top of `Environment` | `m_deqConnections`, `tasks` = posted sends, `io` = where the io thread is, `welcome` = what `on_client_validated` has read so far |
| `ServerProofs` | theorems about `Environment` and `Server`: types and exceptions, and what a welcome holds | - |
| `TSVector` | the vector with its condition variable pointer | `vec`; `cv_ptr`, and `prev_ptr` of the thread in `wait()`; `sleeping`, `woken` as in `TSQueue` |
| `ClientView` | `TSVector` between the client's main thread and the thread of its `ClientMap` | `pc` = statement of the map's thread, `calls` = `wakeup_calls`, `read` = operands read so far, `placed`/`shown` = what `update_entities()` wrote, `body` = `m_entity_message` |
| `ClientViewProofs` | theorems about `ClientView` | - |
| `Console` | `WinConsole`: `create_console`, `write_raw_buffer` on sizes | `buffer`, `window`, `largest` = what Windows keeps, `rectWindow` = `m_rectWindow`, `csbiOrigin` |
| `MapDisplay` | `Map`'s configuration, cells and drawing, and the console below, on the server and on a client | `cells` = `m_entities_internal_map`, `buffer` = `m_buffer`, `entities` = what `mptr_entities_external` points to, `console`, `created` = layouts gone through |
| `MapDisplayProofs` | theorems about `MapDisplay` and `Console` | - |
| `MCConnection`, `MCServer`, `MCMapDisplay` | instances for TLC | - |

One action is one completion handler, one locked operation, or one posted task,
run to its end, because a single io thread runs them. `on_client_validated` is the
exception: while it runs, the environment's thread writes what it reads, so it is
one action per read. Two arguments of one call (`Server.cpp:70`) are read in
either order. Reading a map while `push_back` moves the maps is undefined
behaviour: it yields the map, the exception or the remains of a map; `wild` says which
parts of a welcome come from such remains, and a size among them may be any number.
The start-up loop's `is_connected()` and `empty()` are two reads (`Poll`, `PollEmpty`).
A task that runs on a destroyed `Connection` may do nothing or end the process.
In `Session` a handler of the client has a beginning and an end, since `stop()` and
`join()` of the main thread may come between; and `message_all_clients` is one step per
element, since the accept handler of the other thread may add to the deque (then the
list is `torn`, and nothing is said about what follows).

Messages are numbers: the n-th message of an end is n, and the constant `WithBody`
says which have a body. The stream carries units (handshake word, header, body),
since every async_read and async_write moves exactly one of them; a unit is on the
stream from the initiation of its write, because asio writes in that order. A
link that breaks loses the tail of what was in flight. TCP, asio, the condition
variables and the client's decisions seen from the server are external.

Two modules about one piece of code look at it from two sides. `Connection` has one
link with everything that is said on it, `Session` has several in sequence, where a
connection is only open or not. `MessagePump` counts the welcome, `ClientStart` does
what the code does, collect flags in a switch, and is shown to implement the first
(`CountsTheWelcome`), so that what holds of the pump holds of the client. In
`ClientStart` the server is a sender of the messages in the order and with the
number of entities that `Server` is checked to keep (`WelcomeInOrder`,
`AnnouncedCovered`): at least as many as were announced. Left out of it is the exception
that `AnnouncedCovered` makes, a size that was read from the remains of a map before the
environment ran; and that later messages hold as many is assumed, this server sends none.

`ClientView` and `MapDisplay` divide `update_entities()` between them. The first has
every read of a field through `at()`'s reference as a step, in any order, and an
entity is only the number of the update that wrote each field; the second has an
update as one step, and entities with coordinates. Characters are `blank`, `wall` and
`entity`. Updates come from outside: the client's `on_message` takes `Send_Entities` at
any time, while this version of `Server` sends it in the welcome only and gives no
entity a velocity. What the two modules show of further updates and of movement
is therefore about the client's code against other servers. In `ClientView` these may
send any positions: the constant `Inside` says which updates have entities, and the places
they came from, within the map. `at()` (`Map.cpp:66`, `68`) may throw for every position
that is not made of the fields of such an update, those torn between two of them included;
nothing catches the exception in the map's thread, and the client ends (`Throws`).
In `MapDisplay` entities are, and were, within the map.
Likewise this program calls neither `message_client`, `message_all_clients` and
`stop_server` nor, on a path it reaches, `disconnect`: they are public operations of
the framework, and `Session` calls them at any time, `disconnect` also without a connection.

Next to some definitions stands a variant of it (`RunSendUnguarded`,
`DenyForGood`, `VisitAndErase`, ...): the mistake a maintainer might make there. No specification uses
it; putting it in the place of the original breaks a property, which shows
that the property depends on that line of the code.

## 3. What is checked

| run | question | instance |
|---|---|---|
| `connection` | do both ends keep in step under every interleaving and loss, does each direction implement `Channel`, does everything arrive while the link is up, and is its end noticed? | accept + 1 welcome message + others up to 2 tasks by application threads each side; the second message has a body, those before and behind it have none; 2 handshake words; 76k states |
| `client_start` | hand-over from io thread to main thread, what the client makes of bytes and flags, and does it implement the pump? | the welcome of 5, 2 messages per `update()`, 8 messages, up to 2 entities in each, more than announced included; 31k states |
| `session` | what does `disconnect()` leave behind, who stays in the list, who gets a message? | 1 client, 2 connections one after the other, 2 calls; 99k states |
| `server_welcome` | what is in a welcome while the environment is built | 2 clients, 2 maps, 1 food per map; 1.57M states up to symmetry |
| `server_full` | more clients than maps | 2 clients, 1 map; 140k states |
| `client_view` | who is woken by an update, what is shown and what is sent, while updates overwrite what is being read | 2 entities, 3 updates (the welcome's included), 1 spurious wake-up; the last update has entities outside the map; 23k states |
| `map_display` | cells, frame and screen, and the window they are seen in | 2 maps of 4 x 4 on a console of 9 x 4, 2 entities anywhere, 2 moves by at most 1 each way; server, client of map 0, client of map 1; 7 sizes of terminal, 2 of display; 345k states |
| `client_view_lost` | fails: `EveryUpdateShown` | as `client_view` |
| `client_view_torn` | fails: `EntityWhole` | as `client_view` |
| `server_own_map` | fails: `MapOfItsOwn` | as `server_welcome` |
| `server_denial` | fails: `DeniedOnlyIfFull` | as `server_full` |
| `server_dangling` | fails: `TaskFindsConnection` | as `server_full` |

Why the bounds are enough: two messages in the out queue make every branch of
the write loop run (first, next, last); a third arrives while two are queued;
two handshake words let a wrong one be told from the right one; two clients are the
least for overlapping handshakes, and with one map the least for a denial
of the second; one food per map separates before, between and after feeding.
The client's eight messages are a welcome and more than one full `update()` call; with
no, one or two entities, announced and carried, one taken from the wrong end shows.
Two connections in a sequence let the first be overtaken, lost or noticed late while
the second is begun, and give the list two elements of which either may be closed; two
calls are one that resets and one that would meet what it left. Two clients at
a time are beyond TLC; the theorems cover what each leaves behind. With three
updates one can arrive before, during and after each pass of the map's thread; two of them
inside the map and one not make cells of one update, of two, and of none. On a
4 x 4 map the interior is 2 x 2, so two entities can share a cell, follow each other,
or walk onto a wall, and the column that two maps of 9 columns leave over tells an
offset from a width. The terminals are smaller, larger, narrower, lower and of equal area
than what they become. The theorems below remove the bounds from the properties they cover.
`CHECK_DEADLOCK FALSE` is used except in `map_display`: a link may end, clients
may all have left, the server may have no update left, and its map's thread then sleeps.

**Fairness.** Each handler that is ready is eventually run, since an
`io_context` executes its queue in order and no handler blocks for ever
(`on_client_connect` sleeps 200 ms); the kernels settle every connection attempt;
a thread that can run is scheduled (`StartMain`, `Disconnecting`, `Calling`: a main thread
in the middle of a call goes on; it never has to begin one). Nothing is assumed of applications, clients
or the link: nobody has to send, answer, leave or break it. In `server_full`
`AcceptLoop` and `WelcomeComplete` except the process that was terminated.

**Findings.** (1) `on_client_validated` takes the map of the connection accepted
last, so two clients whose handshakes overlap share a map. (2) Closed connections
stay in `m_deqConnections`; after as many accepts as there are maps all
later clients are denied. (3) The task that writes the denial outlives its
`Connection`; the denial is never written and the task runs on freed memory.
(4) An update that arrives while the map's thread is not in `wait()` is not noticed, and
unless another follows never shown. (5) An entity may be copied with fields of two
updates, the lock of its `HelperType` being unused by the reader.

Also visible in the models, without a run of their own that fails:

* `remote_endpoint()` (`NetServerInterface.h:104`) and `at_get_map()` before the maps
  exist throw through `io_context::run()` and end the server; a client that is denied or
  disconnected during `m_start()` polls for ever.
* A size that `on_client_validated` reads from the remains of a map, while `push_back` moves
  the maps (`Server.cpp:67`), may be larger than the number of entities that follow; the
  client's unsigned subtraction (`NetMsg.h:131`) then wraps.
* An update between the reads of one statement of `update_entities()` may name a cell outside
  the grid, though no entity is ever outside; `at()` then throws and the client ends
  (`Map.cpp:66`, `68`).
* A header-only message is pushed with the body of the message before it
  (`NetConnection.h:227`): `BodyIntact` says which. `ClientMap` never clears its message,
  so the n-th holds n maps (`ClientMap.cpp:29`).
* Emptying the cell an entity came from also removes whoever else is there, and the
  screen keeps the character of an entity that has moved away (`Map.cpp:66`, `75`).
* The close that `disconnect()` posts may be overtaken by the `stop()` behind it; the socket
  then stays open until its object goes, and the server notices nothing. Nothing
  restarts the io_context, so a client that connects again never gets an answer, nor does one
  that called `disconnect()` before it ever connected, and
  connecting again without a `disconnect()` assigns to a thread that was not joined.
* `message_client` resets the pointer before it looks for it in the list
  (`NetServerInterface.h:135-139`): the closed client stays there and only null
  pointers would go. The comment "client must have been disconnected already so remove him"
  (line 135) says otherwise; `Session` has it as the code does it. Both functions run in another thread than the accept handler and
  share the deque without a lock.
* `create_console()` first makes the window 2 x 2 and then decides by area in which order
  to grow buffer and window (`WinConsole.cpp:153-173`). A terminal of the same area, or of a
  larger one but narrower or lower than the layout, keeps that window; the client's two later layouts make up for it,
  the server's only one does not (`MapInWindow`).

## 4. What is proved

Every safety invariant and every action property that a run checks, and the three
refinements, are theorems: TLC shows them on the instance above, TLAPS for every value
of the constants. The assumptions are the named ones on the constants and nothing else:

| assumption | beyond the types of the constants |
|---|---|
| `ConnectionAssumption`, `PumpAssumption`, `SessionAssumption`, `ViewAssumption`, `EnvironmentAssumption`, `ServerAssumption` | names kept apart (no connection is the null pointer, no client is nobody); what is counted is at least one where the code starts at one |
| `StartAssumption` | the welcome has five messages; an entity message is shorter than `size_t` can count, as one that exists in memory is |
| `DisplayAssumption` | one or two maps (`MAX_MAPCOUNT`), each at least 3 wide and 3 high, so that it has an inside; the layout of the server holds its environment; of the client's two built-in layouts the second is smaller in area than the first and than the map's own; no terminal or display is smaller than the 2 x 2 that Windows is asked for first |

**Connection.**
* `ConnectionProofs`: `TypeCorrect`, `FrontAlwaysExists`, `WriteLoopStaysAlive`,
  `ReadLoopStaysAlive`. The safety properties are not inductive: that a write is
  outstanding says nothing unless the queue front, the socket and the stage
  agree. `BaseInv` adds, per end, the state of each loop (`WriteLoop`,
  `ReadLoop`, `Idle`, `TasksInOrder`) and ties both ends to the connection attempt
  (`Dialled`, `Greeting`). One lemma per group of actions shows it preserved.
* `ConnectionOrderProofs`: `OrderInvariant`, `KeepsInStep` (`Framed`), `ImplementsChannels`,
  `BodiesIntact`, for any messages with and without body, any handshake word, scramble
  and number of tasks. A direction is one sequence of units, each determined by the one before
  (`Succ`). `IInv` says that the unit the reader waits for (`NextRead`), what is on the
  wire and the unit that will be written next (`NextWrite`) are consecutive stretches of
  it; a step of either end extends or shortens the middle one. It also needs that no
  end gives up while the link is up (`LinkUp`), and `Closing`: a client whose close task
  has run is not connected afterwards. Without the last the handshake could begin
  on a connection that is closed already. The channel follows step by step: a push is
  `Channel`'s delivery of the next number, everything else but sends, losses and the
  end of the handshake stutters. Bodies need no order, only the read loop's
  buffer (`BufferInv`).

**Pump and client start-up.**
* `MessagePumpProofs`: `PumpTypeCorrect`, `PopsAreSafe`, `NoWakeupIsLost`,
  `WelcomeComesFirst`, `HandlingKeepsOrder`. `PumpInv` numbers the messages (those
  handled, the one in hand, those queued), from which the equation between
  sequences follows.
* `ClientStartProofs`: `StartInvariant`, `StartImplementsPump`, `ClientTakesInOrder`,
  `MapFitsConsole`, whatever the flags hold that nobody has assigned. The refinement
  needs to know that the flags assigned are exactly those of the messages taken
  (`Collected`): then the last one is set by the fifth message. With it the theorems
  about the pump are theorems about the client.
* There also: `ReceivedInvariant`, `StartTypeCorrect`, `NothingUndefinedHappens`,
  `EntitiesStayWhole`. Lemmas about `Message` say what `>>` and `pull_complex` take from a
  body that `<<` and `push_back_complex` built, word by word; this is where `size_t` must
  not wrap. `Served` says what the server put in each message, `Received` what the client
  holds of it, and that the buffer has the announced size before entities come.

**Server** (`ServerProofs`), for any number of clients, maps and food.
* `ServerTypeCorrect`, `NeverThrowsLater`: `ServerInv` needs the capacity of the
  connection list (only the test in `on_client_connect` keeps the index inside the maps) and
  which maps exist at each stage of the environment.
* `MapsSharedByOverlap`: `Registry` says of each client where it is (waiting to be accepted,
  in the list at its place, validated, ...), `MapsInOrder` that maps rise
  with the validations and that who gets map n was among the first n + 1 connections.
* `WelcomesInvariant`, `WelcomesWhole`, `SizeCovered`, `ScriptFollowed`: food only grows and stops growing
  before the environment runs, so what is read later is never less (`Covered`) and, if reading began
  late enough, the same (`InTime`). Only a size that was read from the remains of a map, by a
  callback that began before that, is outside this argument, and the property excepts it. `OrderInv` numbers the five messages of each client through
  the queue of tasks that all clients share.

**Session** (`SessionProofs`), for any number of clients, connections and calls.
* `SessionInvariant`, `OnlyOvertakenStayOpen`, `NothingRunsAfterDisconnect`.
  `OpenOnlyIfOvertaken` speaks of the time after `disconnect()` and is not inductive;
  `ClientInv` follows the close from where it is posted, and knows that a socket exists
  only once its connection was begun.
* `NullsErased`, `ListInvariant`, `SessionTypeCorrect`, `NullsNeverMet`, `OnlyTheClosedLeave`,
  `EverybodyIsReached`. The list names nobody twice, null pointers are behind the cursor and
  only while a call runs (`Nulls`), those visited have the message once and those ahead do not
  (`Met`, `Numbers`). The last two are action properties about the step in which
  `erase_null` runs.

**TSVector and Map.**
* `ClientViewProofs`: `ViewTypeCorrect`, `PointerIsRestored`, `UpdatesWake` (an action
  property) and `SentIsNotOlder`, for any number of entities, updates and spurious
  wake-ups and any `update_freq`. The inductive invariant ties `cv_ptr` to
  the thread's sleep (`Pointer`), bounds everything read or shown by the vector
  (`Bounded`), and keeps what is shown below what was sent until the next copy
  (`Sent`): the property itself speaks of one statement only and is not inductive.
* `MapDisplayProofs`, for maps of any size, any entities and any terminal. `LoopLeaves`: after the loop
  of `update_entities()` a cell holds what the last entity that touched it, by leaving or
  by arriving, left there. `NobodyLeftBehind` and `OnlyLaterOnesErase` follow from where
  each entity stands or, between a move and the update, stood (`PlaceInv`).
  `EntitiesAreSeen`: entities come inside the walls (`InnerInv`), so a thread that draws its walls
  late overwrites nobody, and the characters are those of the cells (`ScreenInv`).
  `FrameIsClosed`: the walls that the parity of the map's number selects, row by row and column by
  column (`Wall`, `OnFrame`), are together the frame. `WindowShowsMap`: `StateInv` follows
  the sizes of buffer and window through the layouts of one process.

**Recursive definitions.** A fold of the community modules stands for the loop in
`update_entities()` and in `erase_null`. Induction over the length of a sequence needs a
theorem with an operator parameter, which the provers cannot instantiate. Instead
the set of all good sets of positions is formed, and the well-foundedness of the
subsets of a finite set (`WFMin`, which takes no operator) yields a least set that is not good; without its greatest
element it would be smaller and good. The same argument shows that the function that the
fold chooses exists.

The runs leave out the type invariants that are proved for every instance, and the
proved `StartUpFirst`, `PointerRestored` and `MapMadeForItsConsole`, all of which held
when TLC checked them.

**Only model-checked**: the seven liveness properties (`Delivered`, `CloseNoticed`, `AllHandled`,
`ServerNotices`, `AcceptLoop`, `WelcomeComplete`, `WakeupShows`), since the provers know nothing
of `ENABLED` and fairness; and the five runs that fail, which are about one instance by nature.

## 5. What is not modelled, and the plan

1. **Proofs**: the safety half of the liveness properties, as action properties: what brings an
   answer, a delivery or a wake-up closer is never undone by anybody else. The
   welcome that `ClientStart` assumes of its server is proved of `Server`, but for the wild
   size; one module in which the two meet over a `Channel` would make that a theorem too, with
   the client's subtraction that wraps as its exception.
2. **mf_scramble** as a function on w-bit words: that it is the same at both ends
   is all the handshake needs, and all `Connection` uses.
3. **Two clients at a time in `Session`**, which TLC does not finish.

Left out for good: handles, fonts, colours and the restoring of the console
(`~WinConsole` is not reached), a user who resizes the console while the program
runs, the distribution of `Rand.h`, copying and comparing of plain data (`Entity`,
`Params`), logging, the accessors of `TSQueue` and `TSVector` that the program never
calls, `resize` of `TSConsoleBuffer`, the destructors of `Environment` and `Client`
(neither program comes to an end), and `Server::test_console`, `on_message` (an empty
switch), `mf_get_config` (empty).
