----------------------------- MODULE MapDisplay -----------------------------
(***************************************************************************)
(* What a Map keeps and draws: the cells of the map with the entity that   *)
(* stands on each (m_entities_internal_map) and the console buffer, on     *)
(* the server, where all maps draw into the buffer of the environment, and *)
(* on a client, which displays one map in a buffer of its own.             *)
(*                                                                         *)
(* A map's entities come from m_create_entities(), at rest and off the     *)
(* walls; a client's may then move, as its on_message() lets a server say  *)
(* with the velocity that brought them where they are, which is unsigned.  *)
(* ClientView has the interleaving of the reads; here an update is a step. *)
(*                                                                         *)
(* A client's console is created three times, for two layouts that are in  *)
(* the program and for the map's, the server's once; what is drawn has to  *)
(* be visible on it.  Threads that start write their buffer to the console,*)
(* and after that only a client's does, with every update.                 *)
(***************************************************************************)
EXTENDS Console, FiniteSets, Sequences, SequencesExt

CONSTANTS m_map_count,   \* maps of the environment
          envWidth,      \* m_envConfig of the server
          envHeight,
          MapEntities,   \* entities per map
          MaxVelo,       \* bound: how far an entity moves at once
          MaxMoves,      \* bound: how often the entities move
          BuiltIn,       \* the client's layouts before it knows the map's
          ServerLayout,  \* of the server's console, not smaller than m_envConfig
          Terminals,     \* sizes of the screen buffer they may be started in
          Displays       \* and of the largest window

m_map_width == envWidth \div m_map_count
m_map_height == envHeight

\* The program has two maps in an environment of 120 x 30 and goes from 60 x 60
\* through 60 x 30 to 60 x 35.
ASSUME DisplayAssumption ==
    /\ m_map_count \in 1..2              \* MAX_MAPCOUNT
    /\ envWidth \in Nat /\ envWidth >= 3 * m_map_count
    /\ envHeight \in Nat /\ envHeight >= 3
    /\ MapEntities \in Nat
    /\ MaxVelo \in Nat
    /\ MaxMoves \in Nat
    /\ ServerLayout \in Nat \X Nat
    /\ Within(<<envWidth, envHeight>>, ServerLayout)
    /\ BuiltIn \in Seq(Nat \X Nat) /\ Len(BuiltIn) = 2
    /\ \A j \in 1..2 : Within(Minimal, BuiltIn[j])
    /\ Area(BuiltIn[2]) < Area(BuiltIn[1])
    /\ Area(BuiltIn[2]) < Area(<<m_map_width, m_map_height + 5>>)
    /\ Terminals \subseteq Nat \X Nat /\ Displays \subseteq Nat \X Nat
    /\ \A size \in Terminals \union Displays : Within(Minimal, size)

VARIABLES host,     \* Server, or the map that this client displays
          started,  \* the maps whose thread has run start_up()
          entities, \* what mptr_entities_external points to, <<>> before
          cells,    \* m_entities_internal_map
          buffer,   \* m_buffer: the characters
          pending,  \* the maps whose entities changed since update_entities()
          skipped,  \* those that were not updated between two changes
          moves,    \* changes so far
          console,  \* of this process
          created   \* calls of its create_console() so far

mapVars == <<started, entities, cells, buffer, pending, skipped, moves>>
vars == <<host, mapVars, console, created>>

-----------------------------------------------------------------------------
(* Layout.                                                                 *)

Server == -1
AllMaps == 0..(m_map_count - 1)

\* What m_instanciate_maps() configures map i with.  The four walls are drawn
\* one after the other by the same code, so they are a set here.
temp_config(i) ==
    [x |-> i * m_map_width, y |-> 0, width |-> m_map_width, height |-> m_map_height,
     walls |-> {"Bottom", "Top", IF i % 2 > 0 THEN "Right" ELSE "Left"}]

\* The constructor keeps a map inside its console; offsets are 16 bits wide.
Word == 65536
Unvalidated(config, layout) == config
Validated(config, layout) ==
    [config EXCEPT
        !.x = IF config.width + @ > layout.width
                THEN (layout.width - config.width) % Word ELSE @,
        !.y = IF config.height + @ > layout.height
                THEN (layout.height - config.height) % Word ELSE @]

\* A client makes its console as large as the map, and five lines higher.
Layouts == IF host = Server THEN <<ServerLayout>>
           ELSE Append(BuiltIn, <<m_map_width, m_map_height + 5>>)
Layout == [width |-> Last(Layouts)[1], height |-> Last(Layouts)[2]]
Maps == IF host = Server THEN AllMaps ELSE {host}
m_config(i) == Validated(temp_config(i), Layout)

\* The buffer is as large as the environment, or as the one map.
BufferSize == IF host = Server THEN <<envWidth, envHeight>> ELSE <<m_map_width, m_map_height>>
Screen == (0..(BufferSize[1] - 1)) \X (0..(BufferSize[2] - 1))
-----------------------------------------------------------------------------
(* Drawing.                                                                *)

\* write_character() at each of the points; it ignores those outside.
write_character(screen, points, symb) ==
    [p \in DOMAIN screen |-> IF p \in points THEN symb ELSE screen[p]]

\* The points draw_line() writes to.
draw_line_short(c, _x, _y, _w, _h) ==
    {<<_x + r + c.x, _y + k + c.y>> : r \in 0..(_w - _x), k \in 0..(_h - _y - 1)}
draw_line(c, _x, _y, _w, _h) ==
    LET x0 == Min({_x, _w})
        y0 == IF x0 # _w THEN _h ELSE Min({_y, _h})  \* no diagonals
        dif_x == Min({_w, c.width - 1}) - x0
        dif_y == Min({_h, c.height - 1}) - y0
    IN {<<x0 + r + c.x, y0 + c.y>> : r \in 0..dif_x}
         \union {<<x0 + c.x, y0 + k + c.y>> : k \in 0..dif_y}

m_draw_walls(c) ==
    UNION {CASE wall = "Right"  -> draw_line(c, c.width - 1, 0, c.width - 1, c.height - 1)
             [] wall = "Left"   -> draw_line(c, 0, 0, 0, c.height - 1)
             [] wall = "Top"    -> draw_line(c, 0, 0, c.width - 1, 0)
             [] wall = "Bottom" -> draw_line(c, 0, c.height - 1, c.width - 1, c.height - 1)
           : wall \in c.walls}
-----------------------------------------------------------------------------
(* The cells.                                                              *)

Nobody == [id |-> 0]
Cells == 0..(m_map_width * m_map_height - 1)
Position(e) == e.y * m_map_width + e.x
Previous(e) == (e.y - e.velo_y) * m_map_width + (e.x - e.velo_x)

\* The loop of update_entities().
EraseAfter(now, es) ==
    FoldLeft(LAMBDA c, e : [c EXCEPT ![Position(e)] = e, ![Previous(e)] = Nobody], now, es)
KeepPrevious(now, es) == FoldLeft(LAMBDA c, e : [c EXCEPT ![Position(e)] = e], now, es)
Replaced(now, es) ==
    FoldLeft(LAMBDA c, e : [c EXCEPT ![Previous(e)] = Nobody, ![Position(e)] = e], now, es)

\* render(true): the entities in the cells, each at its own coordinates.
RenderUnshifted(screen, i, now) ==
    write_character(screen, {<<now[c].x, now[c].y>> : c \in {d \in Cells : now[d] # Nobody}},
                    "entity")
render(screen, i, now) ==
    write_character(screen,
                    {<<now[c].x + m_config(i).x, now[c].y + m_config(i).y>> :
                        c \in {d \in Cells : now[d] # Nobody}},
                    "entity")

update_entities(i, es) ==
    /\ cells' = [cells EXCEPT ![i] = Replaced(@, es)]
    /\ buffer' = render(buffer, i, cells'[i])
-----------------------------------------------------------------------------
Entity == [id : 1..MapEntities, x : 0..(m_map_width - 1), y : 0..(m_map_height - 1),
           velo_x : 0..MaxVelo, velo_y : 0..MaxVelo]

TypeOK ==
    /\ host \in {Server} \union AllMaps
    /\ started \subseteq Maps /\ pending \subseteq Maps /\ skipped \subseteq Maps
    /\ \A i \in Maps : /\ entities[i] \in Seq(Entity)
                       /\ Len(entities[i]) \in {0, MapEntities}
                       /\ cells[i] \in [Cells -> Entity \union {Nobody}]
    /\ buffer \in [Screen -> {"blank", "wall", "entity"}]
    /\ moves \in 0..MaxMoves
    /\ Within(console.window, console.buffer)
    /\ created \in 0..Len(Layouts)

Init ==
    /\ host \in {Server} \union AllMaps
    /\ started = {}
    /\ entities = [i \in Maps |-> <<>>]
    /\ cells = [i \in Maps |-> [c \in Cells |-> Nobody]]
    /\ buffer = [p \in Screen |-> "blank"]
    /\ pending = {}
    /\ skipped = {}
    /\ moves = 0
    /\ \E size \in Terminals, display \in Displays :
         console = [buffer |-> size, window |-> Smaller(size, display),
                    rectWindow |-> size, largest |-> display, csbiOrigin |-> size]
    /\ created = 0

\* The constructors and, for the last one of a client, m_start().
CreateConsole ==
    /\ created < Len(Layouts)
    /\ console' = create_console(console, Layouts[created + 1])
    /\ created' = created + 1
    /\ UNCHANGED <<host, mapVars>>

\* rand() truncates a real number below its upper bound.
rand(min, max) == min..(max - 1)
InteriorClosed == rand(1, m_map_width + 1) \X rand(1, m_map_height + 1)
Interior == rand(1, m_map_width - 1) \X rand(1, m_map_height - 1)

\* m_create_entities() and, on a client, the entities of the welcome, which
\* are the same; both call update_entities() before the map's thread starts.
Feed(i) ==
    /\ created = Len(Layouts)
    /\ entities[i] = <<>>
    /\ \A j \in Maps : j < i => entities[j] # <<>>
    /\ \E place \in [1..MapEntities -> Interior] :
         entities' = [entities EXCEPT ![i] =
            [n \in 1..MapEntities |-> [id |-> n, x |-> place[n][1], y |-> place[n][2],
                                       velo_x |-> 0, velo_y |-> 0]]]
    /\ update_entities(i, entities'[i])
    /\ UNCHANGED <<host, started, pending, skipped, moves, console, created>>

\* The map's thread: start_up() draws the walls and shows the buffer.
StartUp(i) ==
    /\ \A j \in Maps : entities[j] # <<>>
    /\ i \notin started
    /\ started' = started \union {i}
    /\ buffer' = write_character(buffer, m_draw_walls(m_config(i)), "wall")
    /\ console' = write_raw_buffer(console, BufferSize)
    /\ UNCHANGED <<host, entities, cells, pending, skipped, moves, created>>

\* A client's main thread assigns m_entities what the server sends.
Move(i) ==
    /\ host # Server /\ entities[i] # <<>>
    /\ moves < MaxMoves
    /\ moves' = moves + 1
    /\ \E velo \in [1..MapEntities -> (0..MaxVelo) \X (0..MaxVelo)] :
         LET after == [n \in 1..MapEntities |->
                         [id |-> n, x |-> entities[i][n].x + velo[n][1],
                          y |-> entities[i][n].y + velo[n][2],
                          velo_x |-> velo[n][1], velo_y |-> velo[n][2]]]
         IN /\ \A n \in 1..MapEntities : after[n] \in Entity
            /\ entities' = [entities EXCEPT ![i] = after]
    /\ pending' = pending \union {i}
    /\ skipped' = skipped \union (pending \intersect {i})
    /\ UNCHANGED <<host, started, cells, buffer, console, created>>

\* The map's thread wakes up, with or without a reason; a client's then shows
\* its buffer.
Update(i) ==
    /\ i \in started
    /\ update_entities(i, entities[i])
    /\ pending' = pending \ {i}
    /\ console' = IF host = Server THEN console ELSE write_raw_buffer(console, BufferSize)
    /\ UNCHANGED <<host, started, entities, skipped, moves, created>>

Next == CreateConsole \/ \E i \in Maps : Feed(i) \/ StartUp(i) \/ Move(i) \/ Update(i)

Spec == Init /\ [][Next]_vars
-----------------------------------------------------------------------------
UpToDate(i) == i \notin pending /\ entities[i] # <<>>

(* An entity of an earlier update is nowhere on the map, and one of the last
   update nowhere but at its position, unless an update was skipped: then the
   previous position is not where the entity was drawn (Map.cpp:66-68). *)
NoStaleEntity ==
    \A i \in Maps : UpToDate(i) /\ i \notin skipped =>
        \A c \in Cells : cells[i][c] # Nobody =>
            \E n \in 1..MapEntities : cells[i][c] = entities[i][n] /\ c = Position(entities[i][n])

(* An entity is missing from its cell only because a later one in the vector
   stands there too or came from there (Map.cpp:63-69). *)
LostOnlyToLater ==
    \A i \in Maps : UpToDate(i) =>
        \A n \in 1..MapEntities :
            \/ cells[i][Position(entities[i][n])] = entities[i][n]
            \/ \E k \in (n + 1)..MapEntities :
                  Position(entities[i][n]) \in {Previous(entities[i][k]), Position(entities[i][k])}

(* Every entity on the map is on the screen, on the server and on the client of
   either map, whatever offset the map has in the environment; and unless entities
   have moved, whose old characters stay, nobody else is (Map.cpp:20-23, 75-79). *)
EntityOnScreen ==
    LET Drawn(i) == {<<e.x + m_config(i).x, e.y + m_config(i).y>> :
                        e \in {cells[i][c] : c \in Cells} \ {Nobody}}
        drawn == UNION {Drawn(i) : i \in Maps}
        seen == {p \in DOMAIN buffer : buffer[p] = "entity"}
    IN drawn \subseteq seen /\ (moves = 0 => seen = drawn)

(* Once all the threads have started, walls are where the maps end, the side where
   a map has none excepted, and nowhere else: maps side by side share one frame, and
   a client sees its part of it, at its own origin (Environment.cpp:90-104). *)
Enclosed ==
    started = Maps =>
        \A p \in Screen :
            LET lastColumn == Cardinality(Maps) * m_map_width - 1
                frame == /\ p[1] <= lastColumn
                         /\ \/ p[2] \in {0, envHeight - 1}
                            \/ p[1] = 0 /\ host # 1
                            \/ p[1] = lastColumn /\ 1 \in Maps
            IN IF frame THEN buffer[p] # "blank" ELSE buffer[p] # "wall"

(* Whatever console a client was started in, its window shows the whole map (if the
   display can) and every output reaches all of it: the layouts that it goes through
   make up for a step that Windows refused.  The server has one layout, and a window
   only if its console was smaller than that or larger both ways (WinConsole.cpp:161-173). *)
MapInWindow ==
    LET place == Smaller(BufferSize, console.largest)
        oneStep == \/ Area(console.csbiOrigin) < Area(ServerLayout)
                   \/ /\ Within(ServerLayout, console.csbiOrigin)
                      /\ ServerLayout # console.csbiOrigin
    IN started # {} /\ (host = Server => oneStep) =>
        /\ Within(BufferSize, console.buffer)
        /\ Within(place, console.window)
        /\ Within(place, console.rectWindow)
=============================================================================
