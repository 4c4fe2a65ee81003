------------------------------ MODULE Console ------------------------------
(***************************************************************************)
(* WinConsole: Windows keeps a screen buffer and a window that shows part  *)
(* of it, and create_console() resizes both.  Sizes are pairs of columns   *)
(* and rows; everything begins at the origin.  A console is a record of    *)
(* the two, of the region that output goes to, of the largest window that  *)
(* the display has room for, and of the size that the program found.       *)
(***************************************************************************)
EXTENDS Integers, FiniteSetsExt

Area(size) == size[1] * size[2]
Within(inner, outer) == inner[1] <= outer[1] /\ inner[2] <= outer[2]
Smaller(a, b) == <<Min({a[1], b[1]}), Min({a[2], b[2]})>>

\* Windows refuses a window that reaches beyond the buffer, and a buffer that
\* is narrower or lower than the window.
SetConsoleWindowInfo(con, size) ==
    IF Within(size, con.buffer) THEN [con EXCEPT !.window = size] ELSE con
SetConsoleScreenBufferSize(con, size) ==
    IF Within(con.window, size) THEN [con EXCEPT !.buffer = size] ELSE con

\* create_console(): nobody looks at what it returns.
Minimal == <<2, 2>>
ResizedWindowFirst(con, layout, rect) ==
    SetConsoleScreenBufferSize(SetConsoleWindowInfo(con, rect), layout)
Resized(con, layout, rect) ==
    CASE Area(con.buffer) > Area(layout) ->
           SetConsoleScreenBufferSize(SetConsoleWindowInfo(con, rect), layout)
      [] Area(con.buffer) < Area(layout) ->
           SetConsoleWindowInfo(SetConsoleScreenBufferSize(con, layout), rect)
      [] OTHER -> con
create_console(con, layout) ==
    LET rect == Smaller(layout, con.largest)
    IN [Resized(SetConsoleWindowInfo(con, Minimal), layout, rect) EXCEPT !.rectWindow = rect]

\* write_raw_buffer(): WriteConsoleOutput writes what fits and says what that was.
write_raw_buffer(con, size) ==
    [con EXCEPT !.rectWindow = Smaller(@, Smaller(size, con.buffer))]
=============================================================================
