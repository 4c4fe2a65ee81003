-------------------------- MODULE MapDisplayProofs --------------------------
(***************************************************************************)
(* What a map keeps and shows, for every size of the environment, every    *)
(* number of entities and every terminal: where an entity is entered and   *)
(* drawn, what a wall encloses, and what part of it a window shows.        *)
(*                                                                         *)
(* The loop of update_entities() leaves in a cell what the last entity     *)
(* that touched it decided (LoopLeaves), shown by induction over the sets  *)
(* of the entities it has seen. From there on cells and characters are     *)
(* functions of the vector, and the invariants say where each entity       *)
(* stands and stood, which characters are inside a wall, and which walls   *)
(* are drawn.                                                              *)
(***************************************************************************)
EXTENDS MapDisplay, SequenceTheorems, FiniteSetTheorems, WellFoundedInduction, TLAPS

-----------------------------------------------------------------------------
(* Of numbers.                                                             *)

LEMMA MinOfTwo ==
    ASSUME NEW a \in Int, NEW b \in Int
    PROVE  Min({a, b}) = IF a <= b THEN a ELSE b
<1> DEFINE m == IF a <= b THEN a ELSE b
<1>1. m \in {a, b} /\ \A y \in {a, b} : m <= y
  OBVIOUS
<1>2. \A x \in {a, b} : (\A y \in {a, b} : x <= y) => x = m
  OBVIOUS
<1> QED
  BY <1>1, <1>2 DEF Min

LEMMA MaxIsIn ==
    ASSUME NEW n \in Nat, NEW S \in SUBSET (1..n), S # {}
    PROVE  Max(S) \in S /\ \A k \in S : k <= Max(S)
<1> DEFINE R == StrictSubsetOrdering(Nat)
           T == {k..n : k \in S}
<1>1. T \subseteq FiniteSubsetsOf(Nat) /\ T # {}
  <2>1. \A k \in S : IsFiniteSet(k..n) /\ (k..n) \subseteq Nat
    BY FS_Interval
  <2> QED
    BY <2>1 DEF FiniteSubsetsOf
<1>2. IsWellFoundedOn(R, FiniteSubsetsOf(Nat))
  BY FS_StrictSubsetOrderingWellFounded
<1>3. \E above \in T : \A other \in T : ~(<<other, above>> \in R)
  <2> HIDE DEF R, T
  <2> QED
    BY <1>1, <1>2, WFMin
<1>4. PICK x \in S : \A other \in T : ~(<<other, x..n>> \in R)
  BY <1>3
<1>5. ASSUME NEW y \in S PROVE x >= y
  <2>1. SUFFICES ASSUME y > x PROVE FALSE
    OBVIOUS
  <2>2. (y..n) \subseteq (x..n) /\ x \in x..n /\ x \notin y..n
    BY <2>1
  <2>3. (y..n) \in SUBSET Nat /\ (x..n) \in SUBSET Nat
    OBVIOUS
  <2>4. <<y..n, x..n>> \in R
    BY <2>2, <2>3 DEF StrictSubsetOrdering
  <2> QED
    BY <1>4, <2>4
<1>6. Max(S) \in S /\ \A y \in S : Max(S) >= y
  BY <1>5 DEF Max
<1>7. S \subseteq Int
  OBVIOUS
<1> QED
  BY <1>6, <1>7

(* What holds of a set of naturals if it does without the largest of them holds of
   every set of them. *)
LEMMA WithoutTheLast ==
    ASSUME NEW n \in Nat, NEW Good, {} \in Good,
           \A s \in SUBSET (1..n) : s # {} /\ s \ {Max(s)} \in Good => s \in Good
    PROVE  \A s \in SUBSET (1..n) : s \in Good
<1> DEFINE R == StrictSubsetOrdering(Nat)
           Bad == {s \in SUBSET (1..n) : s \notin Good}
<1>1. Bad \subseteq FiniteSubsetsOf(Nat)
  <2>1. \A s \in SUBSET (1..n) : IsFiniteSet(s) /\ s \subseteq Nat
    <3>1. IsFiniteSet(1..n) /\ (1..n) \subseteq Nat
      BY FS_Interval
    <3>2. \A s \in SUBSET (1..n) : IsFiniteSet(s)
      BY <3>1, FS_Subset
    <3> QED
      BY <3>1, <3>2
  <2> QED
    BY <2>1 DEF FiniteSubsetsOf
<1>2. IsWellFoundedOn(R, FiniteSubsetsOf(Nat))
  BY FS_StrictSubsetOrderingWellFounded
<1>3. SUFFICES ASSUME Bad # {} PROVE FALSE
  OBVIOUS
<1>4. \E least \in Bad : \A other \in Bad : ~(<<other, least>> \in R)
  <2> HIDE DEF R, Bad
  <2> QED
    BY <1>1, <1>2, <1>3, WFMin
<1>5. PICK s \in Bad : \A other \in Bad : ~(<<other, s>> \in R)
  BY <1>4
<1>6. Max(s) \in s /\ s # {}
  BY MaxIsIn
<1>7. <<s \ {Max(s)}, s>> \in R
  <2> DEFINE t == s \ {Max(s)}
  <2>1. s \in SUBSET Nat /\ t \in SUBSET Nat
    <3>1. s \subseteq 1..n /\ (1..n) \subseteq Nat /\ t \subseteq s
      OBVIOUS
    <3> HIDE DEF t
    <3> QED
      BY <3>1
  <2>2. t \subseteq s /\ t # s
    BY <1>6
  <2> HIDE DEF t
  <2>3. <<t, s>> \in R
    BY <2>1, <2>2 DEF StrictSubsetOrdering
  <2> QED
    BY <2>3 DEF t
<1>8. s \ {Max(s)} \in SUBSET (1..n) /\ s \ {Max(s)} \in Good
  BY <1>5, <1>7
<1> QED
  BY <1>6, <1>8

LEMMA Product ==
    ASSUME NEW a \in Nat, NEW b \in Nat, NEW m \in Nat, a <= b
    PROVE  a * m \in Nat /\ b * m \in Nat /\ a * m <= b * m
  OBVIOUS
-----------------------------------------------------------------------------
(* Of sizes and places.                                                    *)

LEMMA MapSizes ==
    /\ m_map_width \in Nat /\ m_map_width >= 3
    /\ m_map_height \in Nat /\ m_map_height >= 3
    /\ m_map_count = 1 => m_map_width <= envWidth
    /\ m_map_count = 2 => m_map_width + m_map_width <= envWidth
<1>1. CASE m_map_count = 1
  BY <1>1, DisplayAssumption DEF m_map_width, m_map_height
<1>2. CASE m_map_count = 2
  BY <1>2, DisplayAssumption DEF m_map_width, m_map_height
<1> QED
  BY <1>1, <1>2, DisplayAssumption

LEMMA CellsOfMap ==
    ASSUME NEW x \in 0..(m_map_width - 1), NEW y \in 0..(m_map_height - 1)
    PROVE  y * m_map_width + x \in Cells
<1> DEFINE w == m_map_width
           h == m_map_height
<1>1. w \in Nat /\ h \in Nat /\ w >= 3 /\ h >= 3
  BY MapSizes
<1>2. x \in Nat /\ x <= w - 1 /\ y \in Nat /\ y <= h - 1 /\ h - 1 \in Nat
  BY <1>1
<1>3. w * h = (h - 1) * w + w
  BY <1>1
<1>4. y * w \in Nat /\ y * w <= (h - 1) * w /\ (h - 1) * w \in Nat
  BY <1>1, <1>2, Product
<1> HIDE DEF w, h
<1> DEFINE yw == y * w
           hw == (h - 1) * w
           wh == w * h
<1>5. yw + x \in 0..(wh - 1)
  <2> HIDE DEF yw, hw, wh
  <2> QED
    BY <1>1, <1>2, <1>3, <1>4 DEF yw, hw, wh
<1> QED
  BY <1>5 DEF Cells, w, h

HostOK == host \in {Server} \union AllMaps

LEMMA Hosts ==
    ASSUME HostOK
    PROVE  /\ Maps \subseteq {0, 1}
           /\ host = Server => 0 \in Maps /\ (1 \in Maps <=> m_map_count = 2)
           /\ host # Server => Maps = {host} /\ host \in {0, 1}
           /\ Maps # {}
<1>1. CASE m_map_count = 1
  <2>1. AllMaps = {0}
    BY <1>1 DEF AllMaps
  <2> QED
    BY <1>1, <2>1 DEF HostOK, Maps, Server
<1>2. CASE m_map_count = 2
  <2>1. AllMaps = {0, 1}
    BY <1>2 DEF AllMaps
  <2> QED
    BY <1>2, <2>1 DEF HostOK, Maps, Server
<1> QED
  BY <1>1, <1>2, DisplayAssumption

(* Where map i begins. *)
Offset(i) == IF host = Server THEN i * m_map_width ELSE 0

LEMMA Configuration ==
    ASSUME HostOK, NEW i \in Maps
    PROVE  m_config(i) = [x |-> Offset(i), y |-> 0, width |-> m_map_width, height |-> m_map_height,
                          walls |-> {"Bottom", "Top", IF i % 2 > 0 THEN "Right" ELSE "Left"}]
<1> DEFINE w == m_map_width
           h == m_map_height
<1>1. w \in Nat /\ h \in Nat /\ w >= 3 /\ h >= 3
  BY MapSizes
<1>2. i \in {0, 1} /\ i * w = (IF i = 0 THEN 0 ELSE w)
  BY <1>1, Hosts
<1>3. CASE host = Server
  <2>1. Last(Layouts) = ServerLayout
    BY <1>3, LenProperties DEF Layouts, Last
  <2>2. Layout.width = ServerLayout[1] /\ Layout.height = ServerLayout[2]
    BY <2>1 DEF Layout
  <2>3. /\ ServerLayout[1] \in Nat /\ ServerLayout[2] \in Nat /\ envWidth \in Nat
        /\ envWidth <= ServerLayout[1] /\ h <= ServerLayout[2]
    BY DisplayAssumption DEF Within, m_map_height
  <2>4. i = 1 => m_map_count = 2
    BY <1>3, Hosts
  <2>5. w + i * w <= envWidth
    BY <1>1, <1>2, <2>4, MapSizes, DisplayAssumption
  <2>6. ~(w + i * w > Layout.width) /\ ~(h + 0 > Layout.height)
    BY <1>1, <1>2, <2>2, <2>3, <2>5
  <2> QED
    BY <1>3, <2>6 DEF m_config, temp_config, Validated, Offset
<1>4. CASE host # Server
  <2>1. Layouts = Append(BuiltIn, <<w, h + 5>>)
    BY <1>4 DEF Layouts
  <2>2. BuiltIn \in Seq(Nat \X Nat) /\ <<w, h + 5>> \in Nat \X Nat
    BY <1>1, DisplayAssumption
  <2>3. Len(Layouts) = Len(BuiltIn) + 1 /\ Layouts[Len(BuiltIn) + 1] = <<w, h + 5>>
    BY <2>1, <2>2, AppendProperties
  <2>4. Last(Layouts) = <<w, h + 5>>
    BY <2>3 DEF Last
  <2>5. Layout.width = w /\ Layout.height = h + 5
    BY <2>4 DEF Layout
  <2>6. ~(h + 0 > Layout.height)
    BY <1>1, <2>5
  <2>7. CASE i = 0
    <3>1. ~(w + i * w > Layout.width) /\ i * w = 0
      BY <1>1, <1>2, <2>5, <2>7
    <3> QED
      BY <1>4, <2>6, <3>1 DEF m_config, temp_config, Validated, Offset
  <2>8. CASE i = 1
    <3>1. w + i * w > Layout.width
      BY <1>1, <1>2, <2>5, <2>8
    <3>2. (Layout.width - w) % Word = 0
      BY <1>1, <2>5 DEF Word
    <3>3. /\ temp_config(i).width = w /\ temp_config(i).x = i * w
          /\ temp_config(i).height = h /\ temp_config(i).y = 0
      BY DEF temp_config
    <3>4. m_config(i) = [temp_config(i) EXCEPT !.x = 0, !.y = @]
      BY <2>6, <3>1, <3>2, <3>3, Zenon DEF m_config, Validated
    <3> QED
      BY <1>4, <3>4 DEF temp_config, Offset
  <2> QED
    BY <1>2, <2>7, <2>8
<1> QED
  BY <1>3, <1>4
-----------------------------------------------------------------------------
(* Of lines.                                                               *)

Row(X, W, b) == {<<X + a, b>> : a \in 0..(W - 1)}
Column(X, H, a) == {<<X + a, b>> : b \in 0..(H - 1)}

LEMMA Horizontal ==
    ASSUME NEW c, NEW X \in Int, NEW W \in Nat, NEW H \in Nat, W >= 3, H >= 3,
           c.x = X, c.y = 0, c.width = W, c.height = H, NEW b \in {0, H - 1}
    PROVE  draw_line(c, 0, b, W - 1, b) = Row(X, W, b)
<1>1. /\ Min({0, W - 1}) = 0 /\ Min({W - 1, W - 1}) = W - 1
      /\ Min({b, H - 1}) = b /\ Min({b, b}) = b
  BY MinOfTwo
<1>a. 0 # W - 1 /\ b \in Int
  OBVIOUS
<1>2. draw_line(c, 0, b, W - 1, b)
        = {<<0 + r + X, b + 0>> : r \in 0..(W - 1)} \union {<<0 + X, b + k + 0>> : k \in 0..0}
  <2> DEFINE x0 == Min({0, W - 1})
             y0 == IF x0 # W - 1 THEN b ELSE Min({b, b})
             dif_x == Min({W - 1, c.width - 1}) - x0
             dif_y == Min({b, c.height - 1}) - y0
  <2>1. draw_line(c, 0, b, W - 1, b)
          = {<<x0 + r + c.x, y0 + c.y>> : r \in 0..dif_x}
              \union {<<x0 + c.x, y0 + k + c.y>> : k \in 0..dif_y}
    BY Zenon DEF draw_line
  <2>2. x0 = 0 /\ y0 = b
    BY <1>1, <1>a
  <2>3. dif_x = W - 1 /\ dif_y = 0
    BY <1>1, <1>a, <2>2
  <2> HIDE DEF x0, y0, dif_x, dif_y
  <2> QED
    BY <2>1, <2>2, <2>3
<1>3. {<<0 + X, b + k + 0>> : k \in 0..0} = {<<X + 0, b>>}
  OBVIOUS
<1>4. {<<0 + r + X, b + 0>> : r \in 0..(W - 1)} = {<<X + a, b>> : a \in 0..(W - 1)}
  <2>1. b + 0 = b /\ \A r \in 0..(W - 1) : 0 + r + X = X + r
    BY <1>a
  <2> DEFINE L(r) == <<0 + r + X, b + 0>>
             R(r) == <<X + r, b>>
  <2>2. \A r \in 0..(W - 1) : L(r) = R(r)
    BY <2>1
  <2>3. {L(r) : r \in 0..(W - 1)} = {R(r) : r \in 0..(W - 1)}
    <3> HIDE DEF L, R
    <3> QED
      BY <2>2
  <2> QED
    BY <2>3
<1>5. <<X + 0, b>> \in {<<X + a, b>> : a \in 0..(W - 1)}
  OBVIOUS
<1> QED
  BY <1>2, <1>3, <1>4, <1>5 DEF Row

LEMMA Vertical ==
    ASSUME NEW c, NEW X \in Int, NEW W \in Nat, NEW H \in Nat, W >= 3, H >= 3,
           c.x = X, c.y = 0, c.width = W, c.height = H, NEW a \in {0, W - 1}
    PROVE  draw_line(c, a, 0, a, H - 1) = Column(X, H, a)
<1>1. /\ Min({a, a}) = a /\ Min({0, H - 1}) = 0
      /\ Min({a, W - 1}) = a /\ Min({H - 1, H - 1}) = H - 1
  BY MinOfTwo
<1>2. draw_line(c, a, 0, a, H - 1)
        = {<<a + r + X, 0 + 0>> : r \in 0..(a - a)} \union {<<a + X, 0 + k + 0>> : k \in 0..(H - 1 - 0)}
  BY <1>1 DEF draw_line
<1>3. {<<a + r + X, 0 + 0>> : r \in 0..(a - a)} = {<<X + a, 0>>}
  OBVIOUS
<1>4. {<<a + X, 0 + k + 0>> : k \in 0..(H - 1 - 0)} = {<<X + a, b>> : b \in 0..(H - 1)}
  OBVIOUS
<1>5. <<X + a, 0>> \in {<<X + a, b>> : b \in 0..(H - 1)}
  OBVIOUS
<1> QED
  BY <1>2, <1>3, <1>4, <1>5 DEF Column

(* The column of the wall at the side of map i. *)
Side(i) == IF i % 2 > 0 THEN m_map_width - 1 ELSE 0
Wall(i) == Row(Offset(i), m_map_width, 0) \union Row(Offset(i), m_map_width, m_map_height - 1)
             \union Column(Offset(i), m_map_height, Side(i))

LEMMA Walls ==
    ASSUME HostOK, NEW i \in Maps
    PROVE  m_draw_walls(m_config(i)) = Wall(i)
<1> DEFINE w == m_map_width
           h == m_map_height
           X == Offset(i)
           c == m_config(i)
           side == IF i % 2 > 0 THEN "Right" ELSE "Left"
           Across(b) == Row(X, w, b)
           Down(a) == Column(X, h, a)
<1>1. w \in Nat /\ h \in Nat /\ w >= 3 /\ h >= 3 /\ X \in Int
  <2>1. i \in {0, 1}
    BY Hosts
  <2> QED
    BY <2>1, MapSizes DEF Offset
<1>2. /\ c.x = X /\ c.y = 0 /\ c.width = w /\ c.height = h
      /\ c.walls = {"Bottom", "Top", side}
  BY Configuration
<1> HIDE DEF w, h, X, c
<1>3. Across(0) = draw_line(c, 0, 0, w - 1, 0) /\ Across(h - 1) = draw_line(c, 0, h - 1, w - 1, h - 1)
  <2>1. ASSUME NEW b \in {0, h - 1} PROVE draw_line(c, 0, b, w - 1, b) = Across(b)
    <3>1. c.x \in Int /\ c.width \in Nat /\ c.height \in Nat /\ c.width >= 3 /\ c.height >= 3
          /\ b \in {0, c.height - 1} /\ c.y = 0
      BY <1>1, <1>2
    <3>2. draw_line(c, 0, b, c.width - 1, b) = Row(c.x, c.width, b)
      BY <3>1, Horizontal, Zenon
    <3> QED
      BY <1>2, <3>2
  <2> QED
    BY <2>1
<1>4. Down(0) = draw_line(c, 0, 0, 0, h - 1) /\ Down(w - 1) = draw_line(c, w - 1, 0, w - 1, h - 1)
  <2>1. ASSUME NEW a \in {0, w - 1} PROVE draw_line(c, a, 0, a, h - 1) = Down(a)
    BY <1>1, <1>2, Vertical
  <2> QED
    BY <2>1
<1>5. m_draw_walls(c) = Across(h - 1) \union Across(0)
                          \union (IF side = "Right" THEN Down(w - 1) ELSE Down(0))
  <2> HIDE DEF Across, Down
  <2>1. CASE side = "Right"
    <3>1. c.walls = {"Bottom", "Top", "Right"}
      BY <1>2, <2>1
    <3> QED
      BY <1>2, <1>3, <1>4, <2>1, <3>1 DEF m_draw_walls
  <2>2. CASE side = "Left"
    <3>1. c.walls = {"Bottom", "Top", "Left"}
      BY <1>2, <2>2
    <3> QED
      BY <1>2, <1>3, <1>4, <2>2, <3>1 DEF m_draw_walls
  <2> QED
    BY <2>1, <2>2
<1>6. (IF side = "Right" THEN Down(w - 1) ELSE Down(0)) = Down(Side(i))
  BY DEF Side, w
<1>7. Wall(i) = Across(h - 1) \union Across(0) \union Down(Side(i))
  BY DEF Wall, w, h, X
<1> QED
  BY <1>5, <1>6, <1>7 DEF c
-----------------------------------------------------------------------------
(* Of consoles.                                                            *)

Size == Nat \X Nat
ConsoleRecord == [buffer : Size, window : Size, rectWindow : Size, largest : Size, csbiOrigin : Size]
Sound(con) == /\ con \in ConsoleRecord
              /\ Within(con.window, con.buffer)
              /\ Within(Minimal, con.buffer) /\ Within(Minimal, con.largest)

LEMMA SmallerOfTwo ==
    ASSUME NEW a \in Size, NEW b \in Size
    PROVE  /\ Smaller(a, b) \in Size
           /\ Within(Smaller(a, b), a) /\ Within(Smaller(a, b), b)
           /\ \A c \in Size : Within(c, a) /\ Within(c, b) => Within(c, Smaller(a, b))
<1>1. a[1] \in Nat /\ a[2] \in Nat /\ b[1] \in Nat /\ b[2] \in Nat
  BY DEF Size
<1>2. /\ Min({a[1], b[1]}) = (IF a[1] <= b[1] THEN a[1] ELSE b[1])
      /\ Min({a[2], b[2]}) = (IF a[2] <= b[2] THEN a[2] ELSE b[2])
  BY <1>1, MinOfTwo
<1>3. Smaller(a, b) = <<IF a[1] <= b[1] THEN a[1] ELSE b[1], IF a[2] <= b[2] THEN a[2] ELSE b[2]>>
  BY <1>2 DEF Smaller
<1> QED
  BY <1>1, <1>3 DEF Within, Size

LEMMA WithinTransitive ==
    ASSUME NEW a \in Size, NEW b \in Size, NEW c \in Size, Within(a, b), Within(b, c)
    PROVE  Within(a, c)
  BY DEF Within, Size

LEMMA AreaOfSize == ASSUME NEW a \in Size PROVE Area(a) \in Nat
  BY DEF Area, Size

LEMMA AreaGrows ==
    ASSUME NEW a \in Size, NEW b \in Size, Within(a, b), a # b, Within(Minimal, a)
    PROVE  Area(a) < Area(b)
<1>1. /\ a[1] \in Nat /\ a[2] \in Nat /\ b[1] \in Nat /\ b[2] \in Nat
      /\ a[1] <= b[1] /\ a[2] <= b[2] /\ a[1] >= 2 /\ a[2] >= 2
      /\ a[1] # b[1] \/ a[2] # b[2]
  BY DEF Size, Within, Minimal
<1>2. a[1] * a[2] <= b[1] * a[2] /\ a[1] * a[2] \in Nat /\ b[1] * a[2] \in Nat
  BY <1>1, Product
<1>3. a[2] * b[1] <= b[2] * b[1] /\ a[2] * b[1] = b[1] * a[2] /\ b[2] * b[1] = b[1] * b[2]
  BY <1>1, Product
<1>4. CASE a[1] # b[1]
  <2>1. a[1] + 1 <= b[1] /\ a[1] + 1 \in Nat
    BY <1>1, <1>4
  <2>2. (a[1] + 1) * a[2] <= b[1] * a[2]
    BY <1>1, <2>1, Product
  <2>3. (a[1] + 1) * a[2] = a[1] * a[2] + a[2]
    BY <1>1
  <2>4. a[1] * a[2] < b[1] * a[2]
    BY <1>1, <1>2, <2>2, <2>3
  <2> QED
    BY <1>1, <1>2, <1>3, <2>4 DEF Area
<1>5. CASE a[2] # b[2]
  <2>1. a[2] + 1 <= b[2] /\ a[2] + 1 \in Nat
    BY <1>1, <1>5
  <2>2. (a[2] + 1) * b[1] <= b[2] * b[1]
    BY <1>1, <2>1, Product
  <2>3. (a[2] + 1) * b[1] = a[2] * b[1] + b[1]
    BY <1>1
  <2>4. a[2] * b[1] < b[2] * b[1]
    BY <1>1, <1>3, <2>2, <2>3
  <2> QED
    BY <1>1, <1>2, <1>3, <2>4 DEF Area
<1> QED
  BY <1>1, <1>4, <1>5

(* What create_console() makes of a console: the buffer gets the size of the
   layout unless it already had its area, and the window the size that the display
   allows whenever Windows could not refuse it (WinConsole.cpp:148-173). *)
LEMMA ConsoleCreated ==
    ASSUME NEW con, Sound(con), NEW layout \in Size, Within(Minimal, layout),
           NEW new, new = create_console(con, layout),
           NEW rect, rect = Smaller(layout, con.largest)
    PROVE  /\ Sound(new)
           /\ new.largest = con.largest /\ new.csbiOrigin = con.csbiOrigin
           /\ new.rectWindow = rect
           /\ new.buffer = IF Area(con.buffer) = Area(layout) THEN con.buffer ELSE layout
           /\ Area(con.buffer) < Area(layout) => new.window = rect
           /\ Area(con.buffer) > Area(layout) /\ Within(rect, con.buffer) => new.window = rect
<1> DEFINE least == SetConsoleWindowInfo(con, Minimal)
<1>1. Minimal \in Size /\ rect \in Size /\ Within(Minimal, rect) /\ Within(rect, layout)
  <2>1. con.largest \in Size /\ Minimal \in Size /\ Within(Minimal, con.largest)
    BY DEF Sound, ConsoleRecord, Minimal, Size
  <2> QED
    BY <2>1, SmallerOfTwo
<1>2. /\ least \in ConsoleRecord /\ least.window = Minimal
      /\ least.buffer = con.buffer /\ least.largest = con.largest
      /\ least.csbiOrigin = con.csbiOrigin
  BY <1>1 DEF Sound, ConsoleRecord, SetConsoleWindowInfo
<1> HIDE DEF least
<1>3. new = [Resized(least, layout, rect) EXCEPT !.rectWindow = rect]
  BY DEF create_console, least
<1>4. Area(con.buffer) \in Nat /\ Area(layout) \in Nat /\ con.buffer \in Size
  BY AreaOfSize DEF Sound, ConsoleRecord
<1>5. CASE Area(con.buffer) > Area(layout)
  <2> DEFINE shown == SetConsoleWindowInfo(least, rect)
  <2>1. Resized(least, layout, rect) = SetConsoleScreenBufferSize(shown, layout)
    BY <1>2, <1>4, <1>5 DEF Resized
  <2>2. /\ shown \in ConsoleRecord
        /\ shown.window = IF Within(rect, con.buffer) THEN rect ELSE Minimal
        /\ shown.buffer = con.buffer /\ shown.largest = con.largest
        /\ shown.csbiOrigin = con.csbiOrigin
    BY <1>1, <1>2 DEF SetConsoleWindowInfo, ConsoleRecord
  <2> HIDE DEF shown
  <2>3. Within(shown.window, layout)
    BY <1>1, <2>2
  <2>4. Resized(least, layout, rect) = [shown EXCEPT !.buffer = layout]
    BY <2>1, <2>3 DEF SetConsoleScreenBufferSize
  <2>5. /\ new \in ConsoleRecord /\ new.buffer = layout /\ new.window = shown.window
        /\ new.rectWindow = rect /\ new.largest = con.largest /\ new.csbiOrigin = con.csbiOrigin
    <3>1. new = [[shown EXCEPT !.buffer = layout] EXCEPT !.rectWindow = rect]
      BY <1>3, <2>4, Zenon
    <3>2. layout \in Size /\ rect \in Size /\ shown \in ConsoleRecord
      BY <1>1, <2>2
    <3>3. new \in ConsoleRecord
      BY <3>1, <3>2 DEF ConsoleRecord
    <3>4. /\ new.buffer = layout /\ new.window = shown.window /\ new.rectWindow = rect
          /\ new.largest = shown.largest /\ new.csbiOrigin = shown.csbiOrigin
      BY <3>1, <3>2 DEF ConsoleRecord
    <3> QED
      BY <2>2, <3>3, <3>4
  <2> QED
    BY <1>4, <1>5, <2>2, <2>3, <2>5 DEF Sound
<1>6. CASE Area(con.buffer) < Area(layout)
  <2> DEFINE grown == SetConsoleScreenBufferSize(least, layout)
  <2>1. Resized(least, layout, rect) = SetConsoleWindowInfo(grown, rect)
    BY <1>2, <1>4, <1>6 DEF Resized
  <2>2. grown = [least EXCEPT !.buffer = layout]
    BY <1>2 DEF SetConsoleScreenBufferSize
  <2>3. Resized(least, layout, rect) = [[least EXCEPT !.buffer = layout] EXCEPT !.window = rect]
    BY <1>1, <1>2, <2>1, <2>2 DEF SetConsoleWindowInfo, ConsoleRecord
  <2>4. /\ new \in ConsoleRecord /\ new.buffer = layout /\ new.window = rect
        /\ new.rectWindow = rect /\ new.largest = con.largest /\ new.csbiOrigin = con.csbiOrigin
    <3>1. new = [[[least EXCEPT !.buffer = layout] EXCEPT !.window = rect] EXCEPT !.rectWindow = rect]
      BY <1>3, <2>3, Zenon
    <3>2. layout \in Size /\ rect \in Size /\ least \in ConsoleRecord
      BY <1>1, <1>2
    <3>3. new \in ConsoleRecord
      BY <3>1, <3>2 DEF ConsoleRecord
    <3>4. /\ new.buffer = layout /\ new.window = rect /\ new.rectWindow = rect
          /\ new.largest = least.largest /\ new.csbiOrigin = least.csbiOrigin
      BY <3>1, <3>2 DEF ConsoleRecord
    <3> QED
      BY <1>2, <3>3, <3>4
  <2> QED
    BY <1>1, <1>4, <1>6, <2>4 DEF Sound
<1>7. CASE Area(con.buffer) = Area(layout)
  <2>1. Resized(least, layout, rect) = least
    BY <1>2, <1>4, <1>7 DEF Resized
  <2>2. /\ new \in ConsoleRecord /\ new.buffer = con.buffer /\ new.window = Minimal
        /\ new.rectWindow = rect /\ new.largest = con.largest /\ new.csbiOrigin = con.csbiOrigin
    BY <1>1, <1>2, <1>3, <2>1 DEF ConsoleRecord
  <2> QED
    BY <1>4, <1>7, <2>2 DEF Sound
<1> QED
  BY <1>4, <1>5, <1>6, <1>7
-----------------------------------------------------------------------------
(* The console of the program.                                             *)

LEMMA LayoutSizes ==
    ASSUME HostOK
    PROVE  /\ host = Server => Layouts = <<ServerLayout>> /\ Len(Layouts) = 1
           /\ host # Server => /\ Len(Layouts) = 3
                               /\ Layouts[1] = BuiltIn[1] /\ Layouts[2] = BuiltIn[2]
                               /\ Layouts[3] = <<m_map_width, m_map_height + 5>>
           /\ \A j \in 1..Len(Layouts) : Layouts[j] \in Size /\ Within(Minimal, Layouts[j])
           /\ BufferSize \in Size
           /\ Within(BufferSize, Layouts[Len(Layouts)])
<1>1. /\ m_map_width \in Nat /\ m_map_width >= 3
      /\ m_map_height \in Nat /\ m_map_height >= 3 /\ m_map_height = envHeight
  BY MapSizes DEF m_map_height
<1>2. CASE host = Server
  <2>1. Layouts = <<ServerLayout>> /\ Len(Layouts) = 1 /\ Layouts[1] = ServerLayout
    BY <1>2 DEF Layouts
  <2>2. /\ ServerLayout \in Size /\ BufferSize = <<envWidth, envHeight>>
        /\ envWidth \in Nat /\ envWidth >= 3 /\ Within(<<envWidth, envHeight>>, ServerLayout)
    BY <1>2, DisplayAssumption DEF BufferSize, Size
  <2>3. Within(Minimal, ServerLayout)
    BY <1>1, <2>2 DEF Within, Minimal, Size
  <2> QED
    BY <1>1, <1>2, <2>1, <2>2, <2>3 DEF Size
<1>3. CASE host # Server
  <2> DEFINE last == <<m_map_width, m_map_height + 5>>
  <2>1. last \in Size /\ Within(Minimal, last) /\ BuiltIn \in Seq(Size) /\ Len(BuiltIn) = 2
    BY <1>1, DisplayAssumption DEF Size, Within, Minimal
  <2>2. Layouts = Append(BuiltIn, last)
    BY <1>3 DEF Layouts
  <2>3. /\ Len(Layouts) = 3 /\ Layouts[1] = BuiltIn[1] /\ Layouts[2] = BuiltIn[2]
        /\ Layouts[3] = last
    <3> HIDE DEF last
    <3>a. BuiltIn \in Seq(Size) /\ last \in Size
      BY <2>1
    <3>1. /\ Len(Layouts) = Len(BuiltIn) + 1 /\ Layouts[Len(BuiltIn) + 1] = last
          /\ \A j \in 1..Len(BuiltIn) : Layouts[j] = BuiltIn[j]
      BY <2>2, <3>a, AppendProperties, Zenon
    <3> QED
      BY <2>1, <3>1
  <2>4. \A j \in 1..2 : BuiltIn[j] \in Size /\ Within(Minimal, BuiltIn[j])
    BY <2>1, ElementOfSeq, DisplayAssumption
  <2>5. BufferSize \in Size /\ Within(BufferSize, last)
    BY <1>1, <1>3 DEF BufferSize, Size, Within
  <2>6. \A j \in 1..3 : j = 1 \/ j = 2 \/ j = 3
    OBVIOUS
  <2> QED
    BY <1>3, <2>1, <2>3, <2>4, <2>5, <2>6
<1> QED
  BY <1>2, <1>3

(* The window of a console shows what the display has room for of a buffer. *)
Shows(con, size) ==
    LET place == Smaller(size, con.largest)
    IN /\ Within(size, con.buffer)
       /\ Within(place, con.window)
       /\ Within(place, con.rectWindow)

(* Where only one layout is tried, it must not be refused. *)
OneStep(con) ==
    \/ Area(con.csbiOrigin) < Area(ServerLayout)
    \/ Within(ServerLayout, con.csbiOrigin) /\ ServerLayout # con.csbiOrigin

ConsoleInv ==
    /\ Sound(console)
    /\ created \in 0..Len(Layouts)
    /\ created = 0 => console.buffer = console.csbiOrigin
    /\ host = Server /\ created = 1 /\ OneStep(console) => Shows(console, BufferSize)
    /\ host # Server =>
          /\ created = 1 => Area(console.buffer) = Area(BuiltIn[1])
          /\ created = 2 => console.buffer = BuiltIn[2]
          /\ created = 3 => Shows(console, BufferSize)

LEMMA ShownThen ==
    ASSUME NEW con, Sound(con), NEW size \in Size, NEW layout \in Size, Within(size, layout),
           con.buffer = layout, con.window = Smaller(layout, con.largest),
           con.rectWindow = Smaller(layout, con.largest)
    PROVE  Shows(con, size)
<1>1. con.largest \in Size
  BY DEF Sound, ConsoleRecord
<1>2. /\ Smaller(size, con.largest) \in Size
      /\ Within(Smaller(size, con.largest), size)
      /\ Within(Smaller(size, con.largest), con.largest)
  BY <1>1, SmallerOfTwo
<1>3. Within(Smaller(size, con.largest), layout)
  BY <1>2, WithinTransitive
<1>4. Within(Smaller(size, con.largest), Smaller(layout, con.largest))
  BY <1>1, <1>2, <1>3, SmallerOfTwo
<1> QED
  BY <1>4 DEF Shows

LEMMA WrittenShows ==
    ASSUME NEW con, Sound(con), NEW size \in Size,
           NEW new, new = write_raw_buffer(con, size)
    PROVE  /\ Sound(new)
           /\ new.buffer = con.buffer /\ new.csbiOrigin = con.csbiOrigin
           /\ Shows(con, size) => Shows(new, size)
<1>1. /\ con.largest \in Size /\ con.buffer \in Size /\ con.rectWindow \in Size
  BY DEF Sound, ConsoleRecord
<1> DEFINE written == Smaller(size, con.buffer)
<1>2. written \in Size /\ Smaller(con.rectWindow, written) \in Size
  BY <1>1, SmallerOfTwo
<1>3. new = [con EXCEPT !.rectWindow = Smaller(con.rectWindow, written)]
  BY DEF write_raw_buffer
<1>4. /\ new \in ConsoleRecord /\ new.buffer = con.buffer /\ new.window = con.window
      /\ new.largest = con.largest /\ new.csbiOrigin = con.csbiOrigin
      /\ new.rectWindow = Smaller(con.rectWindow, written)
  BY <1>2, <1>3 DEF Sound, ConsoleRecord
<1>5. Sound(new)
  BY <1>4 DEF Sound
<1>6. ASSUME Shows(con, size) PROVE Shows(new, size)
  <2> DEFINE place == Smaller(size, con.largest)
  <2>1. /\ place \in Size /\ Within(place, size)
        /\ Within(size, con.buffer) /\ Within(place, con.window) /\ Within(place, con.rectWindow)
    BY <1>1, <1>6, SmallerOfTwo DEF Shows
  <2> HIDE DEF place
  <2>2. Within(place, con.buffer)
    BY <1>1, <2>1, WithinTransitive
  <2>3. Within(place, written)
    BY <1>1, <2>1, <2>2, SmallerOfTwo
  <2>4. Within(place, Smaller(con.rectWindow, written))
    BY <1>1, <1>2, <2>1, <2>3, SmallerOfTwo
  <2> QED
    BY <1>4, <2>1, <2>4 DEF Shows, place
<1> QED
  BY <1>4, <1>5, <1>6

(* What depends on the host only. *)
LEMMA HostStays ==
    ASSUME host' = host
    PROVE  /\ HostOK' <=> HostOK
           /\ Maps' = Maps /\ Layouts' = Layouts /\ BufferSize' = BufferSize /\ Screen' = Screen
           /\ \A i : m_config(i)' = m_config(i)
<1>1. Maps' = Maps /\ Layouts' = Layouts /\ BufferSize' = BufferSize
  BY DEF Maps, Layouts, BufferSize
<1>2. Layout' = Layout /\ Screen' = Screen
  BY <1>1 DEF Layout, Screen
<1>3. \A i : m_config(i)' = m_config(i)
  BY <1>2 DEF m_config
<1> QED
  BY <1>1, <1>2, <1>3 DEF HostOK

LEMMA ConsoleCreate ==
    ASSUME HostOK, ConsoleInv, CreateConsole
    PROVE  ConsoleInv'
<1> DEFINE layout == Layouts[created + 1]
           rect == Smaller(layout, console.largest)
           new == create_console(console, layout)
<1>1. /\ created < Len(Layouts) /\ created' = created + 1 /\ console' = new /\ host' = host
      /\ created \in 0..Len(Layouts) /\ Len(Layouts) \in {1, 3}
  BY LayoutSizes DEF CreateConsole, ConsoleInv
<1>2. Layouts' = Layouts /\ BufferSize' = BufferSize
  BY <1>1, HostStays
<1>3. layout \in Size /\ Within(Minimal, layout) /\ Sound(console)
  BY <1>1, LayoutSizes DEF ConsoleInv
<1>4. /\ Sound(new)
      /\ new.largest = console.largest /\ new.csbiOrigin = console.csbiOrigin
      /\ new.rectWindow = rect
      /\ new.buffer = IF Area(console.buffer) = Area(layout) THEN console.buffer ELSE layout
      /\ Area(console.buffer) < Area(layout) => new.window = rect
      /\ Area(console.buffer) > Area(layout) /\ Within(rect, console.buffer) => new.window = rect
  <2> HIDE DEF layout
  <2> QED
    BY <1>3, ConsoleCreated
<1> HIDE DEF new
<1>5. created' \in 0..Len(Layouts) /\ created' # 0
  BY <1>1
<1>6. CASE host = Server
  <2>a. Layouts = <<ServerLayout>> /\ Len(Layouts) = 1
    BY <1>6, LayoutSizes
  <2>b. created = 0 /\ created + 1 = 1
    BY <1>1, <2>a
  <2>1. created = 0 /\ layout = ServerLayout /\ Len(Layouts) = 1
    BY <2>a, <2>b
  <2>2. /\ console.buffer = console.csbiOrigin /\ console.csbiOrigin \in Size
        /\ BufferSize \in Size /\ Within(BufferSize, layout) /\ console.largest \in Size
    BY <1>3, <1>6, <2>1, LayoutSizes DEF ConsoleInv, Sound, ConsoleRecord
  <2>3. ASSUME OneStep(new) PROVE Shows(new, BufferSize)
    <3>1. /\ Area(console.buffer) \in Nat /\ Area(layout) \in Nat
          /\ rect \in Size /\ Within(rect, layout)
      BY <1>3, <2>2, AreaOfSize, SmallerOfTwo
    <3>2. \/ Area(console.buffer) < Area(layout)
          \/ Within(layout, console.buffer) /\ layout # console.buffer
      BY <1>4, <2>1, <2>2, <2>3 DEF OneStep
    <3>3. CASE Area(console.buffer) < Area(layout)
      BY <1>3, <1>4, <2>2, <3>1, <3>3, ShownThen
    <3>4. CASE Within(layout, console.buffer) /\ layout # console.buffer
      <4>1. Area(layout) < Area(console.buffer)
        BY <1>3, <2>2, <3>4, AreaGrows
      <4>2. Within(rect, console.buffer)
        BY <1>3, <2>2, <3>1, <3>4, WithinTransitive
      <4> QED
        BY <1>3, <1>4, <2>2, <3>1, <4>1, <4>2, ShownThen
    <3> QED
      BY <3>2, <3>3, <3>4
  <2> QED
    BY <1>1, <1>2, <1>4, <1>5, <1>6, <2>1, <2>3 DEF ConsoleInv
<1>7. CASE host # Server
  <2>1. /\ Len(Layouts) = 3 /\ created \in {0, 1, 2}
        /\ Layouts[1] = BuiltIn[1] /\ Layouts[2] = BuiltIn[2]
        /\ Layouts[3] = <<m_map_width, m_map_height + 5>>
        /\ Layouts[1] \in Size /\ Layouts[2] \in Size /\ Layouts[3] \in Size
    <3>1. /\ Len(Layouts) = 3
          /\ Layouts[1] = BuiltIn[1] /\ Layouts[2] = BuiltIn[2]
          /\ Layouts[3] = <<m_map_width, m_map_height + 5>>
      BY <1>7, LayoutSizes
    <3>2. \A j \in 1..3 : Layouts[j] \in Size
      BY <3>1, LayoutSizes
    <3>3. created \in {0, 1, 2}
      BY <1>1, <3>1
    <3> QED
      BY <3>1, <3>2, <3>3
  <2>2. /\ Area(Layouts[1]) \in Nat /\ Area(Layouts[2]) \in Nat /\ Area(Layouts[3]) \in Nat
        /\ Area(Layouts[2]) < Area(Layouts[1]) /\ Area(Layouts[2]) < Area(Layouts[3])
    BY <2>1, AreaOfSize, DisplayAssumption
  <2>3. CASE created = 0
    <3>1. Area(new.buffer) = Area(BuiltIn[1]) /\ created' = 1
      BY <1>1, <1>4, <2>1, <2>3
    <3> QED
      BY <1>1, <1>2, <1>4, <1>5, <1>7, <3>1 DEF ConsoleInv
  <2>4. CASE created = 1
    <3>1. Area(console.buffer) = Area(Layouts[1])
      BY <1>7, <2>1, <2>4 DEF ConsoleInv
    <3>2. new.buffer = BuiltIn[2] /\ created' = 2
      BY <1>1, <1>4, <2>1, <2>2, <2>4, <3>1
    <3> QED
      BY <1>1, <1>2, <1>4, <1>5, <1>7, <3>2 DEF ConsoleInv
  <2>5. CASE created = 2
    <3>1. Area(console.buffer) < Area(layout)
      BY <1>7, <2>1, <2>2, <2>5 DEF ConsoleInv
    <3>2. new.buffer = layout /\ new.window = rect /\ created' = 3
      BY <1>1, <1>4, <2>1, <2>2, <2>5, <3>1
    <3>3. BufferSize \in Size /\ Within(BufferSize, layout)
      BY <2>1, <2>5, LayoutSizes
    <3>4. Shows(new, BufferSize)
      BY <1>3, <1>4, <3>2, <3>3, ShownThen
    <3> QED
      BY <1>1, <1>2, <1>4, <1>5, <1>7, <3>2, <3>4 DEF ConsoleInv
  <2> QED
    BY <2>1, <2>3, <2>4, <2>5
<1> QED
  BY <1>6, <1>7

-----------------------------------------------------------------------------
(* Types, and what happens when.                                           *)

Fed(i) == entities[i] # <<>>

StateOK ==
    /\ HostOK
    /\ started \subseteq Maps /\ pending \subseteq Maps /\ skipped \subseteq Maps
    /\ entities \in [Maps -> Seq(Entity)]
    /\ \A i \in Maps : Len(entities[i]) \in {0, MapEntities}
    /\ cells \in [Maps -> [Cells -> Entity \union {Nobody}]]
    /\ buffer \in [Screen -> {"blank", "wall", "entity"}]
    /\ moves \in 0..MaxMoves
    /\ created \in 0..Len(Layouts)

(* The console before the entities, these before the threads, and only the
   entities of a client, once it has them, move. *)
Ordered ==
    /\ \A i \in Maps : Fed(i) => created = Len(Layouts)
    /\ started # {} => \A i \in Maps : Fed(i)
    /\ \A i \in pending \union skipped : Fed(i)
    /\ host = Server => moves = 0
    /\ moves = 0 => pending = {} /\ skipped = {}

LEMMA FedLength ==
    ASSUME StateOK, NEW i \in Maps
    PROVE  /\ entities[i] \in Seq(Entity)
           /\ ~Fed(i) => entities[i] = <<>> /\ DOMAIN entities[i] = {}
           /\ Fed(i) => Len(entities[i]) = MapEntities /\ MapEntities # 0
           /\ DOMAIN entities[i] = 1..Len(entities[i]) /\ Len(entities[i]) \in Nat
           /\ \A n \in DOMAIN entities[i] : entities[i][n] \in Entity
<1>1. entities[i] \in Seq(Entity) /\ Len(entities[i]) \in {0, MapEntities}
  BY DEF StateOK
<1>2. DOMAIN entities[i] = 1..Len(entities[i]) /\ Len(entities[i]) \in Nat
  BY <1>1, LenProperties
<1>3. entities[i] = <<>> <=> Len(entities[i]) = 0
  BY <1>1, EmptySeq
<1>4. Fed(i) => Len(entities[i]) = MapEntities /\ MapEntities # 0
  BY <1>1, <1>3 DEF Fed
<1>5. \A n \in DOMAIN entities[i] : entities[i][n] \in Entity
  BY <1>1, <1>2, ElementOfSeq
<1>6. ~Fed(i) => DOMAIN entities[i] = {}
  BY <1>2, <1>3 DEF Fed
<1> QED
  BY <1>1, <1>2, <1>4, <1>5, <1>6 DEF Fed

(* What the loop of update_entities() leaves: of the entities that came from a cell
   or stand on it, the last one decides. *)
Touching(es, c) == {n \in DOMAIN es : c \in {Previous(es[n]), Position(es[n])}}
LeftBy(e, c) == IF c = Position(e) THEN e ELSE Nobody
AfterLoop(now, es) ==
    [c \in Cells |-> IF Touching(es, c) = {} THEN now[c]
                     ELSE LeftBy(es[Max(Touching(es, c))], c)]

LEMMA TouchingBounded ==
    ASSUME NEW es \in Seq(Entity), NEW c, Touching(es, c) # {}
    PROVE  /\ Max(Touching(es, c)) \in DOMAIN es
           /\ Max(Touching(es, c)) \in Touching(es, c)
           /\ \A n \in Touching(es, c) : n <= Max(Touching(es, c))
           /\ es[Max(Touching(es, c))] \in Entity
<1>1. DOMAIN es = 1..Len(es) /\ Len(es) \in Nat
  BY LenProperties
<1>2. Touching(es, c) \in SUBSET (1..Len(es)) /\ Touching(es, c) \subseteq DOMAIN es
  BY <1>1 DEF Touching
<1>3. /\ Max(Touching(es, c)) \in Touching(es, c)
      /\ \A n \in Touching(es, c) : n <= Max(Touching(es, c))
  BY <1>1, <1>2, MaxIsIn
<1>4. Max(Touching(es, c)) \in 1..Len(es)
  BY <1>2, <1>3
<1>5. es[Max(Touching(es, c))] \in Entity
  BY <1>4, ElementOfSeq
<1> QED
  BY <1>2, <1>3, <1>5

(* The same of the entities with numbers in s alone. *)
AfterSome(now, es, s) ==
    [c \in Cells |-> IF Touching(es, c) \intersect s = {} THEN now[c]
                     ELSE LeftBy(es[Max(Touching(es, c) \intersect s)], c)]

LEMMA MaxIs ==
    ASSUME NEW n \in Nat, NEW S \in SUBSET (1..n), NEW m \in S, \A k \in S : k <= m
    PROVE  Max(S) = m
<1>1. S # {} /\ Max(S) \in S /\ \A k \in S : k <= Max(S)
  BY MaxIsIn
<1> DEFINE M == Max(S)
<1>2. M \in 1..n /\ m \in 1..n /\ m <= M /\ M <= m
  BY <1>1
<1> HIDE DEF M
<1>3. M = m
  BY <1>2
<1> QED
  BY <1>3 DEF M

LEMMA OneMore ==
    ASSUME NEW es \in Seq(Entity), NEW now, NEW s \in SUBSET (1..Len(es)), s # {}
    PROVE  AfterSome(now, es, s) =
             [AfterSome(now, es, s \ {Max(s)}) EXCEPT ![Previous(es[Max(s)])] = Nobody,
                                                      ![Position(es[Max(s)])] = es[Max(s)]]
<1> DEFINE m == Max(s)
           e == es[m]
           before == AfterSome(now, es, s \ {m})
<1>1. DOMAIN es = 1..Len(es) /\ Len(es) \in Nat
  BY LenProperties
<1>2. m \in s /\ (\A k \in s : k <= m) /\ m \in 1..Len(es)
  BY <1>1, MaxIsIn
<1> HIDE DEF m
<1>3. ASSUME NEW c \in Cells, c \in {Previous(e), Position(e)}
      PROVE  AfterSome(now, es, s)[c] = LeftBy(e, c)
  <2>1. m \in Touching(es, c) \intersect s
    BY <1>1, <1>2, <1>3 DEF Touching
  <2>2. Max(Touching(es, c) \intersect s) = m
    <3>1. Touching(es, c) \intersect s \in SUBSET (1..Len(es))
          /\ \A k \in Touching(es, c) \intersect s : k <= m
      BY <1>2
    <3> QED
      BY <1>1, <2>1, <3>1, MaxIs, Zenon
  <2> QED
    BY <2>1, <2>2 DEF AfterSome
<1>4. ASSUME NEW c \in Cells, c \notin {Previous(e), Position(e)}
      PROVE  AfterSome(now, es, s)[c] = before[c]
  <2>1. Touching(es, c) \intersect s = Touching(es, c) \intersect (s \ {m})
    BY <1>4 DEF Touching
  <2> QED
    BY <2>1 DEF AfterSome
<1>5. DOMAIN before = Cells /\ before = [c \in Cells |-> before[c]]
  BY DEF AfterSome
<1>6. AfterSome(now, es, s) = [c \in Cells |-> AfterSome(now, es, s)[c]]
  BY DEF AfterSome
<1> HIDE DEF before, e
<1>7. AfterSome(now, es, s) = [before EXCEPT ![Previous(e)] = Nobody, ![Position(e)] = e]
  <2>1. \A c \in Cells : AfterSome(now, es, s)[c] =
          IF c = Position(e) THEN e ELSE IF c = Previous(e) THEN Nobody ELSE before[c]
    BY <1>3, <1>4 DEF LeftBy
  <2>2. [before EXCEPT ![Previous(e)] = Nobody, ![Position(e)] = e]
          = [c \in Cells |-> IF c = Position(e) THEN e
                             ELSE IF c = Previous(e) THEN Nobody ELSE before[c]]
    BY <1>5
  <2> QED
    BY <1>6, <2>1, <2>2
<1> QED
  BY <1>7 DEF before, e, m

(* The loop, for vectors of any length: whatever the fold is, it is this function of
   the entities it has seen. *)
THEOREM LoopLeaves ==
    ASSUME NEW es \in Seq(Entity), NEW now, now = [c \in Cells |-> now[c]]
    PROVE  Replaced(now, es) = AfterLoop(now, es)
<1> DEFINE D == DOMAIN es
           Step(h, s) == IF s = {} THEN now
                         ELSE [h[s \ {Max(s)}] EXCEPT ![Previous(es[Max(s)])] = Nobody,
                                                      ![Position(es[Max(s)])] = es[Max(s)]]
           Fold == CHOOSE h : h = [s \in SUBSET D |-> Step(h, s)]
           g == [s \in SUBSET D |-> AfterSome(now, es, s)]
           Good == {s \in SUBSET D : Fold[s] = g[s]}
<1>1. Replaced(now, es) = Fold[D]
  BY Zenon DEF Replaced, FoldLeft, MapThenFoldSet
<1>2. D = 1..Len(es) /\ Len(es) \in Nat
  BY LenProperties
<1>3. AfterSome(now, es, {}) = now
  BY DEF AfterSome
<1>4. g = [s \in SUBSET D |-> Step(g, s)]
  <2>1. ASSUME NEW s \in SUBSET D PROVE AfterSome(now, es, s) = Step(g, s)
    <3>1. CASE s = {}
      BY <1>3, <3>1
    <3>2. CASE s # {}
      <4>1. s \ {Max(s)} \in SUBSET D
        OBVIOUS
      <4>2. g[s \ {Max(s)}] = AfterSome(now, es, s \ {Max(s)})
        BY <4>1
      <4>3. Step(g, s) = [g[s \ {Max(s)}] EXCEPT ![Previous(es[Max(s)])] = Nobody,
                                                 ![Position(es[Max(s)])] = es[Max(s)]]
        BY <3>2
      <4>4. AfterSome(now, es, s) =
              [AfterSome(now, es, s \ {Max(s)}) EXCEPT ![Previous(es[Max(s)])] = Nobody,
                                                       ![Position(es[Max(s)])] = es[Max(s)]]
        BY <1>2, <3>2, OneMore
      <4> HIDE DEF g, Step
      <4> QED
        BY <4>2, <4>3, <4>4, Zenon
    <3> QED
      BY <3>1, <3>2
  <2> QED
    BY <2>1, Zenon
<1>5. Fold = [s \in SUBSET D |-> Step(Fold, s)]
  <2> HIDE DEF g
  <2> QED
    BY <1>4, Zenon
<1> HIDE DEF Fold, g
<1>6. {} \in Good /\ \A s \in SUBSET (1..Len(es)) : s # {} /\ s \ {Max(s)} \in Good => s \in Good
  <2>1. \A s \in SUBSET D : Fold[s] = Step(Fold, s) /\ g[s] = Step(g, s)
    <3> HIDE DEF Step
    <3> QED
      BY <1>4, <1>5, Zenon
  <2>2. Fold[{}] = g[{}]
    BY <2>1
  <2>3. ASSUME NEW s \in SUBSET D, s # {}, Fold[s \ {Max(s)}] = g[s \ {Max(s)}]
        PROVE  Fold[s] = g[s]
    <3>1. Step(Fold, s) = Step(g, s)
      BY <2>3, Zenon
    <3> QED
      BY <2>1, <3>1, Zenon
  <2> QED
    BY <1>2, <2>2, <2>3
<1> HIDE DEF Good
<1>7. D \in Good
  BY <1>2, <1>6, WithoutTheLast
<1>8. Fold[D] = AfterSome(now, es, D)
  BY <1>7 DEF Good, g
<1>9. AfterSome(now, es, D) = AfterLoop(now, es)
  <2>1. \A c \in Cells : Touching(es, c) \intersect D = Touching(es, c)
    BY DEF Touching
  <2> QED
    BY <2>1 DEF AfterSome, AfterLoop
<1> QED
  BY <1>1, <1>8, <1>9

LEMMA ReplacedType ==
    ASSUME NEW es \in Seq(Entity), NEW now \in [Cells -> Entity \union {Nobody}]
    PROVE  AfterLoop(now, es) \in [Cells -> Entity \union {Nobody}]
<1>1. ASSUME NEW c \in Cells, Touching(es, c) # {}
      PROVE  LeftBy(es[Max(Touching(es, c))], c) \in Entity \union {Nobody}
  BY <1>1, TouchingBounded DEF LeftBy
<1> QED
  BY <1>1 DEF AfterLoop

LEMMA DrawnType ==
    ASSUME NEW S, NEW screen \in [S -> {"blank", "wall", "entity"}], NEW points,
           NEW symb \in {"wall", "entity"}
    PROVE  /\ write_character(screen, points, symb) \in [S -> {"blank", "wall", "entity"}]
           /\ \A p \in S : write_character(screen, points, symb)[p] =
                             IF p \in points THEN symb ELSE screen[p]
  BY DEF write_character

LEMMA TypedUpdate ==
    ASSUME StateOK, NEW i \in Maps, NEW es \in Seq(Entity), Len(es) \in {0, MapEntities},
           host' = host, entities' = [entities EXCEPT ![i] = es], update_entities(i, es)
    PROVE  /\ entities' \in [Maps -> Seq(Entity)]
           /\ \A j \in Maps : Len(entities'[j]) \in {0, MapEntities}
           /\ cells' \in [Maps -> [Cells -> Entity \union {Nobody}]]
           /\ cells'[i] = AfterLoop(cells[i], es)
           /\ \A j \in Maps : j # i => cells'[j] = cells[j]
           /\ buffer' \in [Screen -> {"blank", "wall", "entity"}]
<1>1. cells[i] \in [Cells -> Entity \union {Nobody}] /\ buffer \in [Screen -> {"blank", "wall", "entity"}]
  BY DEF StateOK
<1>2. AfterLoop(cells[i], es) \in [Cells -> Entity \union {Nobody}]
  BY <1>1, ReplacedType
<1>a. Replaced(cells[i], es) = AfterLoop(cells[i], es)
  BY <1>1, LoopLeaves
<1>3. /\ cells' \in [Maps -> [Cells -> Entity \union {Nobody}]]
      /\ cells'[i] = AfterLoop(cells[i], es)
      /\ \A j \in Maps : j # i => cells'[j] = cells[j]
  BY <1>2, <1>a DEF update_entities, StateOK
<1>4. buffer' \in [Screen -> {"blank", "wall", "entity"}]
  BY <1>1, DrawnType DEF update_entities, render
<1>5. /\ entities' \in [Maps -> Seq(Entity)]
      /\ \A j \in Maps : Len(entities'[j]) \in {0, MapEntities}
  BY DEF StateOK
<1> QED
  BY <1>3, <1>4, <1>5

(* Where entities are when they come, and what a move does to them. *)
Inner(e) == e.x \in 1..(m_map_width - 2) /\ e.y \in 1..(m_map_height - 2)

LEMMA FedEntities ==
    ASSUME StateOK, NEW i \in Maps, Feed(i)
    PROVE  \E es \in Seq(Entity) :
             /\ entities' = [entities EXCEPT ![i] = es]
             /\ Len(es) = MapEntities /\ DOMAIN es = 1..MapEntities
             /\ \A n \in DOMAIN es : Inner(es[n])
             /\ update_entities(i, es)
<1>1. PICK place \in [1..MapEntities -> Interior] :
         entities' = [entities EXCEPT ![i] =
            [n \in 1..MapEntities |-> [id |-> n, x |-> place[n][1], y |-> place[n][2],
                                       velo_x |-> 0, velo_y |-> 0]]]
  BY DEF Feed
<1> DEFINE es == [n \in 1..MapEntities |-> [id |-> n, x |-> place[n][1], y |-> place[n][2],
                                            velo_x |-> 0, velo_y |-> 0]]
<1>2. MapEntities \in Nat /\ MaxVelo \in Nat
  BY DisplayAssumption
<1>3. ASSUME NEW n \in 1..MapEntities
      PROVE  es[n] \in Entity /\ Inner(es[n])
  <2>1. place[n] \in (1..(m_map_width - 1 - 1)) \X (1..(m_map_height - 1 - 1))
    BY DEF Interior, rand
  <2>2. /\ place[n][1] \in 1..(m_map_width - 2) /\ place[n][2] \in 1..(m_map_height - 2)
        /\ place[n][1] \in 0..(m_map_width - 1) /\ place[n][2] \in 0..(m_map_height - 1)
    BY <2>1, MapSizes
  <2>3. es[n] = [id |-> n, x |-> place[n][1], y |-> place[n][2], velo_x |-> 0, velo_y |-> 0]
    OBVIOUS
  <2> HIDE DEF es
  <2> QED
    BY <1>2, <2>2, <2>3 DEF Entity, Inner
<1>4. es \in [1..MapEntities -> Entity] /\ DOMAIN es = 1..MapEntities
  BY <1>3
<1> HIDE DEF es
<1>5. es \in Seq(Entity) /\ Len(es) = MapEntities
  BY <1>2, <1>4, IsASeq, LenProperties
<1>6. entities' = [entities EXCEPT ![i] = es] /\ i \in DOMAIN entities
  BY <1>1 DEF es, StateOK
<1>7. entities'[i] = es
  BY <1>6
<1>8. update_entities(i, es)
  BY <1>7 DEF Feed
<1> QED
  BY <1>3, <1>4, <1>5, <1>6, <1>8

LEMMA MovedEntities ==
    ASSUME StateOK, NEW i \in Maps, Move(i)
    PROVE  /\ Fed(i)
           /\ \E es \in Seq(Entity) :
                /\ entities' = [entities EXCEPT ![i] = es]
                /\ Len(es) = MapEntities /\ DOMAIN es = 1..MapEntities
                /\ \A n \in 1..MapEntities : Previous(es[n]) = Position(entities[i][n])
<1>1. PICK velo \in [1..MapEntities -> (0..MaxVelo) \X (0..MaxVelo)] :
         LET after == [n \in 1..MapEntities |->
                         [id |-> n, x |-> entities[i][n].x + velo[n][1],
                          y |-> entities[i][n].y + velo[n][2],
                          velo_x |-> velo[n][1], velo_y |-> velo[n][2]]]
         IN /\ \A n \in 1..MapEntities : after[n] \in Entity
            /\ entities' = [entities EXCEPT ![i] = after]
  BY DEF Move
<1> DEFINE es == [n \in 1..MapEntities |->
                         [id |-> n, x |-> entities[i][n].x + velo[n][1],
                          y |-> entities[i][n].y + velo[n][2],
                          velo_x |-> velo[n][1], velo_y |-> velo[n][2]]]
<1>2. MapEntities \in Nat /\ MaxVelo \in Nat
  BY DisplayAssumption
<1>3. /\ \A n \in 1..MapEntities : es[n] \in Entity
      /\ entities' = [entities EXCEPT ![i] = es]
  BY <1>1
<1>4. Fed(i)
  BY DEF Move, Fed
<1>5. ASSUME NEW n \in 1..MapEntities PROVE Previous(es[n]) = Position(entities[i][n])
  <2>1. entities[i][n] \in Entity
    BY <1>4, FedLength
  <2>2. entities[i][n].x \in Int /\ entities[i][n].y \in Int
    BY <2>1, MapSizes DEF Entity
  <2>3. velo[n][1] \in Int /\ velo[n][2] \in Int
    BY <1>2
  <2>4. /\ es[n].x = entities[i][n].x + velo[n][1] /\ es[n].velo_x = velo[n][1]
        /\ es[n].y = entities[i][n].y + velo[n][2] /\ es[n].velo_y = velo[n][2]
    OBVIOUS
  <2> HIDE DEF es
  <2>5. es[n].y - es[n].velo_y = entities[i][n].y /\ es[n].x - es[n].velo_x = entities[i][n].x
    BY <2>2, <2>3, <2>4
  <2> QED
    BY <2>5 DEF Previous, Position
<1>6. es \in [1..MapEntities -> Entity] /\ DOMAIN es = 1..MapEntities
  BY <1>3
<1> HIDE DEF es
<1>7. es \in Seq(Entity) /\ Len(es) = MapEntities
  BY <1>2, <1>6, IsASeq, LenProperties
<1> QED
  BY <1>3, <1>4, <1>5, <1>6, <1>7

StateInv == StateOK /\ Ordered /\ ConsoleInv

(* What every step keeps: the host, and what hangs on it. *)
LEMMA HostKept == ASSUME [Next]_vars PROVE host' = host
  BY DEF Next, CreateConsole, Feed, StartUp, Move, Update, vars, mapVars

LEMMA StateFeed ==
    ASSUME StateOK, Ordered, NEW i \in Maps, Feed(i) PROVE StateOK' /\ Ordered'
<1>1. PICK es \in Seq(Entity) :
             /\ entities' = [entities EXCEPT ![i] = es]
             /\ Len(es) = MapEntities
             /\ update_entities(i, es)
  BY FedEntities
<1>2. /\ host' = host /\ started' = started /\ pending' = pending /\ skipped' = skipped
      /\ moves' = moves /\ created' = created /\ created = Len(Layouts) /\ entities[i] = <<>>
  BY DEF Feed
<1>3. /\ HostOK' <=> HostOK
      /\ Maps' = Maps /\ Layouts' = Layouts /\ Screen' = Screen
  BY <1>2, HostStays
<1>4. /\ entities' \in [Maps -> Seq(Entity)]
      /\ \A j \in Maps : Len(entities'[j]) \in {0, MapEntities}
      /\ cells' \in [Maps -> [Cells -> Entity \union {Nobody}]]
      /\ buffer' \in [Screen -> {"blank", "wall", "entity"}]
  BY <1>1, <1>2, TypedUpdate
<1>5. StateOK'
  BY <1>2, <1>3, <1>4 DEF StateOK
<1>6. \A j \in Maps : entities[j] # <<>> => entities'[j] # <<>>
  BY <1>1, <1>2 DEF StateOK
<1>7. Ordered'
  BY <1>2, <1>3, <1>6 DEF Ordered, Fed, StateOK
<1> QED
  BY <1>5, <1>7

LEMMA StateStartUp ==
    ASSUME StateOK, Ordered, NEW i \in Maps, StartUp(i) PROVE StateOK' /\ Ordered'
<1>1. /\ host' = host /\ pending' = pending /\ skipped' = skipped /\ entities' = entities
      /\ moves' = moves /\ created' = created /\ cells' = cells
      /\ started' = started \union {i}
      /\ buffer' = write_character(buffer, m_draw_walls(m_config(i)), "wall")
      /\ \A j \in Maps : entities[j] # <<>>
  BY DEF StartUp
<1>2. /\ HostOK' <=> HostOK
      /\ Maps' = Maps /\ Layouts' = Layouts /\ Screen' = Screen
  BY <1>1, HostStays
<1>3. buffer' \in [Screen -> {"blank", "wall", "entity"}]
  BY <1>1, DrawnType DEF StateOK
<1>4. StateOK'
  BY <1>1, <1>2, <1>3 DEF StateOK
<1>5. Ordered'
  BY <1>1, <1>2 DEF Ordered, Fed
<1> QED
  BY <1>4, <1>5

LEMMA StateMove ==
    ASSUME StateOK, Ordered, NEW i \in Maps, Move(i) PROVE StateOK' /\ Ordered'
<1>1. PICK es \in Seq(Entity) :
             /\ entities' = [entities EXCEPT ![i] = es]
             /\ Len(es) = MapEntities
  BY MovedEntities
<1>2. /\ host' = host /\ started' = started /\ buffer' = buffer /\ cells' = cells
      /\ moves' = moves + 1 /\ moves < MaxMoves /\ created' = created /\ host # Server
      /\ pending' = pending \union {i} /\ skipped' = skipped \union (pending \intersect {i})
  BY DEF Move
<1>3. /\ HostOK' <=> HostOK
      /\ Maps' = Maps /\ Layouts' = Layouts /\ Screen' = Screen
  BY <1>2, HostStays
<1>4. moves \in Nat /\ moves' \in 0..MaxMoves /\ moves' # 0
  BY <1>2, DisplayAssumption DEF StateOK
<1>5. /\ entities' \in [Maps -> Seq(Entity)]
      /\ \A j \in Maps : Len(entities'[j]) \in {0, MapEntities}
  BY <1>1 DEF StateOK
<1>6. StateOK'
  BY <1>2, <1>3, <1>4, <1>5 DEF StateOK
<1>7. Fed(i) /\ MapEntities # 0 /\ Len(<<>>) = 0
  BY MovedEntities, FedLength
<1>8. \A j \in Maps : entities[j] # <<>> => entities'[j] # <<>>
  BY <1>1, <1>7 DEF StateOK
<1>9. \A j \in Maps : entities'[j] # <<>> => entities[j] # <<>>
  BY <1>1, <1>7 DEF StateOK, Fed
<1>10. Ordered'
  BY <1>2, <1>3, <1>4, <1>7, <1>8, <1>9 DEF Ordered, Fed, StateOK
<1> QED
  BY <1>6, <1>10

LEMMA StateUpdate ==
    ASSUME StateOK, Ordered, NEW i \in Maps, Update(i) PROVE StateOK' /\ Ordered'
<1>1. /\ host' = host /\ started' = started /\ entities' = entities /\ skipped' = skipped
      /\ moves' = moves /\ created' = created /\ pending' = pending \ {i}
      /\ update_entities(i, entities[i])
  BY DEF Update
<1>2. /\ HostOK' <=> HostOK
      /\ Maps' = Maps /\ Layouts' = Layouts /\ Screen' = Screen
  BY <1>1, HostStays
<1>3. entities' = [entities EXCEPT ![i] = entities[i]] /\ Len(entities[i]) \in {0, MapEntities}
      /\ entities[i] \in Seq(Entity)
  BY <1>1 DEF StateOK
<1>4. /\ cells' \in [Maps -> [Cells -> Entity \union {Nobody}]]
      /\ buffer' \in [Screen -> {"blank", "wall", "entity"}]
  BY <1>1, <1>3, TypedUpdate
<1>5. StateOK'
  BY <1>1, <1>2, <1>4 DEF StateOK
<1>6. Ordered'
  BY <1>1, <1>2 DEF Ordered, Fed
<1> QED
  BY <1>5, <1>6

LEMMA StateNext == ASSUME StateInv, [Next]_vars PROVE StateInv'
<1> USE DEF StateInv
<1>1. CASE CreateConsole
  <2>1. /\ host' = host /\ created < Len(Layouts) /\ created' = created + 1
        /\ UNCHANGED mapVars
    BY <1>1 DEF CreateConsole
  <2>2. /\ HostOK' <=> HostOK
        /\ Maps' = Maps /\ Layouts' = Layouts /\ Screen' = Screen
    BY <2>1, HostStays
  <2>3. created' \in 0..Len(Layouts)
    BY <2>1, LayoutSizes DEF StateOK
  <2>4. StateOK'
    BY <2>1, <2>2, <2>3 DEF StateOK, mapVars
  <2>5. \A i \in Maps : ~Fed(i)
    BY <2>1, LayoutSizes DEF Ordered, StateOK
  <2>6. Ordered'
    BY <2>1, <2>2, <2>5 DEF Ordered, Fed, mapVars
  <2> QED
    BY <1>1, <2>4, <2>6, ConsoleCreate DEF StateOK
<1>2. CASE UNCHANGED vars
  <2>1. HostOK' /\ Maps' = Maps /\ Layouts' = Layouts /\ Screen' = Screen /\ BufferSize' = BufferSize
    BY <1>2, HostStays DEF vars, StateOK
  <2>2. StateOK'
    BY <1>2, <2>1 DEF vars, mapVars, StateOK
  <2>3. Ordered'
    BY <1>2, <2>1 DEF vars, mapVars, Ordered, Fed
  <2>4. ConsoleInv'
    BY <1>2, <2>1 DEF vars, mapVars, ConsoleInv
  <2> QED
    BY <2>2, <2>3, <2>4
<1>3. ASSUME NEW i \in Maps, Feed(i) \/ StartUp(i) \/ Move(i) \/ Update(i) PROVE StateInv'
  <2>1. StateOK' /\ Ordered'
    BY <1>3, StateFeed, StateStartUp, StateMove, StateUpdate
  <2>2. /\ host' = host /\ created' = created
        /\ \/ console' = console
           \/ console' = write_raw_buffer(console, BufferSize) /\ created # 0
    <3>1. CASE Feed(i) \/ Move(i)
      <4>1. host' = host /\ created' = created /\ console' = console
        BY <3>1 DEF Feed, Move
      <4> QED
        BY <4>1
    <3>2. CASE StartUp(i)
      <4>1. Fed(i) /\ HostOK
        BY <3>2 DEF StartUp, Fed, StateOK
      <4>2. created # 0
        BY <4>1, LayoutSizes DEF Ordered
      <4> QED
        BY <3>2, <4>2 DEF StartUp
    <3>3. CASE Update(i)
      <4>1. Fed(i) /\ HostOK
        BY <3>3 DEF Update, Ordered, StateOK
      <4>2. created # 0
        BY <4>1, LayoutSizes DEF Ordered
      <4> QED
        BY <3>3, <4>2 DEF Update
    <3> QED
      BY <1>3, <3>1, <3>2, <3>3
  <2>3. Layouts' = Layouts /\ BufferSize' = BufferSize /\ BufferSize \in Size
    BY <2>2, HostStays, LayoutSizes DEF StateOK
  <2>4. CASE console' = console
    BY <2>1, <2>2, <2>3, <2>4 DEF ConsoleInv
  <2>5. CASE console' = write_raw_buffer(console, BufferSize) /\ created # 0
    <3>1. /\ Sound(console')
          /\ console'.buffer = console.buffer /\ console'.csbiOrigin = console.csbiOrigin
          /\ Shows(console, BufferSize) => Shows(console', BufferSize)
      BY <2>3, <2>5, WrittenShows DEF ConsoleInv
    <3>2. OneStep(console') => OneStep(console)
      BY <3>1 DEF OneStep
    <3>3. ConsoleInv'
      BY <2>2, <2>3, <2>5, <3>1, <3>2 DEF ConsoleInv
    <3> QED
      BY <2>1, <3>3
  <2> QED
    BY <2>1, <2>2, <2>4, <2>5
<1> QED
  BY <1>1, <1>2, <1>3, Zenon DEF Next

LEMMA StateInit == Init => StateInv
<1> SUFFICES ASSUME Init PROVE StateInv
  OBVIOUS
<1>1. HostOK /\ Len(Layouts) \in {1, 3}
  BY LayoutSizes DEF Init, HostOK
<1>2. /\ started = {} /\ pending = {} /\ skipped = {} /\ moves = 0 /\ created = 0
      /\ \A i \in Maps : entities[i] = <<>>
  BY DEF Init
<1>3. /\ entities \in [Maps -> Seq(Entity)]
      /\ cells \in [Maps -> [Cells -> Entity \union {Nobody}]]
      /\ buffer \in [Screen -> {"blank", "wall", "entity"}]
  BY DEF Init
<1>4. StateOK
  BY <1>1, <1>2, <1>3, DisplayAssumption DEF StateOK
<1>5. Ordered
  BY <1>2 DEF Ordered, Fed
<1>6. PICK size \in Terminals, display \in Displays :
         console = [buffer |-> size, window |-> Smaller(size, display),
                    rectWindow |-> size, largest |-> display, csbiOrigin |-> size]
  BY DEF Init
<1>7. /\ size \in Size /\ display \in Size
      /\ Within(Minimal, size) /\ Within(Minimal, display)
  BY DisplayAssumption DEF Size
<1>8. Smaller(size, display) \in Size /\ Within(Smaller(size, display), size)
  BY <1>7, SmallerOfTwo
<1>9. Sound(console) /\ console.buffer = console.csbiOrigin
  BY <1>6, <1>7, <1>8 DEF Sound, ConsoleRecord
<1>10. ConsoleInv
  BY <1>1, <1>2, <1>9 DEF ConsoleInv
<1> QED
  BY <1>4, <1>5, <1>10 DEF StateInv

(* Every variable has its type and everything its turn: the console is complete
   before entities come, and all maps have theirs before a thread starts. *)
THEOREM StateInvariant == Spec => []StateInv
  BY StateInit, StateNext, PTL DEF Spec

(* The map's cells, the characters and the console keep their types, for every
   size of the environment and number of entities (Map.cpp:62-84). *)
THEOREM DisplayTypeCorrect == Spec => []TypeOK
<1>1. StateInv => TypeOK
  BY DEF StateInv, StateOK, HostOK, ConsoleInv, Sound, TypeOK
<1> QED
  BY <1>1, StateInvariant, PTL

(* A client's window shows its whole map whatever terminal and display it finds,
   and the server's does if its only layout is not refused
   (WinConsole.cpp:148-173). *)
THEOREM WindowShowsMap == Spec => []MapInWindow
<1>1. ASSUME StateInv, started # {}, host = Server => OneStep(console)
      PROVE  Shows(console, BufferSize)
  <2>1. StateOK /\ Ordered /\ ConsoleInv /\ HostOK
    BY <1>1 DEF StateInv, StateOK
  <2>2. PICK i \in Maps : Fed(i)
    BY <1>1, <2>1 DEF Ordered, StateOK
  <2>3. created = Len(Layouts)
    BY <2>1, <2>2 DEF Ordered
  <2>4. CASE host = Server
    BY <1>1, <2>1, <2>3, <2>4, LayoutSizes DEF ConsoleInv
  <2>5. CASE host # Server
    BY <2>1, <2>3, <2>5, LayoutSizes DEF ConsoleInv
  <2> QED
    BY <2>4, <2>5
<1>2. StateInv => MapInWindow
  BY <1>1 DEF MapInWindow, OneStep, Shows
<1> QED
  BY <1>2, StateInvariant, PTL
-----------------------------------------------------------------------------
(* Of the cells after an update.                                           *)

(* Whoever is in a cell stands there, or did before the last move; and who is not
   in its cell lost it to a later entity. *)
Stands(now, es) ==
    \A c \in Cells : now[c] # Nobody =>
        \E n \in DOMAIN es : now[c] = es[n] /\ c = Position(es[n])
Stood(now, es) ==
    \A c \in Cells : now[c] # Nobody => \E n \in DOMAIN es : c = Previous(es[n])
LostToLater(now, es) ==
    \A n \in DOMAIN es :
        \/ now[Position(es[n])] = es[n]
        \/ \E k \in DOMAIN es : k > n /\ Position(es[n]) \in {Previous(es[k]), Position(es[k])}

LEMMA ReplacedCell ==
    ASSUME NEW es \in Seq(Entity), NEW now, NEW c \in Cells
    PROVE  /\ Touching(es, c) = {} => AfterLoop(now, es)[c] = now[c]
           /\ Touching(es, c) # {} =>
                \E n \in Touching(es, c) :
                    /\ n \in DOMAIN es
                    /\ \A k \in Touching(es, c) : k <= n
                    /\ AfterLoop(now, es)[c] = LeftBy(es[n], c)
<1>1. ASSUME Touching(es, c) # {}
      PROVE  \E n \in Touching(es, c) :
                /\ n \in DOMAIN es
                /\ \A k \in Touching(es, c) : k <= n
                /\ AfterLoop(now, es)[c] = LeftBy(es[n], c)
  BY <1>1, TouchingBounded DEF AfterLoop
<1> QED
  BY <1>1 DEF AfterLoop

LEMMA ReplacedStands ==
    ASSUME NEW es \in Seq(Entity), NEW now, Stands(now, es) \/ Stood(now, es)
    PROVE  Stands(AfterLoop(now, es), es)
<1> DEFINE new == AfterLoop(now, es)
<1>1. SUFFICES ASSUME NEW c \in Cells, new[c] # Nobody
      PROVE  \E n \in DOMAIN es : new[c] = es[n] /\ c = Position(es[n])
  BY DEF Stands
<1>2. Touching(es, c) # {}
  <2>1. SUFFICES ASSUME Touching(es, c) = {} PROVE FALSE
    OBVIOUS
  <2>2. now[c] # Nobody
    BY <1>1, <2>1, ReplacedCell
  <2>3. \E n \in DOMAIN es : c \in {Previous(es[n]), Position(es[n])}
    BY <2>2 DEF Stands, Stood
  <2> QED
    BY <2>1, <2>3 DEF Touching
<1>3. PICK n \in DOMAIN es : new[c] = LeftBy(es[n], c)
  BY <1>2, ReplacedCell
<1> QED
  BY <1>1, <1>3 DEF LeftBy

LEMMA PositionInCells == ASSUME NEW e \in Entity PROVE Position(e) \in Cells
  BY CellsOfMap DEF Entity, Position

LEMMA ReplacedLost ==
    ASSUME NEW es \in Seq(Entity), NEW now
    PROVE  LostToLater(AfterLoop(now, es), es)
<1> SUFFICES ASSUME NEW n \in DOMAIN es
    PROVE  \/ AfterLoop(now, es)[Position(es[n])] = es[n]
           \/ \E k \in DOMAIN es : k > n /\ Position(es[n]) \in {Previous(es[k]), Position(es[k])}
  BY DEF LostToLater
<1> DEFINE c == Position(es[n])
<1>1. DOMAIN es = 1..Len(es) /\ Len(es) \in Nat
  BY LenProperties
<1>2. es[n] \in Entity
  BY <1>1, ElementOfSeq
<1>3. c \in Cells /\ n \in Touching(es, c)
  BY <1>2, PositionInCells DEF Touching
<1> HIDE DEF c
<1>4. PICK k \in Touching(es, c) : /\ k \in DOMAIN es /\ n <= k
                                   /\ AfterLoop(now, es)[c] = LeftBy(es[k], c)
  BY <1>3, ReplacedCell
<1>5. CASE k = n
  BY <1>4, <1>5 DEF LeftBy, c
<1>6. CASE k # n
  <2>1. k > n
    BY <1>1, <1>4, <1>6
  <2> QED
    BY <1>4, <2>1 DEF Touching, c
<1> QED
  BY <1>5, <1>6

(* A second update with the same entities changes nothing. *)
LEMMA ReplacedTwice ==
    ASSUME NEW es \in Seq(Entity), NEW now
    PROVE  AfterLoop(AfterLoop(now, es), es) = AfterLoop(now, es)
<1> DEFINE new == AfterLoop(now, es)
<1>1. ASSUME NEW c \in Cells, Touching(es, c) = {} PROVE new[c] = now[c]
  BY <1>1 DEF AfterLoop
<1>2. ASSUME NEW c \in Cells, Touching(es, c) # {}
      PROVE  new[c] = LeftBy(es[Max(Touching(es, c))], c)
  BY <1>2 DEF AfterLoop
<1>3. new = [c \in Cells |-> IF Touching(es, c) = {} THEN now[c]
                             ELSE LeftBy(es[Max(Touching(es, c))], c)]
  BY DEF AfterLoop
<1> HIDE DEF new
<1>4. AfterLoop(new, es) = [c \in Cells |-> IF Touching(es, c) = {} THEN new[c]
                                           ELSE LeftBy(es[Max(Touching(es, c))], c)]
  BY DEF AfterLoop
<1>5. \A c \in Cells : AfterLoop(new, es)[c] = new[c]
  BY <1>1, <1>2, <1>4
<1>6. DOMAIN new = Cells /\ DOMAIN AfterLoop(new, es) = Cells
  BY <1>3, <1>4
<1> QED
  BY <1>3, <1>4, <1>5, <1>6 DEF new

(* Of the map whose entities are es and whose cells are now. *)
Placed(now, es, waiting, missed) ==
    /\ ~waiting => LostToLater(now, es)
    /\ ~missed /\ ~waiting => Stands(now, es)
    /\ ~missed /\ waiting => Stood(now, es)
PlaceInv == \A i \in Maps : Placed(cells[i], entities[i], i \in pending, i \in skipped)

LEMMA PlacedByUpdate ==
    ASSUME NEW now, NEW es \in Seq(Entity), NEW missed,
           ~missed => Stands(now, es) \/ Stood(now, es)
    PROVE  Placed(AfterLoop(now, es), es, FALSE, missed)
  BY ReplacedLost, ReplacedStands, Zenon DEF Placed

LEMMA PlaceFeed ==
    ASSUME StateOK, Ordered, PlaceInv, NEW i \in Maps, Feed(i) PROVE PlaceInv'
<1>1. PICK es \in Seq(Entity) :
             /\ entities' = [entities EXCEPT ![i] = es]
             /\ Len(es) = MapEntities
             /\ update_entities(i, es)
  BY FedEntities
<1>2. host' = host /\ pending' = pending /\ skipped' = skipped /\ ~Fed(i) /\ Maps' = Maps
  BY HostStays DEF Feed, Fed
<1>3. i \notin pending /\ i \notin skipped /\ DOMAIN entities[i] = {}
  BY <1>2, FedLength DEF Ordered
<1>4. Stands(cells[i], entities[i])
  BY <1>3 DEF PlaceInv, Placed
<1>5. Stood(cells[i], es)
  BY <1>3, <1>4 DEF Stands, Stood
<1>6. cells'[i] = AfterLoop(cells[i], es) /\ \A j \in Maps : j # i => cells'[j] = cells[j]
  BY <1>1, <1>2, TypedUpdate
<1>7. Placed(AfterLoop(cells[i], es), es, FALSE, FALSE)
  BY <1>5, PlacedByUpdate
<1>8. entities'[i] = es /\ \A j \in Maps : j # i => entities'[j] = entities[j]
  BY <1>1 DEF StateOK
<1>9. Placed(cells'[i], entities'[i], i \in pending', i \in skipped')
  BY <1>2, <1>3, <1>6, <1>7, <1>8 DEF Placed
<1> QED
  BY <1>2, <1>6, <1>8, <1>9 DEF PlaceInv

LEMMA PlaceUpdate ==
    ASSUME StateOK, Ordered, PlaceInv, NEW i \in Maps, Update(i) PROVE PlaceInv'
<1>1. /\ host' = host /\ entities' = entities /\ skipped' = skipped
      /\ pending' = pending \ {i} /\ update_entities(i, entities[i]) /\ Maps' = Maps
  BY HostStays DEF Update
<1>2. entities[i] \in Seq(Entity) /\ Len(entities[i]) \in {0, MapEntities}
  BY DEF StateOK
<1>3. entities' = [entities EXCEPT ![i] = entities[i]]
  BY <1>1 DEF StateOK
<1>4. /\ cells'[i] = AfterLoop(cells[i], entities[i])
      /\ \A j \in Maps : j # i => cells'[j] = cells[j]
  BY <1>1, <1>2, <1>3, TypedUpdate
<1>5. i \notin skipped => Stands(cells[i], entities[i]) \/ Stood(cells[i], entities[i])
  BY DEF PlaceInv, Placed
<1>6. Placed(AfterLoop(cells[i], entities[i]), entities[i], FALSE, i \in skipped)
  BY <1>2, <1>5, PlacedByUpdate
<1>7. Placed(cells'[i], entities'[i], i \in pending', i \in skipped')
  BY <1>1, <1>4, <1>6 DEF Placed
<1> QED
  BY <1>1, <1>4, <1>7 DEF PlaceInv

LEMMA PlaceMove ==
    ASSUME StateOK, Ordered, PlaceInv, NEW i \in Maps, Move(i) PROVE PlaceInv'
<1>1. PICK es \in Seq(Entity) :
             /\ entities' = [entities EXCEPT ![i] = es]
             /\ DOMAIN es = 1..MapEntities
             /\ \A n \in 1..MapEntities : Previous(es[n]) = Position(entities[i][n])
  BY MovedEntities
<1>2. /\ host' = host /\ cells' = cells /\ Maps' = Maps
      /\ pending' = pending \union {i} /\ skipped' = skipped \union (pending \intersect {i})
  BY HostStays DEF Move
<1>3. DOMAIN entities[i] = 1..MapEntities
  BY MovedEntities, FedLength
<1>4. entities'[i] = es /\ \A j \in Maps : j # i => entities'[j] = entities[j]
  BY <1>1 DEF StateOK
<1>5. ASSUME i \notin skipped' PROVE Stood(cells[i], es)
  <2>1. i \notin skipped /\ i \notin pending
    BY <1>2, <1>5
  <2>2. Stands(cells[i], entities[i])
    BY <2>1 DEF PlaceInv, Placed
  <2> QED
    BY <1>1, <1>3, <2>2 DEF Stands, Stood
<1>6. Placed(cells'[i], entities'[i], i \in pending', i \in skipped')
  BY <1>2, <1>4, <1>5 DEF Placed
<1>7. ASSUME NEW j \in Maps, j # i PROVE Placed(cells'[j], entities'[j], j \in pending', j \in skipped')
  BY <1>2, <1>4, <1>7 DEF PlaceInv, Placed
<1> QED
  BY <1>2, <1>6, <1>7 DEF PlaceInv

LEMMA PlaceNext == ASSUME StateInv, PlaceInv, [Next]_vars PROVE PlaceInv'
<1> USE DEF StateInv
<1>1. ASSUME \/ CreateConsole
             \/ UNCHANGED vars
             \/ \E i \in Maps : StartUp(i)
      PROVE  PlaceInv'
  <2>1. /\ host' = host /\ cells' = cells /\ entities' = entities
        /\ pending' = pending /\ skipped' = skipped
    BY <1>1 DEF CreateConsole, StartUp, vars, mapVars
  <2> QED
    BY <2>1, HostStays DEF PlaceInv
<1>2. ASSUME NEW i \in Maps, Feed(i) \/ Move(i) \/ Update(i) PROVE PlaceInv'
  BY <1>2, PlaceFeed, PlaceMove, PlaceUpdate
<1> QED
  BY <1>1, <1>2, Zenon DEF Next

THEOREM PlaceInvariant == Spec => []PlaceInv
<1>1. Init => PlaceInv
  <2>1. SUFFICES ASSUME Init, NEW i \in Maps
        PROVE  Placed(cells[i], entities[i], i \in pending, i \in skipped)
    BY DEF PlaceInv
  <2>2. /\ entities[i] = <<>> /\ DOMAIN <<>> = {} /\ i \notin pending
        /\ \A c \in Cells : cells[i][c] = Nobody
    BY <2>1 DEF Init
  <2> QED
    BY <2>2 DEF Placed, LostToLater, Stands
<1> QED
  BY <1>1, PlaceNext, StateInvariant, PTL DEF Spec

(* Whoever is in a cell after an update is one of the entities, in its place: a
   move that was not missed leaves nobody behind (Map.cpp:66-68). *)
THEOREM NobodyLeftBehind == Spec => []NoStaleEntity
<1>1. ASSUME StateInv, PlaceInv, NEW i \in Maps, UpToDate(i), i \notin skipped,
             NEW c \in Cells, cells[i][c] # Nobody
      PROVE  \E n \in 1..MapEntities : cells[i][c] = entities[i][n] /\ c = Position(entities[i][n])
  <2>1. i \notin pending /\ Fed(i) /\ StateOK
    BY <1>1 DEF UpToDate, Fed, StateInv
  <2>2. Stands(cells[i], entities[i])
    BY <1>1, <2>1 DEF PlaceInv, Placed
  <2>3. DOMAIN entities[i] = 1..MapEntities
    BY <2>1, FedLength
  <2> QED
    BY <1>1, <2>2, <2>3 DEF Stands
<1>2. StateInv /\ PlaceInv => NoStaleEntity
  BY <1>1 DEF NoStaleEntity
<1> QED
  BY <1>2, StateInvariant, PlaceInvariant, PTL

(* An entity that is not in its cell was overwritten, or erased, by one that comes
   later in the vector (Map.cpp:63-69). *)
THEOREM OnlyLaterOnesErase == Spec => []LostOnlyToLater
<1>1. ASSUME StateInv, PlaceInv, NEW i \in Maps, UpToDate(i), NEW n \in 1..MapEntities
      PROVE  \/ cells[i][Position(entities[i][n])] = entities[i][n]
             \/ \E k \in (n + 1)..MapEntities :
                   Position(entities[i][n]) \in {Previous(entities[i][k]), Position(entities[i][k])}
  <2>1. i \notin pending /\ Fed(i) /\ StateOK
    BY <1>1 DEF UpToDate, Fed, StateInv
  <2>2. LostToLater(cells[i], entities[i])
    BY <1>1, <2>1 DEF PlaceInv, Placed
  <2>3. DOMAIN entities[i] = 1..MapEntities /\ MapEntities \in Nat
    BY <2>1, FedLength, DisplayAssumption
  <2>4. \A k \in 1..MapEntities : k > n => k \in (n + 1)..MapEntities
    BY <2>3
  <2> QED
    BY <2>2, <2>3, <2>4 DEF LostToLater
<1>2. StateInv /\ PlaceInv => LostOnlyToLater
  BY <1>1 DEF LostOnlyToLater
<1> QED
  BY <1>2, StateInvariant, PlaceInvariant, PTL
-----------------------------------------------------------------------------
(* Of the screen.                                                          *)

(* Where an entity of map i is drawn, and those of its cells. *)
Place(i, e) == <<e.x + m_config(i).x, e.y + m_config(i).y>>
Places(i, now) == {Place(i, now[c]) : c \in {d \in Cells : now[d] # Nobody}}

LEMMA Offsets ==
    ASSUME HostOK, NEW i \in Maps
    PROVE  /\ Offset(i) = (IF host = Server /\ i = 1 THEN m_map_width ELSE 0)
           /\ Offset(i) \in Nat
           /\ BufferSize[1] \in Nat /\ BufferSize[2] \in Nat
           /\ Offset(i) + m_map_width <= BufferSize[1]
           /\ BufferSize[2] = m_map_height
           /\ m_config(i).x = Offset(i) /\ m_config(i).y = 0
           /\ i \in {0, 1}
<1>1. i \in {0, 1} /\ (host = Server /\ i = 1 => m_map_count = 2)
  BY Hosts
<1>2. i * m_map_width = (IF i = 1 THEN m_map_width ELSE 0)
  BY <1>1, MapSizes
<1>3. Offset(i) = (IF host = Server /\ i = 1 THEN m_map_width ELSE 0)
  BY <1>2 DEF Offset
<1>4. /\ m_config(i).x = Offset(i) /\ m_config(i).y = 0
  BY Configuration
<1>5. BufferSize[2] = m_map_height /\ BufferSize[1] \in Nat /\ BufferSize[2] \in Nat
  BY MapSizes, DisplayAssumption DEF BufferSize, m_map_height
<1>6. Offset(i) + m_map_width <= BufferSize[1]
  <2>1. CASE host = Server
    <3>1. BufferSize[1] = envWidth /\ envWidth \in Nat /\ m_map_count \in 1..2
      BY <2>1, DisplayAssumption DEF BufferSize
    <3> QED
      BY <1>1, <1>3, <2>1, <3>1, MapSizes
  <2>2. CASE host # Server
    <3>1. BufferSize[1] = m_map_width
      BY <2>2 DEF BufferSize
    <3> QED
      BY <1>3, <2>2, <3>1, MapSizes
  <2> QED
    BY <2>1, <2>2
<1>7. Offset(i) \in Nat
  BY <1>3, MapSizes
<1> QED
  BY <1>1, <1>3, <1>4, <1>5, <1>6, <1>7

LEMMA InScreen ==
    ASSUME HostOK, NEW i \in Maps, NEW e \in Entity
    PROVE  Place(i, e) \in Screen
<1>1. /\ e.x \in Nat /\ e.x <= m_map_width - 1 /\ e.y \in Nat /\ e.y <= m_map_height - 1
      /\ m_map_width \in Nat /\ m_map_height \in Nat
  BY MapSizes DEF Entity
<1>2. e.x + Offset(i) \in 0..(BufferSize[1] - 1) /\ e.y + 0 \in 0..(BufferSize[2] - 1)
  BY <1>1, Offsets
<1>3. Place(i, e) = <<e.x + Offset(i), e.y + 0>>
  BY Offsets DEF Place
<1> QED
  BY <1>2, <1>3 DEF Screen

LEMMA PlacesInScreen ==
    ASSUME HostOK, NEW i \in Maps, NEW now \in [Cells -> Entity \union {Nobody}]
    PROVE  Places(i, now) \subseteq Screen
  BY InScreen DEF Places

(* An entity off the walls of its map is off those of every map. *)
LEMMA WallApart ==
    ASSUME HostOK, NEW i \in Maps, NEW j \in Maps, NEW e \in Entity, Inner(e)
    PROVE  Place(i, e) \notin Wall(j)
<1> DEFINE w == m_map_width
           h == m_map_height
           x == e.x + Offset(i)
<1>1. w \in Nat /\ h \in Nat /\ w >= 3 /\ h >= 3
  BY MapSizes
<1>2. e.x \in 1..(w - 2) /\ e.y \in 1..(h - 2)
  BY DEF Inner
<1>3. /\ i \in {0, 1} /\ j \in {0, 1}
      /\ Offset(i) = (IF host = Server /\ i = 1 THEN w ELSE 0)
      /\ Offset(j) = (IF host = Server /\ j = 1 THEN w ELSE 0)
      /\ host # Server => i = j
  BY Offsets, Hosts
<1>4. Place(i, e) = <<x, e.y>>
  BY <1>1, <1>2, Offsets DEF Place
<1>5. e.y # 0 /\ e.y # h - 1
  BY <1>1, <1>2
<1>6. Side(j) = (IF j = 1 THEN w - 1 ELSE 0)
  BY <1>3 DEF Side
<1>7. x # Offset(j) + Side(j)
  <2> HIDE DEF w, h
  <2>1. CASE host = Server
    BY <1>1, <1>2, <1>3, <1>6, <2>1
  <2>2. CASE host # Server
    BY <1>1, <1>2, <1>3, <1>6, <2>2
  <2> QED
    BY <2>1, <2>2
<1>8. <<x, e.y>> \notin Row(Offset(j), w, 0) /\ <<x, e.y>> \notin Row(Offset(j), w, h - 1)
  <2> HIDE DEF w, h, x
  <2> QED
    BY <1>5 DEF Row
<1>9. <<x, e.y>> \notin Column(Offset(j), h, Side(j))
  <2> HIDE DEF w, h, x
  <2> QED
    BY <1>7 DEF Column
<1> QED
  BY <1>4, <1>8, <1>9 DEF Wall

LEMMA Rendered ==
    ASSUME NEW i, NEW now, NEW screen \in [Screen -> {"blank", "wall", "entity"}]
    PROVE  render(screen, i, now) =
             [p \in Screen |-> IF p \in Places(i, now) THEN "entity" ELSE screen[p]]
<1>1. DOMAIN screen = Screen
  OBVIOUS
<1>2. Places(i, now) = {<<now[c].x + m_config(i).x, now[c].y + m_config(i).y>> :
                            c \in {d \in Cells : now[d] # Nobody}}
  BY Zenon DEF Places, Place
<1>3. render(screen, i, now) = write_character(screen, Places(i, now), "entity")
  BY <1>2, Zenon DEF render
<1> QED
  BY <1>1, <1>3, Zenon DEF write_character

(* Entities stay off the walls until they move: on the server for ever, on a client
   until its thread, which draws them, has drawn its walls. *)
InnerInv ==
    /\ moves = 0 => \A i \in Maps : \A n \in DOMAIN entities[i] : Inner(entities[i][n])
    /\ \A i \in Maps : moves = 0 \/ i \notin started =>
         \A c \in Cells : cells[i][c] # Nobody => Inner(cells[i][c])

LEMMA ReplacedInner ==
    ASSUME NEW es \in Seq(Entity), NEW now, NEW i \in Maps,
           \A n \in DOMAIN es : Inner(es[n]),
           \A c \in Cells : now[c] # Nobody => Inner(now[c]),
           NEW c \in Cells, AfterLoop(now, es)[c] # Nobody
    PROVE  Inner(AfterLoop(now, es)[c])
<1>1. CASE Touching(es, c) = {}
  BY <1>1, ReplacedCell
<1>2. CASE Touching(es, c) # {}
  <2>1. PICK n \in DOMAIN es : AfterLoop(now, es)[c] = LeftBy(es[n], c)
    BY <1>2, ReplacedCell
  <2> QED
    BY <2>1 DEF LeftBy
<1> QED
  BY <1>1, <1>2

LEMMA UnfedEmpty ==
    ASSUME StateOK, Ordered, PlaceInv, NEW i \in Maps, ~Fed(i), NEW c \in Cells
    PROVE  cells[i][c] = Nobody
<1>1. i \notin pending /\ i \notin skipped /\ DOMAIN entities[i] = {}
  BY FedLength DEF Ordered
<1>2. Stands(cells[i], entities[i])
  BY <1>1 DEF PlaceInv, Placed
<1> QED
  BY <1>1, <1>2 DEF Stands

LEMMA InnerNext ==
    ASSUME StateInv, PlaceInv, InnerInv, [Next]_vars PROVE InnerInv'
<1>1. StateOK /\ Ordered
  BY DEF StateInv
<1>2. ASSUME \/ CreateConsole
             \/ UNCHANGED vars
             \/ \E i \in Maps : StartUp(i)
      PROVE  InnerInv'
  <2>1. /\ host' = host /\ cells' = cells /\ entities' = entities /\ moves' = moves
        /\ started \subseteq started'
    BY <1>2 DEF CreateConsole, StartUp, vars, mapVars
  <2> QED
    BY <2>1, HostStays DEF InnerInv
<1>3. ASSUME NEW i \in Maps, Feed(i) PROVE InnerInv'
  <2>1. PICK es \in Seq(Entity) :
             /\ entities' = [entities EXCEPT ![i] = es]
             /\ Len(es) = MapEntities
             /\ \A n \in DOMAIN es : Inner(es[n])
             /\ update_entities(i, es)
    BY <1>1, <1>3, FedEntities
  <2>2. /\ host' = host /\ started' = started /\ moves' = moves /\ ~Fed(i) /\ Maps' = Maps
    BY <1>3, HostStays DEF Feed, Fed
  <2>3. cells'[i] = AfterLoop(cells[i], es) /\ \A j \in Maps : j # i => cells'[j] = cells[j]
    BY <1>1, <2>1, <2>2, TypedUpdate
  <2>4. entities'[i] = es /\ \A j \in Maps : j # i => entities'[j] = entities[j]
    BY <1>1, <2>1 DEF StateOK
  <2>5. \A c \in Cells : cells[i][c] # Nobody => Inner(cells[i][c])
    BY <1>1, <2>2, UnfedEmpty
  <2>6. \A c \in Cells : cells'[i][c] # Nobody => Inner(cells'[i][c])
    BY <2>1, <2>3, <2>5, ReplacedInner
  <2>7. moves' = 0 => \A j \in Maps' : \A n \in DOMAIN entities'[j] : Inner(entities'[j][n])
    BY <2>1, <2>2, <2>4 DEF InnerInv
  <2>8. \A j \in Maps' : moves' = 0 \/ j \notin started' =>
           \A c \in Cells : cells'[j][c] # Nobody => Inner(cells'[j][c])
    BY <2>2, <2>3, <2>6 DEF InnerInv
  <2> QED
    BY <2>7, <2>8, Zenon DEF InnerInv
<1>4. ASSUME NEW i \in Maps, Move(i) PROVE InnerInv'
  <2>1. /\ host' = host /\ started' = started /\ cells' = cells /\ moves' = moves + 1
    BY <1>4 DEF Move
  <2>2. moves' # 0 /\ Maps' = Maps
    <3>1. moves \in Nat
      BY <1>1, DisplayAssumption DEF StateOK
    <3> QED
      BY <2>1, <3>1, HostStays
  <2> QED
    BY <2>1, <2>2 DEF InnerInv
<1>5. ASSUME NEW i \in Maps, Update(i) PROVE InnerInv'
  <2>1. /\ host' = host /\ entities' = entities /\ moves' = moves /\ started' = started
        /\ i \in started /\ update_entities(i, entities[i]) /\ Maps' = Maps
    BY <1>5, HostStays DEF Update
  <2>2. entities[i] \in Seq(Entity) /\ Len(entities[i]) \in {0, MapEntities}
        /\ entities' = [entities EXCEPT ![i] = entities[i]]
    BY <1>1, <2>1 DEF StateOK
  <2>3. /\ cells'[i] = AfterLoop(cells[i], entities[i])
        /\ \A j \in Maps : j # i => cells'[j] = cells[j]
    BY <1>1, <2>1, <2>2, TypedUpdate
  <2>4. ASSUME moves = 0, NEW c \in Cells, cells'[i][c] # Nobody PROVE Inner(cells'[i][c])
    <3>1. /\ \A n \in DOMAIN entities[i] : Inner(entities[i][n])
          /\ \A d \in Cells : cells[i][d] # Nobody => Inner(cells[i][d])
      BY <2>4 DEF InnerInv
    <3> QED
      BY <2>2, <2>3, <2>4, <3>1, ReplacedInner
  <2>5. \A j \in Maps' : moves' = 0 \/ j \notin started' =>
           \A c \in Cells : cells'[j][c] # Nobody => Inner(cells'[j][c])
    BY <2>1, <2>3, <2>4 DEF InnerInv
  <2>6. moves' = 0 => \A j \in Maps' : \A n \in DOMAIN entities'[j] : Inner(entities'[j][n])
    BY <2>1 DEF InnerInv
  <2> QED
    BY <2>5, <2>6, Zenon DEF InnerInv
<1> QED
  BY <1>2, <1>3, <1>4, <1>5, Zenon DEF Next

(* What is on the screen of the entities in the cells. *)
ScreenInv ==
    /\ \A i \in Maps : \A p \in Places(i, cells[i]) : buffer[p] = "entity"
    /\ moves = 0 =>
         /\ \A p \in Screen : buffer[p] = "entity" => \E i \in Maps : p \in Places(i, cells[i])
         /\ \A i \in Maps : AfterLoop(cells[i], entities[i]) = cells[i]

LEMMA PlacesStay ==
    ASSUME host' = host, NEW i, NEW now PROVE Places(i, now)' = Places(i, now)
  BY HostStays DEF Places, Place

(* The cells of map i become those that are drawn. *)
LEMMA ScreenDraw ==
    ASSUME StateOK, ScreenInv, host' = host, NEW i \in Maps, NEW es,
           cells'[i] = AfterLoop(cells[i], es),
           cells'[i] \in [Cells -> Entity \union {Nobody}],
           \A j \in Maps : j # i => cells'[j] = cells[j],
           update_entities(i, es),
           moves = 0 => Places(i, cells[i]) \subseteq Places(i, cells'[i])
    PROVE  /\ \A j \in Maps : \A p \in Places(j, cells'[j]) : buffer'[p] = "entity"
           /\ moves = 0 => \A p \in Screen : buffer'[p] = "entity" =>
                            \E j \in Maps : p \in Places(j, cells'[j])
<1>1. buffer' = [p \in Screen |-> IF p \in Places(i, cells'[i]) THEN "entity" ELSE buffer[p]]
  BY Rendered DEF update_entities, StateOK
<1>2. ASSUME NEW j \in Maps PROVE Places(j, cells'[j]) \subseteq Screen
  <2>1. cells'[j] \in [Cells -> Entity \union {Nobody}] /\ HostOK
    BY DEF StateOK
  <2> QED
    BY <2>1, PlacesInScreen
<1>3. ASSUME NEW j \in Maps, NEW p \in Places(j, cells'[j]) PROVE buffer'[p] = "entity"
  <2>1. p \in Screen /\ (j # i => buffer[p] = "entity")
    BY <1>2, <1>3 DEF ScreenInv
  <2> QED
    BY <1>1, <1>3, <2>1
<1>4. ASSUME moves = 0, NEW p \in Screen, buffer'[p] = "entity"
      PROVE  \E j \in Maps : p \in Places(j, cells'[j])
  <2>1. p \in Places(i, cells'[i]) \/ buffer[p] = "entity"
    BY <1>1, <1>4
  <2>2. ASSUME buffer[p] = "entity" PROVE \E j \in Maps : p \in Places(j, cells'[j])
    <3>1. PICK j \in Maps : p \in Places(j, cells[j])
      BY <1>4, <2>2 DEF ScreenInv
    <3> QED
      BY <1>4, <3>1
  <2> QED
    BY <2>1, <2>2
<1> QED
  BY <1>3, <1>4

LEMMA ScreenFeed ==
    ASSUME StateOK, Ordered, PlaceInv, ScreenInv, NEW i \in Maps, Feed(i) PROVE ScreenInv'
<1>1. PICK es \in Seq(Entity) :
           /\ entities' = [entities EXCEPT ![i] = es]
           /\ Len(es) = MapEntities
           /\ update_entities(i, es)
  BY FedEntities
<1>2. /\ host' = host /\ moves' = moves /\ ~Fed(i) /\ Maps' = Maps /\ Screen' = Screen
  BY HostStays DEF Feed, Fed
<1>3. /\ cells'[i] = AfterLoop(cells[i], es) /\ \A j \in Maps : j # i => cells'[j] = cells[j]
      /\ cells'[i] \in [Cells -> Entity \union {Nobody}]
  BY <1>1, <1>2, TypedUpdate
<1>4. Places(i, cells[i]) = {}
  BY <1>2, UnfedEmpty DEF Places
<1>5. /\ \A j \in Maps : \A p \in Places(j, cells'[j]) : buffer'[p] = "entity"
      /\ moves = 0 => \A p \in Screen : buffer'[p] = "entity" =>
                       \E j \in Maps : p \in Places(j, cells'[j])
  BY <1>1, <1>2, <1>3, <1>4, ScreenDraw
<1>6. entities'[i] = es /\ \A j \in Maps : j # i => entities'[j] = entities[j]
  BY <1>1 DEF StateOK
<1>7. ASSUME moves = 0, NEW j \in Maps PROVE AfterLoop(cells'[j], entities'[j]) = cells'[j]
  BY <1>1, <1>3, <1>6, <1>7, ReplacedTwice DEF ScreenInv
<1>8. \A j \in Maps : Places(j, cells[j])' = Places(j, cells'[j])
  BY <1>2, PlacesStay
<1>9. \A j \in Maps : AfterLoop(cells[j], entities[j])' = AfterLoop(cells'[j], entities'[j])
  OBVIOUS
<1> QED
  BY <1>2, <1>5, <1>7, <1>8, <1>9 DEF ScreenInv

LEMMA ScreenUpdate ==
    ASSUME StateOK, Ordered, ScreenInv, NEW i \in Maps, Update(i) PROVE ScreenInv'
<1>1. /\ host' = host /\ entities' = entities /\ moves' = moves
      /\ update_entities(i, entities[i]) /\ Maps' = Maps /\ Screen' = Screen
  BY HostStays DEF Update
<1>2. /\ entities[i] \in Seq(Entity) /\ Len(entities[i]) \in {0, MapEntities}
      /\ entities' = [entities EXCEPT ![i] = entities[i]]
  BY <1>1 DEF StateOK
<1>3. /\ cells'[i] = AfterLoop(cells[i], entities[i])
      /\ \A j \in Maps : j # i => cells'[j] = cells[j]
      /\ cells'[i] \in [Cells -> Entity \union {Nobody}]
  BY <1>1, <1>2, TypedUpdate
<1>4. moves = 0 => cells'[i] = cells[i]
  BY <1>3 DEF ScreenInv
<1>5. /\ \A j \in Maps : \A p \in Places(j, cells'[j]) : buffer'[p] = "entity"
      /\ moves = 0 => \A p \in Screen : buffer'[p] = "entity" =>
                       \E j \in Maps : p \in Places(j, cells'[j])
  BY <1>1, <1>3, <1>4, ScreenDraw
<1>6. ASSUME moves = 0, NEW j \in Maps PROVE AfterLoop(cells'[j], entities'[j]) = cells'[j]
  BY <1>1, <1>3, <1>4, <1>6 DEF ScreenInv
<1>7. \A j \in Maps : Places(j, cells[j])' = Places(j, cells'[j])
  BY <1>1, PlacesStay
<1> QED
  BY <1>1, <1>5, <1>6, <1>7 DEF ScreenInv

LEMMA ScreenStartUp ==
    ASSUME StateOK, Ordered, InnerInv, ScreenInv, NEW i \in Maps, StartUp(i) PROVE ScreenInv'
<1>1. /\ host' = host /\ entities' = entities /\ cells' = cells /\ moves' = moves
      /\ i \notin started /\ HostOK
      /\ buffer' = write_character(buffer, m_draw_walls(m_config(i)), "wall")
      /\ Maps' = Maps /\ Screen' = Screen
  BY HostStays DEF StartUp, StateOK
<1>2. \A p \in Screen : buffer'[p] = IF p \in Wall(i) THEN "wall" ELSE buffer[p]
  BY <1>1, Walls DEF write_character, StateOK
<1>3. ASSUME NEW j \in Maps, NEW p \in Places(j, cells[j]) PROVE buffer'[p] = "entity"
  <2>1. PICK c \in Cells : cells[j][c] # Nobody /\ p = Place(j, cells[j][c])
    BY DEF Places
  <2>2. moves = 0 \/ j \notin started
    BY <1>1, Hosts DEF Ordered
  <2>3. Inner(cells[j][c])
    BY <2>1, <2>2 DEF InnerInv
  <2>4. cells[j][c] \in Entity
    BY <2>1 DEF StateOK
  <2>5. p \notin Wall(i) /\ p \in Screen
    BY <1>1, <2>1, <2>3, <2>4, WallApart, InScreen
  <2>6. buffer[p] = "entity"
    BY DEF ScreenInv
  <2> QED
    BY <1>2, <2>5, <2>6
<1>4. \A j \in Maps : Places(j, cells[j])' = Places(j, cells[j])
  BY <1>1, PlacesStay
<1>5. \A p \in Screen : buffer'[p] = "entity" => buffer[p] = "entity"
  BY <1>2
<1> QED
  BY <1>1, <1>3, <1>4, <1>5 DEF ScreenInv

LEMMA ScreenNext ==
    ASSUME StateInv, PlaceInv, InnerInv, ScreenInv, [Next]_vars PROVE ScreenInv'
<1>1. StateOK /\ Ordered
  BY DEF StateInv
<1>2. ASSUME CreateConsole \/ UNCHANGED vars PROVE ScreenInv'
  <2>1. /\ host' = host /\ cells' = cells /\ entities' = entities /\ moves' = moves
        /\ buffer' = buffer /\ Maps' = Maps /\ Screen' = Screen
    BY <1>2, HostStays DEF CreateConsole, vars, mapVars
  <2>2. \A j \in Maps : Places(j, cells[j])' = Places(j, cells[j])
    BY <2>1, PlacesStay
  <2> QED
    BY <2>1, <2>2 DEF ScreenInv
<1>3. ASSUME NEW i \in Maps, Move(i) PROVE ScreenInv'
  <2>1. /\ host' = host /\ cells' = cells /\ moves' = moves + 1
        /\ buffer' = buffer /\ Maps' = Maps
    BY <1>3, HostStays DEF Move
  <2>2. \A j \in Maps : Places(j, cells[j])' = Places(j, cells[j])
    BY <2>1, PlacesStay
  <2>3. moves' # 0
    <3>1. moves \in Nat
      BY <1>1, DisplayAssumption DEF StateOK
    <3> QED
      BY <2>1, <3>1
  <2> QED
    BY <2>1, <2>2, <2>3 DEF ScreenInv
<1>4. ASSUME NEW i \in Maps, Feed(i) \/ StartUp(i) \/ Update(i) PROVE ScreenInv'
  BY <1>1, <1>4, ScreenFeed, ScreenStartUp, ScreenUpdate
<1> QED
  BY <1>2, <1>3, <1>4, Zenon DEF Next

THEOREM ScreenInvariant == Spec => [](InnerInv /\ ScreenInv)
<1>1. Init => InnerInv /\ ScreenInv
  <2>1. SUFFICES ASSUME Init PROVE InnerInv /\ ScreenInv
    OBVIOUS
  <2>2. /\ \A i \in Maps : entities[i] = <<>> /\ DOMAIN <<>> = {}
        /\ \A i \in Maps : \A c \in Cells : cells[i][c] = Nobody
        /\ \A p \in Screen : buffer[p] = "blank"
    BY <2>1 DEF Init
  <2>3. InnerInv
    BY <2>2 DEF InnerInv
  <2>4. \A i \in Maps : Places(i, cells[i]) = {}
    BY <2>2 DEF Places
  <2>5. ASSUME NEW i \in Maps PROVE AfterLoop(cells[i], entities[i]) = cells[i]
    <3>1. cells[i] = [c \in Cells |-> Nobody]
      BY <2>1 DEF Init
    <3>2. \A c \in Cells : Touching(entities[i], c) = {}
      BY <2>2 DEF Touching
    <3> QED
      BY <3>1, <3>2 DEF AfterLoop
  <2> QED
    BY <2>2, <2>3, <2>4, <2>5 DEF ScreenInv
<1>2. StateInv /\ PlaceInv /\ InnerInv /\ ScreenInv /\ [Next]_vars => InnerInv' /\ ScreenInv'
  BY InnerNext, ScreenNext
<1> QED
  BY <1>1, <1>2, StateInvariant, PlaceInvariant, PTL DEF Spec

(* Whoever is in a cell of any map can be seen, at the place that its map has on the
   server's screen or at the client's own origin, and until entities move nobody else
   can: no thread draws its walls over an entity (Map.cpp:20-23, 75-79). *)
THEOREM EntitiesAreSeen == Spec => []EntityOnScreen
<1>1. ASSUME NEW i
      PROVE  {<<e.x + m_config(i).x, e.y + m_config(i).y>> :
                  e \in {cells[i][c] : c \in Cells} \ {Nobody}} = Places(i, cells[i])
  BY DEF Places, Place
<1>2. ASSUME StateOK, ScreenInv PROVE EntityOnScreen
  <2>1. DOMAIN buffer = Screen /\ HostOK
    BY <1>2 DEF StateOK
  <2>2. ASSUME NEW i \in Maps PROVE Places(i, cells[i]) \subseteq Screen
    BY <1>2, <2>1, PlacesInScreen DEF StateOK
  <2> DEFINE Drawn(i) == {<<e.x + m_config(i).x, e.y + m_config(i).y>> :
                            e \in {cells[i][c] : c \in Cells} \ {Nobody}}
             drawn == UNION {Drawn(i) : i \in Maps}
             seen == {p \in DOMAIN buffer : buffer[p] = "entity"}
  <2>3. \A p : p \in drawn <=> \E i \in Maps : p \in Places(i, cells[i])
    <3>1. \A i \in Maps : Drawn(i) = Places(i, cells[i])
      BY <1>1
    <3> HIDE DEF Drawn
    <3> QED
      BY <3>1
  <2> HIDE DEF Drawn, drawn
  <2>4. drawn \subseteq seen
    BY <1>2, <2>1, <2>2, <2>3 DEF ScreenInv
  <2>5. ASSUME moves = 0 PROVE seen = drawn
    BY <1>2, <2>1, <2>3, <2>4, <2>5 DEF ScreenInv
  <2> QED
    BY <2>4, <2>5, Zenon DEF EntityOnScreen, Drawn, drawn
<1> QED
  BY <1>2, StateInvariant, ScreenInvariant, PTL DEF StateInv
-----------------------------------------------------------------------------
(* Of the frame.                                                           *)

LEMMA OnWall ==
    ASSUME HostOK, NEW i \in Maps, NEW a \in Nat, NEW b \in 0..(m_map_height - 1)
    PROVE  <<a, b>> \in Wall(i) <=>
             \/ /\ Offset(i) <= a /\ a <= Offset(i) + m_map_width - 1
                /\ b \in {0, m_map_height - 1}
             \/ a = Offset(i) + Side(i)
<1> DEFINE w == m_map_width
           h == m_map_height
           X == Offset(i)
           s == Side(i)
<1>1. w \in Nat /\ h \in Nat /\ X \in Nat
  BY MapSizes, Offsets
<1> HIDE DEF w, h, X, s
<1>2. ASSUME NEW d PROVE <<a, b>> \in Row(X, w, d) <=> X <= a /\ a <= X + w - 1 /\ b = d
  <2>1. ASSUME X <= a, a <= X + w - 1, b = d PROVE <<a, b>> \in Row(X, w, d)
    <3>1. a - X \in 0..(w - 1) /\ a = X + (a - X)
      BY <1>1, <2>1
    <3> QED
      BY <2>1, <3>1 DEF Row
  <2>2. ASSUME <<a, b>> \in Row(X, w, d) PROVE X <= a /\ a <= X + w - 1 /\ b = d
    <3>1. PICK k \in 0..(w - 1) : <<a, b>> = <<X + k, d>>
      BY <2>2 DEF Row
    <3> QED
      BY <1>1, <3>1
  <2> QED
    BY <2>1, <2>2
<1>3. <<a, b>> \in Column(X, h, s) <=> a = X + s
  BY DEF Column, h
<1>4. Wall(i) = Row(X, w, 0) \union Row(X, w, h - 1) \union Column(X, h, s)
  BY DEF Wall, X, w, h, s
<1>5. <<a, b>> \in Wall(i) <=>
        \/ /\ X <= a /\ a <= X + w - 1
           /\ b \in {0, h - 1}
        \/ a = X + s
  BY <1>2, <1>3, <1>4
<1> QED
  BY <1>5 DEF X, w, h, s

(* What the walls of all maps make together. *)
OnFrame(a, b) ==
    LET lastColumn == Cardinality(Maps) * m_map_width - 1
    IN /\ a <= lastColumn
       /\ \/ b \in {0, envHeight - 1}
          \/ a = 0 /\ host # 1
          \/ a = lastColumn /\ 1 \in Maps

LEMMA Framing ==
    ASSUME HostOK, NEW a \in Nat, NEW b \in 0..(m_map_height - 1)
    PROVE  OnFrame(a, b) <=> \E i \in Maps : <<a, b>> \in Wall(i)
<1> DEFINE w == m_map_width
           h == m_map_height
<1>1. w \in Nat /\ h \in Nat /\ w >= 3 /\ h >= 3 /\ b \in Nat
  BY MapSizes
<1>2. h = envHeight
  BY DEF m_map_height
<1>3. Side(0) = 0 /\ Side(1) = w - 1
  BY DEF Side
<1>4. \A i \in Maps : <<a, b>> \in Wall(i) <=>
             \/ /\ Offset(i) <= a /\ a <= Offset(i) + w - 1
                /\ b \in {0, h - 1}
             \/ a = Offset(i) + Side(i)
  BY OnWall
<1>5. \A i \in Maps : Offset(i) = IF host = Server /\ i = 1 THEN w ELSE 0
  BY Offsets
<1>6. (\A i : Cardinality({i}) = 1) /\ 1 * w = w /\ 2 * w = w + w
  <2>1. \A i : Cardinality({i}) = 1
    BY FS_Singleton
  <2>2. 1 * w = w /\ 2 * w = w + w
    BY <1>1
  <2> QED
    BY <2>1, <2>2
<1>7. Cardinality({0, 1}) = 2
  <2>1. {0, 1} = 0..1 /\ 0 \in Int /\ 1 \in Int
    OBVIOUS
  <2>2. Cardinality(0..1) = IF 0 > 1 THEN 0 ELSE 1 - 0 + 1
    BY <2>1, FS_Interval, Zenon
  <2>3. Cardinality(0..1) = 2
    BY <2>2
  <2> QED
    BY <2>1, <2>3, Zenon
<1>8. CASE host = Server
  <2>1. CASE Maps = {0}
    <3>1. Cardinality(Maps) * w - 1 = w - 1
      BY <1>6, <2>1
    <3>2. OnFrame(a, b) <=> a <= w - 1 /\ (b \in {0, h - 1} \/ a = 0)
      BY <1>2, <1>8, <2>1, <3>1 DEF OnFrame, Server
    <3>3. Offset(0) = 0
      BY <1>5, <2>1
    <3> HIDE DEF w, h
    <3> QED
      BY <1>1, <1>3, <1>4, <2>1, <3>2, <3>3
  <2>2. CASE Maps = {0, 1}
    <3>1. Cardinality(Maps) * w - 1 = w + w - 1
      <4>1. Cardinality(Maps) = 2
        BY <1>7, <2>2
      <4>2. 2 * w - 1 = w + w - 1
        BY <1>1
      <4> QED
        BY <4>1, <4>2, Zenon
    <3>2. OnFrame(a, b) <=> a <= w + w - 1 /\ (b \in {0, h - 1} \/ a = 0 \/ a = w + w - 1)
      BY <1>2, <1>8, <2>2, <3>1 DEF OnFrame, Server
    <3>3. Offset(0) = 0 /\ Offset(1) = w
      BY <1>5, <1>8, <2>2
    <3> HIDE DEF w, h
    <3>4. <<a, b>> \in Wall(0) <=> (a <= w - 1 /\ b \in {0, h - 1}) \/ a = 0
      BY <1>1, <1>3, <1>4, <2>2, <3>3
    <3>5. <<a, b>> \in Wall(1) <=>
            (w <= a /\ a <= w + w - 1 /\ b \in {0, h - 1}) \/ a = w + w - 1
      BY <1>1, <1>3, <1>4, <2>2, <3>3
    <3> QED
      BY <1>1, <2>2, <3>2, <3>4, <3>5
  <2>3. Maps = {0} \/ Maps = {0, 1}
    BY <1>8, Hosts
  <2> QED
    BY <2>1, <2>2, <2>3
<1>9. CASE host # Server
  <2>1. Maps = {host} /\ host \in {0, 1}
    BY <1>9, Hosts
  <2>2. Cardinality(Maps) * w - 1 = w - 1
    BY <1>6, <2>1
  <2>3. OnFrame(a, b) <=> /\ a <= w - 1
                          /\ \/ b \in {0, h - 1}
                             \/ a = 0 /\ host # 1
                             \/ a = w - 1 /\ host = 1
    BY <1>2, <2>1, <2>2 DEF OnFrame
  <2>4. Offset(host) = 0
    BY <1>5, <1>9, <2>1
  <2> HIDE DEF w, h
  <2> QED
    BY <1>1, <1>3, <1>4, <2>1, <2>3, <2>4
<1> QED
  BY <1>8, <1>9

FrameInv ==
    \A p \in Screen : IF \E i \in started : p \in Wall(i) THEN buffer[p] # "blank"
                      ELSE buffer[p] # "wall"

LEMMA WallStays == ASSUME host' = host, NEW i PROVE Wall(i)' = Wall(i)
  BY DEF Wall, Offset

LEMMA FrameNext == ASSUME StateInv, FrameInv, [Next]_vars PROVE FrameInv'
<1>1. StateOK /\ HostOK
  BY DEF StateInv, StateOK
<1>2. host' = host /\ Screen' = Screen /\ \A j : Wall(j)' = Wall(j)
  BY HostKept, HostStays, WallStays
<1>3. ASSUME \/ CreateConsole
             \/ UNCHANGED vars
             \/ \E i \in Maps : Move(i)
      PROVE  FrameInv'
  <2>1. started' = started /\ buffer' = buffer
    BY <1>3 DEF CreateConsole, Move, vars, mapVars
  <2> QED
    BY <1>2, <2>1 DEF FrameInv
<1>4. ASSUME NEW i \in Maps, Feed(i) \/ Update(i) PROVE FrameInv'
  <2>1. started' = started /\ \E es : update_entities(i, es)
    BY <1>4 DEF Feed, Update
  <2>2. buffer' = [p \in Screen |-> IF p \in Places(i, cells'[i]) THEN "entity" ELSE buffer[p]]
    BY <1>1, <2>1, Rendered DEF update_entities, StateOK
  <2>3. \A p \in Screen : buffer'[p] = buffer[p] \/ buffer'[p] = "entity"
    BY <2>2
  <2> QED
    BY <1>2, <2>1, <2>3 DEF FrameInv
<1>5. ASSUME NEW i \in Maps, StartUp(i) PROVE FrameInv'
  <2>1. started' = started \union {i}
        /\ buffer' = write_character(buffer, m_draw_walls(m_config(i)), "wall")
    BY <1>5 DEF StartUp
  <2>2. \A p \in Screen : buffer'[p] = IF p \in Wall(i) THEN "wall" ELSE buffer[p]
    BY <1>1, <2>1, Walls DEF write_character, StateOK
  <2>3. ASSUME NEW p \in Screen
        PROVE  IF \E j \in started' : p \in Wall(j) THEN buffer'[p] # "blank"
               ELSE buffer'[p] # "wall"
    <3>1. CASE p \in Wall(i)
      BY <2>1, <2>2, <3>1
    <3>2. CASE p \notin Wall(i)
      <4>1. buffer'[p] = buffer[p]
        BY <2>2, <3>2
      <4>2. (\E j \in started' : p \in Wall(j)) <=> \E j \in started : p \in Wall(j)
        BY <2>1, <3>2
      <4> QED
        BY <4>1, <4>2 DEF FrameInv
    <3> QED
      BY <3>1, <3>2
  <2> QED
    BY <1>2, <2>3 DEF FrameInv
<1> QED
  BY <1>3, <1>4, <1>5, Zenon DEF Next

(* Once all threads have started, the walls of the maps, drawn each by its own thread
   in any order, are one frame around all of them, with nothing missing and nothing
   else (Environment.cpp:90-104, Map.cpp:86-131). *)
THEOREM FrameIsClosed == Spec => []Enclosed
<1>1. Init => FrameInv
  BY DEF Init, FrameInv
<1>2. ASSUME StateInv, FrameInv PROVE Enclosed
  <2>1. HostOK
    BY <1>2 DEF StateInv, StateOK
  <2>2. SUFFICES ASSUME started = Maps, NEW p \in Screen
        PROVE  IF OnFrame(p[1], p[2]) THEN buffer[p] # "blank" ELSE buffer[p] # "wall"
    BY Zenon DEF Enclosed, OnFrame
  <2>3. PICK i : i \in Maps
    BY <2>1, Hosts
  <2>4. p[1] \in Nat /\ p[2] \in 0..(m_map_height - 1) /\ p = <<p[1], p[2]>>
    BY <2>1, <2>3, Offsets DEF Screen
  <2>5. OnFrame(p[1], p[2]) <=> \E j \in started : p \in Wall(j)
    BY <2>1, <2>2, <2>4, Framing
  <2> QED
    BY <1>2, <2>5 DEF FrameInv
<1> QED
  BY <1>1, <1>2, FrameNext, StateInvariant, PTL DEF Spec
=============================================================================
