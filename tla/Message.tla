------------------------------ MODULE Message ------------------------------
(***************************************************************************)
(* Message<T>: objects are copied byte by byte to the end of the body and  *)
(* taken from its end again; nothing in a body says what it holds.  Bytes  *)
(* come in words of four; word i of an object v is <<v, i>>.               *)
(***************************************************************************)
EXTENDS Integers, Sequences

\* The objects that are sent, in words: sizeof on the 64-bit build.  An Entity
\* begins with the pointer to its virtual functions and ends with padding.
sizeof == [WinConsoleLayout |-> 3, MapConfig |-> 4, size_t |-> 2, Entity |-> 8]

\* The range of size_t, in words: TLC's integers are narrower than 64 bits, and
\* what matters is that no body comes near it.
SizeT == 2^20

Words(object, size) == [i \in 1..size |-> <<object, i>>]

\* operator<< and push_back_complex(): n objects one after the other.
push_back_complex(body, objects, size) ==
    body \o [i \in 1..(Len(objects) * size) |->
                <<objects[1 + ((i - 1) \div size)], 1 + ((i - 1) % size)>>]
append(body, object, size) == push_back_complex(body, <<object>>, size)

\* Where operator>> and pull_complex() begin to copy; unsigned.
FirstWord(body, words) == 0
cached_location(body, words) == (Len(body) - words) % SizeT

\* They copy from memory whether it is the body's or not.
Garbage == [type |-> "garbage"]
Outside(body, words) == cached_location(body, words) + words > Len(body)
memory(body, location) == IF location < Len(body) THEN body[location + 1] ELSE <<Garbage, 0>>

\* An object that words of one and the same object make, in order.
Decode(words) ==
    LET object == words[1][1]
    IN IF words = Words(object, Len(words)) THEN object ELSE Garbage

\* operator>> and pull_complex(): n objects from the end of the body.
pull_complex(body, n, size) ==
    LET location == cached_location(body, n * size)
    IN [j \in 1..n |-> Decode([i \in 1..size |-> memory(body, location + (j - 1) * size + i - 1)])]
pull(body, size) == pull_complex(body, 1, size)[1]
=============================================================================
