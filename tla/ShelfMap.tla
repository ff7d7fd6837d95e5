------------------------------- MODULE ShelfMap -------------------------------
(***************************************************************************)
(* What the location domain promises, with no locks, versions or requests: *)
(* a tree room > shelf > layer > cell whose nodes are created, archived    *)
(* and restored, and copies that stand on a shelf or in a cell.  Every     *)
(* change is one atomic step, copies only ever stand where the whole chain *)
(* above them is in use, and a node that has copies cannot be archived.    *)
(***************************************************************************)
CONSTANTS Room, Shelf, Layer, Cell, Copy, RoomOf, ShelfOf, LayerOf, None

Node     == Room \cup Shelf \cup Layer \cup Cell
Resource == Node \cup Copy
Place    == [shelf : Shelf, cell : Cell \cup {None}]

VARIABLES life,     \* "unborn", "active", "archived" or (a copy) "deleted"
          place     \* where each copy stands, None if it is not located

svars == <<life, place>>

\* A place copies may be put: every node of its chain is in use, and the cell is one
\* of the shelf's.
Open(p) ==
    /\ life[p.shelf] = "active"
    /\ life[RoomOf[p.shelf]] = "active"
    /\ p.cell # None =>
        /\ ShelfOf[LayerOf[p.cell]] = p.shelf
        /\ life[LayerOf[p.cell]] = "active"
        /\ life[p.cell] = "active"

\* The nodes of a place's chain.
Within(p, n) ==
    \/ n = p.shelf
    \/ n = RoomOf[p.shelf]
    \/ p.cell # None /\ (n = p.cell \/ n = LayerOf[p.cell])

Occupied(n) == \E c \in Copy : place[c] # None /\ Within(place[c], n)

Placed == \A c \in Copy : place[c] # None => life[c] = "active" /\ Open(place[c])

Init ==
    /\ life \in [Resource -> {"unborn", "active"}]
    /\ place \in [Copy -> Place \cup {None}]
    /\ Placed

\* The node directly above n, for every node but a room.
Parent(n) == IF n \in Shelf THEN RoomOf[n] ELSE IF n \in Layer THEN ShelfOf[n] ELSE LayerOf[n]

\* A node leaves use only when no copy stands in it, and comes into use (created or
\* restored) only under a node that is in use itself.
NodeStep(n) ==
    \/ life'[n] = life[n]
    \/ /\ life[n] = "active"
       /\ life'[n] = "archived"
       /\ ~Occupied(n)
    \/ /\ life[n] \in {"unborn", "archived"}
       /\ life'[n] = "active"
       /\ n \notin Room => life'[Parent(n)] = "active"

\* A copy, new or known, is put at an open place or taken off, or disappears with its
\* book.
CopyStep(c) ==
    \/ life'[c] = life[c] /\ place'[c] = place[c]
    \/ /\ life[c] \in {"unborn", "active"}
       /\ life'[c] = "active"
       /\ place'[c] # None => Open(place'[c])
    \/ life'[c] = "deleted" /\ place'[c] = None

\* One operation changes the tree or the copies, never both.
Reshape ==
    /\ \A n \in Node : NodeStep(n)
    /\ \A c \in Copy : life'[c] = life[c]
    /\ UNCHANGED place

Shelve ==
    /\ \A c \in Copy : CopyStep(c)
    /\ \A n \in Node : life'[n] = life[n]

Next == Reshape \/ Shelve

Spec == Init /\ [][Next]_svars
=============================================================================
