------------------------------- MODULE Mazes -------------------------------
(***************************************************************************)
(* Prototype.cpp, AbstractFactory.cpp, FactoryMethod.cpp and               *)
(* MazeImplGeneric.cpp: mazes of two rooms, six walls and a door, made by  *)
(* factories that create their parts or copy prototypes, and a user who    *)
(* enters, bombs and rewires them, and the prototypes as well.             *)
(*                                                                         *)
(* A site is its number, its place in the heap; Null is the null pointer.  *)
(* Whether a room still has its bomb is left out, as nothing reads it.     *)
(***************************************************************************)
EXTENDS Naturals, Sequences

CONSTANTS MaxMazes, MaxChanges   \* bounds on mazes created and on changes made by the user

MazeAssumption == MaxMazes \in Nat /\ MaxChanges \in Nat

VARIABLES
  sites,    \* rooms, walls and doors
  mazes,    \* the rooms of each; the first maze is a prototype
  changes,
  tied,     \* history: the user has put parts of one maze into another
  touched,  \* history: rooms entered, walls bombed, and copies of open walls
  blown     \* history: the sides of rooms whose Enter returned true

mazevars == <<sites, mazes, changes, tied, touched, blown>>

Null == 0
North == 1
South == 2
East  == 3
West  == 4
Directions == {North, South, East, West}

Room(class, no, sides) == [class |-> class, no |-> no, sides |-> sides]
Door(r1, r2, open)     == [class |-> "door", rooms |-> <<r1, r2>>, open |-> open]
Wall                   == [class |-> "wall"]
BombedWall             == [class |-> "bombed wall", open |-> FALSE]

NoSides  == [d \in Directions |-> Null]
Rooms    == {s \in DOMAIN sites : sites[s].class \in {"room", "room with bomb"}}
Sides(r) == {sites[r].sides[d] : d \in Directions}
IsOpen(s) == sites[s].class \in {"bombed wall", "door"} /\ sites[s].open

(* The prototypes: any room, any wall, a door and a maze without rooms *)
RoomPrototype == 1
WallPrototype == 2
DoorPrototype == 3
Prototypes    == {RoomPrototype, WallPrototype, DoorPrototype}

Init ==
  /\ \E class \in {"room", "room with bomb"}, wall \in {Wall, BombedWall} :
       sites = <<Room(class, 0, NoSides), wall, Door(Null, Null, FALSE)>>
  /\ mazes = << <<>> >>
  /\ changes = 0 /\ tied = FALSE /\ touched = {} /\ blown = {}
-----------------------------------------------------------------------------
(* The copy constructors: a room is copied with its sides, one with a bomb *)
(* without them.                                                           *)
Copied(s) ==
  IF sites[s].class = "room with bomb" THEN [sites[s] EXCEPT !.sides = NoSides] ELSE sites[s]

Factories == {"standard", "bombed", "prototype"}

MakeRoom(f, no) ==
  CASE f = "standard"  -> Room("room", no, NoSides)
    [] f = "bombed"    -> Room("room with bomb", no, NoSides)
    [] f = "prototype" -> [Copied(RoomPrototype) EXCEPT !.no = no]

MakeWall(f) ==
  CASE f = "standard"  -> Wall
    [] f = "bombed"    -> BombedWall
    [] f = "prototype" -> Copied(WallPrototype)

(* MakeDoor of the prototypes' factory takes other arguments and does not  *)
(* override the one that CreateMaze calls.                                 *)
MakeDoor(r1, r2)  == Door(r1, r2, TRUE)
CloneDoor(r1, r2) == [Copied(DoorPrototype) EXCEPT !.rooms = <<r1, r2>>, !.open = FALSE]

MakeMaze(f) == IF f = "prototype" THEN mazes[1] ELSE <<>>

SetSides(room, n, s, e, w) ==
  [room EXCEPT !.sides = [d \in Directions |->
    CASE d = North -> n [] d = South -> s [] d = East -> e [] d = West -> w]]

CreateMaze(f) ==
  LET n == Len(sites)
      r1 == n + 1
      r2 == n + 2
      door == n + 3
  IN /\ sites' = sites
          \o << SetSides(MakeRoom(f, 1), n + 4, n + 5, door, n + 6),
                SetSides(MakeRoom(f, 2), n + 7, n + 8, n + 9, door),
                MakeDoor(r1, r2) >>
          \o [i \in 1 .. 6 |-> MakeWall(f)]
     /\ mazes' = Append(mazes, MakeMaze(f) \o <<r1, r2>>)
     /\ touched' = IF f = "prototype" /\ IsOpen(WallPrototype)
                   THEN touched \cup (n + 4 .. n + 9) ELSE touched
     /\ UNCHANGED <<tied, blown>>
-----------------------------------------------------------------------------
(* The loop of Enter stops at the first side that is neither a wall that   *)
(* can be bombed nor a door.                                               *)
Foreign(s) == s = Null \/ sites[s].class \notin {"bombed wall", "door"}

Reached(r) == {d \in Directions : \A e \in 1 .. d : ~Foreign(sites[r].sides[e])}

Opened(S) == [s \in DOMAIN sites |-> IF s \in S THEN [sites[s] EXCEPT !.open = TRUE] ELSE sites[s]]

Enter(r) ==
  /\ sites[r].class = "room with bomb"
  /\ sites' = Opened({sites[r].sides[d] : d \in Reached(r)})
  /\ touched' = touched \cup {r}
  /\ blown' = IF Reached(r) = Directions THEN blown \cup Sides(r) ELSE blown
  /\ UNCHANGED <<mazes, changes, tied>>

(* BombWall and SetOpen *)
Open(s) ==
  /\ sites[s].class \in {"bombed wall", "door"}
  /\ sites' = Opened({s}) /\ touched' = touched \cup {s}
  /\ UNCHANGED <<mazes, tied, blown>>

SetSide(r, d, s) ==
  /\ sites' = [sites EXCEPT ![r].sides[d] = s]
  /\ tied' = (tied \/ r # RoomPrototype \/ r \in touched)
  /\ UNCHANGED <<mazes, touched, blown>>

AddRoom(m, r) ==
  /\ mazes' = [mazes EXCEPT ![m] = Append(@, r)] /\ tied' = TRUE
  /\ UNCHANGED <<sites, touched, blown>>

Clone(s) ==
  /\ sites' = Append(sites, Copied(s))
  /\ touched' = IF s \in touched \/ IsOpen(s) THEN touched \cup {Len(sites) + 1} ELSE touched
  /\ UNCHANGED <<mazes, tied, blown>>

NewDoor(r1, r2) ==
  /\ sites' = Append(sites, CloneDoor(r1, r2)) /\ UNCHANGED <<mazes, tied, touched, blown>>

(* A maze is copied with its rooms. *)
CloneMaze(m) ==
  /\ mazes' = Append(mazes, mazes[m]) /\ tied' = (tied \/ mazes[m] # <<>>)
  /\ UNCHANGED <<sites, touched, blown>>

(* What else the user may do *)
Change ==
  \/ \E s \in DOMAIN sites : Open(s) \/ Clone(s)
  \/ \E r \in Rooms, d \in Directions, s \in DOMAIN sites : SetSide(r, d, s)
  \/ \E r \in Rooms : (\E m \in DOMAIN mazes : AddRoom(m, r)) \/ \E q \in Rooms : NewDoor(r, q)
  \/ \E m \in DOMAIN mazes : CloneMaze(m)

Next ==
  \/ Len(mazes) <= MaxMazes /\ UNCHANGED changes /\ \E f \in Factories : CreateMaze(f)
  \/ changes < MaxChanges /\ changes' = changes + 1 /\ Change
  \/ \E r \in Rooms : Enter(r)

Spec == Init /\ [][Next]_mazevars
-----------------------------------------------------------------------------
TypeOK ==
  /\ \A s \in DOMAIN sites :
       /\ sites[s].class \in {"room", "room with bomb", "wall", "bombed wall", "door"}
       /\ s \in Rooms => sites[s].sides \in [Directions -> {Null} \cup DOMAIN sites]
       /\ sites[s].class \in {"bombed wall", "door"} => sites[s].open \in BOOLEAN
  /\ \A m \in DOMAIN mazes : \A i \in DOMAIN mazes[m] : mazes[m][i] \in Rooms
  /\ touched \cup blown \subseteq DOMAIN sites

RoomsOf(m) == {mazes[m][i] : i \in DOMAIN mazes[m]}
Parts(m)   == RoomsOf(m) \cup UNION {Sides(r) : r \in RoomsOf(m)}

(* Mazes share no part with each other or with the prototypes, even when   *)
(* they are made of copies, unless the user has put parts of one into      *)
(* another.                                                                *)
Apart ==
  ~tied => \A m \in DOMAIN mazes : /\ Parts(m) \cap (Prototypes \cup {Null}) = {}
                                   /\ \A k \in DOMAIN mazes \ {m} : Parts(m) \cap Parts(k) = {}

OtherSideFrom(d, r) ==
  LET rooms == sites[d].rooms
  IN CASE r = rooms[1] -> rooms[2] [] r = rooms[2] -> rooms[1] [] OTHER -> Null

(* In each maze, whoever made it, an open door leads from the east side of *)
(* one room to the west side of the other, and back; they share no wall.   *)
DoorsLead ==
  ~tied => \A m \in DOMAIN mazes \ {1} : mazes[m] # <<>> =>
    LET a == mazes[m][1] b == mazes[m][2] d == sites[a].sides[East]
    IN /\ d = sites[b].sides[West] /\ sites[d].class = "door" /\ sites[d].open
       /\ Sides(a) \cap Sides(b) = {d}
       /\ OtherSideFrom(d, a) = b /\ OtherSideFrom(d, b) = a

(* A room with a bomb whose Enter returned true has all its sides open,    *)
(* for ever; and no wall is open but one that was bombed, the copy of such *)
(* a one, or a side of a room that was entered.                            *)
BlownOpen == \A s \in blown : sites[s].open

OpenForAReason ==
  ~tied => \A s \in DOMAIN sites :
    sites[s].class = "bombed wall" /\ IsOpen(s) =>
      s \in touched \/ \E r \in touched \cap Rooms : s \in Sides(r)
=============================================================================
