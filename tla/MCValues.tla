------------------------------ MODULE MCValues ------------------------------
(***************************************************************************)
(* The pieces without processes: a string that is trimmed, dates,          *)
(* fractions, clocks that observe timers, Boolean expressions, a list with *)
(* its iterator, and mazes; one of them in each behaviour, with the        *)
(* variables of the others at Idle.                                        *)
(***************************************************************************)
EXTENDS TrimString

CONSTANTS
  Given, DaySteps, Days,               \* CalendarDate
  Numbers, Most,                       \* Fraction
  Timers, Clocks, None, MaxMeddle,     \* ClockObserver
  Names, Begins, MaxNodes, MaxBuilt,   \* Interpreter
  Items, Sizes, MaxSize, MaxPast,      \* ListIterators
  MaxMazes, MaxChanges                 \* Mazes

VARIABLES
  piece,
  date, other,
  self, arg, exact, slip,
  life, observers, subject, meddled, meddling, crashed,
  nodes, built, meant,
  pList, class, current, divided, put, seen, from, strayed,
  sites, mazes, changes, tied, touched, blown

Dates       == INSTANCE CalendarDate WITH Steps <- DaySteps
Fractions   == INSTANCE Fraction
Observers   == INSTANCE ClockObserver
Expressions == INSTANCE Interpreter
Lists       == INSTANCE ListIterators WITH crashed <- divided
Maze        == INSTANCE Mazes

ASSUME Assumptions ==
  Dates!DateAssumption /\ Fractions!FractionAssumption /\ Observers!ObserverAssumption
  /\ Expressions!InterpreterAssumption /\ Lists!ListAssumption
  /\ Maze!MazeAssumption

(* Days 30 of February, month 13 and the year before the first are there. *)
MCGiven == {<<1, 1, 1000>>, <<30, 2, 1004>>, <<31, 1, 1004>>, <<28, 2, 1100>>, <<27, 2, 1200>>,
            <<30, 12, 1299>>, <<29, 13, 1001>>, <<1, 1, 999>>}
MCSteps   == {-1, 1, 40}
MCDays    == (-12 .. 800) \cup (1450 .. 1550) \cup (36500 .. 36700) \cup (73000 .. 73200) \cup (109500 .. 109700)
MCNumbers == {-6, -1, 0, 2, 3}
MCBegins  == {<<"x", "x">>, <<"xy", "xy">>, <<"x", "xy">>}

dateVars == <<date, other>>
fracVars == <<self, arg, exact, slip>>
obsVars  == <<life, observers, subject, meddled, meddling, crashed>>
expVars  == <<nodes, built, meant>>
listVars == <<pList, class, current, divided, put, seen, from, strayed>>
mazeVars == <<sites, mazes, changes, tied, touched, blown>>

Idle == 0

NoString ==
  /\ io_str = Idle /\ buf = Idle /\ r = Idle /\ w = Idle /\ found_space = Idle
  /\ pc = Idle /\ text = Idle /\ calls = Idle

NoDates     == date = Idle /\ other = Idle
NoFractions == self = Idle /\ arg = Idle /\ exact = Idle /\ slip = Idle
NoObservers ==
  /\ life = Idle /\ observers = Idle /\ subject = Idle
  /\ meddled = Idle /\ meddling = Idle /\ crashed = Idle
NoExpressions == nodes = Idle /\ built = Idle /\ meant = Idle
NoLists ==
  /\ pList = Idle /\ class = Idle /\ current = Idle /\ divided = Idle
  /\ put = Idle /\ seen = Idle /\ from = Idle /\ strayed = Idle
NoMazes ==
  /\ sites = Idle /\ mazes = Idle /\ changes = Idle
  /\ tied = Idle /\ touched = Idle /\ blown = Idle

IsString      == piece = "string"
IsDates       == piece = "dates"
IsFractions   == piece = "fractions"
IsObservers   == piece = "observers"
IsExpressions == piece = "expressions"
IsLists       == piece = "lists"
IsMazes       == piece = "mazes"

MCInit ==
  /\ piece \in {"string", "dates", "fractions", "observers", "expressions", "lists", "mazes"}
  /\ IF IsString      THEN Init             ELSE NoString
  /\ IF IsDates       THEN Dates!Init       ELSE NoDates
  /\ IF IsFractions   THEN Fractions!Init   ELSE NoFractions
  /\ IF IsObservers   THEN Observers!Init   ELSE NoObservers
  /\ IF IsExpressions THEN Expressions!Init ELSE NoExpressions
  /\ IF IsLists       THEN Lists!Init       ELSE NoLists
  /\ IF IsMazes       THEN Maze!Init        ELSE NoMazes

MCNext ==
  /\ UNCHANGED piece
  /\ IF IsString      THEN Next             ELSE UNCHANGED vars
  /\ IF IsDates       THEN Dates!Next       ELSE UNCHANGED dateVars
  /\ IF IsFractions   THEN Fractions!Next   ELSE UNCHANGED fracVars
  /\ IF IsObservers   THEN Observers!Next   ELSE UNCHANGED obsVars
  /\ IF IsExpressions THEN Expressions!Next ELSE UNCHANGED expVars
  /\ IF IsLists       THEN Lists!Next       ELSE UNCHANGED listVars
  /\ IF IsMazes       THEN Maze!Next        ELSE UNCHANGED mazeVars

MCvars == <<piece, vars, dateVars, fracVars, obsVars, expVars, listVars, mazeVars>>

MCSpec == MCInit /\ [][MCNext]_MCvars
-----------------------------------------------------------------------------
(* trim_string stays within its two arrays, gets the words and the single  *)
(* spaces between them right, leaves at most one space at the end, and     *)
(* removes that one when it is called again.                               *)
TrimmedRight == IsString => InBounds /\ TrimmedButTheEnd /\ TrimmedTwice

(* The conversions of Date.cpp are inverse to each other, agree with the   *)
(* calendar from one day to the next and with the days of the week.  An    *)
(* operation of Fraction.cpp leaves the value that it should in lowest     *)
(* terms, but that a fraction divided by itself is one over its            *)
(* denominator.                                                            *)
NumbersRight ==
  /\ IsDates     => /\ Dates!TypeOK /\ Dates!RoundTrip
                    /\ Dates!NextDay /\ Dates!WeekDays
  /\ IsFractions => /\ Fractions!TypeOK /\ Fractions!Reduced
                    /\ Fractions!ValueKept /\ Fractions!OverDenominator

(* The lists of observer_pattern.cpp hold the clocks that live, and no     *)
(* object is called after its end, unless the user attaches or detaches.   *)
(* The copies of Interpreter_Pattern.cpp mean what their originals meant,  *)
(* whatever parts are shared and assigned to, and are evaluated as far as  *)
(* the context goes.  The list of IteratorPattern.cpp keeps what was       *)
(* stored, and its loops miss nothing while it grows.  Mazes made by the   *)
(* same factory, or of copies, share nothing; their doors lead from room   *)
(* to room, and what a bomb opens is what was around it.                   *)
ObjectsRight ==
  /\ IsObservers   => /\ Observers!TypeOK /\ Observers!Registered
                      /\ Observers!NoUseAfterDelete
  /\ IsExpressions => /\ Expressions!TypeOK /\ Expressions!CopiesKeepMeaning
                      /\ Expressions!RightInPart
  /\ IsLists       => /\ Lists!TypeOK /\ Lists!StoredStays /\ Lists!LoopsSeeAll
                      /\ Lists!EmptyReadUnstarted
  /\ IsMazes       => /\ Maze!TypeOK /\ Maze!Apart /\ Maze!DoorsLead
                      /\ Maze!BlownOpen /\ Maze!OpenForAReason
=============================================================================
