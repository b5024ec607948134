--------------------------- MODULE ClockObserver ---------------------------
(***************************************************************************)
(* observer_pattern.cpp: timers (the subjects) and clocks (the observers)  *)
(* that show their ticks, deleted in any order.  A clock attaches itself   *)
(* to the timer it is made for; Attach and Detach are public, so that the  *)
(* user may attach and detach it as well.                                  *)
(*                                                                         *)
(* A call to a deleted object is undefined: "crashed".                     *)
(***************************************************************************)
EXTENDS Naturals, Sequences, SequencesExt

CONSTANTS
  Timers, Clocks,
  None,          \* the null pointer
  MaxMeddle      \* bound on calls of Attach and Detach by the user

ObserverAssumption ==
  None \notin Timers \cup Clocks /\ Timers \cap Clocks = {} /\ MaxMeddle \in Nat

VARIABLES
  life,          \* "unmade", "alive" or "deleted", of each object
  observers,     \* observers_ of each timer
  subject,       \* subject_ of each clock
  meddled,       \* history: clocks that the user has attached or detached
  meddling,
  crashed

obsvars == <<life, observers, subject, meddled, meddling, crashed>>

Alive(x) == life[x] = "alive"

Init ==
  /\ life = [x \in Timers \cup Clocks |-> "unmade"]
  /\ observers = [t \in Timers |-> <<>>] /\ subject = [c \in Clocks |-> None]
  /\ meddled = {} /\ meddling = 0 /\ crashed = FALSE
-----------------------------------------------------------------------------
NewTimer(t) ==
  /\ life[t] = "unmade" /\ life' = [life EXCEPT ![t] = "alive"]
  /\ UNCHANGED <<observers, subject, meddled, meddling, crashed>>

(* The constructors of DigitalClock and AnalogClock *)
NewClock(c, t) ==
  /\ life[c] = "unmade" /\ Alive(t)
  /\ life' = [life EXCEPT ![c] = "alive"] /\ subject' = [subject EXCEPT ![c] = t]
  /\ observers' = [observers EXCEPT ![t] = Append(@, c)]
  /\ UNCHANGED <<meddled, meddling, crashed>>

(* Mutant of DeleteClock: the destructor does not detach. *)
DeleteClockOnly(c) ==
  /\ Alive(c) /\ life' = [life EXCEPT ![c] = "deleted"]
  /\ UNCHANGED <<observers, subject, meddled, meddling, crashed>>

(* Their destructors.  Detach erases the first entry of the clock. *)
DeleteClock(c) ==
  /\ Alive(c) /\ life' = [life EXCEPT ![c] = "deleted"]
  /\ LET t == subject[c]
     IN /\ observers' = IF t = None \/ ~Alive(t) THEN observers
                        ELSE [observers EXCEPT ![t] = RemoveFirst(@, c)]
        /\ crashed' = (crashed \/ (t # None /\ ~Alive(t)))
  /\ UNCHANGED <<subject, meddled, meddling>>

(* Notify calls Update of each observer; at the end of the timer with the  *)
(* null pointer, which a clock takes for the end of its subject, as it     *)
(* does with any subject that is not its own.                              *)
Notify(t, with) ==
  /\ crashed' = (crashed \/ \E i \in DOMAIN observers[t] : ~Alive(observers[t][i]))
  /\ subject' = [c \in Clocks |->
                   IF (\E i \in DOMAIN observers[t] : observers[t][i] = c) /\ subject[c] # with
                     THEN None ELSE subject[c]]

Tick(t) ==
  /\ Alive(t) /\ Notify(t, t)
  /\ UNCHANGED <<life, observers, meddled, meddling>>

(* The destructor of ClockTimer; its list goes with it. *)
DeleteTimer(t) ==
  /\ Alive(t) /\ life' = [life EXCEPT ![t] = "deleted"]
  /\ Notify(t, None)
  /\ observers' = [observers EXCEPT ![t] = <<>>]
  /\ UNCHANGED <<meddled, meddling>>

Meddle(c) == meddling < MaxMeddle /\ meddling' = meddling + 1 /\ meddled' = meddled \cup {c}

UserAttach(c, t) ==
  /\ Alive(c) /\ Alive(t) /\ Meddle(c)
  /\ observers' = [observers EXCEPT ![t] = Append(@, c)]
  /\ UNCHANGED <<life, subject, crashed>>

UserDetach(c, t) ==
  /\ Alive(c) /\ Alive(t) /\ Meddle(c)
  /\ observers' = [observers EXCEPT ![t] = RemoveFirst(@, c)]
  /\ UNCHANGED <<life, subject, crashed>>

Next ==
  /\ ~crashed
  /\ \/ \E t \in Timers : NewTimer(t) \/ Tick(t) \/ DeleteTimer(t)
     \/ \E c \in Clocks : DeleteClock(c)
     \/ \E c \in Clocks, t \in Timers : NewClock(c, t) \/ UserAttach(c, t) \/ UserDetach(c, t)

Spec == Init /\ [][Next]_obsvars
-----------------------------------------------------------------------------
TypeOK ==
  /\ life \in [Timers \cup Clocks -> {"unmade", "alive", "deleted"}]
  /\ subject \in [Clocks -> Timers \cup {None}]
  /\ \A t \in Timers : observers[t] \in Seq(Clocks)
  /\ meddled \subseteq Clocks /\ meddling \in 0 .. MaxMeddle /\ crashed \in BOOLEAN

Entries(c, t) == {i \in DOMAIN observers[t] : observers[t][i] = c}

(* A clock that the user leaves alone is in the list of its subject, once, *)
(* and in no other, as long as both live, whatever happens to the rest.    *)
Registered ==
  \A c \in Clocks \ meddled : \A t \in Timers :
    IF Alive(c) /\ subject[c] = t /\ Alive(t)
    THEN \E i \in DOMAIN observers[t] : Entries(c, t) = {i}
    ELSE Entries(c, t) = {}

(* No object is called after it was deleted, unless the user has attached  *)
(* or detached one: a clock attached twice stays in a list after its end,  *)
(* one that was detached does not hear of the end of its subject.          *)
NoUseAfterDelete == crashed => meddled # {}
=============================================================================
