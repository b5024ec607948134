-------------------------------- MODULE Pty --------------------------------
(***************************************************************************)
(* my_pty.c: starts a program on a pseudo terminal and relays between it   *)
(* and standard input and output, with two processes (loop) or with one    *)
(* and select (loop_one_process, the one that main calls).                 *)
(*                                                                         *)
(* Input and output are counted in buffers of the relay.  The terminal     *)
(* holds Cap of them in each direction and discards none; a writer waits   *)
(* for room.  The program is external: it may write of its own accord, may *)
(* answer each input before it reads the next one, and may end.  Standard  *)
(* output always takes what is written.                                    *)
(***************************************************************************)
EXTENDS Naturals, FiniteSets

CONSTANTS
  MaxIn,     \* what may be typed
  MaxOut,    \* what the program may write of its own accord
  Cap,
  MaxTerm    \* bound on SIGTERMs from outside

PtyAssumption == {MaxIn, MaxOut, MaxTerm} \subseteq Nat /\ Cap \in Nat \ {0}

VARIABLES
  variant, ignoreeof,     \* the function that main calls, and its argument
  typed, ends,            \* what is left of the input; whether it ends then
  answers, own, owed,     \* the program: as above, and what it is about to write
  slave,                  \* the program's side: not yet open, open, closed
  prog,                   \* "setup", "run", "ended"
  inbuf, outbuf,          \* held by the terminal
  relay, kid,             \* the process of main and the child of loop
  ready,                  \* what select has found
  handler, sigcaught,
  term,                   \* a SIGTERM for the process of main is pending
  written, shown,         \* history: written by the program, and to standard output
  missed,                 \* history: sig_term ran outside of a waiting read
  cut,                    \* history: the only process left its loop on the input side
  outside,                \* history: SIGTERMs from outside
  stray                   \* history: the child's kill went to another process

program == <<answers, own, owed, slave, prog>>
signals == <<handler, sigcaught, term, missed, outside, stray>>
input   == <<typed, ends>>
setting == <<variant, ignoreeof>>
ptyvars == <<setting, input, program, inbuf, outbuf, relay, kid, ready, signals,
             written, shown, cut>>

Init ==
  /\ variant \in {"loop", "one"} /\ ignoreeof \in BOOLEAN
  /\ typed \in 0 .. MaxIn /\ ends \in BOOLEAN
  /\ answers \in BOOLEAN /\ own \in 0 .. MaxOut /\ owed = 0
  /\ slave = "unopened" /\ prog = "setup" /\ inbuf = 0 /\ outbuf = 0
  /\ relay = (IF variant = "loop" THEN "fork" ELSE "select") /\ kid = "none" /\ ready = {}
  /\ handler = FALSE /\ sigcaught = FALSE /\ term = FALSE
  /\ written = 0 /\ shown = 0 /\ missed = FALSE /\ cut = FALSE /\ outside = 0 /\ stray = FALSE

Over    == relay \in {"done", "killed"}
KidRuns == kid \in {"read", "write", "tell"}
AtEof   == typed = 0 /\ ends
-----------------------------------------------------------------------------
(* The program.  The child of pty_fork may fail before it has opened the   *)
(* terminal and after, when execvp does; both end it.                      *)

Start ==
  /\ prog = "setup"
  /\ \/ prog' = "run"   /\ slave' = "open"
     \/ prog' = "ended" /\ slave' \in {"unopened", "closed"}
  /\ UNCHANGED <<setting, input, answers, own, owed, inbuf, outbuf, relay, kid, ready, signals,
                 written, shown, cut>>

ProgRead ==
  /\ prog = "run" /\ owed = 0 /\ inbuf > 0
  /\ inbuf' = inbuf - 1 /\ owed' = IF answers THEN 1 ELSE 0
  /\ UNCHANGED <<setting, input, answers, own, slave, prog, outbuf, relay, kid, ready, signals,
                 written, shown, cut>>

ProgWrite ==
  /\ prog = "run" /\ outbuf < Cap
  /\ \/ owed > 0 /\ owed' = 0 /\ UNCHANGED own
     \/ owed = 0 /\ own > 0 /\ own' = own - 1 /\ UNCHANGED owed
  /\ outbuf' = outbuf + 1 /\ written' = written + 1
  /\ UNCHANGED <<setting, input, answers, slave, prog, inbuf, relay, kid, ready, signals,
                 shown, cut>>

(* It ends, or is hung up when nobody has the other side open any more. *)
ProgEnd ==
  /\ prog = "run" /\ prog' = "ended" /\ slave' = "closed"
  /\ UNCHANGED <<setting, input, answers, own, owed, inbuf, outbuf, relay, kid, ready, signals,
                 written, shown, cut>>
-----------------------------------------------------------------------------
(* loop: the child relays the input, the parent the output. *)

Fork ==
  /\ relay = "fork" /\ relay' = "sigaction" /\ kid' = "read"
  /\ UNCHANGED <<setting, input, program, inbuf, outbuf, ready, signals, written, shown, cut>>

KidRead ==
  /\ kid = "read"
  /\ \/ typed > 0 /\ typed' = typed - 1 /\ kid' = "write"
     \/ AtEof /\ kid' = (IF ignoreeof THEN "exit" ELSE "tell") /\ UNCHANGED typed
  /\ UNCHANGED <<setting, ends, program, inbuf, outbuf, relay, ready, signals, written, shown, cut>>

(* A write to a terminal that the program has closed fails. *)
KidWrite ==
  /\ kid = "write"
  /\ \/ slave = "closed" /\ kid' = "exit" /\ UNCHANGED inbuf
     \/ slave # "closed" /\ inbuf < Cap /\ inbuf' = inbuf + 1 /\ kid' = "read"
  /\ UNCHANGED <<setting, input, program, outbuf, relay, ready, signals, written, shown, cut>>

(* Mutant of KidTell: the parent is not told. *)
KidTellNot ==
  /\ kid = "tell" /\ kid' = "exit"
  /\ UNCHANGED <<setting, input, program, inbuf, outbuf, relay, ready, signals, written, shown, cut>>

KidTell ==
  /\ kid = "tell" /\ kid' = "exit"
  /\ IF Over THEN stray' = TRUE /\ UNCHANGED term ELSE term' = TRUE /\ UNCHANGED stray
  /\ UNCHANGED <<setting, input, program, inbuf, outbuf, relay, ready, handler, sigcaught, missed,
                 outside, written, shown, cut>>

Sigaction ==
  /\ relay = "sigaction" /\ relay' = "read" /\ handler' = TRUE
  /\ UNCHANGED <<setting, input, program, inbuf, outbuf, kid, ready, sigcaught, term, missed,
                 outside, stray, written, shown, cut>>

(* Output that is left in the terminal comes before the end. *)
RelayRead ==
  /\ relay = "read"
  /\ \/ outbuf > 0 /\ outbuf' = outbuf - 1 /\ relay' = "write"
     \/ outbuf = 0 /\ slave = "closed" /\ relay' = "end" /\ UNCHANGED outbuf
  /\ UNCHANGED <<setting, input, program, inbuf, kid, ready, signals, written, shown, cut>>

RelayWrite ==
  /\ relay = "write" /\ relay' = "read" /\ shown' = shown + 1
  /\ UNCHANGED <<setting, input, program, inbuf, outbuf, kid, ready, signals, written, cut>>

RelayEnd ==
  /\ relay = "end" /\ relay' = "done"
  /\ kid' = IF ~sigcaught /\ KidRuns THEN "killed" ELSE kid
  /\ UNCHANGED <<setting, input, program, inbuf, outbuf, ready, signals, written, shown, cut>>

(* sig_term.  It ends a read that waits; a signal that comes a moment      *)
(* before the read does not.                                               *)
SigTerm ==
  /\ term /\ term' = FALSE
  /\ IF handler
       THEN /\ sigcaught' = TRUE
            /\ \/ relay = "read" /\ outbuf = 0 /\ relay' = "end" /\ UNCHANGED missed
               \/ relay' = relay /\ missed' = TRUE
       ELSE relay' = (IF Over THEN relay ELSE "killed") /\ UNCHANGED <<sigcaught, missed>>
  /\ UNCHANGED <<setting, input, program, inbuf, outbuf, kid, ready, handler, outside, stray,
                 written, shown, cut>>

TermFromOutside ==
  /\ ~Over /\ outside < MaxTerm /\ outside' = outside + 1 /\ term' = TRUE
  /\ UNCHANGED <<setting, input, program, inbuf, outbuf, relay, kid, ready, handler, sigcaught,
                 missed, stray, written, shown, cut>>
-----------------------------------------------------------------------------
(* loop_one_process *)

Select ==
  /\ relay = "select"
  /\ ready' = (IF typed > 0 \/ AtEof THEN {"in"} ELSE {})
        \cup (IF outbuf > 0 \/ slave = "closed" THEN {"out"} ELSE {})
  /\ ready' # {}
  /\ relay' = IF "in" \in ready' THEN "one_in" ELSE "one_out"
  /\ UNCHANGED <<setting, input, program, inbuf, outbuf, kid, signals, written, shown, cut>>

OneIn ==
  /\ relay = "one_in"
  /\ IF typed > 0 THEN typed' = typed - 1 /\ relay' = "one_write" /\ UNCHANGED cut
                  ELSE relay' = "done" /\ cut' = TRUE /\ UNCHANGED typed
  /\ UNCHANGED <<setting, ends, program, inbuf, outbuf, kid, ready, signals, written, shown>>

OneWrite ==
  /\ relay = "one_write"
  /\ \/ slave = "closed" /\ relay' = "done" /\ cut' = TRUE /\ UNCHANGED inbuf
     \/ /\ slave # "closed" /\ inbuf < Cap /\ inbuf' = inbuf + 1
        /\ relay' = (IF "out" \in ready THEN "one_out" ELSE "select") /\ UNCHANGED cut
  /\ UNCHANGED <<setting, input, program, outbuf, kid, ready, signals, written, shown>>

OneOut ==
  /\ relay = "one_out"
  /\ IF outbuf > 0 THEN outbuf' = outbuf - 1 /\ shown' = shown + 1 /\ relay' = "select"
                   ELSE relay' = "done" /\ UNCHANGED <<outbuf, shown>>
  /\ UNCHANGED <<setting, input, program, inbuf, kid, ready, signals, written, cut>>

Relay   == Fork \/ Sigaction \/ RelayRead \/ RelayWrite \/ RelayEnd \/ Select \/ OneIn \/ OneWrite \/ OneOut
Kid     == KidRead \/ KidWrite \/ KidTell
Program == Start \/ ProgRead \/ ProgWrite

Next == Program \/ ProgEnd \/ Relay \/ Kid \/ SigTerm \/ TermFromOutside

Spec == Init /\ [][Next]_ptyvars

(* Processes run, signals arrive, and the program reads and writes when it *)
(* can.  It need not end.                                                  *)
FairSpec ==
  Spec /\ WF_ptyvars(Program) /\ WF_ptyvars(Relay) /\ WF_ptyvars(Kid) /\ WF_ptyvars(SigTerm)
-----------------------------------------------------------------------------
TypeOK ==
  /\ typed \in 0 .. MaxIn /\ own \in 0 .. MaxOut /\ owed \in 0 .. 1
  /\ {inbuf, outbuf} \subseteq 0 .. Cap
  /\ slave \in {"unopened", "open", "closed"} /\ prog \in {"setup", "run", "ended"}
  /\ kid \in {"none", "read", "write", "tell", "exit", "killed"} /\ ready \subseteq {"in", "out"}
  /\ relay \in {"fork", "sigaction", "read", "write", "end", "select", "one_in", "one_write",
                "one_out", "done", "killed"}
  /\ outside \in 0 .. MaxTerm

(* All that a program has written before it ends is shown.  Output is lost *)
(* only when the relay ends for another reason: with two processes by a    *)
(* SIGTERM, with one by the input, of which it treats the end, and a       *)
(* failure to pass it on, before the output that select has found as well. *)
AllShown ==
  Over /\ shown < written =>
    IF variant = "loop" THEN sigcaught \/ relay = "killed"
                        ELSE cut \/ relay = "killed"

(* The two processes of loop end together: the parent leaves no child      *)
(* behind, and the child kills nobody else's process, unless a SIGTERM has *)
(* come from outside (the parent then takes it for the child's).           *)
EndTogether ==
  outside = 0 => /\ Over /\ variant = "loop" => ~KidRuns
                 /\ ~stray

(* The relay waits to write to the program, which waits to write to it.    *)
Jammed ==
  variant = "one" /\ relay = "one_write" /\ inbuf = Cap /\ outbuf = Cap /\ owed > 0

(* What is typed is passed on while the program lives.  loop_one_process   *)
(* can jam, as it does nothing else while it writes; loop cannot.          *)
Input      == typed > 0
PassedOn   == typed = 0 \/ Over \/ prog = "ended" \/ Jammed
InputFlows == Input ~> PassedOn

(* The end of the input ends the relay, unless the signal fell outside of  *)
(* the parent's read, or the program has never opened its terminal.        *)
TheEnd  == AtEof /\ ~ignoreeof
EndSeen == Over \/ missed \/ slave = "unopened" \/ Jammed
EofEnds == TheEnd ~> EndSeen
=============================================================================
