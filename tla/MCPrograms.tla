----------------------------- MODULE MCPrograms -----------------------------
(***************************************************************************)
(* The small process trees of the repository, one in each behaviour: they  *)
(* share nothing but the way they are checked.  program says which one it  *)
(* is; the variables of the others stay at Idle.                           *)
(***************************************************************************)
EXTENDS Naturals, Sequences, FiniteSets

CONSTANTS
  Runs, MaxMsg, MaxKills,                               \* MessageQueue
  Executions, Interrupts,                               \* SocketTests
  Clients, Pids, None, Users, Root, Qlen, MaxCrashes,   \* UniqueConnections
  MaxIn, MaxOut, Cap, MaxTerm                           \* Pty

VARIABLES
  program,
  kind, main, kid, name, msgs, reg, held, blocked, pend, recved, overlapped, kills,
  suite, first, run, interrupts, hasfile, at, pc, proc, sockname, conn, told, wire, shut,
  notes, results,
  user, srvuser, client, pid, file, srvname, server, backlog, cur, uid, aged, robbed, crashes,
  sent, waiting, child, taken, early,
  now, loop, wake, next, pending, overrun, expire, expired, heldUp,
  variant, ignoreeof, typed, ends, answers, own, owed, slave, prog, inbuf, outbuf, relay, pkid,
  ready, handler, sigcaught, term, written, shown, missed, cut, outside, stray,
  tpc, mode, save, ttystate, handled, signal, torn, failed

Queue       == INSTANCE MessageQueue
Sockets     == INSTANCE SocketTests
Connections == INSTANCE UniqueConnections
Signals     == INSTANCE RtSignals
Timers      == INSTANCE RtTimers
Terminal    == INSTANCE Pty WITH kid <- pkid
Tty         == INSTANCE TtyModes WITH pc <- tpc, term <- mode

ASSUME Assumptions ==
  Queue!QueueAssumption /\ Sockets!TestsAssumption /\ Connections!ConnAssumption
  /\ Terminal!PtyAssumption

queueVars   == <<kind, main, kid, name, msgs, reg, held, blocked, pend, recved, overlapped, kills>>
socketVars  == <<suite, first, run, interrupts, hasfile, at, pc, proc, sockname, conn, told,
                 wire, shut, notes, results>>
connVars    == <<user, srvuser, client, pid, file, srvname, server, backlog, cur, uid, aged,
                 robbed, crashes>>
signalVars  == <<sent, waiting, child, taken, early>>
timerVars   == <<now, loop, wake, next, pending, overrun, expire, expired, heldUp>>
ptyVars     == <<variant, ignoreeof, typed, ends, answers, own, owed, slave, prog, inbuf, outbuf,
                 relay, pkid, ready, handler, sigcaught, term, written, shown, missed, cut,
                 outside, stray>>
ttyVars     == <<tpc, mode, save, ttystate, handled, signal, torn, failed>>
vars ==
  <<program, queueVars, socketVars, connVars, signalVars, timerVars, ptyVars, ttyVars>>

Idle == 0

NoQueue ==
  /\ kind = Idle /\ main = Idle /\ kid = Idle /\ name = Idle /\ msgs = Idle /\ reg = Idle
  /\ held = Idle /\ blocked = Idle /\ pend = Idle /\ recved = Idle /\ overlapped = Idle
  /\ kills = Idle

NoSockets ==
  /\ suite = Idle /\ first = Idle /\ run = Idle /\ interrupts = Idle /\ hasfile = Idle
  /\ at = Idle /\ pc = Idle /\ proc = Idle /\ sockname = Idle /\ conn = Idle /\ told = Idle
  /\ wire = Idle /\ shut = Idle /\ notes = Idle /\ results = Idle

NoConnections ==
  /\ user = Idle /\ srvuser = Idle /\ client = Idle /\ pid = Idle /\ file = Idle
  /\ srvname = Idle /\ server = Idle /\ backlog = Idle /\ cur = Idle /\ uid = Idle
  /\ aged = Idle /\ robbed = Idle /\ crashes = Idle

NoSignals == sent = Idle /\ waiting = Idle /\ child = Idle /\ taken = Idle /\ early = Idle

NoTimers ==
  /\ now = Idle /\ loop = Idle /\ wake = Idle /\ next = Idle /\ pending = Idle
  /\ overrun = Idle /\ expire = Idle /\ expired = Idle /\ heldUp = Idle

NoTerminal ==
  /\ variant = Idle /\ ignoreeof = Idle /\ typed = Idle /\ ends = Idle /\ answers = Idle
  /\ own = Idle /\ owed = Idle /\ slave = Idle /\ prog = Idle /\ inbuf = Idle /\ outbuf = Idle
  /\ relay = Idle /\ pkid = Idle /\ ready = Idle /\ handler = Idle /\ sigcaught = Idle
  /\ term = Idle /\ written = Idle /\ shown = Idle /\ missed = Idle /\ cut = Idle
  /\ outside = Idle /\ stray = Idle

NoTty ==
  /\ tpc = Idle /\ mode = Idle /\ save = Idle /\ ttystate = Idle /\ handled = Idle
  /\ signal = Idle /\ torn = Idle /\ failed = Idle

IsQueue       == program = "queue"
IsSockets     == program = "sockets"
IsConnections == program = "connections"
IsSignals     == program = "signals"
IsTimers      == program = "timers"
IsTerminal    == program = "terminal"
IsTty         == program = "tty"

MCInit ==
  /\ program \in {"queue", "sockets", "connections", "signals", "timers", "terminal", "tty"}
  /\ IF IsQueue       THEN Queue!Init       ELSE NoQueue
  /\ IF IsSockets     THEN Sockets!Init     ELSE NoSockets
  /\ IF IsConnections THEN Connections!Init ELSE NoConnections
  /\ IF IsSignals     THEN Signals!Init     ELSE NoSignals
  /\ IF IsTimers      THEN Timers!Init      ELSE NoTimers
  /\ IF IsTerminal    THEN Terminal!Init    ELSE NoTerminal
  /\ IF IsTty         THEN Tty!Init         ELSE NoTty

MCNext ==
  /\ UNCHANGED program
  /\ IF IsQueue       THEN Queue!Next       ELSE UNCHANGED queueVars
  /\ IF IsSockets     THEN Sockets!Next     ELSE UNCHANGED socketVars
  /\ IF IsConnections THEN Connections!Next ELSE UNCHANGED connVars
  /\ IF IsSignals     THEN Signals!Next     ELSE UNCHANGED signalVars
  /\ IF IsTimers      THEN Timers!Next      ELSE UNCHANGED timerVars
  /\ IF IsTerminal    THEN Terminal!Next    ELSE UNCHANGED ptyVars
  /\ IF IsTty         THEN Tty!Next         ELSE UNCHANGED ttyVars

(* A step of the i-th process of the program that is there, as the         *)
(* fairness of its module counts them                                      *)
Turn(i) ==
  /\ UNCHANGED program
  /\ CASE IsQueue       -> i \in Runs /\ Queue!Step(i)
       [] IsSockets     -> \/ i = 1 /\ Sockets!Step(Sockets!P)
                           \/ i = 2 /\ Sockets!Step(Sockets!C)
                           \/ i = 3 /\ Sockets!Library
       [] IsConnections -> \/ i \in Clients /\ Connections!CliConn(i)
                           \/ i = 3 /\ Connections!Server
       [] IsSignals     -> (i = 1 /\ Signals!Sigqueue) \/ (i = 2 /\ Signals!Child)
       [] IsTimers      -> \/ i = 1 /\ Timers!Test
                           \/ i = 2 /\ (Timers!Tick \/ Timers!Timeout)
       [] IsTerminal    -> \/ i = 1 /\ Terminal!Program
                           \/ i = 2 /\ Terminal!Relay
                           \/ i = 3 /\ Terminal!Kid
                           \/ i = 4 /\ Terminal!SigTerm
       [] IsTty         -> i = 1 /\ Tty!Main

active ==
  CASE IsQueue -> queueVars [] IsSockets -> socketVars [] IsConnections -> connVars
    [] IsSignals -> signalVars [] IsTimers -> timerVars
    [] IsTerminal -> ptyVars [] IsTty -> ttyVars

MCSpec == MCInit /\ [][MCNext]_vars /\ \A i \in 1 .. 4 : WF_active(Turn(i))
-----------------------------------------------------------------------------
(* Nothing that tells a process to go on is lost: the notification of a    *)
(* message queue, the signals of rt_signals.c, those of the timer.         *)
NotifiedInTime ==
  /\ IsQueue   => Queue!TypeOK   /\ Queue!AlonePasses
  /\ IsSignals => Signals!TypeOK /\ Signals!InTurn
  /\ IsTimers  => Timers!TypeOK  /\ Timers!QuitsInTime

(* The tests of streams_pipe.c, exchange_fd.c and unique_connections.c     *)
(* fail, hang and die for the reasons that are named, and no others.       *)
TestsExplained == IsSockets => Sockets!TypeOK /\ Sockets!Explained /\ Sockets!NameLasts

(* Whom serv_accept of unique_connections.c takes, and whom it turns down  *)
TakenForTheirOwn ==
  IsConnections =>
    /\ Connections!TypeOK /\ Connections!OwnUser
    /\ Connections!TurnedDown /\ Connections!InTheWay

(* What my_pty.c and noncanonical_mode.c leave behind when they end        *)
TerminalsLeftInOrder ==
  /\ IsTerminal => Terminal!TypeOK /\ Terminal!AllShown /\ Terminal!EndTogether
  /\ IsTty      => Tty!TypeOK /\ Tty!Restored /\ Tty!SavedIsOriginal

(* Whatever has begun ends, or gets its answer, in each of the programs:   *)
(* RunsEnd, SuiteEnds, Answered, ChildEnds, TestEnds, InputFlows, EofEnds  *)
(* and SignalEnds of the modules.                                          *)
Begun(i) ==
  CASE IsQueue       -> i \in Runs /\ Queue!Alive(i)
    [] IsSockets     -> run = i
    [] IsConnections -> i \in Clients /\ Connections!Asked(i)
    [] IsTerminal    -> (i = 1 /\ Terminal!Input) \/ (i = 2 /\ Terminal!TheEnd)
    [] IsTty         -> signal
    [] OTHER         -> TRUE

Ended(i) ==
  CASE IsQueue       -> main[i] \in Queue!Over
    [] IsSockets     -> Sockets!AllOver \/ run > i
    [] IsConnections -> Connections!HasAnswer(i)
    [] IsSignals     -> ~Signals!Alive
    [] IsTimers      -> loop \in Timers!Over
    [] IsTerminal    -> IF i = 1 THEN Terminal!PassedOn ELSE Terminal!EndSeen
    [] IsTty         -> ~Tty!Lives

AllEnd == \A i \in 1 .. 2 : Begun(i) ~> Ended(i)
=============================================================================
