----------------------------- MODULE FdPassing -----------------------------
(***************************************************************************)
(* client1.c and opend1.c: for each file name on its standard input the    *)
(* client forks a child that becomes the program opend1, lets it connect   *)
(* to a socket, sends the name, receives an open descriptor and copies the *)
(* file to standard output.                                                *)
(*                                                                         *)
(* A process forked for a line is called by its number; the socket made    *)
(* and the connection opened for that line have the same number.  Several  *)
(* clients may run at a time; all use the same socket name.  A child of    *)
(* which connect fails returns from csopen like its parent, and goes on    *)
(* with the lines that are left in its copy of the input buffer.           *)
(*                                                                         *)
(* Of a file only its size counts, in buffers of BUFFSIZE, or that opend1  *)
(* cannot open it.  Standard output is not readable.  socket, listen, dup2 *)
(* and execl succeed.                                                      *)
(***************************************************************************)
EXTENDS Integers, Sequences, FiniteSets

CONSTANTS
  Clients,        \* the numbers of the processes that the user starts
  Procs,          \* all that can run; fork fails when no number is left
  Inputs,         \* what may be on the standard input of each client
  Missing,        \* the size of a file that cannot be opened
  Mortal,         \* children that may be killed
  LeftOver        \* what may have the socket's name at first

None  == 0
Stale == -1       \* a name that nobody listens to

ASSUME FdAssumption ==
  /\ IsFiniteSet(Procs) /\ Clients \subseteq Procs /\ Procs \subseteq Nat \ {0}
  /\ \A i \in Inputs : DOMAIN i = Clients /\ \A c \in Clients : i[c] \in Seq(Nat \cup {Missing})
  /\ Missing \notin Nat
  /\ Mortal \subseteq Procs \ Clients /\ LeftOver \subseteq {None, Stale}

VARIABLES
  lines,          \* the input of each client: the size of each file it names
  reg,            \* program counter and locals of each process
  holds,          \* the descriptors each process has open
  path,           \* the socket that SERVER names
  listening,      \* sockets after listen
  pending,        \* connections not yet accepted, for each socket
  told,           \* children that tell_child was called for
  up, down,       \* what is on its way to opend1 and back
  seen,           \* who has read which line: <<process, client, line>>
  killed

sockets == <<path, listening, pending>>
traffic == <<up, down>>
vars == <<lines, reg, holds, sockets, told, traffic, seen, killed>>

(* cl: whose input the process reads; at: the line it is at;               *)
(* shown: how many buffers of that file it has copied                      *)
Process(pc, cl, at) ==
  [pc |-> pc, cl |-> cl, at |-> at, child |-> None, conn |-> None, size |-> 0, shown |-> 0]

Init ==
  /\ lines \in Inputs
  /\ reg = [p \in Procs |-> IF p \in Clients THEN Process("line", p, 0)
                                             ELSE Process("none", None, 0)]
  /\ holds = [p \in Procs |-> {}]
  /\ path \in LeftOver /\ listening = {} /\ pending = [p \in Procs |-> <<>>]
  /\ told = {}
  /\ up = [p \in Procs |-> {}] /\ down = [p \in Procs |-> {}]
  /\ seen = {} /\ killed = {}

At(p, pc)  == reg[p].pc = pc
Go(p, pc)  == reg' = [reg EXCEPT ![p].pc = pc]
Line(r)    == lines[r.cl][r.at]

Held(d) == \E p \in Procs : d \in holds[p]

(* The client's end of connection c is open somewhere.                     *)
Attached(c) ==
  \/ Held(<<"conn", c>>)
  \/ \E s \in Procs : Held(<<"sock", s>>) /\ \E i \in DOMAIN pending[s] : pending[s][i] = c
-----------------------------------------------------------------------------
(* main and csopen of the client *)

(* fgets, until the end of the input *)
ReadLine(p) ==
  /\ At(p, "line")
  /\ LET r == reg[p]
     IN IF r.at < Len(lines[r.cl])
          THEN /\ reg' = [reg EXCEPT ![p] = Process("fork", r.cl, r.at + 1)]
               /\ seen' = seen \cup {<<p, r.cl, r.at + 1>>}
               /\ UNCHANGED holds
          ELSE /\ Go(p, "done")
               /\ holds' = [holds EXCEPT ![p] = {}]
               /\ UNCHANGED seen
  /\ UNCHANGED <<lines, sockets, told, traffic, killed>>

(* csopen returns EXIT_FAILURE, which is a descriptor to main: it reads     *)
(* from standard output, fails, and goes on with the next line.            *)
Failed(p) == Go(p, "line")

(* tell_wait and fork: the child has all that its parent has *)
TellWaitFork(p) ==
  /\ At(p, "fork")
  /\ IF \E c \in Procs : At(c, "none")
       THEN LET c == CHOOSE x \in Procs : At(x, "none") /\ \A y \in Procs : At(y, "none") => x <= y
            IN /\ reg' = [reg EXCEPT ![p].pc = "unlink", ![p].child = c,
                                     ![c] = Process("wait", reg[p].cl, reg[p].at)]
               /\ holds' = [holds EXCEPT ![c] = holds[p]]
       ELSE Failed(p) /\ UNCHANGED holds
  /\ UNCHANGED <<lines, sockets, told, traffic, seen, killed>>

Unlink(p) ==
  /\ At(p, "unlink")
  /\ IF path = None THEN Failed(p) ELSE Go(p, "bind")
  /\ path' = None
  /\ UNCHANGED <<lines, holds, listening, pending, told, traffic, seen, killed>>

Bind(p) ==
  /\ At(p, "bind")
  /\ IF path # None
       THEN Failed(p) /\ UNCHANGED <<path, holds>>
       ELSE /\ path' = reg[p].child
            /\ holds' = [holds EXCEPT ![p] = @ \cup {<<"sock", reg[p].child>>}]
            /\ Go(p, "listen")
  /\ UNCHANGED <<lines, listening, pending, told, traffic, seen, killed>>

Listen(p) ==
  /\ At(p, "listen")
  /\ listening' = listening \cup {reg[p].child}
  /\ Go(p, "tell")
  /\ UNCHANGED <<lines, holds, path, pending, told, traffic, seen, killed>>

(* Mutant of TellChild: csopen goes on to accept without it. *)
TellChildNot(p) ==
  /\ At(p, "tell")
  /\ Go(p, "accept")
  /\ UNCHANGED <<lines, holds, sockets, told, traffic, seen, killed>>

TellChild(p) ==
  /\ At(p, "tell")
  /\ told' = told \cup {reg[p].child}
  /\ Go(p, "accept")
  /\ UNCHANGED <<lines, holds, sockets, traffic, seen, killed>>

(* Mutant of Accept: the new descriptor is there before the fork, so the   *)
(* child has it too.                                                       *)
AcceptBoth(p) ==
  /\ At(p, "accept")
  /\ LET s == reg[p].child
         c == Head(pending[s])
     IN /\ pending[s] # <<>>
        /\ pending' = [pending EXCEPT ![s] = Tail(@)]
        /\ holds' = [holds EXCEPT ![p] = @ \cup {<<"conn", c>>}, ![s] = @ \cup {<<"conn", c>>}]
        /\ reg' = [reg EXCEPT ![p].pc = "write", ![p].conn = c]
  /\ UNCHANGED <<lines, path, listening, told, traffic, seen, killed>>

Accept(p) ==
  /\ At(p, "accept")
  /\ LET s == reg[p].child
         c == Head(pending[s])
     IN /\ pending[s] # <<>>
        /\ pending' = [pending EXCEPT ![s] = Tail(@)]
        /\ holds' = [holds EXCEPT ![p] = @ \cup {<<"conn", c>>}]
        /\ reg' = [reg EXCEPT ![p].pc = "write", ![p].conn = c]
  /\ UNCHANGED <<lines, path, listening, told, traffic, seen, killed>>

(* Mutant of Write: the connection is closed once the request is sent. *)
WriteClose(p) ==
  /\ At(p, "write") /\ ~At(reg[p].conn, "done")
  /\ up' = [up EXCEPT ![reg[p].conn] = {Line(reg[p])}]
  /\ holds' = [holds EXCEPT ![p] = @ \ {<<"conn", reg[p].conn>>}]
  /\ Go(p, "recv")
  /\ UNCHANGED <<lines, sockets, told, down, seen, killed>>

Write(p) ==
  /\ At(p, "write") /\ ~At(reg[p].conn, "done")
  /\ up' = [up EXCEPT ![reg[p].conn] = {Line(reg[p])}]
  /\ Go(p, "recv")
  /\ UNCHANGED <<lines, holds, sockets, told, down, seen, killed>>

(* SIGPIPE: nobody is at the other end any more. *)
WritePipe(p) ==
  /\ At(p, "write") /\ At(reg[p].conn, "done")
  /\ Go(p, "done")
  /\ holds' = [holds EXCEPT ![p] = {}]
  /\ UNCHANGED <<lines, sockets, told, traffic, seen, killed>>

(* recv_fd: a descriptor, or the end of the connection *)
RecvFd(p) ==
  /\ At(p, "recv")
  /\ \E size \in down[reg[p].conn] :
       reg' = [reg EXCEPT ![p].pc = "cat", ![p].size = size]
  /\ down' = [down EXCEPT ![reg[p].conn] = {}]
  /\ UNCHANGED <<lines, holds, sockets, told, up, seen, killed>>

RecvEnd(p) ==
  /\ At(p, "recv") /\ down[reg[p].conn] = {} /\ At(reg[p].conn, "done")
  /\ Go(p, "line")
  /\ UNCHANGED <<lines, holds, sockets, told, traffic, seen, killed>>

(* The loop over the file: close is inside it, so that the second read     *)
(* fails.  An empty file stays open.                                       *)
Cat(p) ==
  /\ At(p, "cat")
  /\ reg' = [reg EXCEPT ![p].pc = "line", ![p].shown = IF reg[p].size = 0 THEN 0 ELSE 1]
  /\ UNCHANGED <<lines, holds, sockets, told, traffic, seen, killed>>
-----------------------------------------------------------------------------
(* The child, and opend1 *)

(* Mutant of WaitParent: the child does not wait for its parent. *)
WaitParentNot(c) ==
  /\ At(c, "wait")
  /\ Go(c, "connect")
  /\ UNCHANGED <<lines, holds, sockets, told, traffic, seen, killed>>

WaitParent(c) ==
  /\ At(c, "wait") /\ c \in told
  /\ Go(c, "connect")
  /\ UNCHANGED <<lines, holds, sockets, told, traffic, seen, killed>>

(* connect; then the descriptor becomes standard input and output *)
Connect(c) ==
  /\ At(c, "connect")
  /\ IF path \in listening /\ Held(<<"sock", path>>)
       THEN /\ pending' = [pending EXCEPT ![path] = Append(@, c)]
            /\ Go(c, "serve")
       ELSE Failed(c) /\ UNCHANGED pending
  /\ UNCHANGED <<lines, holds, path, listening, told, traffic, seen, killed>>

(* read and request: there is no answer for a file that cannot be opened. *)
Request(c) ==
  /\ At(c, "serve") /\ up[c] # {}
  /\ up' = [up EXCEPT ![c] = {}]
  /\ down' = IF up[c] = {Missing} THEN down ELSE [down EXCEPT ![c] = up[c]]
  /\ UNCHANGED <<lines, reg, holds, sockets, told, seen, killed>>

(* read returns 0 *)
Hangup(c) ==
  /\ At(c, "serve") /\ up[c] = {} /\ ~Attached(c)
  /\ Go(c, "done")
  /\ holds' = [holds EXCEPT ![c] = {}]
  /\ UNCHANGED <<lines, sockets, told, traffic, seen, killed>>

(* Children may be killed, before or after they have become opend1. *)
Kill(c) ==
  /\ c \in Mortal /\ reg[c].pc \in {"wait", "connect", "serve"}
  /\ killed' = killed \cup {c}
  /\ Go(c, "done")
  /\ holds' = [holds EXCEPT ![c] = {}]
  /\ UNCHANGED <<lines, sockets, told, traffic, seen>>
-----------------------------------------------------------------------------
Step(p) ==
  \/ ReadLine(p) \/ TellWaitFork(p) \/ Unlink(p) \/ Bind(p) \/ Listen(p)
  \/ TellChild(p) \/ Accept(p) \/ Write(p) \/ WritePipe(p)
  \/ RecvFd(p) \/ RecvEnd(p) \/ Cat(p)
  \/ WaitParent(p) \/ Connect(p) \/ Request(p) \/ Hangup(p)

Next == \E p \in Procs : Step(p) \/ Kill(p)

Spec == Init /\ [][Next]_vars
FairSpec == Spec /\ \A p \in Procs : WF_vars(Step(p))
-----------------------------------------------------------------------------
PCs == {"none", "line", "fork", "unlink", "bind", "listen", "tell", "accept",
        "write", "recv", "cat", "wait", "connect", "serve", "done"}

(* A connection waits in one queue at most, and in none once somebody has  *)
(* accepted it; a client talks over a connection that it has open.         *)
TypeOK ==
  /\ \A p \in Procs : reg[p].pc \in PCs /\ reg[p].shown \in {0, 1}
  /\ path \in Procs \cup {None, Stale}
  /\ \A s, t \in Procs : \A i \in DOMAIN pending[s], j \in DOMAIN pending[t] :
       pending[s][i] = pending[t][j] => s = t /\ i = j
  /\ \A s, p \in Procs : \A i \in DOMAIN pending[s] : <<"conn", pending[s][i]>> \notin holds[p]
  /\ \A p \in Procs : At(p, "recv") => <<"conn", reg[p].conn>> \in holds[p]

(* A client that runs alone *)
Solo == \E c \in Clients : \A d \in Clients \ {c} : lines[d] = <<>>

(* While only one client runs no connect is refused, so every line is read *)
(* by one process: the pipe of tell_wait orders connect after listen, and  *)
(* the old socket is never connected to.                                   *)
LinesOnce ==
  Solo => \A a, b \in seen : a[2] = b[2] /\ a[3] = b[3] => a[1] = b[1]

(* The child of a csopen that has failed is never told to connect, and     *)
(* waits for ever.  A client that runs alone leaves none behind, unless    *)
(* nothing had the socket's name when it began: then no line of its input  *)
(* gets as far as listen.                                                  *)
ChildrenTold ==
  Solo => \A c \in Procs : At(c, "wait") /\ c \notin told =>
    \/ \E p \in Procs : reg[p].child = c /\ reg[p].pc \in {"unlink", "bind", "listen", "tell"}
    \/ path = None /\ listening = {}

(* However many clients run and whoever's child serves whom: opend1 does   *)
(* not end while its client waits for the descriptor, unless it is killed. *)
ServerStays ==
  \A p \in Procs : At(p, "recv") => At(reg[p].conn, "serve") \/ reg[p].conn \in killed

(* A client alone that finds an old socket name gets through its input,    *)
(* unless a file cannot be opened: then it waits for ever for an answer.   *)
SoloServed ==
  Solo /\ path = Stale =>
    <>(\/ \A c \in Clients : At(c, "done")
       \/ \E c \in Clients : At(c, "recv") /\ Line(reg[c]) = Missing
       \/ killed # {})

(* Who waits in accept gets a connection, unless another client takes the  *)
(* socket's name away (or its child is killed).                            *)
AcceptsUnlessTaken ==
  \A p \in Procs :
    At(p, "accept") ~> ~At(p, "accept") \/ path # reg[p].child \/ killed # {}

(* When all clients have ended so do the processes they have left behind,   *)
(* the last one first, as each has the connections of those before it open: *)
(* all but a child whose parent has failed in csopen and that nobody tells  *)
(* anything; and those before it wait with it.                             *)
Over == \A p \in Procs : reg[p].pc \in {"none", "serve", "done"}
ServersEnd == Over ~> \A p \in Procs : reg[p].pc \in {"none", "done"}

(* main: "cat file to std out".  When it comes back to read a line it has  *)
(* copied all of the file that the line before it names.                   *)
WholeFile ==
  \A p \in Procs :
    At(p, "line") /\ reg[p].at > 0 /\ Line(reg[p]) # Missing => reg[p].shown = Line(reg[p])
=============================================================================
