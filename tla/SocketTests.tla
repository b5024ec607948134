---------------------------- MODULE SocketTests ----------------------------
(***************************************************************************)
(* The tests of streams_pipe.c, exchange_fd.c and unique_connections.c.    *)
(* A test program runs the tests of its suite one after another, each in a *)
(* process group of its own: the test, and the child it may fork.  The     *)
(* name of the socket is all that one test leaves to the next, and one     *)
(* execution of the program to another.                                    *)
(*                                                                         *)
(* A test is a script: the calls that can wait, fail or be observed by the *)
(* other process, in the order of the source.  A call whose result is not  *)
(* the expected one ends its process with status 1 (fail); socket, fork,   *)
(* socketpair and malloc succeed.  serv_listen and serv_accept appear with *)
(* the calls they make, on names that are fresh (UniqueConnections has the *)
(* others).                                                                *)
(***************************************************************************)
EXTENDS Naturals, Sequences, FiniteSets

CONSTANTS
  Executions,  \* bound on how often the program is run
  Interrupts   \* bound on how often it is interrupted

TestsAssumption == Executions \in Nat \ {0} /\ Interrupts \in Nat

VARIABLES
  suite,       \* the program
  first,       \* the name was there before the first execution
  run,         \* the number of this execution
  interrupts,
  hasfile,     \* FILE_NAME, the source of opend1 at its author's, can be opened
  at,          \* the number of the test that is running
  pc,          \* the next call of each process of the test
  proc,        \* "off", "run", or how the process has ended
  sockname,    \* what the name of the socket denotes
  conn,        \* the connection between the two: none, waiting in the backlog, accepted
  told,        \* the byte of tell_parent is in the pipe
  wire,        \* what has been sent and not received
  shut,        \* the receiver's end is closed by the test itself
  notes,       \* history: what went wrong in this test
  results      \* of the tests that are over

inside == <<at, pc, proc, conn, told, wire, shut, notes>>
outside == <<suite, first, run, interrupts, hasfile>>
stvars  == <<outside, sockname, results, inside>>

P == "test"
C == "child"
Procs == {P, C}

Suites == [streams  |-> <<"template">>,
           exchange |-> <<"send_fd", "send_fd_with_sockpair", "fd_exchange",
                          "fd_exchange_with_sockpair">>,
           unique   |-> <<"serv_listen", "client", "communication">>]

(* Mutant of Template: the parent is told before the child listens. *)
TemplateTellFirst ==
  [test  |-> <<"remove", "fork", "wait_child", "connect", "read", "end">>,
   child |-> <<"bind", "tell_parent", "listen", "accept", "write", "end">>]

(* streams_pipe.c: the child serves. *)
Template ==
  [test  |-> <<"remove", "fork", "wait_child", "connect", "read", "end">>,
   child |-> <<"bind", "listen", "tell_parent", "accept", "write", "end">>]

(* exchange_fd.c: the test serves a child that connects as soon as it can. *)
SendFd ==
  [test  |-> <<"remove", "fork", "bind", "listen", "accept", "send_fd", "check_waitpid">>,
   child |-> <<"connect", "end">>]

SendFdWithSockpair ==
  [test  |-> <<"socketpair", "send_fd", "close", "send_fd_fails", "end">>,
   child |-> <<>>]

FdExchange ==
  [test  |-> <<"open_file", "remove", "fork", "bind", "listen", "accept", "send_fd",
               "check_waitpid">>,
   child |-> <<"connect", "recv_fd", "end">>]

FdExchangeWithSockpair ==
  [test  |-> <<"socketpair", "send_fd", "recv_fd", "end">>,
   child |-> <<>>]

(* unique_connections.c: the file is made for serv_listen to unlink it.    *)
ServListen == <<"unlink", "create", "remove", "bind", "listen">>

TestServListen == [test |-> ServListen \o <<"unlink", "end">>, child |-> <<>>]

TestClient == [test |-> ServListen \o <<"connect", "accept", "unlink", "end">>, child |-> <<>>]

TestCommunication ==
  [test  |-> ServListen \o <<"fork", "accept", "read", "waitpid", "unlink", "end">>,
   child |-> <<"connect", "write", "end">>]

Script == [template |-> Template, send_fd |-> SendFd,
           send_fd_with_sockpair |-> SendFdWithSockpair, fd_exchange |-> FdExchange,
           fd_exchange_with_sockpair |-> FdExchangeWithSockpair,
           serv_listen |-> TestServListen, client |-> TestClient,
           communication |-> TestCommunication]

Current == Suites[suite][at]

Init ==
  /\ suite \in DOMAIN Suites /\ hasfile \in BOOLEAN
  /\ first \in BOOLEAN /\ sockname = IF first THEN "dead" ELSE "none"
  /\ run = 1 /\ interrupts = 0
  /\ at = 1 /\ pc = [p \in Procs |-> 1] /\ proc = [p \in Procs |-> IF p = P THEN "run" ELSE "off"]
  /\ conn = "none" /\ told = FALSE /\ wire = {} /\ shut = FALSE /\ notes = {}
  /\ results = <<>>
-----------------------------------------------------------------------------
Op(p)    == Script[Current][p][pc[p]]
Going(p)  == proc[p] = "run"
Ended(p) == proc[p] \notin {"off", "run"}
Other(p) == IF p = P THEN C ELSE P

On(p)         == pc' = [pc EXCEPT ![p] = @ + 1] /\ UNCHANGED proc
Exit(p, how)  == proc' = [proc EXCEPT ![p] = how] /\ UNCHANGED pc
(* fail_unless *)
Expect(p, ok) == IF ok THEN On(p) ELSE Exit(p, "failed")

(* What a waiting call waits for.  The connection of a process that has    *)
(* ended reads as closed; the pipe does not, as the reader has its write   *)
(* end, too.                                                               *)
Ready(p) ==
  Going(p) /\ CASE Op(p) = "wait_child"                   -> told
               [] Op(p) = "accept"                       -> conn = "waiting"
               [] Op(p) \in {"read", "recv_fd"}          -> wire # {} \/ Ended(Other(p))
               [] Op(p) \in {"waitpid", "check_waitpid"} -> Ended(C)
               [] OTHER                                  -> TRUE

Call(p, op) == Ready(p) /\ Op(p) = op

(* unlink, where the result is looked at and where it is not *)
Remove(p) ==
  /\ Call(p, "remove")
  /\ Expect(p, sockname # "none")
  /\ notes' = IF sockname = "none" THEN notes \cup {"noname"} ELSE notes
  /\ sockname' = "none"
  /\ UNCHANGED <<outside, at, conn, told, wire, shut, results>>

Unlink(p) ==
  /\ Call(p, "unlink") /\ On(p) /\ sockname' = "none"
  /\ UNCHANGED <<outside, at, conn, told, wire, shut, notes, results>>

Create(p) ==
  /\ Call(p, "create") /\ Expect(p, sockname = "none") /\ sockname' = "file"
  /\ UNCHANGED <<outside, at, conn, told, wire, shut, notes, results>>

Bind(p) ==
  /\ Call(p, "bind") /\ Expect(p, sockname = "none")
  /\ sockname' = IF sockname = "none" THEN "bound" ELSE sockname
  /\ UNCHANGED <<outside, at, conn, told, wire, shut, notes, results>>

Listen(p) ==
  /\ Call(p, "listen") /\ On(p) /\ sockname' = "live"
  /\ UNCHANGED <<outside, at, conn, told, wire, shut, notes, results>>

OpenFile(p) ==
  /\ Call(p, "open_file") /\ Expect(p, hasfile)
  /\ notes' = IF hasfile THEN notes ELSE notes \cup {"nofile"}
  /\ UNCHANGED <<outside, at, sockname, conn, told, wire, shut, results>>

Fork(p) ==
  /\ Call(p, "fork")
  /\ pc' = [pc EXCEPT ![p] = @ + 1] /\ proc' = [proc EXCEPT ![C] = "run"]
  /\ UNCHANGED <<outside, at, sockname, conn, told, wire, shut, notes, results>>

TellParent(p) ==
  /\ Call(p, "tell_parent") /\ On(p) /\ told' = TRUE
  /\ UNCHANGED <<outside, at, sockname, conn, wire, shut, notes, results>>

WaitChild(p) ==
  /\ Call(p, "wait_child") /\ On(p) /\ told' = FALSE
  /\ UNCHANGED <<outside, at, sockname, conn, wire, shut, notes, results>>

(* Nobody listens yet, or any more: ENOENT or ECONNREFUSED. *)
Connect(p) ==
  /\ Call(p, "connect") /\ Expect(p, sockname = "live")
  /\ IF sockname = "live" THEN conn' = "waiting" /\ UNCHANGED notes
                          ELSE notes' = notes \cup {"early"} /\ UNCHANGED conn
  /\ UNCHANGED <<outside, at, sockname, told, wire, shut, results>>

Accept(p) ==
  /\ Call(p, "accept") /\ On(p) /\ conn' = "accepted"
  /\ UNCHANGED <<outside, at, sockname, told, wire, shut, notes, results>>

Socketpair(p) ==
  /\ Call(p, "socketpair") /\ On(p) /\ conn' = "accepted"
  /\ UNCHANGED <<outside, at, sockname, told, wire, shut, notes, results>>

Close(p) ==
  /\ Call(p, "close") /\ On(p) /\ shut' = TRUE
  /\ UNCHANGED <<outside, at, sockname, conn, told, wire, notes, results>>

(* send_fd and write.  SIGPIPE ends a process that sends to an end nobody  *)
(* has: it does not live to see sendmsg fail.                              *)
Send(p) ==
  /\ \E op \in {"send_fd", "send_fd_fails", "write"} : Call(p, op)
  /\ IF shut \/ Ended(Other(p))
       THEN Exit(p, "sigpipe") /\ notes' = notes \cup {"noreader"} /\ UNCHANGED wire
       ELSE /\ Expect(p, Op(p) # "send_fd_fails")
            /\ wire' = {IF Op(p) = "write" THEN "msg" ELSE "fd"} /\ UNCHANGED notes
  /\ UNCHANGED <<outside, at, sockname, conn, told, shut, results>>

(* recv_fd returns a descriptor for the status 0 that send_fd puts in      *)
(* front of one, and -3 when the connection is closed.                     *)
Receive(p) ==
  /\ \E op \in {"read", "recv_fd"} : Call(p, op)
  /\ Expect(p, wire = {IF Op(p) = "read" THEN "msg" ELSE "fd"})
  /\ wire' = {}
  /\ UNCHANGED <<outside, at, sockname, conn, told, shut, notes, results>>

Waitpid(p) ==
  /\ Call(p, "waitpid") /\ On(p)
  /\ UNCHANGED <<outside, at, sockname, conn, told, wire, shut, notes, results>>

(* check_waitpid_and_exit: the status of the child is that of the test. *)
CheckWaitpid(p) ==
  /\ Call(p, "check_waitpid")
  /\ Exit(p, IF proc[C] = "done" THEN "done" ELSE "failed")
  /\ UNCHANGED <<outside, at, sockname, conn, told, wire, shut, notes, results>>

(* The function returns, in the child, too. *)
Return(p) ==
  /\ Call(p, "end") /\ Exit(p, "done")
  /\ UNCHANGED <<outside, at, sockname, conn, told, wire, shut, notes, results>>
-----------------------------------------------------------------------------
(* The check library: the test is over when its process has ended; after   *)
(* the time limit, that is when nobody can go on, it is killed.  In both   *)
(* cases the rest of its group is killed, and sockets die with it.         *)

Begin(n) ==
  /\ sockname' = IF sockname \in {"bound", "live"} THEN "dead" ELSE sockname
  /\ at' = n /\ pc' = [p \in Procs |-> 1]
  /\ proc' = [p \in Procs |-> IF p = P /\ n <= Len(Suites[suite]) THEN "run" ELSE "off"]
  /\ conn' = "none" /\ told' = FALSE /\ wire' = {} /\ shut' = FALSE /\ notes' = {}

Finish(result) ==
  /\ results' = Append(results, [test |-> Current, result |-> result, notes |-> notes])
  /\ Begin(at + 1) /\ UNCHANGED outside

Over    == Ended(P) /\ Finish(proc[P])
Timeout == Going(P) /\ (\A p \in Procs : ~Ready(p)) /\ Finish("timeout")

(* The program is run again, after it has ended or has been interrupted. *)
Again ==
  /\ run < Executions /\ run' = run + 1
  /\ \/ at > Len(Suites[suite]) /\ UNCHANGED interrupts
     \/ at <= Len(Suites[suite]) /\ interrupts < Interrupts /\ interrupts' = interrupts + 1
  /\ Begin(1) /\ results' = <<>> /\ UNCHANGED <<suite, first, hasfile>>

Step(p) ==
  \/ Remove(p) \/ Unlink(p) \/ Create(p) \/ Bind(p) \/ Listen(p) \/ OpenFile(p) \/ Fork(p)
  \/ TellParent(p) \/ WaitChild(p) \/ Connect(p) \/ Accept(p) \/ Socketpair(p) \/ Close(p)
  \/ Send(p) \/ Receive(p) \/ Waitpid(p) \/ CheckWaitpid(p) \/ Return(p)

Library == Over \/ Timeout

Next == (\E p \in Procs : Step(p)) \/ Library \/ Again

Spec == Init /\ [][Next]_stvars

(* Each process runs, and the library keeps its time limit; nobody has to  *)
(* run the program again.                                                  *)
Fairness == (\A p \in Procs : WF_stvars(Step(p))) /\ WF_stvars(Library)
FairSpec == Spec /\ Fairness
-----------------------------------------------------------------------------
TypeOK ==
  /\ suite \in DOMAIN Suites /\ hasfile \in BOOLEAN /\ first \in BOOLEAN
  /\ run \in 1 .. Executions /\ interrupts \in 0 .. Interrupts
  /\ at \in 1 .. Len(Suites[suite]) + 1
  /\ \A p \in Procs : pc[p] \in 1 .. 12
  /\ proc \in [Procs -> {"off", "run", "done", "failed", "sigpipe"}]
  /\ sockname \in {"none", "file", "dead", "bound", "live"}
  /\ conn \in {"none", "waiting", "accepted"}
  /\ told \in BOOLEAN /\ shut \in BOOLEAN /\ wire \in {{}, {"msg"}, {"fd"}}
  /\ notes \subseteq {"noname", "nofile", "early", "noreader"}
  /\ Len(results) = at - 1

(* A test does not hang unless its child connected before there was a      *)
(* socket that listened: the parent then accepts for ever.  A test is not  *)
(* killed by SIGPIPE unless its child was gone before it was accepted, or  *)
(* the test itself has closed the other end.  It fails only where the name *)
(* or the file it wants is not there.  So the orders that the tests do     *)
(* control (accept before the read, listen before tell_parent, the message *)
(* read after its sender has ended) all come out right.                    *)
Explained ==
  \A i \in DOMAIN results :
    LET r == results[i]
    IN /\ r.result = "timeout" => "early" \in r.notes
       /\ r.result = "sigpipe" => "noreader" \in r.notes /\ r.test \in {"send_fd", "send_fd_with_sockpair"}
       /\ r.result = "failed"  => r.notes \cap {"noname", "nofile"} # {}
       /\ r.result = "done"    => r.notes = {}
       /\ "early" \in r.notes  => r.test \in {"send_fd", "fd_exchange"}

(* The name lasts.  The tests of exchange_fd.c and streams_pipe.c neither  *)
(* pass without it nor make it then, in this execution or a later one; and *)
(* once it is there every test finds it, those after a test that failed or *)
(* hung too, unless an interrupt came between the unlink and the bind.     *)
NameLasts ==
  /\ "noname" \in notes /\ first => interrupts > 0
  /\ ~first /\ suite \in {"exchange", "streams"} =>
       \A i \in DOMAIN results :
         results[i].result = "done" => results[i].test \in {"fd_exchange_with_sockpair"}

(* An execution ends, with a result for each of its tests. *)
AllOver   == at > Len(Suites[suite])
SuiteEnds == \A r \in 1 .. Executions : run = r ~> AllOver \/ run > r

(* "make sure that this name is not in use" (streams_pipe.c:90): its test  *)
(* does not fail because the name it is about to bind is free.             *)
FreeNameWillDo == suite = "streams" => "noname" \notin notes
=============================================================================
