-------------------------- MODULE FdPassing_proofs --------------------------
(***************************************************************************)
(* Proofs about FdPassing, for any number of clients, inputs and forked    *)
(* processes.                                                              *)
(*                                                                         *)
(* Connected: a number is in one queue at most, and then the process of    *)
(* that number has connected and goes back to nothing; a client keeps the  *)
(* connection it talks over open, so opend1 at its other end has no end of *)
(* file to read.  Sole: a client that runs alone has a single child that   *)
(* it has told to connect, and waits for it in accept with the name of the *)
(* socket still its own; so that child does connect, and never returns to  *)
(* the loop that reads lines.                                              *)
(***************************************************************************)
EXTENDS FdPassing, SequenceTheorems, WellFoundedInduction, TLAPS

(* The fields of a handle, and what a program counter says of them *)
Fields  == {"pc", "cl", "at", "child", "conn", "size", "shown"}
Opening == {"unlink", "bind", "listen", "tell", "accept"}
Talking == {"write", "recv"}
Serving == {"serve", "done"}

Shape(r) ==
  /\ DOMAIN r = Fields /\ r.pc \in PCs /\ r.shown \in {0, 1}
  /\ r.pc \in Opening => r.child \in Procs
  /\ r.pc \in Talking => r.conn \in Procs

Shapes ==
  /\ DOMAIN reg = Procs /\ DOMAIN holds = Procs /\ \A p \in Procs : Shape(reg[p])
  /\ pending \in [Procs -> Seq(Procs)] /\ path \in Procs \cup {None, Stale}

(* Who waits in a queue waits in no other place; it has connected. *)
QueuedApart ==
  \A s, t \in Procs : \A i \in DOMAIN pending[s], j \in DOMAIN pending[t] :
    pending[s][i] = pending[t][j] => s = t /\ i = j
QueuedServe ==
  \A s \in Procs : \A i \in DOMAIN pending[s] : reg[pending[s][i]].pc \in Serving

(* A client holds the connection it talks over; at its other end there is  *)
(* opend1, which does not end while the client waits for it.               *)
Talks(r, h, conns, k) ==
  r.pc \in Talking =>
    /\ <<"conn", r.conn>> \in h
    /\ conns[r.conn].pc \in Serving
    /\ r.pc = "recv" => conns[r.conn].pc = "serve" \/ r.conn \in k

(* Whoever has the client's end of a connection has got it by accept. *)
Handed ==
  /\ \A p, c \in Procs : <<"conn", c>> \in holds[p] => reg[c].pc \in Serving
  /\ \A s, p \in Procs : \A i \in DOMAIN pending[s] : <<"conn", pending[s][i]>> \notin holds[p]

Connected ==
  /\ Shapes /\ QueuedApart /\ QueuedServe
  /\ \A p \in Procs : Talks(reg[p], holds[p], reg, killed)

(* While the others have nothing to read, one client m does all that is    *)
(* done with the socket's name, and waits for its child to connect.        *)
Alone(m) == \A d \in Clients \ {m} : lines[d] = <<>>
Child    == {"none", "wait", "connect", "serve", "done"}
Parent   == {"line", "fork", "write", "recv", "cat", "done"} \cup Opening
Called(c) == reg[c].pc = "connect" \/ (reg[c].pc = "wait" /\ c \in told)

Idle(m)    == \A d \in Clients \ {m} :
                reg[d].pc = "done" \/ (reg[d].pc = "line" /\ reg[d].cl = d /\ reg[d].at = 0)
Children   == \A c \in Procs \ Clients : reg[c].pc \in Child
Awaited(m) == \A c \in Procs \ Clients : Called(c) => reg[m].pc = "accept" /\ reg[m].child = c
ToldForked == \A c \in told : c \in Procs \ Clients /\ reg[c].pc # "none"
Opens(m) ==
  /\ reg[m].pc \in Parent
  /\ reg[m].pc \in Opening => reg[m].child \in Procs \ Clients /\ reg[reg[m].child].pc # "none"
  /\ reg[m].pc \in {"listen", "tell", "accept"} =>
       path = reg[m].child /\ <<"sock", path>> \in holds[m]
  /\ reg[m].pc \in {"tell", "accept"} => path \in listening
OwnQueue   == \A s \in Procs : \A i \in DOMAIN pending[s] : pending[s][i] = s
OneReads(m) == \A a \in seen : a[1] = m

Sole(m) ==
  /\ Idle(m) /\ Children /\ Awaited(m) /\ ToldForked /\ Opens(m)
  /\ OwnQueue /\ OneReads(m)

(* Who waits and has not been told anything is the child that m is about   *)
(* to tell, unless unlink fails for every line, as nothing has the name.   *)
Telling == {"unlink", "bind", "listen", "tell"}
Coming(m, c) == reg[m].child = c /\ reg[m].pc \in Telling
Unnamed(m)   == path = None /\ listening = {} /\ reg[m].pc \notin {"bind", "listen", "tell", "accept"}
Named(m)     == IF reg[m].pc = "bind" THEN path = None ELSE path = None => listening = {}
Tells(m) ==
  /\ Named(m)
  /\ \A c \in Procs \ Clients : reg[c].pc = "wait" /\ c \notin told => Coming(m, c) \/ Unnamed(m)

TellingClient == \A m \in Clients : Alone(m) => Tells(m)

SoleClient == \A m \in Clients : Alone(m) => Sole(m)
-----------------------------------------------------------------------------
(* fork finds the smallest free number, if there is one. *)
LEMMA LeastOf ==
  ASSUME NEW S, S \subseteq Nat, S # {}
  PROVE  \E x \in S : \A y \in S : x <= y
<1> DEFINE R == {ss \in Nat \X Nat : ss[1] < ss[2]}
<1>0. IsWellFoundedOn(R, Nat)
  BY NatLessThanWellFounded DEF OpToRel
<1> HIDE DEF R
<1>1. \E x \in S : \A y \in S : ~(<<y, x>> \in R)
  BY <1>0, WFMin
<1>2. ASSUME NEW x \in Nat, NEW y \in Nat, ~(<<y, x>> \in R) PROVE x <= y
  BY <1>2, SMT DEF R
<1> QED BY <1>1, <1>2

NewChild == CHOOSE x \in Procs : At(x, "none") /\ \A y \in Procs : At(y, "none") => x <= y

LEMMA ForkFinds ==
  ASSUME \E c \in Procs : At(c, "none") PROVE NewChild \in Procs /\ At(NewChild, "none")
<1> PICK S : S = {x \in Procs : At(x, "none")}
  OBVIOUS
<1>0. \A x \in Procs : x \in Nat
  BY FdAssumption, SMT
<1>1. S \subseteq Nat /\ S # {}
  BY <1>0
<1>2. PICK x \in S : \A y \in S : x <= y
  BY <1>1, LeastOf
<1>3. x \in Procs /\ At(x, "none") /\ \A y \in Procs : At(y, "none") => x <= y
  BY <1>2
<1> QED BY <1>3, Zenon DEF NewChild

USE FdAssumption DEF Fields, Opening, Talking, Serving, PCs

LEMMA ProcsNumbered == Procs \subseteq Nat \ {0} /\ None \notin Procs /\ Stale \notin Procs
BY SMT DEF None, Stale

(* A step that leaves the queues alone and moves p only *)
LEMMA MoveKeeps ==
  ASSUME Connected, NEW p \in Procs, NEW s, reg' = [reg EXCEPT ![p] = s], Shape(s),
         reg[p].pc \in Serving => s.pc \in Serving,
         reg[p].pc = "serve" /\ s.pc = "done" =>
           p \in killed' \/ \A q \in Procs : <<"conn", p>> \notin holds[q],
         DOMAIN holds' = Procs, \A q \in Procs : q # p => holds'[q] = holds[q],
         Talks(s, holds'[p], reg, killed), p # s.conn \/ s.pc \notin Talking,
         killed \subseteq killed', pending' = pending, path' \in Procs \cup {None, Stale}
  PROVE  Connected'
<1>1. Shapes'
  <2>1. DOMAIN reg = Procs /\ \A q \in Procs : Shape(reg[q])
    BY DEF Connected, Shapes
  <2>2. DOMAIN reg' = Procs /\ \A q \in Procs : Shape(reg'[q])
    BY <2>1
  <2> QED BY <2>2 DEF Connected, Shapes
<1>2. /\ DOMAIN reg = Procs /\ reg'[p] = s /\ \A q \in Procs : q # p => reg'[q] = reg[q]
  BY DEF Connected, Shapes
<1>3. \A q \in Procs : reg[q].pc \in Serving => reg'[q].pc \in Serving
  BY <1>2
<1>4. QueuedServe'
  <2> SUFFICES ASSUME NEW t \in Procs, NEW i \in DOMAIN pending[t]
               PROVE  reg'[pending[t][i]].pc \in Serving
    BY DEF QueuedServe
  <2>1. pending[t][i] \in Procs
    BY ElementOfSeq DEF Connected, Shapes
  <2> QED BY <1>3, <2>1 DEF Connected, QueuedServe
<1>5. ASSUME NEW q \in Procs PROVE Talks(reg'[q], holds'[q], reg', killed')
  <2>1. CASE q = p
    <3>1. s.pc \in Talking => s.conn \in Procs /\ s.conn # p
      BY DEF Shape
    <3>2. s.pc \in Talking => reg'[s.conn] = reg[s.conn]
      BY <1>2, <3>1
    <3> QED BY <1>2, <2>1, <3>2 DEF Talks
  <2>2. CASE q # p
    <3>1. reg'[q] = reg[q] /\ holds'[q] = holds[q] /\ Talks(reg[q], holds[q], reg, killed)
          /\ Shape(reg[q])
      BY <1>2, <2>2 DEF Connected, Shapes
    <3> PICK c : c = reg[q].conn
      OBVIOUS
    <3>2. reg[q].pc \in Talking => /\ <<"conn", c>> \in holds[q] /\ c \in Procs
                                   /\ reg'[c].pc \in Serving
      BY <1>3, <3>1 DEF Talks, Shape
    <3>3. reg[q].pc = "recv" => reg'[c].pc = "serve" \/ c \in killed'
      <4> SUFFICES ASSUME reg[q].pc = "recv", c \notin killed' PROVE reg'[c].pc = "serve"
        OBVIOUS
      <4>1. reg[c].pc = "serve"
        BY <3>1 DEF Talks
      <4>2. c # p => reg'[c].pc = "serve"
        BY <1>2, <3>2, <4>1
      <4>3. c = p => s.pc = "serve"
        BY <3>2, <4>1
      <4> QED BY <1>2, <4>2, <4>3
    <3> QED BY <3>1, <3>2, <3>3 DEF Talks
  <2> QED BY <2>1, <2>2
<1>6. QueuedApart'
  BY DEF QueuedApart, Connected
<1> QED BY <1>1, <1>4, <1>5, <1>6 DEF Connected

(* What is known where a step of p begins *)
LEMMA HereOf ==
  ASSUME Connected, NEW p \in Procs
  PROVE  /\ DOMAIN reg = Procs /\ DOMAIN holds = Procs /\ DOMAIN reg[p] = Fields
         /\ Shape(reg[p]) /\ Talks(reg[p], holds[p], reg, killed)
         /\ reg[p].pc \in Talking => p # reg[p].conn
         /\ path \in Procs \cup {None, Stale}
<1>1. Shape(reg[p]) /\ Talks(reg[p], holds[p], reg, killed) /\ DOMAIN reg = Procs /\ DOMAIN holds = Procs
      /\ path \in Procs \cup {None, Stale}
  BY DEF Connected, Shapes
<1>2. reg[p].pc \in Talking => p # reg[p].conn
  BY <1>1, SMT DEF Talks
<1> QED BY <1>1, <1>2 DEF Shape

(* A step that moves p to where it neither talks nor serves *)
LEMMA QuietKeeps ==
  ASSUME Connected, NEW p \in Procs, NEW s, reg' = [reg EXCEPT ![p] = s], Shape(s),
         reg[p].pc \notin Serving, s.pc \notin Talking,
         DOMAIN holds' = Procs, \A q \in Procs : q # p => holds'[q] = holds[q],
         killed' = killed, pending' = pending, path' \in Procs \cup {None, Stale}
  PROVE  Connected'
<1>1. Talks(s, holds'[p], reg, killed)
  BY DEF Talks
<1>2. reg[p].pc # "serve"
  BY SMT
<1> QED BY <1>1, <1>2, MoveKeeps

LEMMA GoIs ==
  ASSUME Connected, NEW p \in Procs, NEW pc, Go(p, pc)
  PROVE  /\ reg' = [reg EXCEPT ![p] = [reg[p] EXCEPT !.pc = pc]]
         /\ reg'[p] = [reg[p] EXCEPT !.pc = pc] /\ reg'[p].pc = pc
         /\ \A q \in Procs : q # p => reg'[q] = reg[q]
<1>1. DOMAIN reg = Procs /\ DOMAIN reg[p] = Fields
  BY HereOf
<1> QED BY <1>1, SMT DEF Go

LEMMA QuietGo ==
  ASSUME Connected, NEW p \in Procs, NEW pc \in PCs, Go(p, pc), pc \notin Talking,
         pc \in Opening => reg[p].pc \in Opening, reg[p].pc \notin Serving,
         DOMAIN holds' = Procs, \A q \in Procs : q # p => holds'[q] = holds[q],
         killed' = killed, pending' = pending, path' \in Procs \cup {None, Stale}
  PROVE  Connected'
<1> PICK s : s = [reg[p] EXCEPT !.pc = pc]
  OBVIOUS
<1>1. DOMAIN reg[p] = Fields /\ Shape(reg[p])
  BY HereOf
<1>2. s.pc = pc /\ s.child = reg[p].child /\ s.conn = reg[p].conn /\ s.shown = reg[p].shown
      /\ DOMAIN s = Fields
  BY <1>1, SMT
<1>3. Shape(s)
  BY <1>1, <1>2, SMT DEF Shape
<1> QED BY <1>2, <1>3, GoIs, QuietKeeps

LEMMA ClientKeeps ==
  ASSUME Connected, NEW p \in Procs
  PROVE  /\ ReadLine(p) \/ Unlink(p) \/ Bind(p) \/ Listen(p) \/ TellChild(p) => Connected'
         /\ WritePipe(p) \/ RecvEnd(p) \/ Cat(p) \/ WaitParent(p) => Connected'
<1> PICK r : r = reg[p]
  OBVIOUS
<1>0. /\ DOMAIN reg = Procs /\ DOMAIN holds = Procs /\ DOMAIN r = Fields /\ Shape(r)
      /\ path \in Procs \cup {None, Stale}
  BY HereOf
<1>1. ASSUME NEW pc \in {"fork", "line", "done", "bind", "listen", "tell", "accept", "connect"},
             Go(p, pc), pc \in Opening => r.pc \in Opening, r.pc \notin Serving, killed' = killed,
             pending' = pending, path' \in Procs \cup {None, Stale},
             holds' = holds \/ \E h : holds' = [holds EXCEPT ![p] = h]
      PROVE  Connected'
  <2>1. DOMAIN holds' = Procs /\ \A q \in Procs : q # p => holds'[q] = holds[q]
    BY <1>0, <1>1
  <2>2. pc \in PCs /\ pc \notin Talking
    BY SMT
  <2>3. (pc \in Opening => reg[p].pc \in Opening) /\ reg[p].pc \notin Serving
    BY <1>1, Zenon
  <2> HIDE DEF Fields, Opening, Talking, Serving, PCs
  <2> QED BY <1>1, <2>1, <2>2, <2>3, QuietGo, Zenon
<1>2. ASSUME ReadLine(p) PROVE Connected'
  <2>1. CASE r.at < Len(lines[r.cl])
    <3> PICK s : s = Process("fork", r.cl, r.at + 1)
      OBVIOUS
    <3>1. reg' = [reg EXCEPT ![p] = s] /\ UNCHANGED <<holds, sockets, killed>> /\ r.pc = "line"
      BY <1>2, <2>1, Zenon DEF ReadLine, At
    <3>2. Shape(s) /\ s.pc = "fork"
      BY SMT DEF Process, Shape
    <3>3. UNCHANGED <<holds, path, pending, killed>> /\ r.pc \notin Serving /\ s.pc \notin Talking
      BY <3>1, <3>2, SMT DEF sockets
    <3>4. DOMAIN holds' = Procs /\ \A q \in Procs : q # p => holds'[q] = holds[q]
      BY <1>0, <3>3
    <3>5. path' \in Procs \cup {None, Stale}
      BY <1>0, <3>3
    <3> QED BY <3>1, <3>2, <3>3, <3>4, <3>5, QuietKeeps
  <2>2. CASE ~(r.at < Len(lines[r.cl]))
    <3>1. /\ Go(p, "done") /\ holds' = [holds EXCEPT ![p] = {}]
          /\ UNCHANGED <<sockets, killed>> /\ r.pc = "line"
      BY <1>2, <2>2, Zenon DEF ReadLine, At
    <3>2. UNCHANGED <<path, pending, killed>> /\ r.pc \notin Serving /\ "done" \notin Opening
      BY <3>1, SMT DEF sockets
    <3>3. path' \in Procs \cup {None, Stale}
      BY <1>0, <3>2
    <3> QED BY <1>1, <3>1, <3>2, <3>3
  <2> QED BY <2>1, <2>2
<1>3. ASSUME Unlink(p) PROVE Connected'
  <2>1. r.pc = "unlink" /\ path' = None /\ UNCHANGED <<holds, pending, killed>>
        /\ (Go(p, "line") \/ Go(p, "bind"))
    BY <1>3, Zenon DEF Unlink, At, Failed
  <2>2. r.pc \in Opening /\ r.pc \notin Serving
    BY <2>1, SMT
  <2> QED BY <1>1, <2>1, <2>2
<1>4. ASSUME Bind(p) PROVE Connected'
  <2>1. r.pc = "bind" /\ UNCHANGED <<pending, killed>>
        /\ \/ Go(p, "line") /\ path' = path /\ holds' = holds
           \/ /\ Go(p, "listen") /\ path' = r.child
              /\ holds' = [holds EXCEPT ![p] = holds[p] \cup {<<"sock", r.child>>}]
    BY <1>4, Zenon DEF Bind, At, Failed
  <2>2. r.pc \in Opening /\ r.pc \notin Serving /\ r.child \in Procs
    BY <1>0, <2>1, SMT DEF Shape
  <2>3. CASE Go(p, "line") /\ path' = path /\ holds' = holds
    BY <1>0, <1>1, <2>1, <2>2, <2>3
  <2>4. CASE /\ Go(p, "listen") /\ path' = r.child
             /\ holds' = [holds EXCEPT ![p] = holds[p] \cup {<<"sock", r.child>>}]
    BY <1>1, <2>1, <2>2, <2>4
  <2> QED BY <2>1, <2>3, <2>4
<1>5. ASSUME Listen(p) \/ TellChild(p) PROVE Connected'
  <2>1. (r.pc = "listen" \/ r.pc = "tell") /\ UNCHANGED <<holds, path, pending, killed>>
        /\ (Go(p, "tell") \/ Go(p, "accept"))
    BY <1>5, Zenon DEF Listen, TellChild, At, sockets
  <2>2. r.pc \in Opening /\ r.pc \notin Serving
    BY <2>1, SMT
  <2> QED BY <1>0, <1>1, <2>1, <2>2
<1>6. ASSUME WritePipe(p) \/ RecvEnd(p) \/ WaitParent(p) PROVE Connected'
  <2>1. /\ r.pc \in {"write", "recv", "wait"} /\ UNCHANGED <<path, pending, killed>>
        /\ \/ Go(p, "line") /\ holds' = holds
           \/ Go(p, "connect") /\ holds' = holds
           \/ Go(p, "done") /\ holds' = [holds EXCEPT ![p] = {}]
    BY <1>6, Zenon DEF WritePipe, RecvEnd, WaitParent, At, sockets
  <2>2. r.pc \notin Serving /\ "line" \notin Opening /\ "connect" \notin Opening /\ "done" \notin Opening
    BY <2>1, SMT
  <2>3. CASE Go(p, "line") /\ holds' = holds
    BY <1>0, <1>1, <2>1, <2>2, <2>3
  <2>4. CASE Go(p, "connect") /\ holds' = holds
    BY <1>0, <1>1, <2>1, <2>2, <2>4
  <2>5. CASE Go(p, "done") /\ holds' = [holds EXCEPT ![p] = {}]
    BY <1>0, <1>1, <2>1, <2>2, <2>5
  <2> QED BY <2>1, <2>3, <2>4, <2>5
<1>7. ASSUME Cat(p) PROVE Connected'
  <2> PICK b \in {0, 1} : b = IF r.size = 0 THEN 0 ELSE 1
    OBVIOUS
  <2> PICK s : s = [r EXCEPT !.pc = "line", !.shown = b]
    OBVIOUS
  <2>0. /\ reg' = [reg EXCEPT ![p].pc = "line", ![p].shown = b]
        /\ UNCHANGED <<holds, sockets, killed>> /\ r.pc = "cat"
    BY <1>7, Zenon DEF Cat, At
  <2>1. reg' = [reg EXCEPT ![p] = s] /\ UNCHANGED <<holds, sockets, killed>> /\ r.pc = "cat"
    BY <1>0, <2>0, Zenon
  <2>2. Shape(s) /\ s.pc = "line"
    BY <1>0, SMT DEF Shape
  <2>3. UNCHANGED <<holds, path, pending, killed>> /\ r.pc \notin Serving /\ s.pc \notin Talking
    BY <2>1, <2>2, SMT DEF sockets
  <2>4. DOMAIN holds' = Procs /\ \A q \in Procs : q # p => holds'[q] = holds[q]
    BY <1>0, <2>3
  <2>5. path' \in Procs \cup {None, Stale}
    BY <1>0, <2>3
  <2> QED BY <2>1, <2>2, <2>3, <2>4, <2>5, QuietKeeps
<1> QED BY <1>2, <1>3, <1>4, <1>5, <1>6, <1>7

(* The request, the answer, and how opend1 ends *)
LEMMA TalkKeeps ==
  ASSUME Connected, NEW p \in Procs
  PROVE  Write(p) \/ RecvFd(p) \/ Hangup(p) \/ Kill(p) => Connected'
<1> PICK r : r = reg[p]
  OBVIOUS
<1>0. /\ DOMAIN reg = Procs /\ DOMAIN holds = Procs /\ DOMAIN r = Fields /\ Shape(r)
      /\ path \in Procs \cup {None, Stale} /\ Talks(r, holds[p], reg, killed)
      /\ (r.pc \in Talking => p # r.conn)
  BY HereOf
<1>1. ASSUME Write(p) PROVE Connected'
  <2> PICK s : s = [r EXCEPT !.pc = "recv"]
    OBVIOUS
  <2>1. /\ r.pc = "write" /\ Go(p, "recv") /\ UNCHANGED <<holds, path, pending, killed>>
        /\ reg[r.conn].pc # "done"
    BY <1>1, Zenon DEF Write, At, sockets
  <2>2. reg' = [reg EXCEPT ![p] = s]
    BY <2>1, GoIs
  <2>3. s.pc = "recv" /\ s.conn = r.conn /\ Shape(s) /\ r.pc \notin Serving
    BY <1>0, <2>1, SMT DEF Shape
  <2>4. Talks(s, holds[p], reg, killed) /\ p # s.conn
    BY <1>0, <2>1, <2>3, SMT DEF Talks
  <2> QED BY <1>0, <2>1, <2>2, <2>3, <2>4, MoveKeeps
<1>2. ASSUME RecvFd(p) PROVE Connected'
  <2>1. PICK size : reg' = [reg EXCEPT ![p].pc = "cat", ![p].size = size]
    BY <1>2, Zenon DEF RecvFd
  <2> PICK s : s = [r EXCEPT !.pc = "cat", !.size = size]
    OBVIOUS
  <2>0. r.pc = "recv" /\ UNCHANGED <<holds, path, pending, killed>>
    BY <1>2, Zenon DEF RecvFd, At, sockets
  <2>2. reg' = [reg EXCEPT ![p] = s] /\ r.pc = "recv" /\ UNCHANGED <<holds, path, pending, killed>>
    BY <1>0, <2>0, <2>1, Zenon
  <2>3. Shape(s) /\ s.pc \notin Talking /\ r.pc \notin Serving
    BY <1>0, <2>2, SMT DEF Shape
  <2>4. DOMAIN holds' = Procs /\ \A q \in Procs : q # p => holds'[q] = holds[q]
    BY <1>0, <2>0
  <2>5. path' \in Procs \cup {None, Stale}
    BY <1>0, <2>0
  <2> QED BY <2>2, <2>3, <2>4, <2>5, QuietKeeps
<1>3. ASSUME Hangup(p) PROVE Connected'
  <2> PICK s : s = [r EXCEPT !.pc = "done"]
    OBVIOUS
  <2>1. /\ r.pc = "serve" /\ Go(p, "done") /\ holds' = [holds EXCEPT ![p] = {}]
        /\ UNCHANGED <<path, pending, killed>> /\ ~Held(<<"conn", p>>)
    BY <1>3, Zenon DEF Hangup, At, sockets, Attached
  <2>2. reg' = [reg EXCEPT ![p] = s]
    BY <2>1, GoIs
  <2>3. s.pc = "done" /\ Shape(s) /\ s.pc \notin Talking /\ s.pc \in Serving
    BY <1>0, SMT DEF Shape
  <2>4. Talks(s, holds'[p], reg, killed)
    BY <2>3 DEF Talks
  <2>5. \A q \in Procs : <<"conn", p>> \notin holds[q]
    BY <2>1 DEF Held
  <2> QED BY <1>0, <2>1, <2>2, <2>3, <2>4, <2>5, MoveKeeps
<1>4. ASSUME Kill(p) PROVE Connected'
  <2> PICK s : s = [r EXCEPT !.pc = "done"]
    OBVIOUS
  <2>1. /\ Go(p, "done") /\ holds' = [holds EXCEPT ![p] = {}]
        /\ UNCHANGED <<path, pending>> /\ killed' = killed \cup {p}
    BY <1>4, Zenon DEF Kill, sockets
  <2>2. reg' = [reg EXCEPT ![p] = s]
    BY <2>1, GoIs
  <2>3. s.pc = "done" /\ Shape(s) /\ s.pc \notin Talking /\ s.pc \in Serving
    BY <1>0, SMT DEF Shape
  <2>4. Talks(s, holds'[p], reg, killed)
    BY <2>3 DEF Talks
  <2>5. p \in killed' /\ killed \subseteq killed'
    BY <2>1
  <2> QED BY <1>0, <2>1, <2>2, <2>3, <2>4, <2>5, MoveKeeps
<1> QED BY <1>1, <1>2, <1>3, <1>4

LEMMA RequestKeeps == ASSUME Connected, NEW p \in Procs, Request(p) PROVE Connected'
<1>1. UNCHANGED <<reg, holds, path, pending, killed>>
  BY DEF Request, sockets
<1> QED BY <1>1 DEF Connected, Shapes, QueuedApart, QueuedServe
-----------------------------------------------------------------------------
(* The steps that fork, connect and accept *)
LEMMA ForkKeeps == ASSUME Connected, NEW p \in Procs, TellWaitFork(p) PROVE Connected'
<1> PICK r : r = reg[p]
  OBVIOUS
<1>0. /\ DOMAIN reg = Procs /\ DOMAIN holds = Procs /\ DOMAIN r = Fields /\ Shape(r)
      /\ path \in Procs \cup {None, Stale}
  BY HereOf
<1>1. r.pc = "fork" /\ UNCHANGED <<path, pending, killed>>
  BY Zenon DEF TellWaitFork, At, sockets
<1>2. CASE ~\E c \in Procs : At(c, "none")
  <2>1. Go(p, "line") /\ holds' = holds
    BY <1>2, Zenon DEF TellWaitFork, Failed
  <2>2. "line" \in PCs /\ "line" \notin Talking /\ "line" \notin Opening /\ r.pc \notin Serving
    BY <1>1, SMT
  <2> QED BY <1>0, <1>1, <2>1, <2>2, QuietGo
<1>3. CASE \E c \in Procs : At(c, "none")
  <2> PICK c : c = NewChild
    OBVIOUS
  <2> PICK s, t : s = [r EXCEPT !.pc = "unlink", !.child = c] /\ t = Process("wait", r.cl, r.at)
    OBVIOUS
  <2>1. c \in Procs /\ reg[c].pc = "none"
    BY <1>3, ForkFinds DEF At
  <2>2. c # p
    BY <1>1, <2>1, SMT
  <2>3. /\ reg' = [reg EXCEPT ![p].pc = "unlink", ![p].child = c, ![c] = t]
        /\ holds' = [holds EXCEPT ![c] = holds[p]]
    BY <1>3, Zenon DEF TellWaitFork, NewChild
  <2>4. /\ DOMAIN reg' = Procs /\ DOMAIN holds' = Procs /\ reg'[p] = s /\ reg'[c] = t
        /\ \A q \in Procs : q # p /\ q # c => reg'[q] = reg[q]
    BY <1>0, <2>1, <2>2, <2>3, SMT
  <2>5. Shape(s) /\ Shape(t) /\ s.pc = "unlink" /\ t.pc = "wait"
    BY <1>0, <2>1, SMT DEF Shape, Process
  <2>6. \A q \in Procs : /\ reg[q].pc \in Serving \cup Talking => reg'[q] = reg[q] /\ q # p /\ q # c
                         /\ reg'[q].pc \in Talking => reg'[q] = reg[q] /\ q # p /\ q # c
    <3>1. /\ {r.pc, reg[c].pc} \cap (Serving \cup Talking) = {}
          /\ s.pc \notin Talking /\ t.pc \notin Talking
      BY <1>1, <2>1, <2>5, SMT
    <3> QED BY <2>4, <3>1
  <2>7. Shapes'
    BY <1>1, <2>4, <2>5 DEF Connected, Shapes
  <2>8. QueuedServe'
    <3> SUFFICES ASSUME NEW u \in Procs, NEW i \in DOMAIN pending[u]
                 PROVE  reg'[pending[u][i]].pc \in Serving
      BY <1>1 DEF QueuedServe
    <3>1. pending[u][i] \in Procs
      BY ElementOfSeq DEF Connected, Shapes
    <3> QED BY <2>6, <3>1 DEF Connected, QueuedServe
  <2>9. ASSUME NEW q \in Procs PROVE Talks(reg'[q], holds'[q], reg', killed')
    <3> SUFFICES ASSUME reg'[q].pc \in Talking PROVE Talks(reg'[q], holds'[q], reg', killed')
      BY DEF Talks
    <3>1. reg'[q] = reg[q] /\ q # c
      BY <2>6
    <3>2. holds'[q] = holds[q]
      BY <1>0, <2>3, <3>1
    <3>3. Talks(reg[q], holds[q], reg, killed) /\ Shape(reg[q])
      BY DEF Connected, Shapes
    <3>4. reg[q].conn \in Procs /\ reg'[reg[q].conn] = reg[reg[q].conn]
      BY <2>6, <3>1, <3>3 DEF Talks, Shape
    <3> QED BY <1>1, <3>1, <3>2, <3>3, <3>4 DEF Talks
  <2>10. QueuedApart'
    BY <1>1 DEF Connected, QueuedApart
  <2> QED BY <2>7, <2>8, <2>9, <2>10 DEF Connected
<1> QED BY <1>2, <1>3

LEMMA ConnectKeeps == ASSUME Connected, NEW p \in Procs, Connect(p) PROVE Connected'
<1> PICK r : r = reg[p]
  OBVIOUS
<1>0. /\ DOMAIN reg = Procs /\ DOMAIN holds = Procs /\ DOMAIN r = Fields /\ Shape(r)
      /\ path \in Procs \cup {None, Stale} /\ pending \in [Procs -> Seq(Procs)]
  BY HereOf DEF Connected, Shapes
<1>1. r.pc = "connect" /\ UNCHANGED <<holds, path, killed>>
  BY Zenon DEF Connect, At
<1>2. CASE ~(path \in listening /\ Held(<<"sock", path>>))
  <2>1. Go(p, "line") /\ pending' = pending
    BY <1>2, Zenon DEF Connect, Failed
  <2>2. "line" \in PCs /\ "line" \notin Talking /\ "line" \notin Opening /\ r.pc \notin Serving
    BY <1>1, SMT
  <2> QED BY <1>0, <1>1, <2>1, <2>2, QuietGo
<1>3. CASE path \in listening /\ Held(<<"sock", path>>)
  <2>1. pending' = [pending EXCEPT ![path] = Append(pending[path], p)] /\ Go(p, "serve")
    BY <1>3, Zenon DEF Connect
  <2>2. ASSUME NEW t \in Procs, NEW i \in DOMAIN pending'[t]
        PROVE  \/ i \in DOMAIN pending[t] /\ pending'[t][i] = pending[t][i] /\ pending[t][i] \in Procs
                  /\ pending[t][i] # p
               \/ path \in Procs /\ t = path /\ i = Len(pending[path]) + 1 /\ pending'[t][i] = p
    <3>0. ASSUME i \in DOMAIN pending[t] PROVE pending[t][i] \in Procs /\ pending[t][i] # p
      <4>1. pending[t][i] \in Procs
        BY <1>0, <3>0, ElementOfSeq
      <4>2. reg[pending[t][i]].pc \in Serving
        BY <3>0 DEF Connected, QueuedServe
      <4> QED BY <1>1, <4>1, <4>2, SMT
    <3>1. CASE t = path
      <4>1. pending[path] \in Seq(Procs) /\ pending'[t] = Append(pending[path], p)
        BY <1>0, <2>1, <3>1
      <4>2. /\ DOMAIN Append(pending[path], p) = 1 .. Len(pending[path]) + 1
            /\ DOMAIN pending[path] = 1 .. Len(pending[path]) /\ Len(pending[path]) \in Nat
            /\ Append(pending[path], p)[Len(pending[path]) + 1] = p
            /\ \A j \in 1 .. Len(pending[path]) : Append(pending[path], p)[j] = pending[path][j]
        BY <4>1, SMT
      <4>3. i \in 1 .. Len(pending[path]) \/ i = Len(pending[path]) + 1
        BY <4>1, <4>2, SMT
      <4> QED BY <3>0, <3>1, <4>1, <4>2, <4>3
    <3>2. CASE t # path
      <4>1. pending'[t] = pending[t]
        BY <1>0, <2>1, <3>2
      <4> QED BY <3>0, <4>1
    <3> QED BY <3>1, <3>2
  <2>3. pending' \in [Procs -> Seq(Procs)]
    <3>1. pending[path] \in Seq(Procs) => Append(pending[path], p) \in Seq(Procs)
      BY SMT
    <3> QED BY <1>0, <2>1, <3>1
  <2>4. /\ reg' = [reg EXCEPT ![p] = [r EXCEPT !.pc = "serve"]]
        /\ reg'[p] = [r EXCEPT !.pc = "serve"] /\ reg'[p].pc = "serve"
        /\ \A q \in Procs : q # p => reg'[q] = reg[q]
    BY <2>1, GoIs
  <2>5. Shape(reg'[p])
    <3>1. Shape([r EXCEPT !.pc = "serve"])
      BY <1>0, SMT DEF Shape
    <3> QED BY <2>4, <3>1
  <2>6. Shapes'
    <3>1. DOMAIN reg' = Procs
      BY <1>0, <2>4
    <3> QED BY <1>1, <2>3, <2>4, <2>5, <3>1 DEF Connected, Shapes
  <2>7. QueuedApart'
    BY <2>2 DEF Connected, QueuedApart
  <2>8. QueuedServe'
    <3>1. \A q \in Procs : reg[q].pc \in Serving => reg'[q].pc \in Serving
      BY <2>4
    <3> QED BY <2>2, <2>4, <3>1 DEF Connected, QueuedServe
  <2>9. ASSUME NEW q \in Procs PROVE Talks(reg'[q], holds'[q], reg', killed')
    <3>1. CASE q = p
      BY <2>4, <3>1, SMT DEF Talks
    <3>2. CASE q # p
      <4>1. Talks(reg[q], holds[q], reg, killed) /\ Shape(reg[q]) /\ reg'[q] = reg[q]
        BY <2>4, <3>2 DEF Connected, Shapes
      <4>2. reg[q].pc \in Talking => reg[q].conn \in Procs /\ reg[q].conn # p
        BY <1>1, <4>1, SMT DEF Talks, Shape
      <4>3. reg[q].pc \in Talking => reg'[reg[q].conn] = reg[reg[q].conn]
        BY <2>4, <4>2
      <4>4. Talks(reg[q], holds[q], reg', killed)
        BY <4>1, <4>3, Zenon DEF Talks
      <4> QED BY <1>1, <4>1, <4>4
    <3> QED BY <3>1, <3>2
  <2> QED BY <2>6, <2>7, <2>8, <2>9 DEF Connected
<1> QED BY <1>2, <1>3

LEMMA AcceptKeeps == ASSUME Connected, NEW p \in Procs, Accept(p) PROVE Connected'
<1> PICK r : r = reg[p]
  OBVIOUS
<1> PICK s, c : s = r.child /\ c = Head(pending[s])
  OBVIOUS
<1> PICK n : n = [r EXCEPT !.pc = "write", !.conn = c]
  OBVIOUS
<1>0. /\ DOMAIN reg = Procs /\ DOMAIN holds = Procs /\ DOMAIN r = Fields /\ Shape(r)
      /\ path \in Procs \cup {None, Stale} /\ pending \in [Procs -> Seq(Procs)]
  BY HereOf DEF Connected, Shapes
<1>1. /\ r.pc = "accept" /\ UNCHANGED <<path, killed>> /\ pending[s] # <<>>
      /\ pending' = [pending EXCEPT ![s] = Tail(pending[s])]
      /\ holds' = [holds EXCEPT ![p] = holds[p] \cup {<<"conn", c>>}]
      /\ reg' = [reg EXCEPT ![p].pc = "write", ![p].conn = c]
  BY Zenon DEF Accept, At
<1>2. s \in Procs /\ pending[s] \in Seq(Procs)
  BY <1>0, <1>1, SMT DEF Shape
<1>3. /\ Tail(pending[s]) \in Seq(Procs) /\ Len(pending[s]) \in Nat /\ 1 \in DOMAIN pending[s]
      /\ DOMAIN pending[s] = 1 .. Len(pending[s])
      /\ DOMAIN Tail(pending[s]) = 1 .. Len(pending[s]) - 1
      /\ \A i \in 1 .. Len(pending[s]) - 1 : Tail(pending[s])[i] = pending[s][i + 1]
      /\ c = pending[s][1]
  BY <1>1, <1>2, HeadTailProperties, SMT
<1>4. c \in Procs /\ reg[c].pc \in Serving /\ c # p
  <2>1. c \in Procs
    BY <1>2, <1>3, ElementOfSeq
  <2>2. reg[c].pc \in Serving
    BY <1>2, <1>3 DEF Connected, QueuedServe
  <2> QED BY <1>1, <2>1, <2>2, SMT
<1>5. reg'[p] = n /\ DOMAIN reg' = Procs /\ \A q \in Procs : q # p => reg'[q] = reg[q]
  <2>1. reg' = [reg EXCEPT ![p] = n]
    BY <1>0, <1>1, Zenon
  <2> QED BY <1>0, <2>1, Zenon
<1>6. n.pc = "write" /\ n.conn = c /\ Shape(n)
  BY <1>0, <1>1, <1>4, SMT DEF Shape
<1>7. ASSUME NEW t \in Procs, NEW i \in DOMAIN pending'[t]
      PROVE  \/ t # s /\ pending'[t] = pending[t]
             \/ t = s /\ i + 1 \in DOMAIN pending[s] /\ pending'[t][i] = pending[s][i + 1]
                /\ i \in Nat
  <2>1. CASE t = s
    <3>1. pending'[t] = Tail(pending[s])
      BY <1>0, <1>1, <1>2, <2>1
    <3>2. i \in 1 .. Len(pending[s]) - 1
      BY <1>3, <3>1
    <3>3. i + 1 \in DOMAIN pending[s] /\ i \in Nat
      BY <1>3, <3>2, SMT
    <3> QED BY <1>3, <2>1, <3>1, <3>2, <3>3
  <2>2. CASE t # s
    BY <1>0, <1>1, <2>2
  <2> QED BY <2>1, <2>2
<1>8. Shapes'
  <2>1. pending' \in [Procs -> Seq(Procs)]
    BY <1>0, <1>1, <1>3
  <2>2. DOMAIN reg' = Procs /\ DOMAIN holds' = Procs
    BY <1>0, <1>1, <1>5
  <2>3. \A q \in Procs : Shape(reg'[q])
    BY <1>5, <1>6 DEF Connected, Shapes
  <2> QED BY <1>0, <1>1, <2>1, <2>2, <2>3 DEF Shapes
<1>9. QueuedApart'
  <2> SUFFICES ASSUME NEW t \in Procs, NEW u \in Procs, NEW i \in DOMAIN pending'[t],
                      NEW j \in DOMAIN pending'[u], pending'[t][i] = pending'[u][j]
               PROVE  t = u /\ i = j
    BY DEF QueuedApart
  <2>1. QueuedApart
    BY DEF Connected
  <2>2. CASE t = s /\ u = s
    <3>1. i + 1 = j + 1 /\ i \in Nat /\ j \in Nat
      BY <1>2, <1>7, <2>1, <2>2 DEF QueuedApart
    <3> QED BY <2>2, <3>1, SMT
  <2>3. CASE t = s /\ u # s
    <3>1. /\ i + 1 \in DOMAIN pending[s] /\ j \in DOMAIN pending[u]
          /\ pending[s][i + 1] = pending[u][j]
      BY <1>7, <2>3
    <3> QED BY <1>2, <2>1, <2>3, <3>1 DEF QueuedApart
  <2>4. CASE t # s /\ u = s
    <3>1. /\ i \in DOMAIN pending[t] /\ j + 1 \in DOMAIN pending[s]
          /\ pending[t][i] = pending[s][j + 1]
      BY <1>7, <2>4
    <3> QED BY <1>2, <2>1, <2>4, <3>1 DEF QueuedApart
  <2>5. CASE t # s /\ u # s
    <3>1. /\ i \in DOMAIN pending[t] /\ j \in DOMAIN pending[u] /\ pending[t][i] = pending[u][j]
      BY <1>7, <2>5
    <3> QED BY <2>1, <3>1 DEF QueuedApart
  <2> QED BY <2>2, <2>3, <2>4, <2>5
<1>10. \A q \in Procs : reg[q].pc \in Serving => reg'[q] = reg[q]
  <2>1. reg[p].pc \notin Serving
    BY <1>1, SMT
  <2> QED BY <1>5, <2>1
<1>11. QueuedServe'
  <2> SUFFICES ASSUME NEW t \in Procs, NEW i \in DOMAIN pending'[t]
               PROVE  reg'[pending'[t][i]].pc \in Serving
    BY DEF QueuedServe
  <2>1. PICK j \in DOMAIN pending[t] : pending'[t][i] = pending[t][j]
    BY <1>7
  <2>2. pending[t][j] \in Procs /\ reg[pending[t][j]].pc \in Serving
    BY <1>0, ElementOfSeq DEF Connected, QueuedServe
  <2> QED BY <1>10, <2>1, <2>2
<1>12. ASSUME NEW q \in Procs PROVE Talks(reg'[q], holds'[q], reg', killed')
  <2>1. CASE q = p
    <3>1. <<"conn", c>> \in holds'[p] /\ reg'[c].pc \in Serving /\ n.pc # "recv"
      BY <1>0, <1>1, <1>4, <1>6, <1>10
    <3> QED BY <1>5, <1>6, <2>1, <3>1 DEF Talks
  <2>2. CASE q # p
    <3>1. Talks(reg[q], holds[q], reg, killed) /\ Shape(reg[q]) /\ reg'[q] = reg[q] /\ holds'[q] = holds[q]
      BY <1>0, <1>1, <1>5, <2>2 DEF Connected, Shapes
    <3>2. reg[q].pc \in Talking => reg[q].conn \in Procs /\ reg'[reg[q].conn] = reg[reg[q].conn]
      BY <1>10, <3>1 DEF Talks, Shape
    <3>3. Talks(reg[q], holds[q], reg', killed)
      BY <3>1, <3>2, Zenon DEF Talks
    <3> QED BY <1>1, <3>1, <3>3
  <2> QED BY <2>1, <2>2
<1> QED BY <1>8, <1>9, <1>11, <1>12 DEF Connected
-----------------------------------------------------------------------------
LEMMA InitConnected == Init => Connected
<1> SUFFICES ASSUME Init PROVE Connected
  OBVIOUS
<1>1. ASSUME NEW p \in Procs PROVE Shape(reg[p]) /\ reg[p].pc \notin Talking
  BY SMT DEF Init, Process, Shape
<1>2. pending = [p \in Procs |-> <<>>] /\ DOMAIN reg = Procs /\ DOMAIN holds = Procs /\ path \in LeftOver
  BY DEF Init
<1>3. pending \in [Procs -> Seq(Procs)] /\ path \in {None, Stale}
  <2>1. <<>> \in Seq(Procs)
    BY SMT
  <2> QED BY <1>2, <2>1, FdAssumption
<1>4. \A p \in Procs : DOMAIN pending[p] = {}
  BY <1>2, SMT
<1> QED BY <1>1, <1>2, <1>3, <1>4 DEF Connected, Shapes, QueuedApart, QueuedServe, Talks

LEMMA NextConnected == Connected /\ [Next]_vars => Connected'
<1> SUFFICES ASSUME Connected, [Next]_vars PROVE Connected'
  OBVIOUS
<1>1. CASE UNCHANGED vars
  <2>1. UNCHANGED <<reg, holds, path, pending, killed>>
    BY <1>1 DEF vars, sockets
  <2> QED BY <2>1 DEF Connected, Shapes, QueuedApart, QueuedServe
<1>2. ASSUME NEW p \in Procs, Step(p) \/ Kill(p) PROVE Connected'
  BY <1>2, ClientKeeps, TalkKeeps, RequestKeeps, ForkKeeps, ConnectKeeps, AcceptKeeps, Zenon DEF Step
<1> QED BY <1>1, <1>2 DEF Next

LEMMA ConnectedKept == Spec => []Connected
BY InitConnected, NextConnected, PTL DEF Spec

(* A step by which nobody connects and nobody gets a connection but by     *)
(* fork                                                                    *)
LEMMA OthersHand ==
  ASSUME Handed, pending' = pending,
         \A c \in Procs : reg[c].pc \in Serving => reg'[c].pc \in Serving,
         \A p, c \in Procs : <<"conn", c>> \in holds'[p] =>
           \E q \in Procs : <<"conn", c>> \in holds[q],
         pending \in [Procs -> Seq(Procs)]
  PROVE  Handed'
<1>1. \A p, c \in Procs : <<"conn", c>> \in holds'[p] => reg'[c].pc \in Serving
  BY Zenon DEF Handed
<1>2. ASSUME NEW s \in Procs, NEW p \in Procs, NEW i \in DOMAIN pending'[s]
      PROVE  <<"conn", pending'[s][i]>> \notin holds'[p]
  <2>a. pending[s] \in Seq(Procs)
    BY Zenon
  <2>b. pending' = pending
    OBVIOUS
  <2>c. i \in DOMAIN pending[s]
    BY <2>b, Zenon
  <2>d. DOMAIN pending[s] = 1 .. Len(pending[s])
    BY ONLY <2>a, SMT
  <2>1. pending[s] \in Seq(Procs) /\ i \in 1 .. Len(pending[s])
    BY ONLY <2>a, <2>c, <2>d, Zenon
  <2>2. pending[s][i] \in Procs
    BY <2>1, ElementOfSeq
  <2>3. \A q \in Procs : <<"conn", pending[s][i]>> \notin holds[q]
    BY <2>1 DEF Handed
  <2> QED BY <2>2, <2>3
<1> QED BY <1>1, <1>2 DEF Handed

LEMMA NoConnHand ==
  ASSUME Connected, NEW p \in Procs, NEW s, reg' = [reg EXCEPT ![p] = s],
         reg[p].pc \in Serving => s.pc \in Serving, Handed, pending' = pending,
         \A q, c \in Procs : <<"conn", c>> \in holds'[q] => <<"conn", c>> \in holds[q]
  PROVE  Handed'
<1>1. DOMAIN reg = Procs /\ pending \in [Procs -> Seq(Procs)]
  BY DEF Connected, Shapes
<1>2. reg'[p] = s /\ \A c \in Procs : c # p => reg'[c] = reg[c]
  BY <1>1
<1>3. \A c \in Procs : reg[c].pc \in Serving => reg'[c].pc \in Serving
  BY <1>2
<1>4. \A q, c \in Procs : <<"conn", c>> \in holds'[q] => \E t \in Procs : <<"conn", c>> \in holds[t]
  OBVIOUS
<1> QED BY <1>1, <1>3, <1>4, OthersHand

LEMMA PlainHand ==
  ASSUME Connected, Handed, NEW p \in Procs
  PROVE  /\ ReadLine(p) \/ Unlink(p) \/ Bind(p) \/ Listen(p) \/ TellChild(p) => Handed'
         /\ Write(p) \/ WritePipe(p) \/ RecvFd(p) \/ RecvEnd(p) \/ Cat(p) => Handed'
         /\ WaitParent(p) \/ Hangup(p) \/ Kill(p) \/ Request(p) => Handed'
<1> PICK r : r = reg[p]
  OBVIOUS
<1>0. DOMAIN reg = Procs /\ DOMAIN holds = Procs /\ DOMAIN r = Fields
  BY HereOf
<1>1. ASSUME NEW s, reg' = [reg EXCEPT ![p] = s], r.pc \in Serving => s.pc \in Serving,
             pending' = pending,
             \/ holds' = holds \/ holds' = [holds EXCEPT ![p] = {}]
             \/ \E k : holds' = [holds EXCEPT ![p] = holds[p] \cup {<<"sock", k>>}]
      PROVE  Handed'
  <2> DEFINE NoNew == \A q, c \in Procs : <<"conn", c>> \in holds'[q] => <<"conn", c>> \in holds[q]
  <2>1. ASSUME holds' = holds PROVE NoNew
    BY <2>1, Zenon
  <2>2. ASSUME holds' = [holds EXCEPT ![p] = {}] PROVE NoNew
    <3>1. holds'[p] = {} /\ \A q \in Procs : q # p => holds'[q] = holds[q]
      BY <1>0, <2>2, Zenon
    <3> QED BY <3>1
  <2>3. ASSUME NEW k, holds' = [holds EXCEPT ![p] = holds[p] \cup {<<"sock", k>>}] PROVE NoNew
    <3>1. holds'[p] = holds[p] \cup {<<"sock", k>>} /\ \A q \in Procs : q # p => holds'[q] = holds[q]
      BY <1>0, <2>3, Zenon
    <3>2. \A c \in Procs : <<"conn", c>> # <<"sock", k>>
      BY SMT
    <3> QED BY <3>1, <3>2, Zenon
  <2>4. NoNew
    BY <1>1, <2>1, <2>2, <2>3, Zenon
  <2> HIDE DEF NoNew
  <2> QED BY <1>1, <2>4, NoConnHand, Zenon DEF NoNew
<1>2. ASSUME NEW pc, Go(p, pc), r.pc \in Serving => pc \in Serving, pending' = pending,
             \/ holds' = holds \/ holds' = [holds EXCEPT ![p] = {}]
             \/ \E k : holds' = [holds EXCEPT ![p] = holds[p] \cup {<<"sock", k>>}]
      PROVE  Handed'
  <2> PICK s : s = [r EXCEPT !.pc = pc]
    OBVIOUS
  <2>1. reg' = [reg EXCEPT ![p] = s] /\ s.pc = pc
    BY <1>0, <1>2, GoIs
  <2> QED BY <1>1, <1>2, <2>1
<1>3. ASSUME ReadLine(p) PROVE Handed'
  <2>1. /\ r.pc = "line" /\ pending' = pending
        /\ \/ reg' = [reg EXCEPT ![p] = Process("fork", r.cl, r.at + 1)] /\ holds' = holds
           \/ Go(p, "done") /\ holds' = [holds EXCEPT ![p] = {}]
    BY <1>3, Zenon DEF ReadLine, At, sockets
  <2>2. r.pc \notin Serving
    BY <2>1, SMT
  <2> QED BY <1>1, <1>2, <2>1, <2>2
<1>4. ASSUME Unlink(p) \/ Listen(p) \/ TellChild(p) PROVE Handed'
  <2>1. /\ r.pc \in {"unlink", "listen", "tell"} /\ UNCHANGED <<holds, pending>>
        /\ \E pc : Go(p, pc)
    BY <1>4, Zenon DEF Unlink, Listen, TellChild, Failed, At, sockets
  <2>2. r.pc \notin Serving
    BY <2>1, SMT
  <2> QED BY <1>2, <2>1, <2>2
<1>5. ASSUME Bind(p) PROVE Handed'
  <2>1. /\ r.pc = "bind" /\ pending' = pending /\ \E pc : Go(p, pc)
        /\ \/ holds' = holds
           \/ holds' = [holds EXCEPT ![p] = holds[p] \cup {<<"sock", r.child>>}]
    BY <1>5, Zenon DEF Bind, Failed, At
  <2>2. r.pc \notin Serving
    BY <2>1, SMT
  <2> QED BY <1>2, <2>1, <2>2
<1>6. ASSUME Write(p) \/ RecvEnd(p) \/ WaitParent(p) PROVE Handed'
  <2>1. /\ r.pc \in {"write", "recv", "wait"} /\ UNCHANGED <<holds, pending>> /\ \E pc : Go(p, pc)
    BY <1>6, Zenon DEF Write, RecvEnd, WaitParent, At, sockets
  <2>2. r.pc \notin Serving
    BY <2>1, SMT
  <2> QED BY <1>2, <2>1, <2>2
<1>7. ASSUME WritePipe(p) \/ Hangup(p) \/ Kill(p) PROVE Handed'
  <2>1. Go(p, "done") /\ pending' = pending /\ holds' = [holds EXCEPT ![p] = {}]
    BY <1>7, Zenon DEF WritePipe, Hangup, Kill, sockets
  <2>2. "done" \in Serving
    BY SMT
  <2> QED BY <1>2, <2>1, <2>2
<1>8. ASSUME RecvFd(p) \/ Cat(p) PROVE Handed'
  <2>1. /\ r.pc \in {"recv", "cat"} /\ UNCHANGED <<holds, pending>>
        /\ \/ \E size : reg' = [reg EXCEPT ![p].pc = "cat", ![p].size = size]
           \/ \E b : reg' = [reg EXCEPT ![p].pc = "line", ![p].shown = b]
    BY <1>8, Zenon DEF RecvFd, Cat, At, sockets
  <2>2. r.pc \notin Serving
    BY <2>1, SMT
  <2>3. \E s : reg' = [reg EXCEPT ![p] = s]
    <3>1. ASSUME NEW size, reg' = [reg EXCEPT ![p].pc = "cat", ![p].size = size]
          PROVE  reg' = [reg EXCEPT ![p] = [[r EXCEPT !.pc = "cat"] EXCEPT !.size = size]]
      BY <1>0, <3>1, Zenon
    <3>2. ASSUME NEW b, reg' = [reg EXCEPT ![p].pc = "line", ![p].shown = b]
          PROVE  reg' = [reg EXCEPT ![p] = [[r EXCEPT !.pc = "line"] EXCEPT !.shown = b]]
      BY <1>0, <3>2, Zenon
    <3> QED BY <2>1, <3>1, <3>2
  <2> QED BY <1>1, <2>1, <2>2, <2>3
<1>9. ASSUME Request(p) PROVE Handed'
  <2>1. UNCHANGED <<reg, holds, pending>>
    BY <1>9, Zenon DEF Request, sockets
  <2> QED BY <2>1 DEF Handed
<1> QED BY <1>3, <1>4, <1>5, <1>6, <1>7, <1>8, <1>9

LEMMA ForkHand == ASSUME Connected, Handed, NEW p \in Procs, TellWaitFork(p) PROVE Handed'
<1> PICK r : r = reg[p]
  OBVIOUS
<1>0. /\ DOMAIN reg = Procs /\ DOMAIN holds = Procs /\ DOMAIN r = Fields
      /\ pending \in [Procs -> Seq(Procs)]
  BY HereOf DEF Connected, Shapes
<1>1. r.pc = "fork" /\ pending' = pending
  BY Zenon DEF TellWaitFork, At, sockets
<1>2. CASE ~\E c \in Procs : At(c, "none")
  <2>1. Go(p, "line") /\ holds' = holds
    BY <1>2, Zenon DEF TellWaitFork, Failed
  <2>2. \A c \in Procs : reg[c].pc \in Serving => reg'[c].pc \in Serving
    <3>1. \A c \in Procs : c # p => reg'[c] = reg[c]
      BY <2>1, GoIs
    <3>2. reg[p].pc \notin Serving
      BY <1>1, SMT
    <3> QED BY <3>1, <3>2
  <2> QED BY <1>0, <1>1, <2>1, <2>2, OthersHand
<1>3. CASE \E c \in Procs : At(c, "none")
  <2> PICK c, t : c = NewChild /\ t = Process("wait", r.cl, r.at)
    OBVIOUS
  <2>1. c \in Procs /\ reg[c].pc = "none"
    BY <1>3, ForkFinds DEF At
  <2>2. /\ reg' = [reg EXCEPT ![p].pc = "unlink", ![p].child = c, ![c] = t]
        /\ holds' = [holds EXCEPT ![c] = holds[p]]
    BY <1>3, Zenon DEF TellWaitFork, NewChild
  <2>3. \A q \in Procs : q # p /\ q # c => reg'[q] = reg[q]
    BY <1>0, <2>1, <2>2, SMT
  <2>4. reg[p].pc \notin Serving /\ reg[c].pc \notin Serving
    BY <1>1, <2>1, SMT
  <2>5. \A q \in Procs : reg[q].pc \in Serving => reg'[q].pc \in Serving
    BY <2>3, <2>4
  <2>6. \A q, k \in Procs : <<"conn", k>> \in holds'[q] => \E s \in Procs : <<"conn", k>> \in holds[s]
    <3>1. \A q \in Procs : holds'[q] = holds[q] \/ holds'[q] = holds[p]
      BY <1>0, <2>1, <2>2
    <3> QED BY <3>1
  <2> QED BY <1>0, <1>1, <2>5, <2>6, OthersHand
<1> QED BY <1>2, <1>3

LEMMA ConnectHand == ASSUME Connected, Handed, NEW p \in Procs, Connect(p) PROVE Handed'
<1> PICK r : r = reg[p]
  OBVIOUS
<1>0. DOMAIN reg = Procs /\ DOMAIN r = Fields /\ pending \in [Procs -> Seq(Procs)]
  BY HereOf DEF Connected, Shapes
<1>1. r.pc = "connect" /\ holds' = holds /\ \E pc : Go(p, pc)
  BY Zenon DEF Connect, Failed, At
<1>2. r.pc \notin Serving /\ \A c \in Procs : c # p => reg'[c] = reg[c]
  <2>1. \A c \in Procs : c # p => reg'[c] = reg[c]
    BY <1>1, GoIs, Zenon
  <2>2. r.pc \notin Serving
    BY <1>1, SMT
  <2> QED BY <2>1, <2>2
<1>3. \A q \in Procs : <<"conn", p>> \notin holds[q]
  BY <1>2 DEF Handed
<1>4. \A q, c \in Procs : <<"conn", c>> \in holds'[q] => reg'[c].pc \in Serving
  <2>1. \A q, c \in Procs : <<"conn", c>> \in holds'[q] => c # p /\ reg[c].pc \in Serving
    BY <1>1, <1>3 DEF Handed
  <2> QED BY <1>2, <2>1
<1>5. ASSUME NEW s \in Procs, NEW q \in Procs, NEW i \in DOMAIN pending'[s]
      PROVE  <<"conn", pending'[s][i]>> \notin holds'[q]
  <2>1. pending' = pending \/ pending' = [pending EXCEPT ![path] = Append(pending[path], p)]
    BY Zenon DEF Connect
  <2>2. CASE pending'[s] = pending[s]
    BY <1>1, <2>2 DEF Handed
  <2>3. CASE pending'[s] = Append(pending[s], p)
    <3> PICK w \in Seq(Procs) : w = pending[s]
      BY <1>0
    <3>1. i \in DOMAIN Append(w, p)
      BY <2>3
    <3>2. Append(w, p)[i] = p \/ (i \in DOMAIN w /\ Append(w, p)[i] = w[i])
      BY <3>1, SMT
    <3> QED BY <1>1, <1>3, <2>3, <3>2 DEF Handed
  <2>4. pending'[s] = pending[s] \/ pending'[s] = Append(pending[s], p)
    BY <1>0, <2>1
  <2> QED BY <2>2, <2>3, <2>4
<1> QED BY <1>4, <1>5 DEF Handed

(* What is accepted was in that one queue, at one place. *)
LEMMA AcceptHand == ASSUME Connected, Handed, NEW p \in Procs, Accept(p) PROVE Handed'
<1> PICK r, s, c : r = reg[p] /\ s = r.child /\ c = Head(pending[s])
  OBVIOUS
<1>0. /\ DOMAIN reg = Procs /\ DOMAIN holds = Procs /\ DOMAIN r = Fields /\ Shape(r)
      /\ pending \in [Procs -> Seq(Procs)]
  BY HereOf DEF Connected, Shapes
<1>1. /\ r.pc = "accept" /\ pending[s] # <<>>
      /\ pending' = [pending EXCEPT ![s] = Tail(pending[s])]
      /\ holds' = [holds EXCEPT ![p] = holds[p] \cup {<<"conn", c>>}]
      /\ reg' = [reg EXCEPT ![p].pc = "write", ![p].conn = c]
  BY Zenon DEF Accept, At
<1>2. s \in Procs /\ pending[s] \in Seq(Procs)
  BY <1>0, <1>1, SMT DEF Shape
<1>3. /\ Len(pending[s]) \in Nat /\ 1 \in DOMAIN pending[s]
      /\ DOMAIN pending[s] = 1 .. Len(pending[s])
      /\ DOMAIN Tail(pending[s]) = 1 .. Len(pending[s]) - 1
      /\ \A i \in 1 .. Len(pending[s]) - 1 : Tail(pending[s])[i] = pending[s][i + 1]
      /\ c = pending[s][1]
  BY <1>1, <1>2, HeadTailProperties, SMT
<1>4. c \in Procs /\ reg[c].pc \in Serving
  BY <1>2, <1>3, ElementOfSeq DEF Connected, QueuedServe
<1>5. r.pc \notin Serving /\ \A q \in Procs : q # p => reg'[q] = reg[q]
  BY <1>0, <1>1, SMT
<1>6. ASSUME NEW q \in Procs, NEW k \in Procs, <<"conn", k>> \in holds'[q] PROVE reg'[k].pc \in Serving
  <2>1. <<"conn", k>> \in holds[q] \/ k = c
    BY <1>0, <1>1, <1>6
  <2>2. reg[k].pc \in Serving
    BY <1>4, <2>1 DEF Handed
  <2> QED BY <1>5, <2>2
<1>7. ASSUME NEW t \in Procs, NEW q \in Procs, NEW i \in DOMAIN pending'[t]
      PROVE  <<"conn", pending'[t][i]>> \notin holds'[q]
  <2>1. PICK j \in DOMAIN pending[t] : pending'[t][i] = pending[t][j] /\ (t = s => j # 1)
    <3>1. CASE t = s
      <4>1. i \in 1 .. Len(pending[s]) - 1 /\ pending'[t][i] = pending[s][i + 1]
        BY <1>0, <1>1, <1>2, <1>3, <3>1
      <4>2. i + 1 \in DOMAIN pending[s] /\ i + 1 # 1
        BY <1>3, <4>1, SMT
      <4> QED BY <3>1, <4>1, <4>2
    <3>2. CASE t # s
      BY <1>0, <1>1, <3>2
    <3> QED BY <3>1, <3>2
  <2>2. pending[t][j] # c
    BY <1>2, <1>3, <2>1 DEF Connected, QueuedApart
  <2>3. \A x \in Procs : <<"conn", pending[t][j]>> \notin holds[x]
    BY <2>1 DEF Handed
  <2>4. holds'[q] \subseteq holds[q] \cup {<<"conn", c>>}
    BY <1>0, <1>1
  <2> QED BY <2>1, <2>2, <2>3, <2>4
<1> QED BY <1>6, <1>7 DEF Handed

LEMMA HandedKept == Spec => []Handed
<1>1. Init => Handed
  <2> SUFFICES ASSUME Init PROVE Handed
    OBVIOUS
  <2>1. \A p \in Procs : holds[p] = {} /\ pending[p] = <<>>
    BY DEF Init
  <2> QED BY <2>1 DEF Handed
<1>2. Connected /\ Handed /\ [Next]_vars => Handed'
  <2> SUFFICES ASSUME Connected, Handed, [Next]_vars PROVE Handed'
    OBVIOUS
  <2>1. CASE UNCHANGED vars
    <3>1. UNCHANGED <<reg, holds, pending>>
      BY <2>1 DEF vars, sockets
    <3> QED BY <3>1 DEF Handed
  <2>2. ASSUME NEW p \in Procs, Step(p) \/ Kill(p) PROVE Handed'
    BY <2>2, PlainHand, ForkHand, ConnectHand, AcceptHand, Zenon DEF Step
  <2> QED BY <2>1, <2>2 DEF Next
<1> QED BY <1>1, <1>2, ConnectedKept, PTL DEF Spec

(* A connection waits in one queue at most, and in none once it has been   *)
(* accepted, and a client talks over one that it has open.                 *)
THEOREM TypeCorrect == Spec => []TypeOK
<1>1. Connected /\ Handed => TypeOK
  <2> SUFFICES ASSUME Connected, Handed PROVE TypeOK
    OBVIOUS
  <2>1. \A p \in Procs : reg[p].pc \in PCs /\ reg[p].shown \in {0, 1}
    BY Zenon DEF Connected, Shapes, Shape
  <2>2. ASSUME NEW p \in Procs, At(p, "recv") PROVE <<"conn", reg[p].conn>> \in holds[p]
    BY <2>2 DEF At, Connected, Talks
  <2> QED BY <2>1, <2>2, Zenon DEF TypeOK, Connected, Shapes, QueuedApart, Handed
<1> QED BY <1>1, ConnectedKept, HandedKept, PTL

(* opend1 does not end while its client waits for the descriptor, unless   *)
(* it is killed.                                                           *)
THEOREM ServersStay == Spec => []ServerStays
<1>1. Connected => ServerStays
  BY DEF Connected, Talks, ServerStays, At
<1> QED BY <1>1, ConnectedKept, PTL
-----------------------------------------------------------------------------
(* A client that runs alone *)

(* The state of a step of p, which is another client or a child, as m sees it *)
Aside(p) ==
  /\ \A q \in Procs : q # p => reg'[q] = reg[q] /\ holds'[q] = holds[q]
  /\ UNCHANGED <<path, listening, told, seen>>

LEMMA IdleSteps ==
  ASSUME Connected, NEW m \in Clients, Alone(m), Sole(m), NEW d \in Clients, d # m, Step(d) \/ Kill(d)
  PROVE  Aside(d) /\ reg'[d].pc = "done" /\ pending' = pending
<1> PICK r : r = reg[d]
  OBVIOUS
<1>0. d \in Procs /\ d \notin Mortal /\ DOMAIN reg = Procs /\ DOMAIN holds = Procs
  BY HereOf
<1>1. r.pc = "done" \/ (r.pc = "line" /\ r.cl = d /\ r.at = 0)
  BY DEF Sole, Idle
<1>2. ReadLine(d)
  <2>1. ~Kill(d)
    BY <1>0, Zenon DEF Kill
  <2>2. r.pc \in {"done", "line"}
    BY <1>1
  <2> QED BY <2>1, <2>2, SMT
    DEF Step, TellWaitFork, Unlink, Bind, Listen, TellChild, Accept, Write, WritePipe, RecvFd,
        RecvEnd, Cat, WaitParent, Connect, Request, Hangup, At
<1>3. r.pc = "line" /\ r.cl = d /\ r.at = 0
  BY <1>1, <1>2, SMT DEF ReadLine, At
<1>4. Len(lines[r.cl]) = 0
  BY <1>3, SMT DEF Alone
<1>5. /\ Go(d, "done") /\ holds' = [holds EXCEPT ![d] = {}]
      /\ UNCHANGED <<seen, sockets, told>>
  <2>1. ~(r.at < Len(lines[r.cl]))
    BY <1>3, <1>4, SMT
  <2> QED BY <1>2, <2>1, Zenon DEF ReadLine
<1>6. UNCHANGED <<path, listening, pending, told, seen>>
  BY <1>5, Zenon DEF sockets
<1> QED BY <1>0, <1>5, <1>6, GoIs DEF Aside

LEMMA IdleKeeps ==
  ASSUME Connected, NEW m \in Clients, Alone(m), Sole(m), NEW d \in Clients, d # m, Step(d) \/ Kill(d)
  PROVE  Sole(m)'
<1>0. m \in Procs /\ d \in Procs
  OBVIOUS
<1>1. Aside(d) /\ reg'[d].pc = "done" /\ pending' = pending
  BY IdleSteps
<1>2. /\ \A c \in Procs \ Clients : reg'[c] = reg[c]
      /\ \A e \in Clients : e # d => reg'[e] = reg[e]
      /\ reg'[m] = reg[m] /\ holds'[m] = holds[m]
      /\ UNCHANGED <<path, listening, told, seen>>
  BY <1>0, <1>1 DEF Aside
<1>3. Idle(m)'
  BY <1>1, <1>2 DEF Sole, Idle
<1>4. Children' /\ Awaited(m)'
  BY <1>2 DEF Sole, Children, Awaited, Called
<1>5. ToldForked'
  BY <1>2 DEF Sole, ToldForked
<1>6. Opens(m)'
  <2>1. Opens(m)
    BY DEF Sole
  <2>2. /\ reg'[m] = reg[m] /\ holds'[m] = holds[m] /\ path' = path /\ listening' = listening
        /\ \A c \in Procs \ Clients : reg'[c] = reg[c]
    BY <1>2
  <2>3. reg'[m].pc \in Parent
    BY <2>1, <2>2, Zenon DEF Opens
  <2>4. ASSUME reg'[m].pc \in Opening
        PROVE  reg'[m].child \in Procs \ Clients /\ reg'[reg'[m].child].pc # "none"
    <3>1. reg[m].child \in Procs \ Clients /\ reg[reg[m].child].pc # "none"
      BY <2>1, <2>2, <2>4, Zenon DEF Opens
    <3> QED BY <2>2, <3>1, Zenon
  <2>5. ASSUME reg'[m].pc \in {"listen", "tell", "accept"}
        PROVE  path' = reg'[m].child /\ <<"sock", path'>> \in holds'[m]
    BY <2>1, <2>2, <2>5, Zenon DEF Opens
  <2>6. reg'[m].pc \in {"tell", "accept"} => path' \in listening'
    BY <2>1, <2>2, Zenon DEF Opens
  <2> QED BY <2>3, <2>4, <2>5, <2>6, Zenon DEF Opens
<1>7. OwnQueue' /\ OneReads(m)'
  BY <1>1, <1>2 DEF Sole, OwnQueue, OneReads
<1> QED BY <1>3, <1>4, <1>5, <1>6, <1>7 DEF Sole

LEMMA ChildSteps ==
  ASSUME Connected, NEW m \in Clients, Sole(m), NEW c \in Procs \ Clients, Step(c) \/ Kill(c)
  PROVE  /\ Aside(c) /\ reg'[c].pc \in {"connect", "serve", "done"}
         /\ Called(c)' => Called(c)
         /\ pending' = pending \/ pending' = [pending EXCEPT ![c] = Append(pending[c], c)]
<1> PICK r : r = reg[c]
  OBVIOUS
<1>0. c \in Procs /\ DOMAIN reg = Procs /\ DOMAIN holds = Procs
  BY HereOf
<1>1. r.pc \in Child
  BY DEF Sole, Children
<1>2. WaitParent(c) \/ Connect(c) \/ Request(c) \/ Hangup(c) \/ Kill(c)
  <2>1. r.pc \in {"none", "wait", "connect", "serve", "done"}
    BY <1>1 DEF Child
  <2>2. /\ ~ReadLine(c) /\ ~TellWaitFork(c) /\ ~Unlink(c) /\ ~Bind(c) /\ ~Listen(c) /\ ~TellChild(c)
        /\ ~Accept(c) /\ ~Write(c) /\ ~WritePipe(c) /\ ~RecvFd(c) /\ ~RecvEnd(c) /\ ~Cat(c)
    BY <2>1, SMT
      DEF ReadLine, TellWaitFork, Unlink, Bind, Listen, TellChild, Accept, Write, WritePipe,
          RecvFd, RecvEnd, Cat, At
  <2> QED BY <2>2, Zenon DEF Step
<1>3. CASE WaitParent(c)
  <2>1. r.pc = "wait" /\ c \in told /\ Go(c, "connect") /\ UNCHANGED <<holds, sockets, told, seen>>
    BY <1>3, Zenon DEF WaitParent, At
  <2>2. UNCHANGED <<holds, path, listening, pending, told, seen>>
    BY <2>1, Zenon DEF sockets
  <2> QED BY <1>0, <2>1, <2>2, GoIs DEF Aside, Called
<1>4. CASE Connect(c)
  <2>1. r.pc = "connect" /\ UNCHANGED <<holds, path, listening, told, seen>>
    BY <1>4, Zenon DEF Connect, At
  <2>2. /\ reg[m].pc = "accept" /\ reg[m].child = c
    BY <2>1 DEF Sole, Awaited, Called
  <2>3. /\ path = c /\ <<"sock", path>> \in holds[m] /\ path \in listening
    BY <2>2, SMT DEF Sole, Opens
  <2>4. Held(<<"sock", path>>)
    BY <2>3 DEF Held
  <2>5. Go(c, "serve") /\ pending' = [pending EXCEPT ![c] = Append(pending[c], c)]
    BY <1>4, <2>3, <2>4, Zenon DEF Connect
  <2> QED BY <1>0, <2>1, <2>5, GoIs DEF Aside, Called
<1>5. CASE Request(c)
  <2>1. r.pc = "serve" /\ UNCHANGED <<reg, holds, sockets, told, seen>>
    BY <1>5, Zenon DEF Request, At
  <2>2. UNCHANGED <<path, listening, pending>>
    BY <2>1, Zenon DEF sockets
  <2> QED BY <2>1, <2>2 DEF Aside, Called
<1>6. CASE Hangup(c) \/ Kill(c)
  <2>1. /\ Go(c, "done") /\ holds' = [holds EXCEPT ![c] = {}]
        /\ UNCHANGED <<sockets, told, seen>>
    BY <1>6, Zenon DEF Hangup, Kill
  <2>2. UNCHANGED <<path, listening, pending, told, seen>>
    BY <2>1, Zenon DEF sockets
  <2>3. reg'[c].pc = "done" /\ \A q \in Procs : q # c => reg'[q] = reg[q]
    BY <2>1, GoIs
  <2>4. \A q \in Procs : q # c => holds'[q] = holds[q]
    BY <1>0, <2>1
  <2> QED BY <2>2, <2>3, <2>4 DEF Aside, Called
<1> QED BY <1>2, <1>3, <1>4, <1>5, <1>6

LEMMA ChildKeeps ==
  ASSUME Connected, NEW m \in Clients, Sole(m), NEW c \in Procs \ Clients, Step(c) \/ Kill(c)
  PROVE  Sole(m)'
<1>0. m \in Procs /\ m # c /\ pending \in [Procs -> Seq(Procs)]
  BY DEF Connected, Shapes
<1>1. /\ Aside(c) /\ reg'[c].pc \in {"wait", "connect", "serve", "done"}
      /\ Called(c)' => Called(c)
      /\ pending' = pending \/ pending' = [pending EXCEPT ![c] = Append(pending[c], c)]
  BY ChildSteps
<1>2. /\ \A d \in Clients : reg'[d] = reg[d]
      /\ \A d \in Procs : d # c => reg'[d] = reg[d]
      /\ reg'[m] = reg[m] /\ holds'[m] = holds[m]
      /\ UNCHANGED <<path, listening, told, seen>>
  BY <1>0, <1>1 DEF Aside
<1>3. Idle(m)' /\ OneReads(m)'
  BY <1>2 DEF Sole, Idle, OneReads
<1>4. Children'
  BY <1>1, <1>2 DEF Sole, Children, Child
<1>5. Awaited(m)'
  <2>1. \A d \in Procs \ Clients : Called(d)' => Called(d)
    BY <1>1, <1>2 DEF Called
  <2> QED BY <1>2, <2>1 DEF Sole, Awaited
<1>6. ToldForked'
  BY <1>1, <1>2 DEF Sole, ToldForked
<1>7. Opens(m)'
  <2>1. \A d \in Procs : reg[d].pc # "none" => reg'[d].pc # "none"
    BY <1>1, <1>2
  <2> QED BY <1>2, <2>1 DEF Sole, Opens
<1>8. OwnQueue'
  <2>1. CASE pending' = pending
    BY <2>1 DEF Sole, OwnQueue
  <2>2. CASE pending' = [pending EXCEPT ![c] = Append(pending[c], c)]
    <3> SUFFICES ASSUME NEW s \in Procs, NEW i \in DOMAIN pending'[s] PROVE pending'[s][i] = s
      BY DEF OwnQueue
    <3>1. \A j \in DOMAIN pending[s] : pending[s][j] = s
      BY DEF Sole, OwnQueue
    <3>2. CASE s = c
      <4> PICK q \in Seq(Procs) : q = pending[s]
        BY <1>0
      <4>1. pending'[s] = Append(q, c)
        BY <1>0, <2>2, <3>2
      <4>2. i \in DOMAIN q \/ Append(q, c)[i] = c
        BY <4>1, SMT
      <4>3. i \in DOMAIN q => Append(q, c)[i] = q[i]
        BY SMT
      <4> QED BY <3>1, <3>2, <4>1, <4>2, <4>3
    <3>3. CASE s # c
      BY <1>0, <2>2, <3>1, <3>3
    <3> QED BY <3>2, <3>3
  <2> QED BY <1>1, <2>1, <2>2
<1> QED BY <1>3, <1>4, <1>5, <1>6, <1>7, <1>8 DEF Sole

(* m moves where it neither opens a connection nor has told a child. *)
LEMMA PlainKeeps ==
  ASSUME Connected, NEW m \in Clients, Sole(m), reg'[m].pc \in Parent \ Opening,
         \A q \in Procs : q # m => reg'[q] = reg[q],
         \A c \in Procs \ Clients : ~Called(c), told' = told, OwnQueue', OneReads(m)'
  PROVE  Sole(m)'
<1>1. /\ \A d \in Clients \ {m} : reg'[d] = reg[d]
      /\ \A c \in Procs \ Clients : reg'[c] = reg[c]
  OBVIOUS
<1>2. Idle(m)' /\ Children' /\ ToldForked'
  BY <1>1 DEF Sole, Idle, Children, ToldForked
<1>3. Awaited(m)'
  BY <1>1 DEF Awaited, Called
<1>4. Opens(m)'
  BY SMT DEF Opens
<1> QED BY <1>2, <1>3, <1>4 DEF Sole

LEMMA NotAccept ==
  ASSUME NEW m \in Clients, Sole(m), reg[m].pc # "accept" PROVE \A c \in Procs \ Clients : ~Called(c)
BY DEF Sole, Awaited

LEMMA PlainGo ==
  ASSUME Connected, NEW m \in Clients, Sole(m), NEW pc \in {"line", "fork", "recv", "done"}, Go(m, pc),
         reg[m].pc # "accept", UNCHANGED <<told, pending, seen>>
  PROVE  Sole(m)'
<1>1. m \in Procs /\ pc \in Parent \ Opening
  BY SMT DEF Parent
<1>2. reg'[m].pc \in Parent \ Opening /\ \A q \in Procs : q # m => reg'[q] = reg[q]
  <2>1. reg'[m].pc = pc /\ \A q \in Procs : q # m => reg'[q] = reg[q]
    BY <1>1, GoIs, Zenon
  <2> QED BY <1>1, <2>1
<1>3. OwnQueue' /\ OneReads(m)'
  BY DEF Sole, OwnQueue, OneReads
<1> QED BY <1>2, <1>3, NotAccept, PlainKeeps

LEMMA PlainSteps ==
  ASSUME Connected, NEW m \in Clients, Sole(m)
  PROVE  /\ ReadLine(m) \/ Write(m) \/ WritePipe(m) \/ RecvFd(m) \/ RecvEnd(m) \/ Cat(m) => Sole(m)'
         /\ Accept(m) => Sole(m)'
<1> PICK r : r = reg[m]
  OBVIOUS
<1>0. m \in Procs /\ DOMAIN reg = Procs /\ DOMAIN r = Fields /\ Shape(r)
  BY HereOf
<1>1. ASSUME ReadLine(m) PROVE Sole(m)'
  <2>1. CASE r.at < Len(lines[r.cl])
    <3>1. /\ reg' = [reg EXCEPT ![m] = Process("fork", r.cl, r.at + 1)] /\ r.pc = "line"
          /\ seen' = seen \cup {<<m, r.cl, r.at + 1>>} /\ UNCHANGED <<told, pending>>
      BY <1>1, <2>1, Zenon DEF ReadLine, At, sockets
    <3>2. Process("fork", r.cl, r.at + 1).pc = "fork"
      BY DEF Process
    <3>3. reg'[m].pc \in Parent \ Opening /\ \A q \in Procs : q # m => reg'[q] = reg[q]
      BY <1>0, <3>1, <3>2 DEF Parent
    <3>4. OwnQueue'
      BY <3>1 DEF Sole, OwnQueue
    <3>5. OneReads(m)'
      BY <3>1 DEF Sole, OneReads
    <3>6. reg[m].pc # "accept"
      BY <3>1
    <3> QED BY <3>1, <3>3, <3>4, <3>5, <3>6, NotAccept, PlainKeeps
  <2>2. CASE ~(r.at < Len(lines[r.cl]))
    <3>1. Go(m, "done") /\ r.pc = "line" /\ UNCHANGED <<told, pending, seen>>
      BY <1>1, <2>2, Zenon DEF ReadLine, At, sockets
    <3> QED BY <3>1, PlainGo
  <2> QED BY <2>1, <2>2
<1>2. ASSUME Write(m) \/ WritePipe(m) \/ RecvEnd(m) PROVE Sole(m)'
  <2>1. /\ r.pc \in {"write", "recv"} /\ UNCHANGED <<told, pending, seen>>
        /\ Go(m, "recv") \/ Go(m, "done") \/ Go(m, "line")
    BY <1>2, Zenon DEF Write, WritePipe, RecvEnd, At, sockets
  <2> QED BY <2>1, PlainGo
<1>3. ASSUME RecvFd(m) \/ Cat(m) PROVE Sole(m)'
  <2>1. /\ r.pc \in {"recv", "cat"} /\ UNCHANGED <<told, pending, seen>>
        /\ \/ \E size : reg' = [reg EXCEPT ![m].pc = "cat", ![m].size = size]
           \/ \E b : reg' = [reg EXCEPT ![m].pc = "line", ![m].shown = b]
    BY <1>3, Zenon DEF RecvFd, Cat, At, sockets
  <2>2. reg'[m].pc \in {"cat", "line"} /\ \A q \in Procs : q # m => reg'[q] = reg[q]
    <3>1. ASSUME NEW size, reg' = [reg EXCEPT ![m].pc = "cat", ![m].size = size]
          PROVE  reg'[m].pc = "cat" /\ \A q \in Procs : q # m => reg'[q] = reg[q]
      BY <1>0, <3>1, SMT
    <3>2. ASSUME NEW b, reg' = [reg EXCEPT ![m].pc = "line", ![m].shown = b]
          PROVE  reg'[m].pc = "line" /\ \A q \in Procs : q # m => reg'[q] = reg[q]
      BY <1>0, <3>2, SMT
    <3> QED BY <2>1, <3>1, <3>2
  <2>3. reg'[m].pc \in Parent \ Opening /\ reg[m].pc # "accept"
    BY <2>1, <2>2, SMT DEF Parent
  <2>4. OwnQueue' /\ OneReads(m)'
    BY <2>1 DEF Sole, OwnQueue, OneReads
  <2> QED BY <2>1, <2>2, <2>3, <2>4, NotAccept, PlainKeeps
<1>4. ASSUME Accept(m) PROVE Sole(m)'
  <2> PICK s, c : s = r.child /\ c = Head(pending[s])
    OBVIOUS
  <2>1. /\ r.pc = "accept" /\ UNCHANGED <<told, seen>> /\ pending[s] # <<>>
        /\ pending' = [pending EXCEPT ![s] = Tail(pending[s])]
        /\ reg' = [reg EXCEPT ![m].pc = "write", ![m].conn = c]
    BY <1>4, Zenon DEF Accept, At
  <2>2. s \in Procs /\ pending[s] \in Seq(Procs)
    BY <1>0, <2>1, SMT DEF Shape, Connected, Shapes
  <2>3. reg'[m].pc = "write" /\ \A q \in Procs : q # m => reg'[q] = reg[q]
    BY <1>0, <2>1, SMT
  <2>4. 1 \in DOMAIN pending[s] /\ pending[s][1] = s
    <3>1. 1 \in DOMAIN pending[s]
      BY <2>1, <2>2, SMT
    <3> QED BY <2>2, <3>1 DEF Sole, OwnQueue
  <2>5. reg[s].pc \in Serving
    BY <2>2, <2>4 DEF Connected, QueuedServe
  <2>6. \A d \in Procs \ Clients : ~Called(d)
    <3>1. ~Called(s)
      BY <2>5 DEF Called
    <3> QED BY <3>1 DEF Sole, Awaited
  <2>7. OwnQueue'
    <3> SUFFICES ASSUME NEW t \in Procs, NEW i \in DOMAIN pending'[t] PROVE pending'[t][i] = t
      BY DEF OwnQueue
    <3>1. CASE t = s
      <4> PICK q \in Seq(Procs) : q = pending[s]
        BY <2>2
      <4>1. pending'[t] = Tail(q) /\ q # <<>>
        BY <2>1, <2>2, <3>1 DEF Connected, Shapes
      <4>2. i \in DOMAIN Tail(q)
        BY <4>1
      <4>3. i + 1 \in DOMAIN q /\ Tail(q)[i] = q[i + 1]
        BY <4>1, <4>2, SMT
      <4>4. q[i + 1] = s
        BY <2>2, <4>3 DEF Sole, OwnQueue
      <4> QED BY <3>1, <4>1, <4>3, <4>4
    <3>2. CASE t # s
      <4>1. pending'[t] = pending[t]
        BY <2>1, <3>2 DEF Connected, Shapes
      <4> QED BY <4>1 DEF Sole, OwnQueue
    <3> QED BY <3>1, <3>2
  <2>8. reg'[m].pc \in Parent \ Opening /\ OneReads(m)'
    BY <2>1, <2>3, SMT DEF Parent, Sole, OneReads
  <2> QED BY <2>1, <2>3, <2>6, <2>7, <2>8, PlainKeeps
<1> QED BY <1>1, <1>2, <1>3, <1>4

(* m goes from one step of csopen to the next; the child stays the same. *)
LEMMA OpenGo ==
  ASSUME Connected, NEW m \in Clients, Sole(m), NEW pc \in {"bind", "listen", "tell", "accept"},
         Go(m, pc), reg[m].pc \in Opening \ {"accept"}, UNCHANGED <<pending, seen>>,
         told' = told \/ (pc = "accept" /\ told' = told \cup {reg[m].child}),
         pc # "bind" => path' = reg[m].child /\ <<"sock", path'>> \in holds'[m],
         pc \in {"tell", "accept"} => path' \in listening'
  PROVE  Sole(m)'
<1> PICK c : c = reg[m].child
  OBVIOUS
<1>0. m \in Procs /\ c \in Procs \ Clients /\ reg[c].pc # "none" /\ c # m
  BY DEF Sole, Opens
<1>1. /\ reg'[m].pc = pc /\ reg'[m].child = c /\ \A q \in Procs : q # m => reg'[q] = reg[q]
  <2>1. DOMAIN reg[m] = Fields /\ reg'[m] = [reg[m] EXCEPT !.pc = pc]
        /\ \A q \in Procs : q # m => reg'[q] = reg[q]
    BY <1>0, HereOf, GoIs, Zenon
  <2> QED BY <2>1
<1>2. /\ \A d \in Clients \ {m} : reg'[d] = reg[d]
      /\ \A d \in Procs \ Clients : reg'[d] = reg[d]
  BY <1>1
<1>3. Idle(m)' /\ Children'
  BY <1>2 DEF Sole, Idle, Children
<1>4. ToldForked'
  <2> SUFFICES ASSUME NEW d \in told' PROVE d \in Procs \ Clients /\ reg'[d].pc # "none"
    BY DEF ToldForked
  <2>1. d \in told \/ d = c
    OBVIOUS
  <2>2. d \in Procs \ Clients /\ reg[d].pc # "none"
    BY <1>0, <2>1 DEF Sole, ToldForked
  <2>3. reg'[d] = reg[d]
    BY <1>2, <2>2
  <2> QED BY <2>2, <2>3
<1>5. Awaited(m)'
  <2>1. \A d \in Procs \ Clients : ~Called(d)
    <3>1. reg[m].pc # "accept"
      BY SMT
    <3> QED BY <3>1, NotAccept
  <2>2. ASSUME NEW d \in Procs \ Clients, Called(d)' PROVE pc = "accept" /\ d = c
    BY <1>2, <2>1, <2>2 DEF Called
  <2> QED BY <1>1, <2>2 DEF Awaited
<1>6. Opens(m)'
  <2>1. reg'[c].pc # "none"
    BY <1>0, <1>2
  <2>2. pc \in Parent /\ (pc \in {"listen", "tell", "accept"} => pc # "bind")
    BY SMT DEF Parent
  <2> QED BY <1>0, <1>1, <2>1, <2>2 DEF Opens
<1>7. OwnQueue' /\ OneReads(m)'
  BY DEF Sole, OwnQueue, OneReads
<1> QED BY <1>3, <1>4, <1>5, <1>6, <1>7 DEF Sole

LEMMA OpenSteps ==
  ASSUME Connected, NEW m \in Clients, Sole(m)
  PROVE  Unlink(m) \/ Bind(m) \/ Listen(m) \/ TellChild(m) => Sole(m)'
<1> PICK r : r = reg[m]
  OBVIOUS
<1>0. m \in Procs /\ DOMAIN holds = Procs
  BY HereOf
<1>1. ASSUME Unlink(m) PROVE Sole(m)'
  <2>1. r.pc = "unlink" /\ UNCHANGED <<told, pending, seen>> /\ (Go(m, "line") \/ Go(m, "bind"))
    BY <1>1, Zenon DEF Unlink, At, Failed
  <2>2. reg[m].pc \in Opening \ {"accept"} /\ reg[m].pc # "accept"
    BY <2>1, SMT
  <2> QED BY <2>1, <2>2, PlainGo, OpenGo
<1>2. ASSUME Bind(m) PROVE Sole(m)'
  <2>1. r.pc = "bind" /\ UNCHANGED <<told, pending, seen>>
        /\ \/ Go(m, "line")
           \/ /\ Go(m, "listen") /\ path' = r.child
              /\ holds' = [holds EXCEPT ![m] = holds[m] \cup {<<"sock", r.child>>}]
    BY <1>2, Zenon DEF Bind, At, Failed
  <2>2. reg[m].pc \in Opening \ {"accept"} /\ reg[m].pc # "accept"
    BY <2>1, SMT
  <2>3. CASE Go(m, "line")
    BY <2>1, <2>2, <2>3, PlainGo
  <2>4. CASE /\ Go(m, "listen") /\ path' = r.child
             /\ holds' = [holds EXCEPT ![m] = holds[m] \cup {<<"sock", r.child>>}]
    <3>1. path' = reg[m].child /\ <<"sock", path'>> \in holds'[m]
      BY <1>0, <2>4
    <3> QED BY <2>1, <2>2, <2>4, <3>1, OpenGo
  <2> QED BY <2>1, <2>3, <2>4
<1>3. ASSUME Listen(m) PROVE Sole(m)'
  <2>1. /\ r.pc = "listen" /\ UNCHANGED <<told, pending, seen, path, holds>> /\ Go(m, "tell")
        /\ listening' = listening \cup {r.child}
    BY <1>3, Zenon DEF Listen, At
  <2>2. reg[m].pc \in Opening \ {"accept"} /\ path = r.child /\ <<"sock", path>> \in holds[m]
    BY <2>1, SMT DEF Sole, Opens
  <2>3. path' = reg[m].child /\ <<"sock", path'>> \in holds'[m] /\ path' \in listening'
    BY <2>1, <2>2
  <2> QED BY <2>1, <2>2, <2>3, OpenGo
<1>4. ASSUME TellChild(m) PROVE Sole(m)'
  <2>1. /\ r.pc = "tell" /\ UNCHANGED <<pending, seen, path, listening, holds>> /\ Go(m, "accept")
        /\ told' = told \cup {r.child}
    BY <1>4, Zenon DEF TellChild, At, sockets
  <2>2. /\ reg[m].pc \in Opening \ {"accept"} /\ path = r.child /\ <<"sock", path>> \in holds[m]
        /\ path \in listening
    BY <2>1, SMT DEF Sole, Opens
  <2>3. path' = reg[m].child /\ <<"sock", path'>> \in holds'[m] /\ path' \in listening'
    BY <2>1, <2>2
  <2> QED BY <2>1, <2>2, <2>3, OpenGo
<1> QED BY <1>1, <1>2, <1>3, <1>4

(* The child that fork finds is none that has been told to go on. *)
LEMMA ForkSole ==
  ASSUME Connected, NEW m \in Clients, Sole(m), TellWaitFork(m) PROVE Sole(m)'
<1> PICK r : r = reg[m]
  OBVIOUS
<1>0. m \in Procs /\ DOMAIN reg = Procs /\ DOMAIN r = Fields
  BY HereOf
<1>1. r.pc = "fork" /\ UNCHANGED <<told, path, listening, pending, seen>>
  BY Zenon DEF TellWaitFork, At, sockets
<1>2. CASE ~\E c \in Procs : At(c, "none")
  <2>1. Go(m, "line") /\ reg[m].pc # "accept"
    BY <1>1, <1>2, Zenon DEF TellWaitFork, Failed
  <2> QED BY <1>1, <2>1, PlainGo
<1>3. CASE \E c \in Procs : At(c, "none")
  <2> PICK c : c = NewChild
    OBVIOUS
  <2> PICK s, t : s = [r EXCEPT !.pc = "unlink", !.child = c] /\ t = Process("wait", r.cl, r.at)
    OBVIOUS
  <2>1. c \in Procs /\ reg[c].pc = "none"
    BY <1>3, ForkFinds DEF At
  <2>2. c # m /\ c \in Procs \ Clients
    <3>1. \A d \in Clients : reg[d].pc # "none"
      BY <1>1, SMT DEF Sole, Idle
    <3> QED BY <2>1, <3>1
  <2>3. reg' = [reg EXCEPT ![m].pc = "unlink", ![m].child = c, ![c] = t]
    BY <1>3, Zenon DEF TellWaitFork, NewChild
  <2>4. /\ reg'[m] = s /\ reg'[c] = t /\ \A q \in Procs : q # m /\ q # c => reg'[q] = reg[q]
    BY <1>0, <2>1, <2>2, <2>3, SMT
  <2>5. /\ \A d \in Clients \ {m} : reg'[d] = reg[d]
        /\ \A d \in Procs \ Clients : d # c => reg'[d] = reg[d]
        /\ t.pc = "wait" /\ s.pc = "unlink" /\ s.child = c
    <3>1. t.pc = "wait" /\ s.pc = "unlink" /\ s.child = c
      BY <1>0, SMT DEF Process
    <3> QED BY <2>2, <2>4, <3>1
  <2>6. Idle(m)' /\ Children'
    BY <2>4, <2>5 DEF Sole, Idle, Children, Child
  <2>7. ToldForked'
    BY <1>1, <2>1, <2>5 DEF Sole, ToldForked
  <2>8. Awaited(m)'
    <3>1. \A d \in Procs \ Clients : ~Called(d)
      BY <1>1, NotAccept
    <3>2. c \notin told
      BY <2>1 DEF Sole, ToldForked
    <3>3. ~Called(c)'
      BY <1>1, <2>4, <2>5, <3>2 DEF Called
    <3>4. \A d \in Procs \ Clients : ~Called(d)'
      BY <1>1, <2>5, <3>1, <3>3 DEF Called
    <3> QED BY <3>4 DEF Awaited
  <2>9. Opens(m)'
    BY <2>2, <2>4, <2>5, SMT DEF Opens, Parent
  <2>10. OwnQueue' /\ OneReads(m)'
    BY <1>1 DEF Sole, OwnQueue, OneReads
  <2> QED BY <2>6, <2>7, <2>8, <2>9, <2>10 DEF Sole
<1> QED BY <1>2, <1>3

(* m itself never waits for a parent, connects or serves, and is not killed. *)
LEMMA ParentKeeps ==
  ASSUME Connected, NEW m \in Clients, Sole(m), Step(m) \/ Kill(m) PROVE Sole(m)'
<1>1. reg[m].pc \in Parent
  BY DEF Sole, Opens
<1>2. ~WaitParent(m) /\ ~Connect(m) /\ ~Request(m) /\ ~Hangup(m)
  BY <1>1, SMT DEF Parent, WaitParent, Connect, Request, Hangup, At
<1>3. ~Kill(m)
  <2>1. m \notin Mortal
    BY FdAssumption
  <2> QED BY <2>1, Zenon DEF Kill
<1> QED BY <1>2, <1>3, PlainSteps, OpenSteps, ForkSole, Zenon DEF Step
-----------------------------------------------------------------------------
LEMMA LinesStay == [Next]_vars => lines' = lines
BY Zenon DEF Next, Step, vars, ReadLine, TellWaitFork, Unlink, Bind, Listen, TellChild, Accept,
  Write, WritePipe, RecvFd, RecvEnd, Cat, WaitParent, Connect, Request, Hangup, Kill

LEMMA InitSole == Init => SoleClient
<1> SUFFICES ASSUME Init, NEW m \in Clients PROVE Sole(m)
  BY DEF SoleClient
<1>1. \A p \in Procs : reg[p] = IF p \in Clients THEN Process("line", p, 0) ELSE Process("none", None, 0)
  BY DEF Init
<1>2. \A p \in Procs : /\ p \in Clients => reg[p].pc = "line" /\ reg[p].cl = p /\ reg[p].at = 0
                       /\ p \notin Clients => reg[p].pc = "none"
  <2>1. \A p : /\ Process("line", p, 0).pc = "line" /\ Process("line", p, 0).cl = p
                /\ Process("line", p, 0).at = 0 /\ Process("none", None, 0).pc = "none"
    BY SMT DEF Process
  <2> QED BY <1>1, <2>1
<1>3. Idle(m) /\ Children
  BY <1>2 DEF Idle, Children, Child
<1>4. Awaited(m) /\ ToldForked /\ OneReads(m)
  BY <1>2 DEF Init, Awaited, Called, ToldForked, OneReads
<1>5. Opens(m)
  BY <1>2, SMT DEF Opens, Parent
<1>6. OwnQueue
  BY SMT DEF Init, OwnQueue
<1> QED BY <1>3, <1>4, <1>5, <1>6 DEF Sole

LEMMA NextSole == Connected /\ SoleClient /\ [Next]_vars => SoleClient'
<1> SUFFICES ASSUME Connected, SoleClient, [Next]_vars, NEW m \in Clients, Alone(m)' PROVE Sole(m)'
  BY DEF SoleClient
<1>1. Alone(m) /\ Sole(m)
  BY LinesStay DEF Alone, SoleClient
<1>2. CASE UNCHANGED vars
  <2>1. UNCHANGED <<reg, holds, path, listening, pending, told, seen>>
    BY <1>2 DEF vars, sockets
  <2> QED BY <1>1, <2>1
    DEF Sole, Idle, Children, Awaited, Called, ToldForked, Opens, OwnQueue, OneReads
<1>3. ASSUME NEW p \in Procs, Step(p) \/ Kill(p) PROVE Sole(m)'
  <2>1. CASE p = m
    BY <1>1, <1>3, <2>1, ParentKeeps, Zenon
  <2>2. CASE p \in Clients /\ p # m
    BY <1>1, <1>3, <2>2, IdleKeeps, Zenon
  <2>3. CASE p \notin Clients
    BY <1>1, <1>3, <2>3, ChildKeeps, Zenon
  <2> QED BY <2>1, <2>2, <2>3
<1> QED BY <1>2, <1>3 DEF Next

LEMMA SoleKept == Spec => []SoleClient
BY ConnectedKept, InitSole, NextSole, PTL DEF Spec

(* While only one client has anything to read, every line is read by one   *)
(* process: a child that is told to connect finds its parent listening     *)
(* under the name of the socket, so connect does not fail and the child    *)
(* does not return into the loop that reads the copied input.              *)
THEOREM OneReader == Spec => []LinesOnce
<1>1. SoleClient => LinesOnce
  BY DEF SoleClient, Sole, OneReads, LinesOnce, Solo, Alone
<1> QED BY <1>1, SoleKept, PTL
-----------------------------------------------------------------------------
(* A step of m that is not about the name, and after which it is not either *)
LEMMA PlainTells ==
  ASSUME NEW m \in Clients, Tells(m), reg[m].pc \notin Telling,
         reg'[m].pc \notin {"bind", "listen", "tell", "accept"},
         \A c \in Procs \ Clients : reg'[c].pc = "wait" => reg[c].pc = "wait",
         UNCHANGED <<path, listening, told>>
  PROVE  Tells(m)'
<1>1. reg[m].pc # "bind" /\ reg'[m].pc # "bind"
  BY SMT DEF Telling
<1>2. Named(m)'
  BY <1>1 DEF Tells, Named
<1>3. ASSUME NEW c \in Procs \ Clients, reg'[c].pc = "wait", c \notin told' PROVE Unnamed(m)'
  <2>1. Unnamed(m)
    BY <1>3 DEF Tells, Coming
  <2> QED BY <2>1 DEF Unnamed
<1> QED BY <1>2, <1>3 DEF Tells

(* A step of somebody else *)
LEMMA AsideTells ==
  ASSUME NEW m \in Clients, Tells(m), NEW p \in Procs, p # m, Aside(p),
         p \notin Clients => reg'[p].pc # "wait"
  PROVE  Tells(m)'
<1>1. /\ reg'[m] = reg[m] /\ UNCHANGED <<path, listening, told>>
      /\ \A c \in Procs \ Clients : reg'[c].pc = "wait" => reg[c].pc = "wait"
  BY DEF Aside
<1> QED BY <1>1 DEF Tells, Named, Coming, Unnamed

LEMMA QuietTells ==
  ASSUME Connected, NEW m \in Clients, Tells(m)
  PROVE  /\ ReadLine(m) \/ Accept(m) \/ Write(m) \/ WritePipe(m) => Tells(m)'
         /\ RecvFd(m) \/ RecvEnd(m) \/ Cat(m) => Tells(m)'
<1> PICK r : r = reg[m]
  OBVIOUS
<1>0. m \in Procs /\ DOMAIN reg = Procs /\ DOMAIN r = Fields
  BY HereOf
<1>1. ASSUME NEW s, reg' = [reg EXCEPT ![m] = s], r.pc \notin Telling,
             s.pc \notin {"bind", "listen", "tell", "accept"}, UNCHANGED <<path, listening, told>>
      PROVE  Tells(m)'
  <2>1. reg'[m] = s /\ \A c \in Procs \ Clients : reg'[c] = reg[c]
    BY <1>0, <1>1
  <2> QED BY <1>1, <2>1, PlainTells
<1>2. ASSUME NEW pc \in {"done", "recv", "line"}, Go(m, pc), r.pc \notin Telling,
             UNCHANGED <<path, listening, told>>
      PROVE  Tells(m)'
  <2>1. reg' = [reg EXCEPT ![m] = [r EXCEPT !.pc = pc]] /\ [r EXCEPT !.pc = pc].pc = pc
    BY <1>0, <1>2, GoIs
  <2>2. pc \notin {"bind", "listen", "tell", "accept"}
    BY SMT
  <2> QED BY <1>1, <1>2, <2>1, <2>2
<1>3. ASSUME ReadLine(m) PROVE Tells(m)'
  <2>1. /\ r.pc = "line" /\ UNCHANGED <<path, listening, told>>
        /\ \/ reg' = [reg EXCEPT ![m] = Process("fork", r.cl, r.at + 1)]
           \/ Go(m, "done")
    BY <1>3, Zenon DEF ReadLine, At, sockets
  <2>2. r.pc \notin Telling
    BY <2>1, SMT DEF Telling
  <2>3. Process("fork", r.cl, r.at + 1).pc = "fork"
    BY DEF Process
  <2>4. Process("fork", r.cl, r.at + 1).pc \notin {"bind", "listen", "tell", "accept"}
    BY <2>3, SMT
  <2> QED BY <1>1, <1>2, <2>1, <2>2, <2>4
<1>4. ASSUME Write(m) \/ WritePipe(m) \/ RecvEnd(m) PROVE Tells(m)'
  <2>1. /\ r.pc \in {"write", "recv"} /\ UNCHANGED <<path, listening, told>>
        /\ Go(m, "recv") \/ Go(m, "done") \/ Go(m, "line")
    BY <1>4, Zenon DEF Write, WritePipe, RecvEnd, At, sockets
  <2>2. r.pc \notin Telling
    BY <2>1, SMT DEF Telling
  <2> QED BY <1>2, <2>1, <2>2
<1>5. ASSUME Accept(m) \/ RecvFd(m) \/ Cat(m) PROVE Tells(m)'
  <2>1. /\ r.pc \in {"accept", "recv", "cat"} /\ UNCHANGED <<path, listening, told>>
        /\ \/ \E c : reg' = [reg EXCEPT ![m].pc = "write", ![m].conn = c]
           \/ \E n : reg' = [reg EXCEPT ![m].pc = "cat", ![m].size = n]
           \/ \E n : reg' = [reg EXCEPT ![m].pc = "line", ![m].shown = n]
    BY <1>5, Zenon DEF Accept, RecvFd, Cat, At, sockets
  <2>2. r.pc \notin Telling
    BY <2>1, SMT DEF Telling
  <2>3. \E s : reg' = [reg EXCEPT ![m] = s] /\ s.pc \in {"write", "cat", "line"}
    <3>1. ASSUME NEW c, reg' = [reg EXCEPT ![m].pc = "write", ![m].conn = c]
          PROVE  reg' = [reg EXCEPT ![m] = [[r EXCEPT !.pc = "write"] EXCEPT !.conn = c]]
      BY <1>0, <3>1, Zenon
    <3>2. ASSUME NEW n, reg' = [reg EXCEPT ![m].pc = "cat", ![m].size = n]
          PROVE  reg' = [reg EXCEPT ![m] = [[r EXCEPT !.pc = "cat"] EXCEPT !.size = n]]
      BY <1>0, <3>2, Zenon
    <3>3. ASSUME NEW n, reg' = [reg EXCEPT ![m].pc = "line", ![m].shown = n]
          PROVE  reg' = [reg EXCEPT ![m] = [[r EXCEPT !.pc = "line"] EXCEPT !.shown = n]]
      BY <1>0, <3>3, Zenon
    <3>4. \A n : /\ [[r EXCEPT !.pc = "write"] EXCEPT !.conn = n].pc \in {"write", "cat", "line"}
                 /\ [[r EXCEPT !.pc = "cat"] EXCEPT !.size = n].pc \in {"write", "cat", "line"}
                 /\ [[r EXCEPT !.pc = "line"] EXCEPT !.shown = n].pc \in {"write", "cat", "line"}
      BY <1>0, SMT
    <3> QED BY <2>1, <3>1, <3>2, <3>3, <3>4, Zenon
  <2>4. \A s : s.pc \in {"write", "cat", "line"} => s.pc \notin {"bind", "listen", "tell", "accept"}
    BY SMT
  <2> QED BY <1>1, <2>1, <2>2, <2>3, <2>4
<1> QED BY <1>3, <1>4, <1>5

(* csopen tells its child unless unlink fails. *)
LEMMA OpenTells ==
  ASSUME Connected, NEW m \in Clients, Sole(m), Tells(m)
  PROVE  Unlink(m) \/ Bind(m) \/ Listen(m) \/ TellChild(m) => Tells(m)'
<1> PICK r : r = reg[m]
  OBVIOUS
<1>0. m \in Procs /\ DOMAIN reg = Procs /\ DOMAIN r = Fields
  BY HereOf
<1>1. ASSUME NEW pc, Go(m, pc)
      PROVE  /\ reg'[m].pc = pc /\ reg'[m].child = r.child
             /\ \A c \in Procs \ Clients : reg'[c] = reg[c]
  <2>1. reg'[m] = [r EXCEPT !.pc = pc] /\ \A q \in Procs : q # m => reg'[q] = reg[q]
    BY <1>0, <1>1, GoIs
  <2> QED BY <1>0, <2>1
<1>2. ASSUME NEW pc \in {"bind", "listen", "tell"}, Go(m, pc), r.pc \in Telling, ~Unnamed(m),
             told' = told, IF pc = "bind" THEN path' = None ELSE path' # None
      PROVE  Tells(m)'
  <2>1. Named(m)'
    BY <1>1, <1>2 DEF Named
  <2>2. ASSUME NEW c \in Procs \ Clients, reg'[c].pc = "wait", c \notin told' PROVE Coming(m, c)'
    <3>1. Coming(m, c)
      BY <1>1, <1>2, <2>2 DEF Tells
    <3>2. pc \in Telling
      BY SMT DEF Telling
    <3> QED BY <1>1, <1>2, <3>1, <3>2 DEF Coming
  <2> QED BY <2>1, <2>2 DEF Tells
<1>3. ASSUME Unlink(m) PROVE Tells(m)'
  <2>1. /\ r.pc = "unlink" /\ path' = None /\ UNCHANGED <<listening, told>>
        /\ IF path = None THEN Go(m, "line") ELSE Go(m, "bind")
    BY <1>3, Zenon DEF Unlink, At, Failed
  <2>2. CASE path = None
    <3>1. listening = {}
      BY <2>1, <2>2 DEF Tells, Named
    <3>2. reg'[m].pc = "line" /\ path' = None /\ listening' = {}
      BY <1>1, <2>1, <2>2, <3>1
    <3>3. Named(m)' /\ Unnamed(m)'
      BY <3>2, SMT DEF Named, Unnamed
    <3> QED BY <3>3 DEF Tells
  <2>3. CASE path # None
    <3>1. ~Unnamed(m) /\ r.pc \in Telling
      BY <2>1, <2>3, SMT DEF Unnamed, Telling
    <3> QED BY <1>2, <2>1, <2>3, <3>1
  <2> QED BY <2>2, <2>3
<1>4. ASSUME Bind(m) PROVE Tells(m)'
  <2>1. r.pc = "bind" /\ path = None
    BY <1>4, Zenon DEF Bind, At, Tells, Named
  <2>2. Go(m, "listen") /\ path' = r.child /\ told' = told
    BY <1>4, <2>1, Zenon DEF Bind
  <2>3. r.child \in Procs /\ r.child # None
    BY <2>1, ProcsNumbered, SMT DEF Sole, Opens
  <2>4. ~Unnamed(m) /\ r.pc \in Telling
    BY <2>1, SMT DEF Unnamed, Telling
  <2> QED BY <1>2, <2>2, <2>3, <2>4
<1>5. ASSUME Listen(m) PROVE Tells(m)'
  <2>1. r.pc = "listen" /\ Go(m, "tell") /\ UNCHANGED <<path, told>>
    BY <1>5, Zenon DEF Listen, At
  <2>2. path = r.child /\ r.child \in Procs
    BY <2>1, SMT DEF Sole, Opens
  <2>3. path' # None
    BY <2>1, <2>2, ProcsNumbered
  <2>4. ~Unnamed(m) /\ r.pc \in Telling
    BY <2>1, SMT DEF Unnamed, Telling
  <2> QED BY <1>2, <2>1, <2>3, <2>4
<1>6. ASSUME TellChild(m) PROVE Tells(m)'
  <2>1. r.pc = "tell" /\ Go(m, "accept") /\ path' = path /\ told' = told \cup {r.child}
    BY <1>6, Zenon DEF TellChild, At, sockets
  <2>2. path = r.child /\ r.child \in Procs
    BY <2>1, SMT DEF Sole, Opens
  <2>3. path' # None
    BY <2>1, <2>2, ProcsNumbered
  <2>4. Named(m)'
    BY <1>1, <2>1, <2>3 DEF Named
  <2>5. ASSUME NEW c \in Procs \ Clients, reg'[c].pc = "wait", c \notin told' PROVE FALSE
    <3>1. reg[c].pc = "wait" /\ c \notin told /\ c # r.child
      BY <1>1, <2>1, <2>5
    <3>2. ~Unnamed(m)
      BY <2>1, SMT DEF Unnamed
    <3> QED BY <3>1, <3>2 DEF Tells, Coming
  <2> QED BY <2>4, <2>5 DEF Tells
<1> QED BY <1>3, <1>4, <1>5, <1>6

LEMMA ForkTells ==
  ASSUME Connected, NEW m \in Clients, Sole(m), Tells(m), TellWaitFork(m) PROVE Tells(m)'
<1> PICK r : r = reg[m]
  OBVIOUS
<1>0. m \in Procs /\ DOMAIN reg = Procs /\ DOMAIN r = Fields
  BY HereOf
<1>1. r.pc = "fork" /\ UNCHANGED <<told, path, listening>>
  BY Zenon DEF TellWaitFork, At, sockets
<1>2. r.pc \notin Telling /\ r.pc # "bind"
  BY <1>1, SMT DEF Telling
<1>3. CASE ~\E c \in Procs : At(c, "none")
  <2>1. Go(m, "line")
    BY <1>3, Zenon DEF TellWaitFork, Failed
  <2>2. reg'[m].pc = "line" /\ \A q \in Procs : q # m => reg'[q] = reg[q]
    BY <1>0, <2>1, GoIs
  <2>3. reg'[m].pc \notin {"bind", "listen", "tell", "accept"}
    BY <2>2, SMT
  <2> QED BY <1>1, <1>2, <2>2, <2>3, PlainTells
<1>4. CASE \E c \in Procs : At(c, "none")
  <2> PICK c, t : c = NewChild /\ t = Process("wait", r.cl, r.at)
    OBVIOUS
  <2>1. c \in Procs /\ reg[c].pc = "none"
    BY <1>4, ForkFinds DEF At
  <2>2. c # m
    BY <1>1, <2>1, SMT
  <2>3. reg' = [reg EXCEPT ![m].pc = "unlink", ![m].child = c, ![c] = t]
    BY <1>4, Zenon DEF TellWaitFork, NewChild
  <2>4. /\ reg'[m].pc = "unlink" /\ reg'[m].child = c
        /\ \A q \in Procs : q # m /\ q # c => reg'[q] = reg[q]
    BY <1>0, <2>1, <2>2, <2>3, SMT
  <2>5. Named(m)'
    BY <1>1, <1>2, <2>4 DEF Tells, Named
  <2>6. ASSUME NEW d \in Procs \ Clients, reg'[d].pc = "wait", d \notin told'
        PROVE  Coming(m, d)' \/ Unnamed(m)'
    <3>1. CASE d = c
      <4>1. reg'[m].pc \in Telling
        BY <2>4, SMT DEF Telling
      <4> QED BY <2>4, <3>1, <4>1 DEF Coming
    <3>2. CASE d # c
      <4>1. Unnamed(m)
        BY <1>1, <1>2, <2>4, <2>6, <3>2 DEF Tells, Coming
      <4>2. reg'[m].pc \notin {"bind", "listen", "tell", "accept"}
        BY <2>4, SMT
      <4> QED BY <1>1, <4>1, <4>2 DEF Unnamed
    <3> QED BY <3>1, <3>2
  <2> QED BY <2>5, <2>6 DEF Tells
<1> QED BY <1>3, <1>4

LEMMA InitTells == Init => TellingClient
<1> SUFFICES ASSUME Init, NEW m \in Clients PROVE Tells(m)
  BY DEF TellingClient
<1>1. \A p \in Procs : reg[p] = IF p \in Clients THEN Process("line", p, 0) ELSE Process("none", None, 0)
  BY DEF Init
<1>2. reg[m].pc = "line" /\ \A p \in Procs \ Clients : reg[p].pc = "none"
  <2>1. \A p : Process("line", p, 0).pc = "line" /\ Process("none", None, 0).pc = "none"
    BY SMT DEF Process
  <2> QED BY <1>1, <2>1
<1>3. listening = {}
  BY DEF Init
<1> QED BY <1>2, <1>3 DEF Tells, Named

LEMMA NextTells == Connected /\ SoleClient /\ TellingClient /\ [Next]_vars => TellingClient'
<1> SUFFICES ASSUME Connected, SoleClient, TellingClient, [Next]_vars, NEW m \in Clients, Alone(m)'
             PROVE  Tells(m)'
  BY DEF TellingClient
<1>1. Alone(m) /\ Sole(m) /\ Tells(m)
  BY LinesStay DEF Alone, SoleClient, TellingClient
<1>2. CASE UNCHANGED vars
  <2>1. UNCHANGED <<reg, path, listening, told>>
    BY <1>2 DEF vars, sockets
  <2> QED BY <1>1, <2>1 DEF Tells, Named, Coming, Unnamed
<1>3. ASSUME NEW p \in Procs, Step(p) \/ Kill(p) PROVE Tells(m)'
  <2>1. CASE p = m
    <3>1. reg[m].pc \in Parent
      BY <1>1 DEF Sole, Opens
    <3>2. ~WaitParent(m) /\ ~Connect(m) /\ ~Request(m) /\ ~Hangup(m)
      BY <3>1, SMT DEF Parent, WaitParent, Connect, Request, Hangup, At
    <3>3. ~Kill(m)
      <4>1. m \notin Mortal
        BY FdAssumption
      <4> QED BY <4>1, Zenon DEF Kill
    <3> QED BY <1>1, <1>3, <2>1, <3>2, <3>3, QuietTells, OpenTells, ForkTells, Zenon DEF Step
  <2>2. CASE p \in Clients /\ p # m
    <3>1. Aside(p)
      BY <1>1, <1>3, <2>2, IdleSteps, Zenon
    <3> QED BY <1>1, <2>2, <3>1, AsideTells
  <2>3. CASE p \notin Clients
    <3>1. Aside(p) /\ reg'[p].pc \in {"connect", "serve", "done"}
      BY <1>1, <1>3, <2>3, ChildSteps, Zenon
    <3>2. reg'[p].pc # "wait"
      BY <3>1, SMT
    <3> QED BY <1>1, <2>3, <3>1, <3>2, AsideTells
  <2> QED BY <2>1, <2>2, <2>3
<1> QED BY <1>2, <1>3 DEF Next

(* A client that runs alone leaves no child behind that waits to be told   *)
(* to connect, unless nothing had the socket's name when it began: then    *)
(* unlink fails for every line.                                            *)
THEOREM NoneAbandoned == Spec => []ChildrenTold
<1>1. TellingClient /\ SoleClient /\ Connected => ChildrenTold
  <2> SUFFICES ASSUME TellingClient, SoleClient, NEW m \in Clients, Alone(m),
                      NEW c \in Procs, At(c, "wait"), c \notin told
               PROVE  \/ \E p \in Procs : reg[p].child = c /\ reg[p].pc \in Telling
                      \/ path = None /\ listening = {}
    BY DEF ChildrenTold, Solo, Alone, Telling
  <2>1. c \notin Clients
    <3>1. Sole(m)
      BY DEF SoleClient
    <3>2. c # m
      <4>1. reg[m].pc \in Parent
        BY <3>1 DEF Sole, Opens
      <4> QED BY <4>1, SMT DEF Parent, At
    <3>3. \A d \in Clients \ {m} : reg[d].pc \in {"done", "line"}
      BY <3>1 DEF Sole, Idle
    <3>4. reg[c].pc = "wait"
      BY DEF At
    <3>5. "wait" \notin {"done", "line"}
      BY SMT
    <3> QED BY <3>2, <3>3, <3>4, <3>5, Zenon
  <2>2. Coming(m, c) \/ Unnamed(m)
    BY <2>1 DEF TellingClient, Tells, At
  <2> QED BY <2>2 DEF Coming, Unnamed
<1>2. Spec => []TellingClient
  BY ConnectedKept, SoleKept, InitTells, NextTells, PTL DEF Spec
<1> QED BY <1>1, <1>2, ConnectedKept, SoleKept, PTL
=============================================================================
