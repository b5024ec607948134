------------------------- MODULE UniqueConnections -------------------------
(***************************************************************************)
(* The functions of unique_connections.c, used as they are meant to be: a  *)
(* server that calls serv_listen once and serv_accept for ever, and        *)
(* clients that call cli_conn.  A client binds its socket to a name made   *)
(* of its process number; the server looks the name up to learn who owns   *)
(* it, whether it is private and fresh, and removes it.                    *)
(*                                                                         *)
(* Process numbers are used again once their process has ended, and names  *)
(* outlive their sockets.  They stand in a directory where users remove    *)
(* only what is theirs.  socket, accept and listen succeed.                *)
(***************************************************************************)
EXTENDS Naturals, Sequences, FiniteSets

CONSTANTS
  Clients, Pids,
  None,            \* no process, no name, no user
  Users, Root,     \* Root may remove any name
  Qlen,            \* QLEN, the connections that wait for accept
  MaxCrashes       \* bound on servers that are killed

ConnAssumption ==
  /\ None \notin Clients \cup Pids \cup Users /\ Root \in Users
  /\ None \notin [of : Clients, private : BOOLEAN, fresh : BOOLEAN]
  /\ Qlen \in Nat \ {0} /\ MaxCrashes \in Nat /\ IsFiniteSet(Clients)

VARIABLES
  user,         \* of each client, and of the server
  srvuser,
  client,       \* where each client is, or how it has ended
  pid,
  file,         \* what stands under the name of each process number
  srvname,      \* the server's name: absent, left over, bound, listening
  server,       \* where the server is
  backlog,      \* connections not yet accepted
  cur,          \* the client that serv_accept is about
  uid,          \* the user that serv_accept has found for each client
  aged,         \* history: clients whose name became stale before they were accepted
  robbed,       \* history: clients whose name was removed in place of another one
  crashes

who     == <<user, srvuser>>
ucvars  == <<who, client, pid, file, srvname, server, backlog, cur, uid, aged, robbed, crashes>>

Ended == {"exit", "refused_at_bind", "refused_at_connect"}

Init ==
  /\ user \in [Clients -> Users] /\ srvuser \in Users
  /\ client = [c \in Clients |-> "new"] /\ pid = [c \in Clients |-> None]
  /\ file = [p \in Pids |-> None]
  /\ srvname \in {"absent", "left"} /\ server = "unlink"
  /\ backlog = <<>> /\ cur = None /\ uid = [c \in Clients |-> None]
  /\ aged = {} /\ robbed = {} /\ crashes = 0

Alive(c)  == client[c] \notin {"new"} \cup Ended
At(c, l)  == client[c] = l
Go(c, l)  == client' = [client EXCEPT ![c] = l]
Name(c)   == file[pid[c]]
(* unlink by user u of the name of process number p *)
MayRemove(u, p) == file[p] # None /\ u \in {Root, user[file[p].of]}
-----------------------------------------------------------------------------
(* cli_conn *)

Begin(c) ==
  /\ At(c, "new")
  /\ \E p \in Pids :
       /\ \A d \in Clients : Alive(d) => pid[d] # p
       /\ pid' = [pid EXCEPT ![c] = p]
  /\ Go(c, "unlink")
  /\ UNCHANGED <<who, file, srvname, server, backlog, cur, uid, aged, robbed, crashes>>

(* Mutant of UnlinkOwn: a name that is there is left. *)
UnlinkOwnNot(c) ==
  /\ At(c, "unlink") /\ Go(c, "bind")
  /\ UNCHANGED <<who, pid, file, srvname, server, backlog, cur, uid, aged, robbed, crashes>>

UnlinkOwn(c) ==
  /\ At(c, "unlink") /\ Go(c, "bind")
  /\ file' = IF MayRemove(user[c], pid[c]) THEN [file EXCEPT ![pid[c]] = None] ELSE file
  /\ UNCHANGED <<who, pid, srvname, server, backlog, cur, uid, aged, robbed, crashes>>

(* A new name is open to others, as the umask has it. *)
Bind(c) ==
  /\ At(c, "bind")
  /\ IF Name(c) = None
       THEN /\ file' = [file EXCEPT ![pid[c]] = [of |-> c, private |-> FALSE, fresh |-> TRUE]]
            /\ Go(c, "chmod")
       ELSE Go(c, "refused_at_bind") /\ UNCHANGED file
  /\ UNCHANGED <<who, pid, srvname, server, backlog, cur, uid, aged, robbed, crashes>>

(* chmod returns -1 when it fails, and the test is 0 < chmod(...). *)
Chmod(c) ==
  /\ At(c, "chmod") /\ Go(c, "connect")
  /\ file' = IF Name(c) # None /\ user[c] \in {Root, user[Name(c).of]}
               THEN [file EXCEPT ![pid[c]].private = TRUE, ![pid[c]].fresh = TRUE] ELSE file
  /\ UNCHANGED <<who, pid, srvname, server, backlog, cur, uid, aged, robbed, crashes>>

(* Waits while the backlog is full.  On failure the name stays. *)
Connect(c) ==
  /\ At(c, "connect")
  /\ IF srvname = "live"
       THEN /\ Len(backlog) < Qlen /\ backlog' = Append(backlog, c) /\ Go(c, "connected")
       ELSE Go(c, "refused_at_connect") /\ UNCHANGED backlog
  /\ UNCHANGED <<who, pid, file, srvname, server, cur, uid, aged, robbed, crashes>>

(* The client ends, and its process number is free again. *)
Exit(c) ==
  /\ Alive(c) /\ Go(c, "exit")
  /\ UNCHANGED <<who, pid, file, srvname, server, backlog, cur, uid, aged, robbed, crashes>>

(* More than STALE seconds pass over a name. *)
Age(p) ==
  /\ file[p] # None /\ file[p].fresh
  /\ file' = [file EXCEPT ![p].fresh = FALSE] /\ aged' = aged \cup {file[p].of}
  /\ UNCHANGED <<who, client, pid, srvname, server, backlog, cur, uid, robbed, crashes>>
-----------------------------------------------------------------------------
(* serv_listen: without a name to remove it gives up. *)

ServUnlink ==
  /\ server = "unlink"
  /\ server' = IF srvname = "absent" THEN "failed" ELSE "bind"
  /\ srvname' = "absent"
  /\ UNCHANGED <<who, client, pid, file, backlog, cur, uid, aged, robbed, crashes>>

ServBind ==
  /\ server = "bind" /\ server' = "listen" /\ srvname' = "bound"
  /\ UNCHANGED <<who, client, pid, file, backlog, cur, uid, aged, robbed, crashes>>

ServListen ==
  /\ server = "listen" /\ server' = "accept" /\ srvname' = "live"
  /\ UNCHANGED <<who, client, pid, file, backlog, cur, uid, aged, robbed, crashes>>

(* serv_accept *)

Accept ==
  /\ server = "accept" /\ backlog # <<>>
  /\ cur' = Head(backlog) /\ backlog' = Tail(backlog) /\ server' = "stat"
  /\ UNCHANGED <<who, client, pid, file, srvname, uid, aged, robbed, crashes>>

(* A connection that is turned down is closed, and its name stays. *)
Close(c) == client' = IF Alive(c) THEN [client EXCEPT ![c] = "closed"] ELSE client

Acceptable(f) == f # None /\ f.private /\ f.fresh

Stat ==
  /\ server = "stat"
  /\ IF Acceptable(Name(cur))
       THEN /\ uid' = [uid EXCEPT ![cur] = user[Name(cur).of]]
            /\ server' = "unlink_client" /\ UNCHANGED <<client, cur>>
       ELSE Close(cur) /\ cur' = None /\ server' = "accept" /\ UNCHANGED uid
  /\ UNCHANGED <<who, pid, file, srvname, backlog, aged, robbed, crashes>>

(* What stands under the name now is removed, where the server may. *)
UnlinkClient ==
  /\ server = "unlink_client" /\ server' = "accept" /\ cur' = None
  /\ IF MayRemove(srvuser, pid[cur])
       THEN /\ file' = [file EXCEPT ![pid[cur]] = None]
            /\ robbed' = robbed \cup ({Name(cur).of} \ {cur})
       ELSE UNCHANGED <<file, robbed>>
  /\ client' = IF At(cur, "connected") THEN [client EXCEPT ![cur] = "accepted"] ELSE client
  /\ UNCHANGED <<who, pid, srvname, backlog, uid, aged, crashes>>

(* The server is killed and started again: who waits loses the connection. *)
Crash ==
  /\ server # "failed" /\ crashes < MaxCrashes /\ crashes' = crashes + 1
  /\ server' = "unlink" /\ cur' = None /\ backlog' = <<>>
  /\ srvname' = IF srvname = "absent" THEN "absent" ELSE "left"
  /\ client' = [c \in Clients |-> IF At(c, "connected") \/ At(c, "accepted") THEN "lost"
                                  ELSE client[c]]
  /\ UNCHANGED <<who, pid, file, uid, aged, robbed>>

CliConn(c) == UnlinkOwn(c) \/ Bind(c) \/ Chmod(c) \/ Connect(c)
Server     == ServUnlink \/ ServBind \/ ServListen \/ Accept \/ Stat \/ UnlinkClient

Next ==
  \/ \E c \in Clients : Begin(c) \/ CliConn(c) \/ Exit(c)
  \/ \E p \in Pids : Age(p)
  \/ Server \/ Crash

Spec == Init /\ [][Next]_ucvars

(* Who has begun goes on, and the server runs. *)
FairSpec == Spec /\ (\A c \in Clients : WF_ucvars(CliConn(c))) /\ WF_ucvars(Server)
-----------------------------------------------------------------------------
TypeOK ==
  /\ client \in [Clients -> Ended \cup {"new", "unlink", "bind", "chmod", "connect", "connected",
                                        "accepted", "closed", "lost"}]
  /\ pid \in [Clients -> Pids \cup {None}]
  /\ \A p \in Pids : file[p] # None => file[p].of \in Clients
  /\ srvname \in {"absent", "left", "bound", "live"}
  /\ server \in {"unlink", "bind", "listen", "accept", "stat", "unlink_client", "failed"}
  /\ Len(backlog) <= Qlen /\ cur \in Clients \cup {None}
  /\ crashes \in 0 .. MaxCrashes

(* A client that is there when it is accepted is taken for its own user,   *)
(* whoever had its process number before.                                  *)
OwnUser == \A c \in Clients : At(c, "accepted") => uid[c] = user[c]

(* A client that is connected and stays is turned down only if it was too  *)
(* slow, or if serv_accept has removed its name for that of a client that  *)
(* had the same number, between stat and unlink.                           *)
TurnedDown == \A c \in Clients : At(c, "closed") => c \in aged \cup robbed

(* A name in the way of bind is one that another user has left behind:     *)
(* nobody is kept out by his own earlier clients, or by one that lives.    *)
InTheWay ==
  \A c \in Clients : At(c, "bind") /\ Name(c) # None =>
    /\ user[Name(c).of] # user[c] /\ ~Alive(Name(c).of)

(* A client that has begun gets its answer, from cli_conn or from the      *)
(* server, while there is a server.                                        *)
Asked(c)     == client[c] \in {"connect", "connected"}
HasAnswer(c) == client[c] \in {"accepted", "closed", "lost"} \cup Ended
Answered     == \A c \in Clients : Asked(c) ~> HasAnswer(c)
=============================================================================
