---------------------------- MODULE MCFdPassing ----------------------------
EXTENDS FdPassing

CONSTANTS Sizes, MaxLines

UpTo(n) == UNION {[1 .. i -> Sizes] : i \in 0 .. n}

(* A second client reads a line at most. *)
MCInputs == {i \in [Clients -> UpTo(MaxLines)] : \A c \in Clients \ {1} : Len(i[c]) <= 1}

MCEither == {None, Stale}
MCStale  == {Stale}

(* Who waits in accept gets a connection unless the name was taken away,   *)
(* and the processes that are left behind end when all clients have ended. *)
NobodyStuck == AcceptsUnlessTaken /\ ServersEnd
=============================================================================
