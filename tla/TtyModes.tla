------------------------------ MODULE TtyModes ------------------------------
(***************************************************************************)
(* noncanonical_mode.c: a program that reads characters with the terminal  *)
(* in raw mode up to a DELETE, then in cbreak mode up to a signal or the   *)
(* end of the input, and puts the terminal back.  SIGINT, SIGQUIT and      *)
(* SIGTERM call a handler that puts it back, too, by what ttystate says.   *)
(*                                                                         *)
(* The mode of the terminal is one of the settings the program makes, or   *)
(* one that tcsetattr has made in part: it succeeds when any of the        *)
(* changes could be made.                                                  *)
(***************************************************************************)
VARIABLES
  pc,         \* where main is
  term,       \* the mode of the terminal
  save,       \* save_termios
  ttystate,
  handled,    \* the signals have their handler
  signal,     \* one of them is pending
  torn,       \* history: it came between a change of the mode and that of ttystate
  failed      \* history: tcsetattr or tcgetattr has failed

ttyvars == <<pc, term, save, ttystate, handled, signal, torn, failed>>

Modes == {"original", "raw", "part_of_raw", "cbreak", "part_of_cbreak"}

Init ==
  /\ pc = "sigaction" /\ term = "original" /\ save = "none" /\ ttystate = "RESET"
  /\ handled = FALSE /\ signal = FALSE /\ torn = FALSE /\ failed = FALSE

Lives  == pc \notin {"exit", "killed"}
(* A pending signal is delivered before anything else. *)
At(l) == pc = l /\ ~signal

(* The handler is there for all three before the terminal is touched. *)
Sigaction ==
  /\ At("sigaction")
  /\ handled' = TRUE /\ pc' = "get_raw"
  /\ UNCHANGED <<term, save, ttystate, signal, torn, failed>>

Fail(l) == failed' = TRUE /\ pc' = l

(* tty_raw and tty_cbreak: tcgetattr, then tcsetattr with the mode wanted. *)
(* A failure ends the program.                                             *)
Get ==
  /\ At("get_raw") \/ At("get_cbreak")
  /\ \/ Fail("exit") /\ UNCHANGED save
     \/ /\ save' = term /\ UNCHANGED failed
        /\ pc' = IF pc = "get_raw" THEN "set_raw" ELSE "set_cbreak"
  /\ UNCHANGED <<term, ttystate, handled, signal, torn>>

SetRaw ==
  /\ At("set_raw")
  /\ \/ Fail("exit") /\ UNCHANGED term
     \/ term' \in {"raw", "part_of_raw"} /\ pc' = "state_raw" /\ UNCHANGED failed
  /\ UNCHANGED <<save, ttystate, handled, signal, torn>>

SetCbreak ==
  /\ At("set_cbreak")
  /\ \/ Fail("exit") /\ UNCHANGED term
     \/ term' \in {"cbreak", "part_of_cbreak"} /\ pc' = "verify" /\ UNCHANGED failed
  /\ UNCHANGED <<save, ttystate, handled, signal, torn>>

(* Only tty_cbreak looks whether all of the changes were made. *)
Verify ==
  /\ At("verify")
  /\ IF term = "cbreak"
       THEN /\ UNCHANGED term
            /\ \/ pc' = "state_cbreak" /\ UNCHANGED failed
               \/ Fail("undo")                                   \* tcgetattr
       ELSE pc' = "undo" /\ UNCHANGED <<term, failed>>
  /\ UNCHANGED <<save, ttystate, handled, signal, torn>>

Undo ==
  /\ At("undo") /\ pc' = "exit"
  /\ \/ term' = save /\ UNCHANGED failed
     \/ UNCHANGED term /\ failed' = TRUE
  /\ UNCHANGED <<save, ttystate, handled, signal, torn>>

State ==
  /\ \/ At("state_raw")    /\ ttystate' = "RAW"    /\ pc' = "read_raw"
     \/ At("state_cbreak") /\ ttystate' = "CBREAK" /\ pc' = "read_cbreak"
  /\ UNCHANGED <<term, save, handled, signal, torn, failed>>

(* The loops: a DELETE ends the first; the end of the input ends both, and *)
(* after the first the program.                                            *)
Read ==
  /\ \/ At("read_raw")    /\ pc' \in {"reset", "reset_and_exit"}
     \/ At("read_cbreak") /\ pc' = "reset_and_exit"
  /\ UNCHANGED <<term, save, ttystate, handled, signal, torn, failed>>

(* tty_reset, where main calls it: the mode first, then ttystate. *)
Reset ==
  /\ At("reset") \/ At("reset_and_exit")
  /\ \/ /\ term' = save /\ UNCHANGED failed
        /\ pc' = IF pc = "reset" THEN "state_reset" ELSE "state_reset_and_exit"
     \/ Fail("exit") /\ UNCHANGED term
  /\ UNCHANGED <<save, ttystate, handled, signal, torn>>

StateReset ==
  /\ At("state_reset") \/ At("state_reset_and_exit")
  /\ ttystate' = "RESET"
  /\ pc' = IF pc = "state_reset" THEN "get_cbreak" ELSE "exit"
  /\ UNCHANGED <<term, save, handled, signal, torn, failed>>

(* The calls between tcsetattr and the assignment to ttystate *)
Window == {"state_raw", "verify", "undo", "state_cbreak"}

(* Mutant of SigCatch: the handler exits without tty_reset. *)
SigCatchOnly ==
  /\ signal /\ Lives /\ signal' = FALSE
  /\ pc' = IF handled THEN "exit" ELSE "killed"
  /\ UNCHANGED <<term, save, ttystate, handled, torn, failed>>

(* sig_catch: tty_reset and exit.  tty_atexit is never registered. *)
SigCatch ==
  /\ signal /\ Lives /\ signal' = FALSE
  /\ pc' = IF handled THEN "exit" ELSE "killed"
  /\ torn' = (pc \in Window)
  /\ IF handled /\ ttystate # "RESET"
       THEN \/ term' = save /\ ttystate' = "RESET" /\ UNCHANGED failed
            \/ failed' = TRUE /\ UNCHANGED <<term, ttystate>>
       ELSE UNCHANGED <<term, ttystate, failed>>
  /\ UNCHANGED <<save, handled>>

(* Somebody sends a signal; the terminal does, too, but in raw mode. *)
Signal ==
  /\ Lives /\ ~signal /\ signal' = TRUE
  /\ UNCHANGED <<pc, term, save, ttystate, handled, torn, failed>>

Main ==
  \/ Sigaction \/ Get \/ SetRaw \/ SetCbreak \/ Verify \/ Undo \/ State
  \/ Reset \/ StateReset \/ SigCatch

Next == Main \/ Read \/ Signal

Spec == Init /\ [][Next]_ttyvars

(* The program runs; nobody has to type or to send a signal. *)
FairSpec == Spec /\ WF_ttyvars(Main)
-----------------------------------------------------------------------------
TypeOK ==
  /\ term \in Modes /\ save \in {"none"} \cup Modes /\ ttystate \in {"RESET", "RAW", "CBREAK"}
  /\ {handled, signal, torn, failed} \subseteq BOOLEAN

(* However the program ends, it leaves the terminal as it has found it,    *)
(* but for a call on the terminal that failed and a signal between         *)
(* tcsetattr and the assignment to ttystate.                               *)
Restored == ~Lives => term = "original" \/ failed \/ torn

(* What is saved is what the program has found, also the second time, and  *)
(* after it began to read in cbreak mode the terminal is in that mode      *)
(* entirely.                                                               *)
SavedIsOriginal ==
  /\ save \in {"none", "original"}
  /\ ttystate = "CBREAK" => term \in {"cbreak", "original"}

(* A signal ends the program. *)
SignalEnds == signal ~> ~Lives
=============================================================================
