----------------------------- MODULE TrimString -----------------------------
(***************************************************************************)
(* trim_string of trim_string.cpp: removes the spaces at both ends of a C  *)
(* string and makes one space of several, in place.  It reads from a copy  *)
(* (buf) and writes to the argument itself (io_str); behind the write      *)
(* position the argument still holds its old text, and the code looks      *)
(* there.  Indices are those of C, from 0.                                 *)
(***************************************************************************)
EXTENDS Integers, Sequences

CONSTANTS
  Letters,   \* the characters that are neither a space nor the terminator
  SP, NUL,   \* ' ' and '\0'
  MaxLen     \* bound of the model: the longest text

ASSUME CharAssumption ==
  /\ SP # NUL /\ SP \notin Letters /\ NUL \notin Letters
  /\ MaxLen \in Nat

VARIABLES
  io_str, buf,   \* the two arrays, [0 .. n -> characters]
  r, w,          \* where buf is read and io_str is written
  found_space,
  pc,            \* "loop", or "idle" between calls
  text,          \* the text the caller first passed
  calls          \* calls begun on it, one after another

vars == <<io_str, buf, r, w, found_space, pc, text, calls>>

Chars == Letters \cup {SP}
Texts == UNION {[1 .. n -> Chars] : n \in 0 .. MaxLen}

AsArray(s) == [i \in 0 .. Len(s) |-> IF i < Len(s) THEN s[i+1] ELSE NUL]

(* the text before the first terminator *)
AsText(a) ==
  LET n == CHOOSE i \in DOMAIN a : a[i] = NUL /\ \A j \in 0 .. i-1 : a[j] # NUL
  IN  [i \in 1 .. n |-> a[i-1]]

Init ==
  /\ text \in Texts
  /\ io_str = AsArray(text) /\ buf = io_str
  /\ r = 0 /\ w = 0 /\ found_space = FALSE
  /\ pc = "loop" /\ calls = 1

(* The caller passes the result again. *)
Again ==
  /\ pc = "idle" /\ calls = 1
  /\ io_str' = AsArray(AsText(io_str)) /\ buf' = io_str'
  /\ r' = 0 /\ w' = 0 /\ found_space' = FALSE
  /\ pc' = "loop" /\ calls' = 2
  /\ UNCHANGED text

More == pc = "loop" /\ buf[r] # NUL

(* lines 27-36: a space at the start, or after another one *)
SkipSpace ==
  /\ More /\ buf[r] = SP /\ (r = 0 \/ found_space)
  /\ found_space' = TRUE
  /\ r' = r + 1
  /\ UNCHANGED <<io_str, buf, w, pc, text, calls>>

(* Mutant of Copy: found_space is not reset by a letter. *)
CopyNoReset ==
  /\ More /\ (buf[r] = SP => r # 0 /\ ~found_space)
  /\ io_str' = [io_str EXCEPT ![w] = buf[r]]
  /\ found_space' = (buf[r] = SP \/ found_space)
  /\ r' = r + 1 /\ w' = w + 1
  /\ UNCHANGED <<buf, pc, text, calls>>

(* lines 37-46: the first space after a word, or a letter *)
Copy ==
  /\ More /\ (buf[r] = SP => r # 0 /\ ~found_space)
  /\ io_str' = [io_str EXCEPT ![w] = buf[r]]
  /\ found_space' = (buf[r] = SP)
  /\ r' = r + 1 /\ w' = w + 1
  /\ UNCHANGED <<buf, pc, text, calls>>

(* lines 48-52: the terminator, over the last space if one was copied --   *)
(* which the code decides by the old character behind it.                  *)
Steps == IF found_space /\ io_str[w] # SP THEN 1 ELSE 0

Finish ==
  /\ pc = "loop" /\ buf[r] = NUL
  /\ w' = w - Steps
  /\ io_str' = [io_str EXCEPT ![w'] = NUL]
  /\ pc' = "idle"
  /\ UNCHANGED <<buf, r, found_space, text, calls>>

Next == SkipSpace \/ Copy \/ Finish \/ Again

Spec == Init /\ [][Next]_vars
-----------------------------------------------------------------------------
(* What is to be left of s: the letters, and a space between two words.    *)
Keeps(s, i) ==
  \/ s[i] # SP
  \/ /\ \E j \in 1 .. i-1 : s[j] # SP
     /\ \E j \in i+1 .. Len(s) : s[j] # SP
     /\ s[i-1] # SP
Trimmed(s) ==
  LET kept[i \in 0 .. Len(s)] ==
        IF i = 0 THEN <<>> ELSE IF Keeps(s, i) THEN Append(kept[i-1], s[i]) ELSE kept[i-1]
  IN  kept[Len(s)]

Result == AsText(io_str)
Done   == pc = "idle"

(* Writing never overtakes reading and never leaves the argument, not even *)
(* by the step back of line 50 when nothing has been written.              *)
InBounds == 0 <= w /\ w <= r /\ r \in DOMAIN io_str /\ r \in DOMAIN buf

(* The words and the single spaces between them come out right, and all    *)
(* that can be wrong is one more space at the end: if there was one, and   *)
(* another space had to go before or after it.                             *)
TrimmedButTheEnd ==
  Done /\ calls = 1 =>
    \/ Result = Trimmed(text)
    \/ /\ Result = Append(Trimmed(text), SP)
       /\ text[Len(text)] = SP /\ Len(text) > Len(Trimmed(text)) + 1

(* Trimmed twice, a text is trimmed. *)
TrimmedTwice == Done /\ calls = 2 => Result = Trimmed(text)

(* Line 74, in trim_test: "any ending or starting spaces should be removed" *)
NoSpaceAtEnds ==
  Done /\ Result # <<>> => Result[1] # SP /\ Result[Len(Result)] # SP
=============================================================================
