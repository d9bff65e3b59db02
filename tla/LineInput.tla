----------------------------- MODULE LineInput ------------------------------
(***************************************************************************)
(* What console input promises: characters are edited in a line until it   *)
(* is entered, and readers take entered characters in order, never more    *)
(* than to the end of a line.                                              *)
(***************************************************************************)
EXTENDS Naturals, Sequences

CONSTANTS Cap,     \* characters held before they are read
          Letters, \* ordinary characters
          Ends     \* characters that enter the line
VARIABLES ready,   \* characters entered and not yet read
          edit     \* the line being typed

Init == ready = <<>> /\ edit = <<>>

Room == Len(ready) + Len(edit) < Cap
Type == \E c \in Letters :
    /\ Len(ready) + Len(edit) + 1 < Cap
    /\ edit' = Append(edit, c) /\ UNCHANGED ready
\* An end of line, or the character for which there is no room behind it.
Enter == \E c \in Letters \cup Ends :
    /\ Room /\ (c \in Ends \/ Len(ready) + Len(edit) + 1 = Cap)
    /\ ready' = ready \o Append(edit, c) /\ edit' = <<>>
Erase == edit # <<>> /\ edit' = SubSeq(edit, 1, Len(edit) - 1) /\ UNCHANGED ready
KillLine == edit # <<>> /\ edit' = <<>> /\ UNCHANGED ready
\* A read takes some characters; only the last of them may end a line.
Take == \E k \in 1..Len(ready) :
    /\ \A i \in 1..(k - 1) : ready[i] \notin Ends
    /\ ready' = SubSeq(ready, k + 1, Len(ready)) /\ UNCHANGED edit

Next == Type \/ Enter \/ Erase \/ KillLine \/ Take
Spec == Init /\ [][Next]_<<ready, edit>>
=============================================================================
