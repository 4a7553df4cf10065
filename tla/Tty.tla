-------------------------------- MODULE Tty ---------------------------------
(***************************************************************************)
(* What the input side of a terminal promises (kern/terminal.c): characters *)
(* arrive in the order typed, an erase takes back only characters of the   *)
(* unfinished line, and whoever reads gets the oldest characters, once,    *)
(* and at most one line of them.                                           *)
(***************************************************************************)
EXTENDS Naturals, Sequences

CONSTANTS Char, LineEnd, Capacity

VARIABLES input,     \* typed and not yet read
          taken      \* what the last step gave to a reader

Before(k) == SubSeq(input, 1, k)
After(k)  == SubSeq(input, k + 1, Len(input))

NoLineEnd(s) == \A i \in 1..Len(s) : s[i] \notin LineEnd

Init == input = <<>> /\ taken = <<>>

Type ==
    /\ Len(input) < Capacity
    /\ \E c \in Char : input' = Append(input, c)
    /\ taken' = <<>>

Erase ==
    /\ \E k \in 0..(Len(input) - 1) : NoLineEnd(After(k)) /\ input' = Before(k)
    /\ taken' = <<>>

Take ==
    \E k \in 1..Len(input) :
        /\ NoLineEnd(Before(k - 1))
        /\ taken' = Before(k)
        /\ input' = After(k)

Quiet == taken' = <<>> /\ UNCHANGED input

Next == Type \/ Erase \/ Take \/ Quiet

Spec == Init /\ [][Next]_<<input, taken>>
=============================================================================
