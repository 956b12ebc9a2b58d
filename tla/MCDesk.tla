------------------------------- MODULE MCDesk -------------------------------
(* Model values and bounds for checking Desk with TLC.                     *)
EXTENDS Desk

All == <<"Research", "Trading", "arm", "disarm", "exit", "focus">>

\* "arm" is found in two commands, "exit" in one, "zz" in none.
Typed == {"", "arm", "exit", "zz"}

Found ==
  [q \in Typed |->
     CASE q = "" -> All
       [] q = "arm" -> <<"arm", "disarm">>
       [] q = "exit" -> <<"exit">>
       [] OTHER -> <<>>]
=============================================================================
