------------------------------- MODULE LogTail -------------------------------
(***************************************************************************)
(* What a live tail of the hub log or of the request list promises, and no *)
(* more: a seed that ends with some line of the log, then lines of the log *)
(* in order, each at most once, from the seed's last line on.  Lines may   *)
(* be skipped.  Lines are their numbers; log[n] is who wrote line n.       *)
(***************************************************************************)
EXTENDS Naturals, Sequences

CONSTANTS Writers, Tails

VARIABLES log,     \* who wrote which line
          opened,  \* tails that have taken their seed
          seed,    \* the last line of the seed
          screen   \* the lines a tail has sent after the seed

tailVars == <<log, opened, seed, screen>>

Init ==
    /\ log = <<>>
    /\ opened = [t \in Tails |-> FALSE]
    /\ seed = [t \in Tails |-> 0]
    /\ screen = [t \in Tails |-> <<>>]

Logs(w) ==
    /\ log' = Append(log, w)
    /\ UNCHANGED <<opened, seed, screen>>

Opens(t) ==
    /\ ~opened[t]
    /\ opened' = [opened EXCEPT ![t] = TRUE]
    /\ seed' = [seed EXCEPT ![t] = Len(log)]
    /\ UNCHANGED <<log, screen>>

Shows(t) ==
    /\ opened[t]
    /\ \E n \in 1 .. Len(log) :
          /\ n >= seed[t]
          /\ \A i \in 1 .. Len(screen[t]) : screen[t][i] < n
          /\ screen' = [screen EXCEPT ![t] = Append(@, n)]
    /\ UNCHANGED <<log, opened, seed>>

Next ==
    \/ \E w \in Writers : Logs(w)
    \/ \E t \in Tails : Opens(t) \/ Shows(t)

Spec == Init /\ [][Next]_tailVars
=============================================================================
