------------------------------ MODULE StateConfig ------------------------------
(***************************************************************************)
(* What the engine promises an application about its entry and exit code:  *)
(* a state is entered after the state around it and left before it, never  *)
(* twice in a row, and of the sub-states of a state that are not regions   *)
(* at most one is in at any time.                                          *)
(***************************************************************************)
EXTENDS StateTree

VARIABLE stays      \* node -> how often it was entered, less how often left

active == {n \in Node : stays[n] = 1}

Init == stays = [n \in Node |-> 0]

Enter(n) ==
    /\ stays[n] = 0
    /\ n # Root => parent[n] \in active
    /\ \A m \in active : m # Root /\ n # Root /\ parent[m] = parent[n]
                            => Parallel(parent[n])
    /\ stays' = [stays EXCEPT ![n] = 1]

Exit(n) ==
    /\ stays[n] = 1
    /\ \A m \in active : m # Root => parent[m] # n
    /\ stays' = [stays EXCEPT ![n] = 0]

Next == \E n \in Node : Enter(n) \/ Exit(n)

Spec == Init /\ [][Next]_stays
--------------------------------------------------------------------------------
\* The states that can be in between two events: down to a leaf everywhere.
Complete ==
    /\ Root \in active
    /\ \A n \in active \ {Root} : parent[n] \in active
    /\ \A n \in active :
          LET subs == {SubNodes[n][i] : i \in DOMAIN SubNodes[n]}
          IN  IF Parallel(n) THEN subs \subseteq active
              ELSE subs # {} => \E m \in subs : subs \cap active = {m}
================================================================================
