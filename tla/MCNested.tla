-------------------------------- MODULE MCNested --------------------------------
(***************************************************************************)
(* VividSm on a tree without regions, four levels deep, in which one event *)
(* may take any state to any other: each state has a clause with an        *)
(* application guard for every target, so TLC tries every transition from  *)
(* every configuration.  The machine starts in a condition, whose first    *)
(* jump takes the parameter of the event that led to it.                   *)
(*                                                                         *)
(*     root ( cond  a ( a1 ( x )  a2 )  b )                                *)
(***************************************************************************)
EXTENDS VividSm

TreeNode == {"root", "cond", "a", "a1", "x", "a2", "b"}

TreeSubNodes ==
    [n \in TreeNode |-> CASE n = "root" -> <<"cond", "a", "b">>
                          [] n = "a" -> <<"a1", "a2">>
                          [] n = "a1" -> <<"x">>
                          [] OTHER -> <<>>]

TreeType ==
    [n \in TreeNode |-> CASE n = "root" -> "root"
                          [] n = "cond" -> "condition"
                          [] n = "b" -> "final"
                          [] OTHER -> "state"]

TreeDefault ==
    [n \in TreeNode |-> CASE n = "root" -> "cond"
                          [] n = "a" -> "a1"
                          [] n = "a1" -> "x"
                          [] OTHER -> "none"]

Maybe(on, target) == [on |-> on, app |-> TRUE, target |-> target, param |-> "noEvent"]
Always(on, target) == [Maybe(on, target) EXCEPT !.app = FALSE]

Anywhere == << Maybe("go", "root"), Maybe("go", "cond"), Maybe("go", "a"),
               Maybe("go", "a1"), Maybe("go", "x"), Maybe("go", "a2"),
               Maybe("go", "b") >>

TreeClauses ==
    [n \in TreeNode |->
       CASE n = "cond" -> << [Maybe("jump", "x") EXCEPT !.param = "go"],
                             Maybe("jump", "a"), Always("jump", "b") >>
         [] n = "a" -> Append(Anywhere, Always("tmA", "b"))
         [] n = "x" -> Append(Anywhere, Maybe("tmX", "a2"))
         [] n = "a2" -> << Maybe("go", "none") >> \o Anywhere
         [] OTHER -> Anywhere]

\* The proofs about VividSm are for such trees.
ASSUME SupportedAssumption == Supported
ASSUME LeadsOnAssumption == LeadsOn
================================================================================
