----------------------------- MODULE MCRegionTarget -----------------------------
(***************************************************************************)
(* VividSm on a tree with regions and a transition the library accepts     *)
(* without complaint but does not carry out as drawn: from outside of the  *)
(* parallel state to a sub-state of one of its regions.  walk_entry_up     *)
(* stores the region in the state pointer of the parallel state, and every *)
(* later walk comes to the region twice.                                   *)
(*                                                                         *)
(*     root ( off  on || ( left ( l1  l2 )  right ( r1  r2 ) ) )           *)
(***************************************************************************)
EXTENDS VividSm

TreeNode == {"root", "off", "on", "left", "right", "l1", "l2", "r1", "r2"}

TreeSubNodes ==
    [n \in TreeNode |-> CASE n = "root" -> <<"off", "on">>
                          [] n = "on" -> <<"left", "right">>
                          [] n = "left" -> <<"l1", "l2">>
                          [] n = "right" -> <<"r1", "r2">>
                          [] OTHER -> <<>>]

TreeType ==
    [n \in TreeNode |-> CASE n = "root" -> "root"
                          [] n \in {"left", "right"} -> "parallel"
                          [] OTHER -> "state"]

TreeDefault ==
    [n \in TreeNode |-> CASE n = "root" -> "off"
                          [] n = "left" -> "l1"
                          [] n = "right" -> "r1"
                          [] OTHER -> "none"]

On(on, target) == [on |-> on, app |-> FALSE, target |-> target, param |-> "noEvent"]

TreeClauses ==
    [n \in TreeNode |-> CASE n = "off" -> << On("start", "l2") >>
                          [] n = "on" -> << On("stop", "off") >>
                          [] OTHER -> <<>>]
================================================================================
