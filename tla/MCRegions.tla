-------------------------------- MODULE MCRegions --------------------------------
(***************************************************************************)
(* VividSm on a tree with two parallel states and the transitions that the *)
(* engine supports there: inside a region, from anywhere in the regions to *)
(* a state outside, and from outside to the parallel state itself.  The    *)
(* one has a composite in a region and a timer; the other has regions      *)
(* inside of a region and a region that is itself divided, so that a walk  *)
(* along one list of regions meets another before it is back.              *)
(*                                                                         *)
(*   root ( off                                                            *)
(*          on   || ( left ( l1  l2 ( l3 ) )  right ( r1  r2 ) )           *)
(*          deep || ( far || ( c ( c1  c2 )  d )                           *)
(*                    near ( n1  n2 || ( a ( a1  a2 )  b ) ) ) )           *)
(***************************************************************************)
EXTENDS VividSm

TreeSubNodes == [
    root |-> <<"off", "on", "deep">>, off |-> <<>>,
    on |-> <<"left", "right">>, left |-> <<"l1", "l2">>, l1 |-> <<>>, l2 |-> <<"l3">>,
    l3 |-> <<>>, right |-> <<"r1", "r2">>, r1 |-> <<>>, r2 |-> <<>>,
    deep |-> <<"far", "near">>, far |-> <<"c", "d">>, c |-> <<"c1", "c2">>, c1 |-> <<>>,
    c2 |-> <<>>, d |-> <<>>, near |-> <<"n1", "n2">>, n1 |-> <<>>, n2 |-> <<"a", "b">>,
    a |-> <<"a1", "a2">>, a1 |-> <<>>, a2 |-> <<>>, b |-> <<>>]

TreeNode == DOMAIN TreeSubNodes

TreeType ==
    [n \in TreeNode |-> CASE n = "root" -> "root"
                          [] n \in {"left", "right", "far", "near", "a", "b", "c", "d"} -> "parallel"
                          [] OTHER -> "state"]

TreeDefault ==
    [n \in TreeNode |-> CASE n = "root" -> "off"
                          [] n = "left" -> "l1"
                          [] n = "l2" -> "l3"
                          [] n = "right" -> "r1"
                          [] n = "near" -> "n1"
                          [] n = "a" -> "a1"
                          [] n = "c" -> "c1"
                          [] OTHER -> "none"]

Maybe(target) == [on |-> "go", app |-> TRUE, target |-> target, param |-> "noEvent"]
After(timer, target) == [Maybe(target) EXCEPT !.on = timer, !.app = FALSE]

TreeClauses ==
    [n \in TreeNode |->
       CASE n = "root" -> << Maybe("root") >>
         [] n = "off" -> << Maybe("on"), Maybe("deep"), Maybe("off") >>
         [] n = "on" -> << Maybe("off"), Maybe("on"), Maybe("root") >>
         [] n = "left" -> << Maybe("off") >>
         [] n = "l1" -> << Maybe("l2"), Maybe("l3"), Maybe("off") >>
         [] n = "l2" -> << Maybe("l2") >>
         [] n = "l3" -> << Maybe("l1"), Maybe("l2"), Maybe("off"), Maybe("root") >>
         [] n = "r1" -> << Maybe("r2"), Maybe("off") >>
         [] n = "r2" -> << After("tmR", "r1"), Maybe("r2") >>
         [] n = "n1" -> << Maybe("n2") >>
         [] n = "n2" -> << Maybe("n2"), Maybe("off") >>
         [] n = "a1" -> << Maybe("a2"), Maybe("n1") >>
         [] n = "a2" -> << Maybe("a1"), Maybe("off") >>
         [] n = "b" -> << Maybe("n1") >>
         [] n = "c1" -> << Maybe("c2"), Maybe("off") >>
         [] n = "c2" -> << Maybe("c1") >>
         [] n = "d" -> << Maybe("off") >>
         [] OTHER -> <<>>]

\* The proofs about VividSm are for such trees.
ASSUME SupportedAssumption == Supported
ASSUME NoWayBackAssumption == NoWayBack
ASSUME NoneCutShortAssumption == NoneCutShort
================================================================================
