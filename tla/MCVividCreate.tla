----------------------------- MODULE MCVividCreate -----------------------------
(***************************************************************************)
(* What a machine consists of: its creation and destruction, the map that  *)
(* its nodes and timers are found by, and the parameters of its events.    *)
(*                                                                         *)
(* Created is everything that up to three clauses of the root and one each *)
(* of A and B can say (the functions that nothing leads to have none); and *)
(* a state in a state with timeouts, two regions, and a declaration that   *)
(* is wrong, on every binding and in both builds, with up to two failures. *)
(* Eight keys turn the tree of the map in every way, also next to a node   *)
(* that was recolored before.  Two blocks and two threads let parameters   *)
(* be freed and handed out again while another event is raised; the last   *)
(* clause with a parameter has the smaller one of two, and the event with  *)
(* the largest is handled by a clause that asks for none.                  *)
(***************************************************************************)
EXTENDS VividCreate, EventParam, VividMap

VARIABLE part       \* the one that moves; the others stay as they begin

all == <<vars, mapVars, paramVars, part>>

Empty == [s \in Function |-> <<>>]
MCInit ==
    /\ Init /\ MapInit /\ ParamInit
    /\ \/ part = "machine" /\ ~dynamic /\ ~jump
       \/ part = "map" /\ ~dynamic /\ ~jump /\ diagram = Empty
       \/ part = "parameters" /\ diagram = Empty
MCNext ==
    /\ UNCHANGED part
    /\ \/ part = "machine" /\ Next /\ UNCHANGED <<mapVars, paramVars>>
       \/ part = "map" /\ MapNext /\ UNCHANGED <<vars, paramVars>>
       \/ part = "parameters" /\ ParamNext /\ UNCHANGED <<vars, mapVars>>
MCSpec == MCInit /\ [][MCNext]_all
--------------------------------------------------------------------------------
S(s) == [is |-> "sub", of |-> s, region |-> FALSE]
R(s) == [is |-> "sub", of |-> s, region |-> TRUE]
D(s) == [is |-> "default", of |-> s]
T(t) == [is |-> "timeout", of |-> t]

Functions(root, a, b) == "Root" :> root @@ "A" :> a @@ "B" :> b

UpTo(n, set) == UNION {[1..k -> set] : k \in 0..n}
Say(subs) == {S(s) : s \in subs} \cup {R(s) : s \in subs}
                \cup {D(s) : s \in {"A", "B", "Root"}} \cup {T("t")}
Anything ==
    {Functions(root, a, b) :
        root \in UpTo(3, Say({"A", "B"})),
        a \in UpTo(1, {R("B"), S("B"), D("B"), T("t"), S("A")}),
        b \in UpTo(1, {T("t"), D("A"), S("A")})}

Nested == Functions(<<S("A"), D("A"), T("t")>>, <<S("B"), D("B")>>, <<T("u")>>)
TwoRegions == Functions(<<R("A"), R("B")>>, <<T("t")>>, <<T("u")>>)
Twice == Functions(<<S("A"), S("A"), D("A")>>, <<T("t")>>, <<>>)

MCSizeOf == [small |-> 1, medium |-> 2, large |-> 5]
MCEventClauses ==
    <<[event |-> "medium", param |-> TRUE], [event |-> "small", param |-> TRUE],
      [event |-> "large", param |-> FALSE]>>

Created ==
    [diagram : Anything, binding : {"linux"}, lockfree : {FALSE}, mayFail : {0}]
        \cup [diagram : {Nested, TwoRegions, Twice}, mayFail : {2}, lockfree : BOOLEAN,
              binding : {"linux", "win32", "freertos", "libev"}]
================================================================================
