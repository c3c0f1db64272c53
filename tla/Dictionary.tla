------------------------------- MODULE Dictionary -------------------------------
(***************************************************************************)
(* What a map of the library promises its callers, who make one call after *)
(* the other: an entry for each key that was set, found again under that   *)
(* key and no other, and an iteration that comes to every entry, in order. *)
(* What is stored in an entry is the caller's; an entry is its key.        *)
(***************************************************************************)
EXTENDS Integers, SequencesExt

CONSTANTS
    Key,
    NULL        \* no entry

VARIABLES
    keys,       \* that have an entry
    doing,      \* the call that has not returned
    reply       \* what the last one returned

Idle == [op |-> "idle", key |-> NULL]
Calls == [op : {"set", "get"}, key : Key] \cup [op : {"iterate"}, key : {NULL}]

Init == keys = {} /\ doing = Idle /\ reply = NULL

Call ==
    /\ doing = Idle
    /\ doing' \in Calls /\ reply' = NULL
    /\ UNCHANGED keys

Returns(x) == doing' = Idle /\ reply' = x

\* A key that has no entry is given one, if there is memory.
Set ==
    /\ doing.op = "set"
    /\ \/ keys' = keys \cup {doing.key} /\ Returns(doing.key)
       \/ doing.key \notin keys /\ UNCHANGED keys /\ Returns(NULL)

Get ==
    /\ doing.op = "get"
    /\ Returns(IF doing.key \in keys THEN doing.key ELSE NULL)
    /\ UNCHANGED keys

Ascending(s) == \A i, j \in 1..Len(s) : i < j => s[i] < s[j]
Iterate ==
    /\ doing.op = "iterate"
    /\ Returns(reply') /\ ToSet(reply') = keys /\ Ascending(reply')
    /\ UNCHANGED keys

Next == Call \/ Set \/ Get \/ Iterate
Spec == Init /\ [][Next]_<<keys, doing, reply>>
================================================================================
