-------------------------------- MODULE JsonProp --------------------------------
(***************************************************************************)
(* How the library finds a property (dir, note, pos, sep) in the JSON text *)
(* at the end of a macro: get_json_prop, over the tokens that jsmn makes   *)
(* of the text, each with the index of its parent.                         *)
(***************************************************************************)
EXTENDS Integers, SequencesExt

CONSTANTS
    Name,       \* names of members, dir among them
    Text,       \* strings
    MaxTokens,  \* MAX_JSON_TOKENS
    None        \* NULL

VARIABLE members    \* of the object, in their order: [name, value]

\* A value is what jsmn makes of it: its tokens, a parent counted from the first one.
String(t) == <<[type |-> "string", text |-> t, parent |-> 0]>>
Primitive == <<[type |-> "primitive", text |-> None, parent |-> 0]>>
Array(n) == <<[type |-> "array", text |-> None, parent |-> 0], [type |-> "string", text |-> n, parent |-> 1]>>
Object(n, t) ==
    <<[type |-> "object", text |-> None, parent |-> 0], [type |-> "string", text |-> n, parent |-> 1],
      [type |-> "string", text |-> t, parent |-> 2]>>
Values == {String(t) : t \in Text \cup Name} \cup {Primitive} \cup {Array(n) : n \in Name}
          \cup {Object(n, t) : n \in Name, t \in Text}

\* The tokens of the whole text: the object is 0, a member has it for a parent, and a
\* value the member.
Tokens ==
    FoldLeft(LAMBDA ts, m :
        LET key == Len(ts) IN
        ts \o <<[type |-> "string", text |-> m.name, parent |-> 0]>>
           \o [i \in 1..Len(m.value) |-> [m.value[i] EXCEPT !.parent = @ + key]],
        <<[type |-> "object", text |-> None, parent |-> -1]>>, members)

Init == members = <<>>
More(n, v) == members' = Append(members, [name |-> n, value |-> v]) /\ Len(Tokens) <= MaxTokens
Whole == Len(Tokens) > MaxTokens /\ UNCHANGED members
Next == (\E n \in Name, v \in Values : More(n, v)) \/ Whole
Spec == Init /\ [][Next]_members
--------------------------------------------------------------------------------
Token(ts, index) == ts[index + 1]

\* Wrong: the value is taken to be one token.
AfterNext(ts, index) == index + 2
\* The next member: the first token after this one that has the object for a parent.
NextMember(ts, index) ==
    LET last == Len(ts) - 1
        stop == {i \in index + 1..last : i >= last \/ Token(ts, i).parent <= 0}
    IN IF stop = {} THEN index + 1 ELSE CHOOSE i \in stop : \A j \in stop : i <= j

RECURSIVE Search(_, _, _, _)
Search(ts, name, i, index) ==
    IF i >= Len(members) \/ index >= Len(ts) - 1 THEN None
    ELSE IF Token(ts, index).text = name
    THEN IF Token(ts, index + 1).type = "string" THEN Token(ts, index + 1).text ELSE None
    ELSE Search(ts, name, i + 1, NextMember(ts, index))

GetJsonProp(name) ==
    IF Len(Tokens) > MaxTokens \/ Len(Tokens) < 2 THEN None ELSE Search(Tokens, name, 0, 1)
--------------------------------------------------------------------------------
\* A property is the string of the first member of that name: never what is inside of
\* the value of another, nor a value that has the name for a text.
FindsProp ==
    \A n \in Name :
        LET named == {i \in 1..Len(members) : members[i].name = n}
            first == CHOOSE i \in named : \A j \in named : i <= j
        IN GetJsonProp(n) =
            IF Len(Tokens) > MaxTokens \/ named = {} THEN None
            ELSE IF Head(members[first].value).type = "string" THEN Head(members[first].value).text
            ELSE None
================================================================================
