------------------------------- MODULE MCDiagrams -------------------------------
(***************************************************************************)
(* What the library and the script write of a machine: its diagram, the    *)
(* texts of labels, the arguments of macros and their JSON properties.     *)
(***************************************************************************)
EXTENDS Diagram

CONSTANTS CodeLength, ArgLength, MaxTokens

VARIABLES part,             \* the module whose inputs are enumerated
          text, newlines,   \* of CodeText
          alphabet, script, compiler,   \* of MacroArg
          members           \* of JsonProp

MCNames == <<"a", "b", "c", "d", "e">>
MCState == ToSet(MCNames)

\* Transitions of every type, with and without the parts of a label.
MCClause == {
    [type |-> "ON_EVENT", guard |-> None, action |-> "act", dir |-> None],
    [type |-> "ON_TIMEOUT", guard |-> "cond", action |-> None, dir |-> None],
    [type |-> "JUMP", guard |-> None, action |-> None, dir |-> "up"],
    [type |-> "JUMP", guard |-> "cond", action |-> "act", dir |-> None]}

Code == INSTANCE CodeText WITH MaxLength <- CodeLength
\* Literals with escapes and spaces in calls and braces; comments of both kinds, with
\* white space around them, that hold or are held by quotes.
Literals == {"a", ",", "(", ")", "{", "}", " ", "quote", "prime", Code!Backslash}
Comments == {"a", ",", "(", ")", "/", "*", " ", "newline", "quote", "prime"}
Arg == INSTANCE MacroArg WITH MaxLength <- ArgLength, Alphabets <- {Literals, Comments}
Prop == INSTANCE JsonProp WITH Name <- {"dir", "note"}, Text <- {"up"}

codeVars == <<text, newlines>>
argVars == <<alphabet, script, compiler>>
all == <<part, vars, codeVars, argVars, members>>

MCInit ==
    /\ part \in {"states", "regions", "code", "argument", "properties"}
    /\ Init /\ Code!Init /\ Arg!Init /\ Prop!Init
    /\ part # "code" => newlines = FALSE
    /\ part # "argument" => alphabet = Literals

\* States are named in the order of their declaration.
InTurn == \A i \in 1..Len(order') : order'[i] = MCNames[i]

\* Three states of every kind with a transition, or five states and regions.
MCNext ==
    \/ /\ part = "states" /\ Next /\ InTurn /\ Len(order') <= 3
       /\ UNCHANGED <<part, codeVars, argVars, members>>
    \/ part = "states" /\ Len(order) = 3 /\ UNCHANGED all
    \/ /\ part = "regions" /\ Next /\ InTurn
       /\ \A s \in State : kind'[s] \in {None, "STATE", "STATE_PARALLEL"} /\ Transitions(s)' = <<>>
       /\ Transitions(Root)' = <<>>
       /\ UNCHANGED <<part, codeVars, argVars, members>>
    \/ part = "code" /\ Code!Next /\ UNCHANGED <<part, vars, argVars, members>>
    \/ part = "argument" /\ Arg!Next /\ UNCHANGED <<part, vars, codeVars, members>>
    \/ part = "properties" /\ Prop!Next /\ UNCHANGED <<part, vars, codeVars, argVars>>

MCSpec == MCInit /\ [][MCNext]_all
--------------------------------------------------------------------------------
\* The texts of a diagram are those of the code: both generators break a text after
\* its statements and never in a literal (add_code of vivid_uml.c and of vivid-gen.py);
\* and the script finds the end and the text of an argument as the compiler does, past
\* comments of both kinds, white space, braces and literals, except for the spaces that
\* a comment stands for or a literal has in a row, and for comments that begin with /*/
\* (get_arg).
TextsAlike ==
    /\ part = "code" => Code!BreaksAtStatements /\ Code!ScriptAgrees
    /\ part = "argument" => Arg!SplitsAlike /\ Arg!ReadsAlike

\* A property of a macro is found where it is, and only there (get_json_prop).
FindsProp == part = "properties" => Prop!FindsProp
================================================================================
