-------------------------------- MODULE Diagram --------------------------------
(***************************************************************************)
(* The diagram of a machine, as vivid_save_uml writes it from the machine  *)
(* and tools/vivid-gen.py from the source text, line by line.  A machine   *)
(* is declared macro by macro; the texts of its labels are those of        *)
(* CodeText, here they are there or not.                                   *)
(***************************************************************************)
EXTENDS Integers, SequencesExt

CONSTANTS
    State,       \* the names of sub-states
    Root,
    None,        \* NULL: no target, no direction, no action, a guard that is true
    Kind,        \* what sub-states are declared as
    Clause,      \* what a transition may be: [type, guard, action, dir]
    MaxClauses   \* bound: transitions of a machine, defaults not counted

ASSUME KindAssumption == Kind \subseteq {"STATE", "STATE_PARALLEL", "CONDITION", "STATE_FINAL"}

Node == State \cup {Root}

VARIABLES
    order,      \* the states in the order of their declaration
    parent,     \* state -> the state it is declared in
    kind,       \* state -> the macro that declares it
    clauses     \* state -> its transitions, in their order

vars == <<order, parent, kind, clauses>>

Declared == ToSet(order) \cup {Root}
DeclaredIn(s) == SelectSeq(order, LAMBDA c : parent[c] = s)
Parallel(s) == \E c \in ToSet(DeclaredIn(s)) : kind[c] = "STATE_PARALLEL"

Init ==
    /\ order = <<>>
    /\ parent = [s \in Node |-> None]
    /\ kind = [s \in Node |-> IF s = Root THEN "ROOT" ELSE None]
    /\ clauses = [s \in Node |-> <<>>]

\* VIVID_SUB_...: parallel and other sub-states do not mix.
SubState(s, p, k) ==
    /\ s \notin Declared /\ p \in Declared /\ kind[p] \notin {"CONDITION", "STATE_FINAL"}
    /\ DeclaredIn(p) # <<>> => (k = "STATE_PARALLEL") = Parallel(p)
    /\ order' = Append(order, s)
    /\ parent' = [parent EXCEPT ![s] = p] /\ kind' = [kind EXCEPT ![s] = k]
    /\ UNCHANGED clauses

IsDefault(c) == c.type = "DEFAULT"

Default(s, t) ==
    /\ t \in ToSet(DeclaredIn(s)) /\ ~Parallel(s)
    /\ \A i \in 1..Len(clauses[s]) : ~IsDefault(clauses[s][i])
    /\ clauses' = [clauses EXCEPT ![s] = Append(@, [type |-> "DEFAULT", guard |-> None, action |-> None,
                                                    dir |-> None, target |-> t])]
    /\ UNCHANGED <<order, parent, kind>>

Transitions(s) == SelectSeq(clauses[s], LAMBDA c : ~IsDefault(c))

Transition(s, c, t) ==
    /\ s \in Declared /\ t \in Declared \cup {None}
    /\ Len(FlattenSeq([i \in 1..Len(order) |-> Transitions(order[i])])) + Len(Transitions(Root)) < MaxClauses
    /\ clauses' = [clauses EXCEPT ![s] = Append(@, [type |-> c.type, guard |-> c.guard, action |-> c.action,
                                                    dir |-> c.dir, target |-> t])]
    /\ UNCHANGED <<order, parent, kind>>

Whole == Len(order) = Cardinality(State) /\ UNCHANGED vars

Next ==
    \/ \E s \in State, p \in Node, k \in Kind : SubState(s, p, k)
    \/ \E s, t \in Node : Default(s, t)
    \/ \E s \in Node, c \in Clause, t \in Node \cup {None} : Transition(s, c, t)
    \/ Whole
Spec == Init /\ [][Next]_vars

\* vivid_create_sm makes no machine of which a composite state has no default.
Sound == \A s \in Declared :
             DeclaredIn(s) # <<>> /\ ~Parallel(s) => \E i \in 1..Len(clauses[s]) : IsDefault(clauses[s][i])
--------------------------------------------------------------------------------
(* Lines *)

Line(k, s) == [line |-> k, of |-> s]
Open(s) == <<Line("open", s)>>
Close(s) == <<Line("close", s)>>
Separator(s) == <<Line("separator", s)>>

\* add_stereotype
Stereotype(s) ==
    CASE kind[s] = "CONDITION" -> <<Line("choice", s)>>
      [] kind[s] = "STATE_FINAL" -> <<Line("end", s)>>
      [] OTHER -> <<>>

\* The parts of a label.  Of a condition every guard is shown, true as else.
Guard(s, c) ==
    IF c.guard # None THEN "guard" ELSE IF kind[s] = "CONDITION" THEN "else" ELSE None

Label(s, c) ==
    LET named == c.type \in {"ON_EVENT", "ON_TIMEOUT"} IN
    [trigger |-> IF named THEN c.type ELSE None,
     colon |-> named \/ Guard(s, c) # None \/ c.action # None,
     guard |-> Guard(s, c), action |-> c.action,
     break |-> c.action # None /\ (named \/ Guard(s, c) # None)]

\* A transition: stereotypes, and an edge or, without a target, what the state does.
Edge(s, c, dir) ==
    [line |-> IF c.target = None THEN "inner" ELSE "edge", of |-> s,
     from |-> IF IsDefault(c) THEN None ELSE s, to |-> c.target, dir |-> dir, label |-> Label(s, c)]

Drawn(s, c, dir) ==
    Stereotype(s) \o (IF c.target = None THEN <<>> ELSE Stereotype(c.target)) \o <<Edge(s, c, dir)>>

Only(s, default) == SelectSeq(clauses[s], LAMBDA c : IsDefault(c) = default)
--------------------------------------------------------------------------------
(* The library *)

\* Sub-states are linked in the reverse order of their declaration.
Children(s) == Reverse(DeclaredIn(s))
\* The sub-states from this one on: a node and its siblings.
Rest(s) ==
    IF s = Root THEN <<>>
    ELSE LET all == Children(parent[s])
             at == CHOOSE i \in 1..Len(all) : all[i] = s
         IN SubSeq(all, at + 1, Len(all))
IsRegion(s) == s # Root /\ Parallel(parent[s])

LibDrawn(s, default) ==
    FlattenSeq([i \in 1..Len(Only(s, default)) |-> LET c == Only(s, default)[i] IN
                    Drawn(s, c, IF c.target = None THEN None ELSE c.dir)])

LibBefore(s) ==
    IF IsRegion(s) THEN (IF Rest(s) # <<>> THEN Separator(s) ELSE <<>>)
    ELSE IF s = Root THEN <<>> ELSE Open(s)
LibAfter(s) == IF IsRegion(s) \/ s = Root THEN <<>> ELSE Close(s)

\* Wrong: they are drawn inside of the state.
RECURSIVE WalkInside(_)
WalkInside(s) ==
    LibDrawn(s, FALSE) \o
    (IF DeclaredIn(s) = <<>> THEN IF Rest(s) = <<>> THEN <<>> ELSE WalkInside(Head(Rest(s)))
     ELSE LibBefore(s) \o LibDrawn(s, TRUE) \o WalkInside(Head(Children(s)))
          \o (IF Rest(s) = <<>> THEN <<>> ELSE WalkInside(Head(Rest(s)))) \o LibAfter(s))
\* walk_uml: the siblings come before the children.
RECURSIVE Walk(_)
Walk(s) ==
    LibDrawn(s, FALSE) \o
    (IF Rest(s) = <<>> THEN <<>> ELSE Walk(Head(Rest(s)))) \o
    (IF DeclaredIn(s) = <<>> THEN <<>>
     ELSE LibBefore(s) \o LibDrawn(s, TRUE) \o Walk(Head(Children(s))) \o LibAfter(s))

Library == Walk(Root)
--------------------------------------------------------------------------------
(* The script *)

\* parallel_children is set on the sub-state that VIVID_SUB_STATE_PARALLEL names.
ScriptParallel(s) == kind[s] = "STATE_PARALLEL"
ScriptRegion(s) == s # Root /\ ScriptParallel(parent[s])

\* The direction is looked for among the properties of the state, which have none.
ScriptDrawn(s, default) ==
    FlattenSeq([i \in 1..Len(Only(s, default)) |-> Drawn(s, Only(s, default)[i], None)])

\* The separator of a region asks for a name that is not defined; the line of a
\* composite state opens nothing.
ScriptBefore(s) ==
    IF ScriptRegion(s) THEN <<Line("NameError", s)>>
    ELSE IF s = Root THEN <<>> ELSE <<Line("name", s)>>
ScriptAfter(s) == IF ScriptRegion(s) \/ s = Root THEN <<>> ELSE Close(s)

RECURSIVE ScriptWalk(_)
ScriptWalk(s) ==
    ScriptDrawn(s, FALSE) \o
    (IF DeclaredIn(s) = <<>> THEN <<>>
     ELSE ScriptBefore(s) \o ScriptDrawn(s, TRUE)
          \o FlattenSeq([i \in 1..Len(DeclaredIn(s)) |-> ScriptWalk(DeclaredIn(s)[i])])
          \o ScriptAfter(s))

Script == ScriptWalk(Root)
--------------------------------------------------------------------------------
(* Properties *)

\* What PlantUML reads: every line with the composite states it is in, and how many
\* separators came before it in the innermost.
Read(lines) ==
    FoldLeft(LAMBDA r, l :
        CASE l.line = "open" -> [r EXCEPT !.path = Append(@, l.of), !.region = Append(@, 0)]
          [] l.line = "close" -> IF r.path = <<>> THEN [r EXCEPT !.ok = FALSE]
                                 ELSE [r EXCEPT !.path = Front(@), !.region = Front(@)]
          [] l.line = "separator" -> [r EXCEPT !.region[Len(r.region)] = @ + 1]
          [] l.line \in {"edge", "inner"} -> [r EXCEPT !.lines = Append(@, [edge |-> l, path |-> r.path, region |-> r.region])]
          [] OTHER -> r,
        [path |-> <<>>, region |-> <<0>>, lines |-> <<>>, ok |-> TRUE], lines)

\* The states that enclose what is declared in a state: neither the root nor a region
\* is drawn as a state.
RECURSIVE Enclosing(_)
Enclosing(s) == IF s = Root THEN <<>>
                ELSE Enclosing(parent[s]) \o IF IsRegion(s) THEN <<>> ELSE <<s>>

Place(s, c) == IF IsDefault(c) THEN Enclosing(s) ELSE IF s = Root THEN <<>> ELSE Enclosing(parent[s])

\* The diagram reflects the source code: read back, every transition of the machine is
\* there once, in the composite state whose sub-state has it (a default in the state
\* itself), with its ends, its direction and the parts of its label; and every brace
\* is closed.
Reflects ==
    Sound =>
        LET r == Read(Library) IN
        /\ r.ok /\ r.path = <<>>
        /\ Len(r.lines) = Len(FlattenSeq([i \in 1..Len(order) |-> clauses[order[i]]])) + Len(clauses[Root])
        /\ \A s \in Declared : \A i \in 1..Len(clauses[s]) :
            LET c == clauses[s][i] IN
            \E j \in 1..Len(r.lines) :
                /\ r.lines[j].path = Place(s, c)
                /\ r.lines[j].edge.of = s /\ r.lines[j].edge.to = c.target
                /\ r.lines[j].edge.from = IF IsDefault(c) THEN None ELSE s
                /\ c.target # None => r.lines[j].edge.dir = c.dir
                /\ r.lines[j].edge.label.trigger = None <=> c.type \notin {"ON_EVENT", "ON_TIMEOUT"}
                /\ r.lines[j].edge.label.guard = None <=> c.guard = None /\ kind[s] # "CONDITION"
                /\ r.lines[j].edge.label.action = c.action

RECURSIVE Within(_, _)
Within(s, r) == s = r \/ (s # Root /\ Within(parent[s], r))

\* What is drawn of one region of a parallel state is never in the same part of its
\* diagram as what is drawn of another.
RegionsApart ==
    Sound =>
        LET lines == Read(Library).lines
            inside(j, r) == Within(lines[j].edge.of, r) /\ (lines[j].edge.of = r => lines[j].edge.from = None)
            depth(r) == Len(Enclosing(parent[r])) + 1
        IN \A r, q \in ToSet(order) : r # q /\ IsRegion(r) /\ parent[r] = parent[q] =>
            \A i, j \in 1..Len(lines) : inside(i, r) /\ inside(j, q) =>
                lines[i].region[depth(r)] # lines[j].region[depth(r)]

Edges(lines) == SelectSeq(lines, LAMBDA l : l.line \in {"edge", "inner"})
Count(seq, e) == Len(SelectSeq(seq, LAMBDA l : [l EXCEPT !.dir = None] = e))
Ends(lines) == \E i \in 1..Len(lines) : lines[i].line = "NameError"

\* The script draws the transitions that the library draws, each as often, unless it
\* ends in the middle: it leaves out directions and the braces that open states.
SameEdges ==
    Sound /\ ~Ends(Script) =>
        LET lib == Edges(Library)
            gen == Edges(Script)
        IN Len(lib) = Len(gen) /\ \A i \in 1..Len(lib) :
               LET e == [lib[i] EXCEPT !.dir = None] IN Count(lib, e) = Count(gen, e)

\* All of it: the diagram shows the machine, whichever of the two writes it.
ShowsMachine == Reflects /\ RegionsApart /\ SameEdges
================================================================================
