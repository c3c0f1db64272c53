-------------------------------- MODULE MacroArg --------------------------------
(***************************************************************************)
(* How the script reads an argument of a macro (get_arg), against what the *)
(* preprocessor makes of it for the library (#action): both read the same  *)
(* text, character by character.  In three cases the script is known to    *)
(* read something else: a comment that begins with /*/ , a comment that    *)
(* alone separates two tokens, and a row of spaces in a literal.           *)
(***************************************************************************)
EXTENDS Integers, SequencesExt

CONSTANTS
    Alphabets,  \* sets of characters: those of a text are all in one of them
    MaxLength   \* bound: characters of a text

Backslash == "\\"
Quote == "quote"      \* "
Prime == "prime"      \* '
Line == "newline"
Nothing == "none"        \* last_char at first, and after a comment
Space == {" ", Line}

VARIABLES
    alphabet,         \* of the text
    script, compiler  \* what they have made of the text that follows a parenthesis

argVars == <<alphabet, script, compiler>>

\* strip, and the end of a stringified argument
Strip(code) ==
    LET solid == {i \in 1..Len(code) : code[i] # " "} IN
    IF solid = {} THEN <<>>
    ELSE SubSeq(code, CHOOSE i \in solid : \A j \in solid : i <= j,
                      CHOOSE i \in solid : \A j \in solid : i >= j)
--------------------------------------------------------------------------------
(* The script *)

Fresh == [parens |-> 0, brackets |-> 0, string |-> FALSE, char |-> FALSE, escape |-> FALSE,
          comment |-> FALSE, cpp |-> FALSE, last |-> Nothing, out |-> <<>>, length |-> 0, done |-> FALSE]

Plain(s) == ~s.comment /\ ~s.string /\ ~s.char

\* An argument ends at a comma or a parenthesis that nothing encloses.
Ends(s, ch) == Plain(s) /\ ch \in {",", ")"} /\ s.parens = 0 /\ s.brackets = 0

Starts(s, ch) == Plain(s) /\ s.last = "/" /\ ch \in {"*", "/"}
\* Wrong: both kinds of comments end in the same two ways.
StopsEither(s, ch) == s.comment /\ (ch = Line \/ (ch = "/" /\ s.last = "*"))
Stops(s, ch) ==
    s.comment /\ IF s.cpp THEN ch = Line ELSE ch = "/" /\ s.last = "*"

\* The flags after a character.
Flags(s, ch) ==
    [s EXCEPT
        !.escape = IF ch = Backslash THEN (IF s.string \/ s.char THEN ~@ ELSE @) ELSE FALSE,
        !.string = IF ch = Quote /\ ~s.comment /\ ~s.char /\ (~s.string \/ ~s.escape) THEN ~@ ELSE @,
        !.char = IF ch = Prime /\ ~s.comment /\ ~s.string /\ (~s.char \/ ~s.escape) THEN ~@ ELSE @,
        !.comment = @ \/ Starts(s, ch),
        !.cpp = IF Starts(s, ch) THEN ch = "/" ELSE @,
        !.parens = IF ~Plain(s) THEN @ ELSE IF ch = "(" THEN @ + 1 ELSE IF ch = ")" THEN @ - 1 ELSE @,
        !.brackets = IF ~Plain(s) THEN @ ELSE IF ch = "{" THEN @ + 1 ELSE IF ch = "}" THEN @ - 1 ELSE @]

\* A slash is put off until it is known to begin no comment; a space is left out
\* after a space.
PutOff(s, f) == IF s.last = "/" /\ ~f.comment THEN Append(s.out, "/") ELSE s.out
Out(s, f, ch) ==
    LET put == PutOff(s, f)
        shown == IF ~f.string /\ ch \in Space THEN " " ELSE ch
        again == shown = " " /\ put # <<>> /\ Last(put) = " "
    IN IF shown # "/" /\ ~f.comment /\ ~again THEN Append(put, shown) ELSE put

Scan(s, ch) ==
    LET f == Flags(s, ch)
        stops == Stops(s, ch)
    IN IF s.done THEN s
       ELSE IF Ends(s, ch) THEN [s EXCEPT !.done = TRUE]
       ELSE [f EXCEPT !.out = Out(s, f, ch),
                      !.last = IF stops THEN Nothing ELSE IF ~f.string /\ ch \in Space THEN " " ELSE ch,
                      !.comment = @ /\ ~stops,
                      !.length = @ + 1]
--------------------------------------------------------------------------------
(* The preprocessor *)

\* gap: what has separated the last two tokens so far, white space or only a comment.
\* cut: there was a comment that begins with /*/; joined, reduced: a comment alone
\* between two tokens, a row of spaces in a literal.
Begin ==
    [lex |-> "code", parens |-> 0, braces |-> 0, gap |-> "none", out |-> <<>>, length |-> 0,
     done |-> FALSE, valid |-> TRUE, cut |-> FALSE, joined |-> FALSE, reduced |-> FALSE]

\* White space and comments between tokens become one space.
Put(s, ch) ==
    [s EXCEPT !.out = (IF s.gap # "none" /\ s.out # <<>> THEN Append(@, " ") ELSE @) \o <<ch>>,
              !.joined = @ \/ (s.gap = "comment" /\ s.out # <<>>),
              !.gap = "none"]
Commented(s) == [s EXCEPT !.lex = "code", !.gap = IF @ = "none" THEN "comment" ELSE @]

\* An argument that is cut between braces, or that ends in a slash, is no code.
InCode(s, ch) ==
    CASE ch \in {",", ")"} /\ s.parens = 0 -> [s EXCEPT !.done = TRUE, !.valid = (s.braces = 0)]
      [] ch = "/" -> [s EXCEPT !.lex = "slash"]
      [] ch \in Space -> [s EXCEPT !.gap = "white"]
      [] ch = Quote -> [Put(s, ch) EXCEPT !.lex = "string"]
      [] ch = Prime -> [Put(s, ch) EXCEPT !.lex = "char"]
      [] ch = Backslash -> [s EXCEPT !.valid = FALSE]
      [] ch \in {"(", ")"} -> [Put(s, ch) EXCEPT !.parens = IF ch = "(" THEN @ + 1 ELSE @ - 1]
      [] ch \in {"{", "}"} -> [Put(s, ch) EXCEPT !.braces = IF ch = "{" THEN @ + 1 ELSE @ - 1]
      [] OTHER -> Put(s, ch)

InSlash(s, ch) ==
    CASE ch = "*" -> [s EXCEPT !.lex = "opened"]
      [] ch = "/" -> [s EXCEPT !.lex = "line"]
      [] ch \in {",", ")"} -> [s EXCEPT !.valid = FALSE]
      [] OTHER -> InCode([Put(s, "/") EXCEPT !.lex = "code"], ch)

InComment(s, ch) ==
    IF ch = "/" /\ s.lex = "star" THEN Commented(s)
    ELSE [s EXCEPT !.lex = IF ch = "*" THEN "star" ELSE "comment",
                   !.cut = @ \/ (s.lex = "opened" /\ ch = "/")]

InLiteral(s, ch, end) ==
    LET p == [s EXCEPT !.out = Append(@, ch), !.reduced = @ \/ (ch = " " /\ Last(s.out) = " ")] IN
    CASE ch = Line -> [s EXCEPT !.valid = FALSE]
      [] ch = Backslash -> [p EXCEPT !.lex = IF end = Quote THEN "string escape" ELSE "char escape"]
      [] ch = end -> [p EXCEPT !.lex = "code"]
      [] OTHER -> p

InEscape(s, ch, literal) ==
    [s EXCEPT !.out = Append(@, ch), !.lex = literal, !.valid = (ch # Line)]

Lex(s, ch) ==
    CASE s.lex = "code" -> InCode(s, ch)
      [] s.lex = "slash" -> InSlash(s, ch)
      [] s.lex = "line" -> IF ch = Line THEN Commented(s) ELSE s
      [] s.lex \in {"opened", "comment", "star"} -> InComment(s, ch)
      [] s.lex = "string" -> InLiteral(s, ch, Quote)
      [] s.lex = "char" -> InLiteral(s, ch, Prime)
      [] s.lex = "string escape" -> InEscape(s, ch, "string")
      [] s.lex = "char escape" -> InEscape(s, ch, "char")

Preprocess(s, ch) == LET n == Lex(s, ch) IN IF n.done THEN n ELSE [n EXCEPT !.length = @ + 1]
--------------------------------------------------------------------------------
(* Every text, up to where the compiler has read the argument or refuses it *)

Init == alphabet \in Alphabets /\ script = Fresh /\ compiler = Begin

Decided == compiler.done \/ ~compiler.valid \/ compiler.length = MaxLength
Character ==
    /\ ~Decided
    /\ \E ch \in alphabet :
        /\ script' = Scan(script, ch)
        /\ compiler' = Preprocess(compiler, ch)
    /\ UNCHANGED alphabet
Whole == Decided /\ UNCHANGED argVars
Next == Character \/ Whole
Spec == Init /\ [][Next]_argVars
--------------------------------------------------------------------------------
(* Properties *)

\* An argument that the compiler has read to its end.
IsArg == compiler.done /\ compiler.valid

\* The script finds the end of every argument where the compiler does, past commas
\* and parentheses in calls, in braces, in literals with escapes and in comments,
\* except after a comment that begins with /*/.
SplitsAlike ==
    IsArg => compiler.cut \/ (script.done /\ script.length = compiler.length)

\* The script reads the text of an argument as the compiler hands it to the library,
\* without the comments and with white space made one space; where a comment alone
\* separates two tokens, or a literal has a row of spaces, it loses spaces and nothing
\* else.
WithoutSpaces(code) == SelectSeq(code, LAMBDA ch : ch # " ")
SameText == IF compiler.joined \/ compiler.reduced
            THEN WithoutSpaces(script.out) = WithoutSpaces(compiler.out)
            ELSE Strip(script.out) = Strip(compiler.out)
ReadsAlike == IsArg => compiler.cut \/ SameText
================================================================================
