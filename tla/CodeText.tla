-------------------------------- MODULE CodeText --------------------------------
(***************************************************************************)
(* The texts of actions, guards and timeouts in a diagram: what add_code   *)
(* of the library and add_code of the script write for a piece of C code,  *)
(* against what a compiler takes for literals in it.                       *)
(***************************************************************************)
EXTENDS Integers, SequencesExt

CONSTANTS
    MaxLength   \* bound: characters of a text

Backslash == "\\"
Quote == "quote"      \* "
Prime == "prime"      \* '
Special == {Backslash, ";", Quote, Prime}     \* the set of strpbrk
Char == Special \cup {" ", "a"}               \* a: every other character
Newline == "newline"  \* the two characters of a line break in a diagram

VARIABLES
    text,       \* the code
    newlines    \* add_newlines

vars == <<text, newlines>>

Init == text = <<>> /\ newlines \in BOOLEAN

More(c) == Len(text) < MaxLength /\ text' = Append(text, c) /\ UNCHANGED newlines
Whole == Len(text) = MaxLength /\ UNCHANGED vars

Next == (\E c \in Char : More(c)) \/ Whole
Spec == Init /\ [][Next]_vars
--------------------------------------------------------------------------------
Fresh == [escape |-> FALSE, string |-> FALSE, char |-> FALSE]

\* A quote opens a literal, or closes its own kind when it is not escaped.
Quoted(s, ch) ==
    [escape |-> FALSE,
     string |-> IF ch = Quote /\ ~s.char /\ (~s.string \/ ~s.escape) THEN ~s.string ELSE s.string,
     char |-> IF ch = Prime /\ ~s.string /\ (~s.char \/ ~s.escape) THEN ~s.char ELSE s.char]

\* A semicolon ends a statement outside of literals.
Ends(s, ch, nl) == ch = ";" /\ nl /\ ~s.string /\ ~s.char

\* What follows a statement: a line break unless nothing does, and the rest of the
\* text without the space it begins with.
Break(rest) == IF rest = <<>> THEN <<>> ELSE <<Newline>>
Unspaced(rest) == IF rest # <<>> /\ Head(rest) = " " THEN Tail(rest) ELSE rest

\* Wrong: a backslash stays in force over the characters that follow.
StillEscaped(s, n) == s
\* A backslash is in force only for the character that follows it.
Unescaped(s, n) == IF n > 1 THEN [s EXCEPT !.escape = FALSE] ELSE s

\* add_code of the library, from one of the special characters to the next.
RECURSIVE Lib(_, _, _)
Lib(code, state, nl) ==
    IF \A i \in 1..Len(code) : code[i] \notin Special THEN code
    ELSE LET n == CHOOSE i \in 1..Len(code) :
                      code[i] \in Special /\ \A j \in 1..i - 1 : code[j] \notin Special
             ch == code[n]
             s == Unescaped(state, n)
             rest == SubSeq(code, n + 1, Len(code))
         IN SubSeq(code, 1, n - 1) \o
            IF ch = Backslash
            THEN <<Backslash, Backslash>> \o Lib(rest, [s EXCEPT !.escape = ~@], nl)
            ELSE IF Ends(s, ch, nl)
            THEN <<ch>> \o Break(rest) \o Lib(Unspaced(rest), Quoted(s, ch), nl)
            ELSE <<ch>> \o Lib(rest, Quoted(s, ch), nl)

\* add_code of the script, character by character.
RECURSIVE Script(_, _, _)
Script(code, s, nl) ==
    IF code = <<>> THEN <<>>
    ELSE LET ch == Head(code)
             rest == Tail(code)
         IN IF ch = Backslash
            THEN <<Backslash, Backslash>> \o Script(rest, [s EXCEPT !.escape = ~@], nl)
            ELSE IF Ends(s, ch, nl)
            THEN <<ch>> \o Break(rest) \o Script(Unspaced(rest), Quoted(s, ch), nl)
            ELSE <<ch>> \o Script(rest, Quoted(s, ch), nl)
--------------------------------------------------------------------------------
(* What a compiler reads *)

\* The part of a literal that the character after a text would be in.
Lexed(code) ==
    FoldLeft(LAMBDA l, ch :
        CASE l = "code" /\ ch = Quote -> "string"
          [] l = "code" /\ ch = Prime -> "char"
          [] l = "string" /\ ch = Backslash -> "string escape"
          [] l = "char" /\ ch = Backslash -> "char escape"
          [] l = "string escape" -> "string"
          [] l = "char escape" -> "char"
          [] l = "string" /\ ch = Quote -> "code"
          [] l = "char" /\ ch = Prime -> "code"
          [] OTHER -> l, "code", code)

\* Outside of literals there is no backslash: #action is one line.
IsCode(code) == \A i \in 1..Len(code) :
                    code[i] = Backslash => Lexed(SubSeq(code, 1, i - 1)) # "code"

EndsStatement(i) == i > 0 /\ text[i] = ";" /\ Lexed(SubSeq(text, 1, i - 1)) = "code"

Expected(i) ==
    IF newlines /\ EndsStatement(i - 1)
    THEN <<Newline>> \o (IF text[i] = " " THEN <<>> ELSE IF text[i] = Backslash THEN <<Backslash, Backslash>> ELSE <<text[i]>>)
    ELSE IF text[i] = Backslash THEN <<Backslash, Backslash>> ELSE <<text[i]>>

\* The diagram shows the code as the compiler reads it: a new line after every
\* statement and nowhere in a string or character literal, whatever quotes and
\* backslashes it is made of, and nothing else is added or lost.
BreaksAtStatements ==
    IsCode(text) =>
        Lib(text, Fresh, newlines) = FlattenSeq([i \in 1..Len(text) |-> Expected(i)])

\* The script writes the texts exactly as the library does.
ScriptAgrees == Script(text, Fresh, newlines) = Lib(text, Fresh, newlines)
================================================================================
