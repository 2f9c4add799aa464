------------------------------ MODULE Scanner ------------------------------
(***************************************************************************)
(* The hand-written half of rk's lexer, crates/tree-sitter/src/scanner.c:  *)
(* block comments of two styles that nest, pragmas rk has no rule for, and *)
(* the sign before a based literal.  One call reads from the parser's      *)
(* position and ends with a token or with none.                            *)
(*                                                                         *)
(* A text is a sequence of characters.  The whole of a known pragma's      *)
(* first word is one of them, KnownWord, and one other word character      *)
(* stands for all the others: nothing else of a word is looked at.         *)
(***************************************************************************)
EXTENDS Naturals, Sequences, FiniteSets

CONSTANTS
    Chars,          \* what a text is made of
    Texts,          \* the texts the parser may be at the start of
    ValidSets       \* the sets of tokens the parser may ask for

Tokens    == {"C_STYLE_COMMENT", "PASCAL_STYLE_COMMENT", "PRAGMA", "MINUS_BEFORE_BASE", "PLUS_BEFORE_BASE"}
NoToken   == "none"
Eof       == "eof"
KnownWord == "test"
Spaces    == {" "}
Quotes    == {"'", "\""}
\* is_word_char
WordChars == {KnownWord, "a", "1", "2", "6", "8"}

ASSUME ScannerAssumption ==
    /\ Texts \subseteq Seq(Chars)
    /\ ValidSets \subseteq SUBSET Tokens
    /\ Eof \notin Chars

VARIABLES
    text, valid,    \* what one call is given
    at,             \* the loop it is in
    pos,            \* lexer->lookahead is the character here
    from,           \* where the token starts, past the spaces
    word,           \* the first word of a pragma
    quote,          \* the quote the string it is in started with
    depth,
    token,          \* result_symbol; the token then ends before pos
    (* history *)
    pairs           \* where the delimiters of the comment start

vars == <<text, valid, at, pos, from, word, quote, depth, token, pairs>>

Places    == {"spaces", "brace", "word", "pragma", "string", "comment", "done"}
At(i)     == IF i \in 1..Len(text) THEN text[i] ELSE Eof
Look      == At(pos)
\* lexer->advance, which stays where it is at the end of the input.
Advance(i) == IF i \in 1..Len(text) THEN i + 1 ELSE i

Accept(t, end) == at' = "done" /\ token' = t /\ pos' = end
Refuse         == at' = "done" /\ UNCHANGED <<token, pos>>

Init ==
    /\ text \in Texts
    /\ valid \in ValidSets
    /\ at = "spaces"
    /\ pos = 1
    /\ from = 1
    /\ word = <<>>
    /\ quote = Eof
    /\ depth = 0
    /\ token = NoToken
    /\ pairs = {}

-----------------------------------------------------------------------------
(* The start of a token.                                                     *)

NothingIsAskedFor ==
    /\ at = "spaces"
    /\ valid = {}
    /\ Refuse
    /\ UNCHANGED <<text, valid, from, word, quote, depth, pairs>>

SkipSpace ==
    /\ at = "spaces"
    /\ valid # {}
    /\ Look \in Spaces
    /\ pos' = Advance(pos)
    /\ from' = pos'
    /\ UNCHANGED <<text, valid, at, word, quote, depth, token, pairs>>

\* `2#`, `8#` or `16#`
BaseAt(i) ==
    \/ At(i) \in {"2", "8"} /\ At(i + 1) = "#"
    \/ At(i) = "1" /\ At(i + 1) = "6" /\ At(i + 2) = "#"

\* The base is looked at past mark_end: it is not of the token.
Sign ==
    /\ at = "spaces"
    /\ Look \in {"-", "+"}
    /\ LET t == IF Look = "-" THEN "MINUS_BEFORE_BASE" ELSE "PLUS_BEFORE_BASE"
       IN  \/ t \in valid /\ BaseAt(pos + 1) /\ Accept(t, pos + 1)
           \/ (t \notin valid \/ ~BaseAt(pos + 1)) /\ valid # {} /\ Refuse
    /\ UNCHANGED <<text, valid, from, word, quote, depth, pairs>>

\* The character before the `*` that opens says the style.
Style(open)   == IF open = "(" THEN "PASCAL_STYLE_COMMENT" ELSE "C_STYLE_COMMENT"
ClosedBy(open) == IF open = "(" THEN ")" ELSE open

OpenComment ==
    /\ at = "spaces"
    /\ Look \in {"(", "/"}
    /\ Style(Look) \in valid
    /\ At(pos + 1) = "*"
    /\ at' = "comment"
    /\ pos' = pos + 2
    /\ depth' = 1
    /\ pairs' = {pos}
    /\ UNCHANGED <<text, valid, from, word, quote, token>>

OpenPragma ==
    /\ at = "spaces"
    /\ Look = "{"
    /\ "PRAGMA" \in valid
    /\ at' = "brace"
    /\ pos' = Advance(pos)
    /\ UNCHANGED <<text, valid, from, word, quote, depth, token, pairs>>

NoStart ==
    /\ at = "spaces"
    /\ valid # {}
    /\ Look \notin Spaces \cup {"-", "+"}
    /\ ~(Look = "{" /\ "PRAGMA" \in valid)
    /\ ~(Look \in {"(", "/"} /\ Style(Look) \in valid /\ At(pos + 1) = "*")
    /\ Refuse
    /\ UNCHANGED <<text, valid, from, word, quote, depth, pairs>>

-----------------------------------------------------------------------------
(* A comment.  A delimiter is two characters, and both are read: the star    *)
(* that opens does not close with the parenthesis after it.                  *)

Opens(i)  == At(i) = text[from] /\ At(i + 1) = "*"
Closes(i) == At(i) = "*" /\ At(i + 1) = ClosedBy(text[from])

PastPairByOne(i) == i + 1
PastPair(i) == i + 2

CommentCloseUncounted ==
    /\ at = "comment"
    /\ Closes(pos)
    /\ depth' = depth - 1
    /\ pairs' = pairs \cup {pos}
    /\ Accept(Style(text[from]), PastPair(pos))
    /\ UNCHANGED <<text, valid, from, word, quote>>
CommentClose ==
    /\ at = "comment"
    /\ Closes(pos)
    /\ depth' = depth - 1
    /\ pairs' = pairs \cup {pos}
    /\ \/ depth = 1 /\ Accept(Style(text[from]), PastPair(pos))
       \/ depth # 1 /\ pos' = PastPair(pos) /\ UNCHANGED <<at, token>>
    /\ UNCHANGED <<text, valid, from, word, quote>>

CommentOpenOfAnyStyle ==
    /\ at = "comment"
    /\ ~Closes(pos)
    /\ Look \in {"(", "/"} /\ At(pos + 1) = "*"
    /\ pos' = PastPair(pos)
    /\ depth' = depth + 1
    /\ pairs' = pairs \cup {pos}
    /\ UNCHANGED <<text, valid, at, from, word, quote, token>>
CommentOpen ==
    /\ at = "comment"
    /\ ~Closes(pos)
    /\ Opens(pos)
    /\ pos' = PastPair(pos)
    /\ depth' = depth + 1
    /\ pairs' = pairs \cup {pos}
    /\ UNCHANGED <<text, valid, at, from, word, quote, token>>

CommentText ==
    /\ at = "comment"
    /\ Look # Eof
    /\ ~Closes(pos) /\ ~Opens(pos)
    /\ pos' = Advance(pos)
    /\ UNCHANGED <<text, valid, at, from, word, quote, depth, token, pairs>>

CommentUnclosed ==
    /\ at = "comment"
    /\ Look = Eof
    /\ Refuse
    /\ UNCHANGED <<text, valid, from, word, quote, depth, pairs>>

-----------------------------------------------------------------------------
(* A pragma: spaces, its first word, and the rest up to a `}` that is in no  *)
(* string.                                                                   *)

PragmaSpace ==
    /\ at = "brace"
    /\ Look \in Spaces
    /\ pos' = Advance(pos)
    /\ UNCHANGED <<text, valid, at, from, word, quote, depth, token, pairs>>

PragmaBrace ==
    /\ at = "brace"
    /\ Look \notin Spaces
    /\ at' = "word"
    /\ UNCHANGED <<text, valid, pos, from, word, quote, depth, token, pairs>>

PragmaWord ==
    /\ at = "word"
    /\ Look \in WordChars
    /\ word' = Append(word, Look)
    /\ pos' = Advance(pos)
    /\ UNCHANGED <<text, valid, at, from, quote, depth, token, pairs>>

\* One of KNOWN_PRAGMAS is the grammar's.
IsKnown == word = <<KnownWord>>

PragmaWordEnds ==
    /\ at = "word"
    /\ Look \notin WordChars
    /\ \/ IsKnown /\ Refuse
       \/ ~IsKnown /\ at' = "pragma" /\ UNCHANGED <<pos, token>>
    /\ UNCHANGED <<text, valid, from, word, quote, depth, pairs>>

PragmaClose ==
    /\ at = "pragma"
    /\ Look = "}"
    /\ Accept("PRAGMA", Advance(pos))
    /\ UNCHANGED <<text, valid, from, word, quote, depth, pairs>>

PragmaQuote ==
    /\ at = "pragma"
    /\ Look \in Quotes
    /\ quote' = Look
    /\ at' = "string"
    /\ pos' = Advance(pos)
    /\ UNCHANGED <<text, valid, from, word, depth, token, pairs>>

PragmaText ==
    /\ at = "pragma"
    /\ Look \notin Quotes \cup {"}", Eof}
    /\ pos' = Advance(pos)
    /\ UNCHANGED <<text, valid, at, from, word, quote, depth, token, pairs>>

\* `$` takes the character after it.
PastStringCharUnescaped == Advance(pos)
PastStringChar == IF Look = "$" THEN Advance(Advance(pos)) ELSE Advance(pos)

StringText ==
    /\ at = "string"
    /\ Look \notin {quote, Eof}
    /\ pos' = PastStringChar
    /\ UNCHANGED <<text, valid, at, from, word, quote, depth, token, pairs>>

StringEnds ==
    /\ at = "string"
    /\ Look = quote
    /\ at' = "pragma"
    /\ pos' = Advance(pos)
    /\ UNCHANGED <<text, valid, from, word, quote, depth, token, pairs>>

PragmaUnclosedOutside ==
    /\ at = "pragma"
    /\ Look = Eof
    /\ Refuse
    /\ UNCHANGED <<text, valid, from, word, quote, depth, pairs>>
PragmaUnclosed ==
    /\ at \in {"pragma", "string"}
    /\ Look = Eof
    /\ Refuse
    /\ UNCHANGED <<text, valid, from, word, quote, depth, pairs>>

-----------------------------------------------------------------------------
Next ==
    \/ NothingIsAskedFor \/ SkipSpace \/ Sign \/ OpenComment \/ OpenPragma \/ NoStart
    \/ CommentClose \/ CommentOpen \/ CommentText \/ CommentUnclosed
    \/ PragmaSpace \/ PragmaBrace \/ PragmaWord \/ PragmaWordEnds
    \/ PragmaClose \/ PragmaQuote \/ PragmaText \/ StringText \/ StringEnds \/ PragmaUnclosed

\* One call runs to its end on its own.
Spec == Init /\ [][Next]_vars /\ WF_vars(Next)

-----------------------------------------------------------------------------
(* The properties.                                                           *)

\* The types of the scanner's variables; it never looks further than the
\* end of the text, and counts no comment closed that it did not open.
TypeOK ==
    /\ text \in Seq(Chars)
    /\ valid \in ValidSets
    /\ at \in Places
    /\ pos \in 1..Len(text) + 1
    /\ from \in 1..Len(text) + 1
    /\ word \in Seq(WordChars)
    /\ quote \in Quotes \cup {Eof}
    /\ depth \in Nat
    /\ token \in Tokens \cup {NoToken}
    /\ pairs \subseteq 1..Len(text)

Opened(p) == {i \in pairs : i <= p /\ Opens(i)}
Closed(p) == {i \in pairs : i <= p /\ Closes(i)}

\* Whether a comment was closed: as many closed as opened, there and never
\* before.
ClosedAt(p)     == Cardinality(Closed(p)) = Cardinality(Opened(p))
StillOpenAt(p)  == Cardinality(Closed(p)) < Cardinality(Opened(p))

\* The comments nest (scanner.c:182-197).  A comment token ends with the
\* delimiter that closes the first one, and no earlier delimiter does.
CommentsNest ==
    token \in {"PASCAL_STYLE_COMMENT", "C_STYLE_COMMENT"} =>
        /\ pos - 2 \in pairs
        /\ ClosedAt(pos - 2)
        /\ \A p \in pairs : p < pos - 2 => StillOpenAt(p)

\* What is counted: the delimiters of the comment's own style, from the left
\* and without overlap, so that a star serves one delimiter only, and the
\* delimiters of the other style are text (scanner.c:4-5, 183-195).
DelimitersAreItsOwn ==
    \A i \in 1..Len(text) :
        at \in {"comment", "done"} /\ pairs # {} /\ i \in from..pos - 1 =>
            (i \in pairs <=> (Opens(i) \/ Closes(i)) /\ i - 1 \notin pairs)

\* A comment is refused only where it is never closed (scanner.c:6-8).
OnlyOpenCommentsAreRefused ==
    at = "done" /\ token = NoToken /\ pairs # {} =>
        pos = Len(text) + 1 /\ \A p \in pairs : StillOpenAt(p)

\* What a text is, read as the header of scanner.c says it, without the
\* scanner: where its strings are, and where its first pragma ends.  For each
\* character, the quote of the string it is in, or Eof, and whether a "$"
\* escapes it.
InString(t) ==
    LET f[i \in Nat] ==
            IF i <= 1 THEN <<Eof, FALSE>>
            ELSE LET inside == f[i - 1][1]  escaped == f[i - 1][2]  c == t[i - 1]
                 IN  IF inside = Eof THEN <<IF c \in Quotes THEN c ELSE Eof, FALSE>>
                     ELSE IF escaped THEN <<inside, FALSE>>
                     ELSE IF c = "$" THEN <<inside, TRUE>>
                     ELSE <<IF c = inside THEN Eof ELSE inside, FALSE>>
    IN  f
PragmaEnds == {i \in from..Len(text) : At(i) = "}" /\ InString(text)[i][1] = Eof}

\* A pragma's token ends after the first `}` that is in no string, and one
\* without such a `}` is none (scanner.c:70-91).
PragmasEndOutsideStrings ==
    at = "done" /\ At(from) = "{" /\ "PRAGMA" \in valid /\ word # <<KnownWord>> =>
        IF PragmaEnds = {} THEN token = NoToken
        ELSE token = "PRAGMA" /\ pos - 1 \in PragmaEnds /\ \A i \in PragmaEnds : pos - 1 <= i

\* Every call ends (scanner.c:133-198): each loop reads on or stops at the
\* end of the input.
ScanEnds == <>(at = "done")
=============================================================================
