----------------------------- MODULE MCScanner -----------------------------
(* The texts of Scanner for TLC, each kind of token over the characters it   *)
(* tells apart.                                                              *)
EXTENDS Scanner

CONSTANT Longest    \* the characters after the first, in a text

Upto(S, n)  == UNION {[1..k -> S] : k \in 0..n}
After(S, T) == {<<c>> \o t : c \in S, t \in T}

AllChars == Spaces \cup Quotes \cup WordChars \cup {"{", "}", "(", ")", "*", "/", "-", "+", "$", "#"}

CommentTexts == After({"(", "/"}, Upto({"(", ")", "*", "/"}, Longest))
PragmaTexts  == After({"{"}, Upto({KnownWord, "a", " ", "}", "'", "\"", "$"}, Longest - 2))
SignTexts    == After({"-", "+"}, Upto({"1", "2", "6", "8", "#"}, 3))

AllTexts == CommentTexts \cup PragmaTexts \cup SignTexts \cup Upto(Spaces, 2)
            \cup After(Spaces, After({"(", "{", "-"}, Upto({"*", ")", "a", "}", "2", "#"}, 3)))

\* What the parser asks for: all of them where it recovers from an error.
AllValid == {Tokens, {}, {"PASCAL_STYLE_COMMENT"}, {"C_STYLE_COMMENT", "MINUS_BEFORE_BASE"}}
=============================================================================
