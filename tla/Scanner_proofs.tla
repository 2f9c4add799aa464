--------------------------- MODULE Scanner_proofs ---------------------------
(***************************************************************************)
(* Proofs about Scanner: whatever the text, comments nest, by their own    *)
(* delimiters, only those that are never closed are refused, pragmas end   *)
(* outside their strings, and each step brings the end of the call nearer. *)
(***************************************************************************)
EXTENDS Scanner, FiniteSetTheorems, WellFoundedInduction, TLAPS

USE ScannerAssumption DEF ScannerAssumption

CommentTokens == {"PASCAL_STYLE_COMMENT", "C_STYLE_COMMENT"}

-----------------------------------------------------------------------------
(* Reading a text.                                                         *)

\* A character that is not the end is in the text.
LEMMA InTheText ==
    ASSUME text \in Seq(Chars), NEW i, At(i) # Eof
    PROVE  i \in 1..Len(text) /\ text[i] = At(i)
BY DEF At

\* Where there is no character the text has ended.
LEMMA AtTheEnd ==
    ASSUME text \in Seq(Chars), NEW i \in 1..Len(text) + 1, At(i) = Eof
    PROVE  i = Len(text) + 1
<1>1. i \in 1..Len(text) => text[i] \in Chars
  OBVIOUS
<1>2. Len(text) \in Nat
  OBVIOUS
<1> QED
  BY <1>1, <1>2 DEF At

\* Reading on stays in the text or at its end.
LEMMA AdvanceStays ==
    ASSUME text \in Seq(Chars), NEW i \in 1..Len(text) + 1
    PROVE  Advance(i) \in 1..Len(text) + 1
<1>1. Len(text) \in Nat
  OBVIOUS
<1> QED
  BY <1>1 DEF Advance

-----------------------------------------------------------------------------
(* Types.                                                                  *)

\* In a comment, the depth is one or more, and the token starts with the
\* character that opens it.
Inside ==
    /\ at = "spaces" => from = pos
    /\ at = "comment" => depth >= 1 /\ from \in 1..Len(text) /\ text[from] \in {"(", "/"}

\* Every call starts with the types.
LEMMA InitTypes == Init => TypeOK /\ Inside
<1> SUFFICES ASSUME Init PROVE TypeOK /\ Inside
  OBVIOUS
<1>1. text \in Seq(Chars) /\ valid \in ValidSets
  BY DEF Init
<1>2. 1 \in 1..Len(text) + 1
  BY <1>1
<1> QED
  BY <1>1, <1>2 DEF Init, TypeOK, Inside, Places, Quotes

\* A step keeps them, one action after the other.
LEMMA StepTypes ==
    ASSUME TypeOK, Inside, [Next]_vars PROVE TypeOK' /\ Inside'
<1>0. /\ text \in Seq(Chars) /\ pos \in 1..Len(text) + 1 /\ from \in 1..Len(text) + 1 /\ depth \in Nat
      /\ Len(text) \in Nat /\ word \in Seq(WordChars) /\ pairs \subseteq 1..Len(text)
  BY DEF TypeOK
<1> DEFINE Same == UNCHANGED <<text, valid>>
<1>1. ASSUME Same, UNCHANGED <<from, word, quote, depth, pairs>>, at' = "done", pos' \in 1..Len(text) + 1,
             token' \in Tokens \cup {NoToken}
      PROVE  TypeOK' /\ Inside'
  BY <1>1 DEF TypeOK, Inside, Places
<1>2. ASSUME Same, UNCHANGED <<from, depth, token, pairs>>, at' \in Places \ {"spaces", "comment"}, pos' \in 1..Len(text) + 1,
             word' \in Seq(WordChars), quote' \in Quotes \cup {Eof}
      PROVE  TypeOK' /\ Inside'
  BY <1>2 DEF TypeOK, Inside
<1>3. CASE NothingIsAskedFor \/ NoStart \/ CommentUnclosed \/ PragmaUnclosed
  BY <1>0, <1>1, <1>3 DEF TypeOK, NothingIsAskedFor, NoStart, CommentUnclosed, PragmaUnclosed, Refuse
<1>4. CASE SkipSpace
  <2>1. pos' \in 1..Len(text) + 1 /\ from' = pos' /\ at' = "spaces"
    BY <1>0, <1>4, AdvanceStays DEF SkipSpace
  <2> QED
    BY <1>4, <2>1 DEF TypeOK, Inside, SkipSpace
<1>5. CASE Sign
  <2>1. Look # Eof => pos + 1 \in 1..Len(text) + 1
    BY <1>0, InTheText DEF Look
  <2>2. Look # Eof
    BY <1>0, <1>5 DEF Sign, Eof
  <2> QED
    BY <1>0, <1>1, <1>5, <2>1, <2>2 DEF TypeOK, Sign, Accept, Refuse, Tokens
<1>6. CASE OpenComment
  <2>1. Look # Eof /\ At(pos + 1) # Eof
    BY <1>6 DEF OpenComment, Eof
  <2>2. pos + 2 \in 1..Len(text) + 1 /\ {pos} \subseteq 1..Len(text)
    BY <1>0, <2>1, InTheText DEF Look
  <2>3. from = pos /\ text[pos] = Look
    BY <1>0, <1>6, <2>1, InTheText DEF OpenComment, Inside, Look
  <2> QED
    BY <1>6, <2>2, <2>3 DEF TypeOK, Inside, OpenComment, Places
<1>7. CASE CommentClose \/ CommentOpen
  <2>1. Opens(pos) \/ Closes(pos)
    BY <1>7 DEF CommentClose, CommentOpen
  <2>2. at = "comment" /\ text[from] \in {"(", "/"} /\ depth >= 1
    BY <1>7 DEF CommentClose, CommentOpen, Inside
  <2>3. At(pos) # Eof /\ At(pos + 1) # Eof
    BY <2>1, <2>2 DEF Opens, Closes, ClosedBy, Eof
  <2>4. PastPair(pos) \in 1..Len(text) + 1 /\ pairs \cup {pos} \subseteq 1..Len(text)
    BY <1>0, <2>3, InTheText DEF PastPair
  <2>5. CASE CommentClose
    BY <2>2, <2>4, <2>5 DEF TypeOK, Inside, CommentClose, Accept, Style, Tokens, Places
  <2>6. CASE CommentOpen
    BY <2>2, <2>4, <2>6 DEF TypeOK, Inside, CommentOpen
  <2> QED
    BY <1>7, <2>5, <2>6
<1>8. CASE CommentText
  BY <1>0, <1>8, AdvanceStays DEF TypeOK, Inside, CommentText
<1>9. CASE OpenPragma \/ PragmaSpace \/ PragmaText \/ StringText \/ StringEnds
  <2>1. Advance(pos) \in 1..Len(text) + 1 /\ PastStringChar \in 1..Len(text) + 1
    BY <1>0, AdvanceStays DEF PastStringChar
  <2>2. quote \in Quotes \cup {Eof}
    BY DEF TypeOK
  <2> QED
    BY <1>0, <1>2, <1>9, <2>1, <2>2 DEF OpenPragma, PragmaSpace, PragmaText, StringText, StringEnds, Places
<1>10. CASE PragmaBrace \/ PragmaWord
  <2>1. Look \in WordChars => Append(word, Look) \in Seq(WordChars)
    BY <1>0
  <2>2. word' \in Seq(WordChars)
    BY <1>0, <1>10, <2>1 DEF PragmaBrace, PragmaWord
  <2>3. pos' \in 1..Len(text) + 1 /\ at' \in Places \ {"spaces", "comment"}
    BY <1>0, <1>10, AdvanceStays DEF PragmaBrace, PragmaWord, Places
  <2>4. quote' \in Quotes \cup {Eof}
    BY <1>10 DEF TypeOK, PragmaBrace, PragmaWord
  <2> QED
    BY <1>2, <1>10, <2>2, <2>3, <2>4 DEF PragmaBrace, PragmaWord
<1>11. CASE PragmaWordEnds
  <2>1. CASE IsKnown
    BY <1>0, <1>1, <1>11, <2>1 DEF TypeOK, PragmaWordEnds, Refuse
  <2>2. CASE ~IsKnown
    BY <1>0, <1>2, <1>11, <2>2 DEF TypeOK, PragmaWordEnds, Places
  <2> QED
    BY <2>1, <2>2
<1>12. CASE PragmaClose
  BY <1>0, <1>1, <1>12, AdvanceStays DEF TypeOK, PragmaClose, Accept, Tokens
<1>13. CASE PragmaQuote
  BY <1>0, <1>2, <1>13, AdvanceStays DEF PragmaQuote, Places
<1>14. CASE UNCHANGED vars
  BY <1>14 DEF TypeOK, Inside, vars
<1> QED
  BY <1>3, <1>4, <1>5, <1>6, <1>7, <1>8, <1>9, <1>10, <1>11, <1>12, <1>13, <1>14 DEF Next

\* In every state of a call the scanner's variables hold what their types
\* allow: it reads nothing past the end of the text, and closes no comment
\* it did not open.
THEOREM ScannerTypesHold == Spec => []TypeOK
<1>1. TypeOK /\ Inside /\ [Next]_vars => TypeOK' /\ Inside'
  BY StepTypes
<1> QED
  BY <1>1, InitTypes, PTL DEF Spec

-----------------------------------------------------------------------------
(* Comments.                                                               *)

\* Before a comment nothing is counted; in one, the depth is what is opened
\* and not closed, and it never was none.
Counting ==
    /\ at \notin {"comment", "done"} => pairs = {}
    /\ at # "done" => token = NoToken
    /\ at = "comment" => /\ from \in pairs
                         /\ Cardinality(Opened(pos)) = Cardinality(Closed(pos)) + depth
                         /\ \A p \in pairs : StillOpenAt(p)

\* The delimiters counted are behind the scanner, in the token, which starts
\* with the character that opens its comments.
Behind ==
    pairs # {} =>
        /\ at \in {"comment", "done"} /\ text[from] \in {"(", "/"}
        /\ \A p \in pairs : p <= pos - 2

NestInv == /\ TypeOK /\ Inside /\ Counting /\ Behind
           /\ DelimitersAreItsOwn /\ CommentsNest /\ OnlyOpenCommentsAreRefused

\* What a comment has counted is finite.
LEMMA CountsAreFinite ==
    ASSUME TypeOK, NEW p
    PROVE  /\ IsFiniteSet(Opened(p)) /\ Cardinality(Opened(p)) \in Nat
           /\ IsFiniteSet(Closed(p)) /\ Cardinality(Closed(p)) \in Nat
<1>1. IsFiniteSet(1..Len(text)) /\ pairs \subseteq 1..Len(text)
  BY FS_Interval DEF TypeOK
<1>2. Opened(p) \in SUBSET (1..Len(text)) /\ Closed(p) \in SUBSET (1..Len(text))
  BY <1>1 DEF Opened, Closed
<1> QED
  BY <1>1, <1>2, FS_Subset, FS_CardinalityType

\* A step that keeps the text and the pairs keeps every count.
LEMMA CountsKept ==
    ASSUME UNCHANGED <<text, from, pairs>>, NEW p
    PROVE  (Opened(p))' = Opened(p) /\ (Closed(p))' = Closed(p)
BY DEF Opened, Closed, Opens, Closes, At

\* A delimiter read adds to one of the counts from its place on, and leaves
\* the counts before it.
LEMMA PairCounts ==
    ASSUME NestInv, at = "comment", Opens(pos) \/ Closes(pos),
           UNCHANGED <<text, from>>, pairs' = pairs \cup {pos}
    PROVE  /\ \A p \in pairs : /\ Opened(p)' = Opened(p) /\ Closed(p)' = Closed(p)
           /\ \A p \in {pos, pos + 2} :
                /\ Cardinality(Opened(p)') = Cardinality(Opened(pos)) + IF Opens(pos) THEN 1 ELSE 0
                /\ Cardinality(Closed(p)') = Cardinality(Closed(pos)) + IF Closes(pos) THEN 1 ELSE 0
<1>1. \A i : (Opens(i))' = Opens(i) /\ (Closes(i))' = Closes(i)
  BY DEF Opens, Closes, At
<1>2. pairs # {} /\ \A p \in pairs : p <= pos - 2 /\ p \in Nat
  BY DEF NestInv, Counting, Behind, TypeOK
<1>3. pos \in Nat /\ pos \notin pairs
  BY <1>2 DEF NestInv, TypeOK
<1>4. ~(Opens(pos) /\ Closes(pos))
  BY DEF NestInv, Inside, Opens, Closes
<1>5. ASSUME NEW p \in pairs PROVE (Opened(p))' = Opened(p) /\ (Closed(p))' = Closed(p)
  <2>1. ~(pos <= p)
    BY <1>2, <1>3
  <2>2. {i \in pairs' : i <= p /\ Opens(i)} = {i \in pairs : i <= p /\ Opens(i)}
    BY <2>1
  <2>3. {i \in pairs' : i <= p /\ Closes(i)} = {i \in pairs : i <= p /\ Closes(i)}
    BY <2>1
  <2> QED
    BY <1>1, <2>2, <2>3 DEF Opened, Closed
<1>6. ASSUME NEW p \in {pos, pos + 2}
      PROVE  /\ (Opened(p))' = Opened(pos) \cup {i \in {pos} : Opens(i)}
             /\ (Closed(p))' = Closed(pos) \cup {i \in {pos} : Closes(i)}
  BY <1>1, <1>2, <1>3 DEF Opened, Closed
<1>7. pos \notin Opened(pos) /\ pos \notin Closed(pos)
  BY <1>3 DEF Opened, Closed
<1>8. /\ Opens(pos) => {i \in {pos} : Opens(i)} = {pos} /\ {i \in {pos} : Closes(i)} = {}
      /\ Closes(pos) => {i \in {pos} : Opens(i)} = {} /\ {i \in {pos} : Closes(i)} = {pos}
  BY <1>4
<1>9. /\ Cardinality(Opened(pos) \cup {pos}) = Cardinality(Opened(pos)) + 1
      /\ Cardinality(Closed(pos) \cup {pos}) = Cardinality(Closed(pos)) + 1
  BY <1>7, CountsAreFinite, FS_AddElement DEF NestInv
<1>10. Cardinality(Opened(pos)) \in Nat /\ Cardinality(Closed(pos)) \in Nat
  BY CountsAreFinite DEF NestInv
<1>11. \A p \in {pos, pos + 2} : Opens(pos) =>
          /\ Cardinality((Opened(p))') = Cardinality(Opened(pos)) + 1
          /\ Cardinality((Closed(p))') = Cardinality(Closed(pos))
  BY <1>6, <1>8, <1>9
<1>12. \A p \in {pos, pos + 2} : Closes(pos) =>
          /\ Cardinality((Opened(p))') = Cardinality(Opened(pos))
          /\ Cardinality((Closed(p))') = Cardinality(Closed(pos)) + 1
  BY <1>6, <1>8, <1>9
<1> QED
  BY <1>4, <1>5, <1>10, <1>11, <1>12

\* A step outside the comments counts nothing.
LEMMA OutsideStep ==
    ASSUME NestInv, TypeOK', Inside', at \notin {"comment", "done"}, UNCHANGED pairs,
           at' # "comment", token' \notin CommentTokens, at' # "done" => token' = NoToken
    PROVE  NestInv'
<1>1. pairs = {} /\ pairs' = {}
  BY DEF NestInv, Counting
<1> QED
  BY <1>1 DEF NestInv, Counting, Behind, DelimitersAreItsOwn, CommentsNest, OnlyOpenCommentsAreRefused, CommentTokens

\* The first delimiter opens the comment.
LEMMA OpenCommentStep ==
    ASSUME NestInv, TypeOK', Inside', OpenComment PROVE NestInv'
<1>1. /\ from = pos /\ from' = pos /\ pos' = pos + 2 /\ pairs' = {pos} /\ depth' = 1
      /\ at' = "comment" /\ text' = text /\ token' = NoToken /\ pos \in Nat
  BY DEF NestInv, TypeOK, Inside, OpenComment, Counting
<1>2. text'[from'] = Look /\ Look \in {"(", "/"} /\ At(pos + 1) = "*"
  <2>1. Look # Eof
    BY DEF OpenComment, Eof
  <2> QED
    BY <1>1, <2>1, InTheText DEF NestInv, TypeOK, OpenComment, Look
<1>3. \A i : (Opens(i))' = Opens(i) /\ (Closes(i))' = Closes(i)
  BY <1>1 DEF Opens, Closes, At
<1>4. Opens(pos) /\ ~Closes(pos)
  BY <1>1, <1>2 DEF Opens, Closes, Look
<1>5. \A p : p \in {pos, pos + 2} => (Opened(p))' = {pos} /\ (Closed(p))' = {}
  BY <1>1, <1>3, <1>4 DEF Opened, Closed
<1>6. Cardinality({pos}) = 1 /\ Cardinality({}) = 0
  BY FS_EmptySet, FS_Singleton
<1>7. (Cardinality(Opened(pos)) = Cardinality(Closed(pos)) + depth)'
  <2>1. (Opened(pos))' = {pos} /\ (Closed(pos))' = {}
    BY <1>1, <1>5 DEF Opened, Closed
  <2>2. Cardinality({pos}) = Cardinality({}) + depth'
    BY <1>1, <1>6
  <2>3. Cardinality((Opened(pos))') = Cardinality({pos}) /\ Cardinality((Closed(pos))') = Cardinality({})
    BY <2>1
  <2> QED
    BY <2>2, <2>3
<1>8. \A p \in pairs' : (StillOpenAt(p))'
  <2> SUFFICES ASSUME NEW p, p = pos PROVE (StillOpenAt(p))'
    BY <1>1
  <2>1. (Opened(p))' = {pos} /\ (Closed(p))' = {}
    BY <1>5
  <2> QED
    BY <1>6, <2>1 DEF StillOpenAt
<1>9. Counting' /\ Behind'
  BY <1>1, <1>2, <1>7, <1>8 DEF Counting, Behind
<1>10. DelimitersAreItsOwn'
  <2> SUFFICES ASSUME NEW i \in 1..Len(text), i \in pos..pos + 1
               PROVE  i \in {pos} <=> (Opens(i) \/ Closes(i)) /\ i - 1 \notin {pos}
    BY <1>1, <1>3 DEF DelimitersAreItsOwn
  <2>1. i = pos \/ i = pos + 1
    BY <1>1
  <2> QED
    BY <1>1, <1>4, <2>1
<1> QED
  BY <1>1, <1>9, <1>10 DEF NestInv, CommentsNest, OnlyOpenCommentsAreRefused, NoToken

\* A delimiter in a comment opens or closes one more.
LEMMA PairStep ==
    ASSUME NestInv, TypeOK', Inside', CommentClose \/ CommentOpen PROVE NestInv'
<1>1. /\ at = "comment" /\ UNCHANGED <<text, from>> /\ pos' = pos + 2 /\ pairs' = pairs \cup {pos}
      /\ pos \in Nat /\ depth \in Nat
      /\ Opens(pos) \/ Closes(pos)
  BY DEF NestInv, TypeOK, CommentClose, CommentOpen, Accept, PastPair
<1>2. /\ ~(Opens(pos) /\ Closes(pos)) /\ text[from] \in {"(", "/"} /\ depth >= 1
      /\ token = NoToken
  BY <1>1 DEF NestInv, Inside, Opens, Closes, Counting
<1>3. \A i : (Opens(i))' = Opens(i) /\ (Closes(i))' = Closes(i)
  BY <1>1 DEF Opens, Closes, At
<1>4. /\ \A p \in pairs : p <= pos - 2 /\ p \in Nat
      /\ pos - 1 \notin pairs /\ pos \notin pairs /\ pos + 1 \notin pairs
  BY <1>1 DEF NestInv, Behind, TypeOK
<1>5. Behind'
  BY <1>1, <1>2, <1>4 DEF CommentClose, CommentOpen, Accept, Behind
<1>6. DelimitersAreItsOwn'
  <2> SUFFICES ASSUME NEW i \in 1..Len(text), i \in from..pos + 1
               PROVE  i \in pairs' <=> (Opens(i) \/ Closes(i)) /\ i - 1 \notin pairs'
    BY <1>1, <1>3 DEF DelimitersAreItsOwn
  <2>1. CASE i \in from..pos - 1
    <3>1. i # pos /\ i - 1 # pos
      BY <1>1, <2>1
    <3>2. i \in pairs <=> (Opens(i) \/ Closes(i)) /\ i - 1 \notin pairs
      BY <1>1, <2>1 DEF NestInv, Counting, DelimitersAreItsOwn
    <3> QED
      BY <1>1, <3>1, <3>2
  <2>2. CASE i = pos
    BY <1>1, <1>4, <2>2
  <2>3. CASE i = pos + 1
    BY <1>1, <1>4, <2>3
  <2>4. from \in Nat
    BY DEF NestInv, TypeOK
  <2> QED
    BY <1>1, <2>1, <2>2, <2>3, <2>4
<1>7. \A p \in pairs : (StillOpenAt(p))'
  <2>1. \A p \in pairs : StillOpenAt(p)
    BY <1>1 DEF NestInv, Counting
  <2> QED
    BY <1>1, <2>1, PairCounts DEF StillOpenAt
<1>8. /\ Cardinality(Opened(pos)) = Cardinality(Closed(pos)) + depth
      /\ Cardinality(Opened(pos)) \in Nat /\ Cardinality(Closed(pos)) \in Nat
  BY <1>1, CountsAreFinite DEF NestInv, Counting
<1>9. \A p \in {pos, pos + 2} :
        /\ Cardinality((Opened(p))') = Cardinality(Opened(pos)) + IF Opens(pos) THEN 1 ELSE 0
        /\ Cardinality((Closed(p))') = Cardinality(Closed(pos)) + IF Closes(pos) THEN 1 ELSE 0
  BY <1>1, PairCounts
<1>10. \A p : p = pos =>
        /\ Closes(pos) /\ depth = 1 => (ClosedAt(p))'
        /\ ~(Closes(pos) /\ depth = 1) => (StillOpenAt(p))'
  BY <1>1, <1>2, <1>8, <1>9 DEF ClosedAt, StillOpenAt
<1>11. CASE CommentClose /\ depth = 1
  <2>1. at' = "done" /\ token' # NoToken /\ Closes(pos)
    BY <1>2, <1>11 DEF CommentClose, Accept, Style, NoToken
  <2>2. Counting' /\ OnlyOpenCommentsAreRefused'
    BY <2>1 DEF Counting, OnlyOpenCommentsAreRefused
  <2>3. pos' - 2 = pos
    BY <1>1
  <2>4. (ClosedAt(pos - 2))'
    BY <1>10, <1>11, <2>1, <2>3 DEF ClosedAt, Opened, Closed
  <2>5. CommentsNest'
    BY <1>1, <1>7, <2>3, <2>4 DEF CommentsNest, StillOpenAt, Opened, Closed
  <2> QED
    BY <1>5, <1>6, <2>2, <2>5 DEF NestInv
<1>12. CASE ~(CommentClose /\ depth = 1)
  <2>1. at' = "comment" /\ token' = NoToken
    BY <1>1, <1>2, <1>12 DEF CommentClose, CommentOpen
  <2>2. depth' = IF Opens(pos) THEN depth + 1 ELSE depth - 1
    BY <1>1, <1>2 DEF CommentClose, CommentOpen
  <2>3. ~(Closes(pos) /\ depth = 1)
    BY <1>1, <1>2, <1>12 DEF CommentClose, CommentOpen
  <2>4. \A p \in pairs' : (StillOpenAt(p))'
    BY <1>1, <1>7, <1>10, <2>3
  <2>5. \A p : p = pos + 2 =>
          Cardinality((Opened(p))') = Cardinality((Closed(p))') + depth'
    BY <1>1, <1>2, <1>8, <1>9, <2>2
  <2>6. (Cardinality(Opened(pos)) = Cardinality(Closed(pos)) + depth)'
    BY <1>1, <2>5 DEF Opened, Closed
  <2>7. from' \in pairs'
    BY <1>1 DEF NestInv, Counting
  <2>8. Counting'
    BY <2>1, <2>4, <2>6, <2>7 DEF Counting
  <2>9. CommentsNest' /\ OnlyOpenCommentsAreRefused'
    BY <2>1 DEF CommentsNest, OnlyOpenCommentsAreRefused, NoToken
  <2> QED
    BY <1>5, <1>6, <2>8, <2>9 DEF NestInv
<1> QED
  BY <1>11, <1>12

\* Text in a comment is no delimiter.
LEMMA CommentTextStep ==
    ASSUME NestInv, TypeOK', Inside', CommentText PROVE NestInv'
<1>1. /\ at = "comment" /\ UNCHANGED <<text, at, from, depth, token, pairs>> /\ pos' = pos + 1
      /\ pos \in Nat /\ ~Opens(pos) /\ ~Closes(pos)
  BY InTheText DEF NestInv, TypeOK, CommentText, Advance, Look
<1>2. \A p \in pairs : p <= pos - 2 /\ p \in Nat
  BY <1>1 DEF NestInv, Behind, TypeOK
<1>3. Behind'
  BY <1>1, <1>2 DEF NestInv, Behind
<1>4. DelimitersAreItsOwn'
  <2> SUFFICES ASSUME NEW i \in 1..Len(text), i \in from..pos
               PROVE  i \in pairs <=> (Opens(i) \/ Closes(i)) /\ i - 1 \notin pairs
    BY <1>1 DEF DelimitersAreItsOwn, Opens, Closes, At
  <2>1. CASE i = pos
    BY <1>1, <1>2, <2>1
  <2>2. CASE i \in from..pos - 1
    BY <1>1, <2>2 DEF NestInv, Counting, DelimitersAreItsOwn
  <2>3. from \in Nat
    BY DEF NestInv, TypeOK
  <2> QED
    BY <1>1, <2>1, <2>2, <2>3
<1>5. \A p : (Opened(p))' = Opened(p) /\ (Closed(p))' = Closed(p)
  BY <1>1, CountsKept
<1>6. \A p : p = pos + 1 => Opened(p) = Opened(pos) /\ Closed(p) = Closed(pos)
  BY <1>1, <1>2 DEF Opened, Closed
<1>7. (Cardinality(Opened(pos)) = Cardinality(Closed(pos)) + depth)'
  <2>1. \A p : p = pos + 1 => Cardinality((Opened(p))') = Cardinality((Closed(p))') + depth'
    BY <1>1, <1>5, <1>6 DEF NestInv, Counting
  <2> QED
    BY <1>1, <2>1 DEF Opened, Closed
<1>8. \A p \in pairs : (StillOpenAt(p))'
  BY <1>1, <1>5 DEF NestInv, Counting, StillOpenAt
<1>9. Counting'
  BY <1>1, <1>7, <1>8 DEF NestInv, Counting
<1> QED
  BY <1>1, <1>3, <1>4, <1>9 DEF NestInv, Counting, CommentsNest, OnlyOpenCommentsAreRefused, NoToken

\* At the end of the input an open comment is refused.
LEMMA CommentUnclosedStep ==
    ASSUME NestInv, TypeOK', Inside', CommentUnclosed PROVE NestInv'
<1>1. /\ at = "comment" /\ at' = "done" /\ UNCHANGED <<text, from, pairs, pos, token>> /\ token = NoToken
  BY DEF NestInv, CommentUnclosed, Refuse, Counting
<1>2. pos = Len(text) + 1
  BY AtTheEnd DEF NestInv, TypeOK, CommentUnclosed, Look
<1>3. \A p \in pairs : (StillOpenAt(p))'
  <2>1. \A p : (Opened(p))' = Opened(p) /\ (Closed(p))' = Closed(p)
    BY <1>1, CountsKept
  <2> QED
    BY <1>1, <2>1 DEF NestInv, Counting, StillOpenAt
<1>4. OnlyOpenCommentsAreRefused' /\ CommentsNest' /\ Counting'
  BY <1>1, <1>2, <1>3 DEF OnlyOpenCommentsAreRefused, CommentsNest, Counting, NoToken
<1>5. Behind' /\ DelimitersAreItsOwn'
  BY <1>1 DEF NestInv, Behind, DelimitersAreItsOwn, Opens, Closes, At
<1> QED
  BY <1>4, <1>5 DEF NestInv

\* Every step keeps the invariant.
LEMMA NestStep ==
    ASSUME NestInv, [Next]_vars PROVE NestInv'
<1>0. TypeOK' /\ Inside'
  BY StepTypes DEF NestInv
<1>1. CASE OpenComment \/ CommentClose \/ CommentOpen \/ CommentText \/ CommentUnclosed
  BY <1>0, <1>1, OpenCommentStep, PairStep, CommentTextStep, CommentUnclosedStep
<1>2. CASE NothingIsAskedFor \/ SkipSpace \/ Sign \/ NoStart
  BY <1>0, <1>2, OutsideStep
     DEF NestInv, Counting, NothingIsAskedFor, SkipSpace, Sign, NoStart, Accept, Refuse, CommentTokens, NoToken
<1>3. CASE OpenPragma \/ PragmaSpace \/ PragmaBrace \/ PragmaWord \/ PragmaWordEnds
  BY <1>0, <1>3, OutsideStep
     DEF NestInv, Counting, OpenPragma, PragmaSpace, PragmaBrace, PragmaWord, PragmaWordEnds, Refuse, CommentTokens, NoToken
<1>4. CASE PragmaClose \/ PragmaQuote \/ PragmaText \/ StringText \/ StringEnds \/ PragmaUnclosed
  BY <1>0, <1>4, OutsideStep
     DEF NestInv, Counting, PragmaClose, PragmaQuote, PragmaText, StringText, StringEnds, PragmaUnclosed,
         Accept, Refuse, CommentTokens, NoToken
<1>5. CASE UNCHANGED vars
  <2>1. /\ UNCHANGED <<text, at, pos, from, depth, token, pairs>>
        /\ \A i : (Opens(i))' = Opens(i) /\ (Closes(i))' = Closes(i)
    BY <1>5 DEF vars, Opens, Closes, At
  <2>2. \A p : (Opened(p))' = Opened(p) /\ (Closed(p))' = Closed(p)
    BY <2>1, CountsKept
  <2>3. \A p : (ClosedAt(p))' = ClosedAt(p) /\ (StillOpenAt(p))' = StillOpenAt(p)
    BY <2>2 DEF ClosedAt, StillOpenAt
  <2>4. (Cardinality(Opened(pos)) = Cardinality(Closed(pos)) + depth)' =
            (Cardinality(Opened(pos)) = Cardinality(Closed(pos)) + depth)
    BY <2>1 DEF Opened, Closed
  <2>5. Counting'
    BY <2>1, <2>3, <2>4 DEF NestInv, Counting
  <2>6. CommentsNest'
    BY <2>1 DEF NestInv, CommentsNest, ClosedAt, StillOpenAt, Opened, Closed
  <2>7. OnlyOpenCommentsAreRefused'
    BY <2>1, <2>3 DEF NestInv, OnlyOpenCommentsAreRefused
  <2>8. Behind' /\ DelimitersAreItsOwn'
    BY <2>1 DEF NestInv, Behind, DelimitersAreItsOwn
  <2> QED
    BY <1>0, <2>5, <2>6, <2>7, <2>8 DEF NestInv
<1> QED
  BY <1>1, <1>2, <1>3, <1>4, <1>5 DEF Next

\* No call starts with anything counted.
LEMMA InitNest == Init => NestInv
<1> SUFFICES ASSUME Init PROVE NestInv
  OBVIOUS
<1>1. TypeOK /\ Inside
  BY InitTypes
<1> QED
  BY <1>1 DEF Init, NestInv, Counting, Behind, DelimitersAreItsOwn, CommentsNest, OnlyOpenCommentsAreRefused, NoToken

\* Whatever the text, a comment token ends with the delimiter that closes the
\* comment it starts with, and with no earlier one.
THEOREM CommentsAlwaysNest == Spec => []CommentsNest
<1>1. NestInv => CommentsNest
  BY DEF NestInv
<1>2. NestInv /\ [Next]_vars => NestInv'
  BY NestStep
<1> QED
  BY <1>1, <1>2, InitNest, PTL DEF Spec

\* What is counted are the delimiters of the comment's own style, from the
\* left and without overlap.
THEOREM OnlyItsOwnDelimitersCount == Spec => []DelimitersAreItsOwn
<1>1. NestInv => DelimitersAreItsOwn
  BY DEF NestInv
<1>2. NestInv /\ [Next]_vars => NestInv'
  BY NestStep
<1> QED
  BY <1>1, <1>2, InitNest, PTL DEF Spec

\* A comment that is refused is open at the end of the text.
THEOREM NoClosedCommentIsRefused == Spec => []OnlyOpenCommentsAreRefused
<1>1. NestInv => OnlyOpenCommentsAreRefused
  BY DEF NestInv
<1>2. NestInv /\ [Next]_vars => NestInv'
  BY NestStep
<1> QED
  BY <1>1, <1>2, InitNest, PTL DEF Spec

-----------------------------------------------------------------------------
(* Pragmas.  Where the strings are is told from the start of the text, and *)
(* the induction that needs is over sets of numbers.                       *)

\* A set of natural numbers has a least one.
LEMMA LeastOfASet ==
    ASSUME NEW U \in SUBSET Nat, U # {}
    PROVE  \E x \in U : \A y \in U : x <= y
<1> DEFINE T == {0..u : u \in U}
<1>1. \A u \in U : IsFiniteSet(0..u) /\ 0..u \in SUBSET Nat
  BY FS_Interval
<1>2. T \subseteq FiniteSubsetsOf(Nat)
  BY <1>1, SMT DEF FiniteSubsetsOf
<1>3. IsWellFoundedOn(StrictSubsetOrdering(Nat), FiniteSubsetsOf(Nat)) /\ T # {}
  BY FS_StrictSubsetOrderingWellFounded
<1> HIDE DEF T
<1>4. \E x \in T : \A y \in T : <<y, x>> \notin StrictSubsetOrdering(Nat)
  BY <1>2, <1>3, WFMin
<1>5. PICK m \in U : \A y \in U : <<0..y, 0..m>> \notin StrictSubsetOrdering(Nat)
  BY <1>4 DEF T
<1>6. ASSUME NEW y \in U, y < m PROVE FALSE
  <2>1. 0..y \subseteq 0..m /\ m \in 0..m /\ m \notin 0..y /\ 0..m \in SUBSET Nat
    BY <1>6
  <2>2. 0..y \in SUBSET Nat /\ 0..y # 0..m
    BY <1>1, <2>1
  <2>3. <<0..y, 0..m>> \in StrictSubsetOrdering(Nat)
    BY <2>1, <2>2 DEF StrictSubsetOrdering
  <2> QED
    BY <1>5, <2>3
<1> QED
  BY <1>6

\* A set of numbers that has 0, and the number after each of its own, has
\* them all.
LEMMA AllNumbers ==
    ASSUME NEW S \in SUBSET Nat, 0 \in S, \A n \in S : n + 1 \in S PROVE S = Nat
<1> SUFFICES ASSUME Nat \ S # {} PROVE FALSE
  OBVIOUS
<1>1. PICK m \in Nat \ S : \A y \in Nat \ S : m <= y
  BY LeastOfASet
<1>2. m # 0 /\ m - 1 \in Nat /\ ~(m <= m - 1)
  BY <1>1
<1>3. m - 1 \in S
  BY <1>1, <1>2
<1>4. (m - 1) + 1 = m /\ (m - 1) + 1 \in S
  BY <1>3
<1> QED
  BY <1>1, <1>4

\* One character more.
Reading(before, c) ==
    IF before[1] = Eof THEN <<IF c \in Quotes THEN c ELSE Eof, FALSE>>
    ELSE IF before[2] THEN <<before[1], FALSE>>
    ELSE IF c = "$" THEN <<before[1], TRUE>>
    ELSE <<IF c = before[1] THEN Eof ELSE before[1], FALSE>>

\* g says of the characters of t up to n what a string holds.
Reads(t, n, g) ==
    \A i \in 0..n : g[i] = IF i <= 1 THEN <<Eof, FALSE>> ELSE Reading(g[i - 1], t[i - 1])

\* There is such a function for each number of characters.
LEMMA ReadsExists == ASSUME NEW t, NEW n \in Nat PROVE \E g : Reads(t, n, g)
<1> DEFINE S == {k \in Nat : \E g : Reads(t, k, g)}
<1>1. 0 \in S
  <2> DEFINE h == [i \in {0} |-> <<Eof, FALSE>>]
  <2>1. h[0] = <<Eof, FALSE>>
    OBVIOUS
  <2> HIDE DEF h
  <2>2. \A i \in 0..0 : i = 0 /\ i <= 1
    OBVIOUS
  <2>3. Reads(t, 0, h)
    BY <2>1, <2>2 DEF Reads
  <2> QED
    BY <2>3
<1>2. ASSUME NEW k \in S PROVE k + 1 \in S
  <2>1. PICK g : Reads(t, k, g)
    OBVIOUS
  <2> DEFINE h == [i \in 0..k + 1 |-> IF i <= k THEN g[i] ELSE IF k + 1 <= 1 THEN <<Eof, FALSE>> ELSE Reading(g[k], t[k])]
  <2>2. \A i \in 0..k : h[i] = g[i]
    OBVIOUS
  <2>3. h[k + 1] = IF k + 1 <= 1 THEN <<Eof, FALSE>> ELSE Reading(g[k], t[k])
    OBVIOUS
  <2> HIDE DEF h
  <2>4. ASSUME NEW i \in 0..k + 1
        PROVE  h[i] = IF i <= 1 THEN <<Eof, FALSE>> ELSE Reading(h[i - 1], t[i - 1])
    <3>1. CASE i \in 0..k
      <4>1. i > 1 => i - 1 \in 0..k
        BY <3>1
      <4>2. h[i] = g[i] /\ (i > 1 => h[i - 1] = g[i - 1])
        BY <2>2, <3>1, <4>1
      <4>3. g[i] = IF i <= 1 THEN <<Eof, FALSE>> ELSE Reading(g[i - 1], t[i - 1])
        BY <2>1, <3>1 DEF Reads
      <4>4. i <= 1 \/ i > 1
        BY <3>1
      <4> QED
        BY <4>2, <4>3, <4>4
    <3>2. CASE i = k + 1
      <4>1. k \in 0..k /\ i - 1 = k
        BY <3>2
      <4> QED
        BY <2>2, <2>3, <3>2, <4>1
    <3> QED
      BY <3>1, <3>2
  <2>5. Reads(t, k + 1, h)
    BY <2>4 DEF Reads
  <2> QED
    BY <2>5
<1> HIDE DEF S
<1>3. S = Nat
  <2>1. S \in SUBSET Nat
    BY DEF S
  <2> QED
    BY <1>1, <1>2, <2>1, AllNumbers
<1> QED
  BY <1>3 DEF S

\* Two of them agree as far as both go.
LEMMA ReadsUnique ==
    ASSUME NEW t, NEW n \in Nat, NEW m \in Nat, n <= m, NEW g, NEW h, Reads(t, n, g), Reads(t, m, h)
    PROVE  \A i \in 0..n : g[i] = h[i]
<1> DEFINE S == {k \in Nat : k <= n => g[k] = h[k]}
<1>1. 0 \in S
  <2>1. 0 \in 0..n /\ 0 \in 0..m /\ 0 <= 1
    OBVIOUS
  <2>2. g[0] = <<Eof, FALSE>> /\ h[0] = <<Eof, FALSE>>
    BY <2>1 DEF Reads
  <2> QED
    BY <2>2
<1>2. ASSUME NEW k \in S PROVE k + 1 \in S
  <2> SUFFICES ASSUME k + 1 <= n PROVE g[k + 1] = h[k + 1]
    OBVIOUS
  <2>1. k \in Nat /\ k + 1 \in 0..n /\ k + 1 \in 0..m /\ (k + 1) - 1 = k /\ g[k] = h[k]
    OBVIOUS
  <2> QED
    BY <2>1 DEF Reads
<1> HIDE DEF S
<1>3. S = Nat
  <2>1. S \in SUBSET Nat
    BY DEF S
  <2> QED
    BY <1>1, <1>2, <2>1, AllNumbers
<1> QED
  BY <1>3 DEF S

\* So the recursion that says where the strings of a text are defines a
\* function: each character's entry follows from the one before it.
LEMMA InStringReads ==
    ASSUME NEW t
    PROVE  \A i \in Nat : InString(t)[i] = IF i <= 1 THEN <<Eof, FALSE>> ELSE Reading(InString(t)[i - 1], t[i - 1])
<1> DEFINE G(n) == CHOOSE g : Reads(t, n, g)
           F == [i \in Nat |-> G(i)[i]]
           Def(g) == [i \in Nat |-> IF i <= 1 THEN <<Eof, FALSE>> ELSE Reading(g[i - 1], t[i - 1])]
<1>1. \A n \in Nat : Reads(t, n, G(n))
  BY ReadsExists
<1> HIDE DEF G
<1>2. ASSUME NEW i \in Nat PROVE F[i] = IF i <= 1 THEN <<Eof, FALSE>> ELSE Reading(F[i - 1], t[i - 1])
  <2>1. i \in 0..i /\ G(i)[i] = IF i <= 1 THEN <<Eof, FALSE>> ELSE Reading(G(i)[i - 1], t[i - 1])
    <3>1. i \in 0..i
      OBVIOUS
    <3>2. Reads(t, i, G(i))
      BY <1>1
    <3> QED
      BY <3>1, <3>2 DEF Reads
  <2>2. CASE i > 1
    <3>1. i - 1 \in Nat /\ i - 1 <= i /\ i - 1 \in 0..i - 1
      BY <2>2
    <3>2. G(i - 1)[i - 1] = G(i)[i - 1]
      BY <1>1, <3>1, ReadsUnique
    <3>3. F[i - 1] = G(i)[i - 1]
      BY <3>1, <3>2
    <3> QED
      BY <2>1, <2>2, <3>3
  <2> QED
    BY <2>1, <2>2
<1>3. F = Def(F)
  BY <1>2
<1>4. InString(t) = CHOOSE f : f = Def(f)
  BY DEF InString, Reading
<1> HIDE DEF F, Def
<1>5. \E f : f = Def(f)
  BY <1>3
<1>6. InString(t) = Def(InString(t))
  BY <1>4, <1>5
<1> QED
  BY <1>6 DEF Def

\* What a pragma's spaces and words are none of.
Marks == Quotes \cup {"}", Eof}

\* A `}` that ends a pragma.
Ends(i) == At(i) = "}" /\ InString(text)[i][1] = Eof

\* While a pragma is read, the scanner knows which string it is in, and has
\* passed no `}` that ends the pragma.
PragmaSoFar ==
    /\ at \in {"spaces", "brace", "word", "pragma"} => InString(text)[pos] = <<Eof, FALSE>>
    /\ at = "string" => /\ quote \in Quotes /\ InString(text)[pos][1] = quote
                        /\ pos <= Len(text) => ~InString(text)[pos][2]
    /\ at \in {"brace", "word", "pragma", "string"} => from < pos /\ \A i \in from..pos - 1 : ~Ends(i)
    /\ at # "done" => token = NoToken

PragmaInv == TypeOK /\ Inside /\ PragmaSoFar /\ PragmasEndOutsideStrings

\* What a character makes of a place outside of the strings, and of one in a
\* string.
LEMMA ReadingOutside ==
    ASSUME NEW c PROVE Reading(<<Eof, FALSE>>, c) = <<IF c \in Quotes THEN c ELSE Eof, FALSE>>
<1>1. <<Eof, FALSE>>[1] = Eof
  OBVIOUS
<1> QED
  BY <1>1, Zenon DEF Reading

\* In a string, a character after `$` is taken as it is, and the string's own
\* quote ends it.
LEMMA ReadingInside ==
    ASSUME NEW before, NEW c, before[1] # Eof
    PROVE  /\ before[2] => Reading(before, c) = <<before[1], FALSE>>
           /\ ~before[2] /\ c = "$" => Reading(before, c) = <<before[1], TRUE>>
           /\ ~before[2] /\ c # "$" =>
                 Reading(before, c) = <<IF c = before[1] THEN Eof ELSE before[1], FALSE>>
BY Zenon DEF Reading

\* Past a character, what it is read as in its string.
LEMMA ReadOn ==
    ASSUME text \in Seq(Chars), NEW i \in 1..Len(text) + 1, At(i) # Eof
    PROVE  /\ i \in 1..Len(text) /\ Advance(i) = i + 1
           /\ InString(text)[i + 1] = Reading(InString(text)[i], At(i))
<1>1. i \in 1..Len(text) /\ text[i] = At(i)
  BY InTheText
<1>2. i + 1 \in Nat /\ ~(i + 1 <= 1) /\ (i + 1) - 1 = i
  BY <1>1
<1>3. InString(text)[i + 1] = Reading(InString(text)[i], text[i])
  BY <1>2, InStringReads
<1> QED
  BY <1>1, <1>3 DEF Advance

\* In a string the scanner knows its quote, and is at no escaped character.
LEMMA InTheString ==
    ASSUME PragmaInv, at = "string", pos \in 1..Len(text)
    PROVE  /\ quote \in Quotes /\ quote # Eof
           /\ InString(text)[pos][1] = quote /\ ~InString(text)[pos][2]
<1>1. quote \in Quotes /\ InString(text)[pos][1] = quote /\ (pos <= Len(text) => ~InString(text)[pos][2])
  BY DEF PragmaInv, PragmaSoFar
<1>2. pos <= Len(text)
  <2>1. Len(text) \in Nat
    BY DEF PragmaInv, TypeOK
  <2> QED
    BY <2>1
<1>3. quote # Eof
  BY <1>1 DEF Quotes, Eof
<1> QED
  BY <1>1, <1>2, <1>3

\* A character passed outside of the strings, no quote and no `}`, keeps what
\* is known.
LEMMA PlainCharacter ==
    ASSUME PragmaInv, at \in {"spaces", "brace", "word", "pragma"}, at = "spaces" => from = pos,
           Look \notin Marks
    PROVE  /\ Advance(pos) = pos + 1 /\ InString(text)[pos + 1] = <<Eof, FALSE>>
           /\ from < pos + 1 /\ \A i \in from..pos : ~Ends(i)
<1>0. Look # Eof /\ Look \notin Quotes
  BY DEF Marks
<1>1. text \in Seq(Chars) /\ pos \in 1..Len(text) + 1 /\ pos \in Nat /\ from \in Nat /\ Len(text) \in Nat
  BY DEF PragmaInv, TypeOK
<1>2. /\ Advance(pos) = pos + 1
      /\ InString(text)[pos + 1] = Reading(InString(text)[pos], Look)
  BY <1>0, <1>1, ReadOn DEF Look
<1>3. InString(text)[pos] = <<Eof, FALSE>>
  BY DEF PragmaInv, PragmaSoFar
<1>4. InString(text)[pos + 1] = <<Eof, FALSE>>
  BY <1>0, <1>2, <1>3, ReadingOutside
<1>5. ~Ends(pos)
  BY DEF Marks, Ends, Look
<1>6. from < pos + 1 /\ \A i \in from..pos - 1 : ~Ends(i)
  <2>1. CASE at = "spaces"
    BY <1>1, <2>1
  <2>2. CASE at # "spaces"
    <3>1. from < pos /\ \A i \in from..pos - 1 : ~Ends(i)
      BY <2>2 DEF PragmaInv, PragmaSoFar
    <3> QED
      BY <1>1, <3>1
  <2> QED
    BY <2>1, <2>2
<1>7. \A i \in from..pos : i = pos \/ i \in from..pos - 1
  BY <1>1
<1>8. \A i \in from..pos : ~Ends(i)
  BY <1>5, <1>6, <1>7
<1> QED
  BY <1>2, <1>4, <1>6, <1>8

\* What a step that reads on in a pragma has to keep.
LEMMA PassedOn ==
    ASSUME PragmaInv, TypeOK', Inside', text' = text, from' = from, token' = token, at # "done",
           at' \in {"brace", "word", "pragma", "string"},
           from < pos', \A i \in from..pos' - 1 : ~Ends(i),
           at' # "string" => InString(text)[pos'] = <<Eof, FALSE>>,
           at' = "string" => /\ quote' \in Quotes /\ InString(text)[pos'][1] = quote'
                             /\ pos' <= Len(text) => ~InString(text)[pos'][2]
    PROVE  PragmaInv'
<1>1. \A i : Ends(i)' <=> Ends(i)
  BY DEF Ends, At
<1>2. PragmaSoFar'
  BY <1>1 DEF PragmaInv, PragmaSoFar
<1>3. PragmasEndOutsideStrings'
  BY DEF PragmasEndOutsideStrings
<1> QED
  BY <1>2, <1>3 DEF PragmaInv

\* A pragma is begun, or read on outside of its strings.
LEMMA PlainStep ==
    ASSUME PragmaInv, TypeOK', Inside', OpenPragma \/ PragmaSpace \/ PragmaWord \/ PragmaText
    PROVE  PragmaInv'
<1>1. /\ text' = text /\ from' = from /\ pos' = Advance(pos) /\ token' = token
      /\ at \in {"spaces", "brace", "word", "pragma"} /\ at' \in {"brace", "word", "pragma"}
      /\ Look \notin Marks
  BY DEF OpenPragma, PragmaSpace, PragmaWord, PragmaText, Marks, Quotes, Spaces, WordChars, KnownWord, Eof
<1>2. at = "spaces" => from = pos
  BY DEF PragmaInv, Inside
<1>3. /\ pos' = pos + 1 /\ InString(text)[pos + 1] = <<Eof, FALSE>>
      /\ from < pos + 1 /\ \A i \in from..pos : ~Ends(i)
  BY <1>1, <1>2, PlainCharacter
<1>4. pos \in Nat /\ (pos + 1) - 1 = pos
  BY DEF PragmaInv, TypeOK
<1> QED
  BY <1>1, <1>3, <1>4, PassedOn

\* The first word starts at the first character that is no space, and ends
\* before one that is of no word; a word the grammar knows is refused.
LEMMA WordStep ==
    ASSUME PragmaInv, TypeOK', Inside', PragmaBrace \/ PragmaWordEnds PROVE PragmaInv'
<1>1. /\ UNCHANGED <<text, pos, from, token, valid, word>>
      /\ at \in {"brace", "word"} /\ at' \in {"word", "pragma", "done"}
      /\ at' = "done" => word = <<KnownWord>>
  BY DEF PragmaBrace, PragmaWordEnds, Refuse, IsKnown
<1>2. CASE at' = "done"
  BY <1>1, <1>2 DEF PragmaInv, PragmaSoFar, PragmasEndOutsideStrings
<1>3. CASE at' # "done"
  <2>1. /\ from < pos /\ \A i \in from..pos - 1 : ~Ends(i)
        /\ InString(text)[pos] = <<Eof, FALSE>>
    BY <1>1 DEF PragmaInv, PragmaSoFar
  <2> QED
    BY <1>1, <1>3, <2>1, PassedOn
<1> QED
  BY <1>2, <1>3

\* The quotes of a string are no `}`.
LEMMA QuoteStep ==
    ASSUME PragmaInv, TypeOK', Inside', PragmaQuote \/ StringEnds PROVE PragmaInv'
<1>1. /\ text' = text /\ from' = from /\ pos' = Advance(pos) /\ token' = token
      /\ Look \in Quotes /\ Look # Eof /\ Look # "}" /\ Look # "$"
      /\ \/ at = "pragma" /\ at' = "string" /\ quote' = Look
         \/ at = "string" /\ at' = "pragma" /\ Look = quote
  BY DEF PragmaInv, PragmaSoFar, PragmaQuote, StringEnds, Quotes, Eof
<1>2. text \in Seq(Chars) /\ pos \in 1..Len(text) + 1 /\ pos \in Nat /\ from \in Nat /\ Len(text) \in Nat
  BY DEF PragmaInv, TypeOK
<1>3. /\ pos \in 1..Len(text) /\ pos' = pos + 1
      /\ InString(text)[pos + 1] = Reading(InString(text)[pos], Look)
  BY <1>1, <1>2, ReadOn DEF Look
<1>4. /\ from < pos /\ \A i \in from..pos - 1 : ~Ends(i)
      /\ ~Ends(pos)
  BY <1>1 DEF PragmaInv, PragmaSoFar, Ends, Look
<1>5. from < pos' /\ \A i \in from..pos' - 1 : ~Ends(i)
  <2>1. \A i \in from..pos' - 1 : i = pos \/ i \in from..pos - 1
    BY <1>2, <1>3
  <2> QED
    BY <1>2, <1>3, <1>4, <2>1
<1>6. CASE at = "pragma"
  <2>1. InString(text)[pos] = <<Eof, FALSE>>
    BY <1>6 DEF PragmaInv, PragmaSoFar
  <2>2. InString(text)[pos'] = <<Look, FALSE>>
    BY <1>1, <1>3, <2>1, ReadingOutside
  <2>3. InString(text)[pos'][1] = Look /\ ~InString(text)[pos'][2]
    BY <2>2
  <2>4. at' = "string" /\ quote' = Look
    BY <1>1, <1>6
  <2> QED
    BY <1>1, <1>5, <1>6, <2>3, <2>4, PassedOn
<1>7. CASE at = "string"
  <2>1. at' = "pragma" /\ Look = quote
    BY <1>1, <1>7
  <2>2. InString(text)[pos][1] = quote /\ ~InString(text)[pos][2]
    BY <1>2, <1>3, <1>7, InTheString
  <2>3. InString(text)[pos'] = <<Eof, FALSE>>
    BY <1>1, <1>3, <2>1, <2>2, ReadingInside
  <2> QED
    BY <1>1, <1>5, <1>7, <2>1, <2>3, PassedOn
<1> QED
  BY <1>1, <1>6, <1>7

\* A character in a string ends nothing, nor does the one a `$` takes.
LEMMA StringStep ==
    ASSUME PragmaInv, TypeOK', Inside', StringText PROVE PragmaInv'
<1>1. /\ text' = text /\ from' = from /\ token' = token /\ at = "string" /\ at' = "string" /\ quote' = quote
      /\ Look \notin {quote, Eof} /\ pos' = PastStringChar
  BY DEF StringText
<1>2. text \in Seq(Chars) /\ pos \in 1..Len(text) + 1 /\ pos \in Nat /\ from \in Nat /\ Len(text) \in Nat
  BY DEF PragmaInv, TypeOK
<1>3. /\ pos \in 1..Len(text) /\ Advance(pos) = pos + 1
      /\ InString(text)[pos + 1] = Reading(InString(text)[pos], Look)
  BY <1>1, <1>2, ReadOn DEF Look
<1>4. /\ from < pos /\ \A i \in from..pos - 1 : ~Ends(i)
      /\ quote \in Quotes /\ quote # Eof
      /\ InString(text)[pos][1] = quote /\ ~InString(text)[pos][2]
  <2>1. from < pos /\ \A i \in from..pos - 1 : ~Ends(i)
    BY <1>1 DEF PragmaInv, PragmaSoFar
  <2> QED
    BY <1>1, <1>3, <2>1, InTheString
<1>5. ~Ends(pos)
  BY <1>4 DEF Ends
<1>6. CASE Look # "$"
  <2>1. pos' = pos + 1 /\ InString(text)[pos'][1] = quote /\ ~InString(text)[pos'][2]
    <3>1. pos' = pos + 1
      BY <1>1, <1>3, <1>6 DEF PastStringChar
    <3>2. InString(text)[pos + 1] = <<quote, FALSE>>
      BY <1>1, <1>3, <1>4, <1>6, ReadingInside
    <3> QED
      BY <3>1, <3>2
  <2>2. \A i \in from..pos' - 1 : i = pos \/ i \in from..pos - 1
    BY <1>2, <2>1
  <2>3. from < pos' /\ \A i \in from..pos' - 1 : ~Ends(i)
    BY <1>2, <1>4, <1>5, <2>1, <2>2
  <2> QED
    BY <1>1, <1>4, <2>1, <2>3, PassedOn
<1>7. CASE Look = "$"
  <2>1. pos' = Advance(pos + 1) /\ InString(text)[pos + 1][1] = quote /\ InString(text)[pos + 1][2]
    <3>1. pos' = Advance(pos + 1)
      BY <1>1, <1>3, <1>7 DEF PastStringChar
    <3>2. InString(text)[pos + 1] = <<quote, TRUE>>
      BY <1>3, <1>4, <1>7, ReadingInside
    <3> QED
      BY <3>1, <3>2
  <2>2. ~Ends(pos + 1)
    BY <1>4, <2>1 DEF Ends
  <2>3. CASE pos + 1 \in 1..Len(text)
    <3>1. At(pos + 1) # Eof
      BY <1>2, <2>3 DEF At
    <3>2. /\ pos' = (pos + 1) + 1
          /\ InString(text)[(pos + 1) + 1] = Reading(InString(text)[pos + 1], At(pos + 1))
      <4>1. pos + 1 \in 1..Len(text) + 1
        BY <1>2, <2>3
      <4> QED
        BY <1>2, <2>1, <3>1, <4>1, ReadOn
    <3>3. InString(text)[pos'][1] = quote /\ ~InString(text)[pos'][2]
      <4>1. InString(text)[pos'] = <<quote, FALSE>>
        BY <1>4, <2>1, <3>2, ReadingInside
      <4> QED
        BY <4>1
    <3>4. \A i \in from..pos' - 1 : i = pos \/ i = pos + 1 \/ i \in from..pos - 1
      BY <1>2, <3>2
    <3>5. from < pos' /\ \A i \in from..pos' - 1 : ~Ends(i)
      BY <1>2, <1>4, <1>5, <2>2, <3>2, <3>4
    <3> QED
      BY <1>1, <1>4, <3>3, <3>5, PassedOn
  <2>4. CASE pos + 1 \notin 1..Len(text)
    <3>1. pos' = pos + 1 /\ ~(pos' <= Len(text))
      BY <1>2, <2>1, <2>4 DEF Advance
    <3>2. \A i \in from..pos' - 1 : i = pos \/ i \in from..pos - 1
      BY <1>2, <3>1
    <3>3. from < pos' /\ \A i \in from..pos' - 1 : ~Ends(i)
      BY <1>2, <1>4, <1>5, <3>1, <3>2
    <3>4. InString(text)[pos'][1] = quote
      BY <2>1, <3>1
    <3> QED
      BY <1>1, <1>4, <3>1, <3>3, <3>4, PassedOn
  <2> QED
    BY <2>3, <2>4
<1> QED
  BY <1>6, <1>7

\* A pragma ends with the first `}` in no string, and is refused at the end of
\* a text that has none.
LEMMA PragmaEndStep ==
    ASSUME PragmaInv, TypeOK', Inside', PragmaClose \/ PragmaUnclosed PROVE PragmaInv'
<1>1. /\ text' = text /\ from' = from /\ at \in {"pragma", "string"} /\ at' = "done" /\ token = NoToken
  BY DEF PragmaInv, PragmaSoFar, PragmaClose, PragmaUnclosed, Accept, Refuse
<1>2. text \in Seq(Chars) /\ pos \in 1..Len(text) + 1 /\ pos \in Nat /\ from \in Nat /\ Len(text) \in Nat
  BY DEF PragmaInv, TypeOK
<1>3. from < pos /\ \A i \in from..pos - 1 : ~Ends(i)
  BY <1>1 DEF PragmaInv, PragmaSoFar
<1>4. PragmaEnds' = {i \in from..Len(text) : Ends(i)}
  BY <1>1 DEF PragmaEnds, Ends, At
<1>5. CASE PragmaClose
  <2>1. Look = "}" /\ Look # Eof /\ token' = "PRAGMA" /\ pos' = Advance(pos) /\ at = "pragma"
    BY <1>5 DEF PragmaClose, Accept, Eof
  <2>2. pos \in 1..Len(text) /\ pos' = pos + 1
    BY <1>2, <2>1, ReadOn DEF Look
  <2>3. Ends(pos)
    <3>1. InString(text)[pos] = <<Eof, FALSE>>
      BY <2>1 DEF PragmaInv, PragmaSoFar
    <3>2. InString(text)[pos][1] = Eof
      BY <3>1
    <3> QED
      BY <2>1, <3>2 DEF Ends, Look
  <2>4. pos' - 1 = pos /\ pos \in PragmaEnds'
    BY <1>2, <1>3, <1>4, <2>2, <2>3
  <2>5. \A i \in PragmaEnds' : pos <= i
    <3>1. \A i \in from..Len(text) : i \in from..pos - 1 \/ pos <= i
      BY <1>2
    <3> QED
      BY <1>3, <1>4, <3>1
  <2>6. PragmasEndOutsideStrings'
    BY <2>1, <2>4, <2>5 DEF PragmasEndOutsideStrings
  <2> QED
    BY <1>1, <2>6 DEF PragmaInv, PragmaSoFar
<1>6. CASE PragmaUnclosed
  <2>1. token' = NoToken /\ pos = Len(text) + 1
    BY <1>1, <1>2, <1>6, AtTheEnd DEF PragmaUnclosed, Refuse, Look
  <2>2. PragmaEnds' = {}
    BY <1>2, <1>3, <1>4, <2>1
  <2>3. PragmasEndOutsideStrings'
    BY <2>1, <2>2 DEF PragmasEndOutsideStrings
  <2> QED
    BY <1>1, <2>3 DEF PragmaInv, PragmaSoFar
<1> QED
  BY <1>5, <1>6

\* What is no pragma starts with no brace, or is asked for no pragma.
LEMMA NoPragmaStep ==
    ASSUME PragmaInv, TypeOK', Inside',
           \/ NothingIsAskedFor \/ Sign \/ NoStart \/ OpenComment
           \/ CommentClose \/ CommentOpen \/ CommentText \/ CommentUnclosed
    PROVE  PragmaInv'
<1>1. /\ text' = text /\ from' = from /\ valid' = valid
      /\ at \in {"spaces", "comment"} /\ at' \in {"comment", "done"}
      /\ at' # "done" => token' = NoToken
      /\ at = "spaces" => from = pos
  BY DEF PragmaInv, PragmaSoFar, Inside, NothingIsAskedFor, Sign, NoStart, OpenComment, CommentClose,
     CommentOpen, CommentText, CommentUnclosed, Accept, Refuse
<1>2. At(from) # "{" \/ "PRAGMA" \notin valid
  <2>1. CASE at = "comment"
    BY <2>1 DEF PragmaInv, Inside, At
  <2>2. CASE at = "spaces"
    BY <1>1, <2>2 DEF NothingIsAskedFor, Sign, NoStart, OpenComment, CommentClose, CommentOpen,
       CommentText, CommentUnclosed, Look
  <2> QED
    BY <1>1, <2>1, <2>2
<1>3. PragmasEndOutsideStrings'
  BY <1>1, <1>2 DEF PragmasEndOutsideStrings, At
<1> QED
  BY <1>1, <1>3 DEF PragmaInv, PragmaSoFar

\* The spaces before a token hold no quote.
LEMMA SkipSpaceStep ==
    ASSUME PragmaInv, TypeOK', Inside', SkipSpace PROVE PragmaInv'
<1>1. /\ text' = text /\ pos' = Advance(pos) /\ token' = token /\ at = "spaces" /\ at' = at
      /\ Look \notin Marks /\ from = pos
  BY DEF PragmaInv, Inside, SkipSpace, Marks, Quotes, Spaces, Eof
<1>2. pos' = pos + 1 /\ InString(text)[pos + 1] = <<Eof, FALSE>>
  BY <1>1, PlainCharacter
<1> QED
  BY <1>1, <1>2 DEF PragmaInv, PragmaSoFar, PragmasEndOutsideStrings

\* Every step keeps it.
LEMMA PragmaStep ==
    ASSUME PragmaInv, [Next]_vars PROVE PragmaInv'
<1>1. TypeOK' /\ Inside'
  BY StepTypes DEF PragmaInv
<1>2. CASE UNCHANGED vars
  <2>1. /\ UNCHANGED <<text, valid, at, pos, from, word, quote, token>>
        /\ \A i : Ends(i)' <=> Ends(i)
    BY <1>2 DEF vars, Ends, At
  <2>2. PragmaSoFar'
    BY <2>1 DEF PragmaInv, PragmaSoFar
  <2>3. PragmasEndOutsideStrings'
    BY <2>1 DEF PragmaInv, PragmasEndOutsideStrings, PragmaEnds, At
  <2> QED
    BY <1>1, <2>2, <2>3 DEF PragmaInv
<1> QED
  BY <1>1, <1>2, PlainStep, WordStep, QuoteStep, StringStep, PragmaEndStep, NoPragmaStep,
     SkipSpaceStep DEF Next

\* In every reachable state.
LEMMA PragmaHolds == Spec => []PragmaInv
<1>1. Init => PragmaInv
  <2> SUFFICES ASSUME Init PROVE PragmaInv
    OBVIOUS
  <2>1. TypeOK /\ Inside
    BY InitTypes
  <2>2. InString(text)[1] = <<Eof, FALSE>>
    <3>1. 1 \in Nat /\ 1 <= 1
      OBVIOUS
    <3> QED
      BY <3>1, InStringReads
  <2> QED
    BY <2>1, <2>2 DEF Init, PragmaInv, PragmaSoFar, PragmasEndOutsideStrings
<1>2. PragmaInv /\ [Next]_vars => PragmaInv'
  BY PragmaStep
<1> QED
  BY <1>1, <1>2, PTL DEF Spec

\* Whatever the text, a pragma's token ends after the first `}` that is in
\* none of its strings, and a text without one has no pragma
\* (scanner.c:70-91).
THEOREM PragmasAlwaysEndOutsideStrings == Spec => []PragmasEndOutsideStrings
<1>1. PragmaInv => PragmasEndOutsideStrings
  BY DEF PragmaInv
<1> QED
  BY <1>1, PragmaHolds, PTL

-----------------------------------------------------------------------------
(* The call gets on.                                                         *)

\* Between two characters a loop hands over to one further on.
Rank(p) ==
    CASE p = "brace" -> 3
      [] p = "word"  -> 2
      [] p = "done"  -> 0
      [] OTHER       -> 1

\* What a call has left: the characters before it, and the loops for the one
\* it is at.
ToScan == 4 * (Len(text) + 1 - pos) + Rank(at)

\* A loop has one of four ranks.
LEMMA RankIsSmall == ASSUME NEW p PROVE Rank(p) \in 0..3
BY DEF Rank

\* What is counted, in numbers.
LEMMA LessIsLess ==
    ASSUME NEW l \in Nat, NEW p \in Nat, NEW q \in Nat, NEW r \in 0..3, NEW s \in 0..3, r # 0,
           q > p \/ (q = p /\ s < r)
    PROVE  4 * (l + 1 - q) + s < 4 * (l + 1 - p) + r
OBVIOUS

\* A step past a character, or to a loop further on, leaves less.
LEMMA LessToScan ==
    ASSUME TypeOK, text' = text, pos' \in Nat, at # "done",
           pos' > pos \/ (pos' = pos /\ Rank(at') < Rank(at))
    PROVE  ToScan' < ToScan
<1>1. pos \in Nat /\ Len(text) \in Nat
  BY DEF TypeOK
<1>2. Rank(at) \in 0..3 /\ Rank(at') \in 0..3 /\ Rank(at) # 0
  BY RankIsSmall DEF Rank
<1>3. ToScan = 4 * (Len(text) + 1 - pos) + Rank(at)
      /\ ToScan' = 4 * (Len(text) + 1 - pos') + Rank(at')
  BY DEF ToScan
<1>4. 4 * (Len(text) + 1 - pos') + Rank(at') < 4 * (Len(text) + 1 - pos) + Rank(at)
  BY <1>1, <1>2, LessIsLess
<1> QED
  BY <1>3, <1>4

\* Reading on, where there is a character, passes it.
LEMMA AdvancePasses ==
    ASSUME TypeOK, Look # Eof
    PROVE  /\ Advance(pos) \in Nat /\ Advance(pos) > pos
           /\ Advance(Advance(pos)) \in Nat /\ Advance(Advance(pos)) > pos
<1>1. text \in Seq(Chars) /\ Len(text) \in Nat
  BY DEF TypeOK
<1>2. pos \in 1..Len(text)
  BY <1>1, InTheText DEF Look
<1>3. Advance(pos) = pos + 1
  BY <1>2 DEF Advance
<1>4. Advance(pos + 1) \in {pos + 1, pos + 2}
  BY <1>2 DEF Advance
<1> QED
  BY <1>2, <1>3, <1>4

\* Every action leaves less.
LEMMA StepScansOn ==
    ASSUME PragmaInv, Next PROVE ToScan' < ToScan
<1>0. TypeOK /\ pos \in Nat
  BY DEF PragmaInv, TypeOK
<1>1. ASSUME Refuse, text' = text, at # "done" PROVE ToScan' < ToScan
  <2>1. pos' = pos /\ Rank(at') = 0 /\ Rank(at) \in 1..3
    BY <1>1, RankIsSmall DEF Refuse, Rank
  <2> QED
    BY <1>0, <1>1, <2>1, LessToScan
<1>2. ASSUME Look # Eof, text' = text, at # "done",
             pos' \in {Advance(pos), Advance(Advance(pos)), pos + 1, pos + 2}
      PROVE  ToScan' < ToScan
  <2>1. pos + 1 \in Nat /\ pos + 1 > pos /\ pos + 2 \in Nat /\ pos + 2 > pos
    BY <1>0
  <2>2. pos' \in Nat /\ pos' > pos
    BY <1>0, <1>2, <2>1, AdvancePasses
  <2> QED
    BY <1>0, <1>2, <2>2, LessToScan
<1>3. CASE NothingIsAskedFor \/ NoStart \/ CommentUnclosed \/ PragmaUnclosed
  <2>1. Refuse /\ text' = text /\ at # "done"
    BY <1>3 DEF NothingIsAskedFor, NoStart, CommentUnclosed, PragmaUnclosed
  <2> QED
    BY <1>1, <2>1
<1>4. CASE Sign
  <2>1. at # "done" /\ text' = text /\ Look # Eof /\ (Refuse \/ pos' = pos + 1)
    BY <1>4 DEF Sign, Accept, Eof
  <2> QED
    BY <1>1, <1>2, <2>1
<1>5. CASE OpenComment
  <2>1. at # "done" /\ text' = text /\ Look # Eof /\ pos' = pos + 2
    BY <1>5 DEF OpenComment, Eof
  <2> QED
    BY <1>2, <2>1
<1>6. CASE CommentClose \/ CommentOpen
  <2>1. at = "comment" /\ text' = text /\ (Opens(pos) \/ Closes(pos)) /\ pos' = pos + 2
    BY <1>6 DEF CommentClose, CommentOpen, Accept, PastPair
  <2>2. text[from] \in {"(", "/"}
    BY <2>1 DEF PragmaInv, Inside
  <2>3. Look # Eof
    BY <2>1, <2>2 DEF Opens, Closes, Look, Eof
  <2> QED
    BY <1>2, <2>1, <2>3
<1>7. CASE SkipSpace \/ OpenPragma \/ PragmaSpace \/ PragmaWord
  <2>1. at # "done" /\ text' = text /\ Look # Eof /\ pos' = Advance(pos)
    BY <1>7 DEF SkipSpace, OpenPragma, PragmaSpace, PragmaWord, Spaces, WordChars, KnownWord, Eof
  <2> QED
    BY <1>2, <2>1
<1>8. CASE CommentText \/ PragmaText \/ StringText
  <2>1. at # "done" /\ text' = text /\ Look # Eof /\ pos' \in {Advance(pos), Advance(Advance(pos))}
    BY <1>8 DEF CommentText, PragmaText, StringText, PastStringChar
  <2> QED
    BY <1>2, <2>1
<1>9. CASE PragmaClose \/ PragmaQuote \/ StringEnds
  <2>1. at = "string" => quote \in Quotes
    BY DEF PragmaInv, PragmaSoFar
  <2>2. at # "done" /\ text' = text /\ Look # Eof /\ pos' = Advance(pos)
    BY <1>9, <2>1 DEF PragmaClose, PragmaQuote, StringEnds, Accept, Quotes, Eof
  <2> QED
    BY <1>2, <2>2
<1>10. CASE PragmaBrace
  <2>1. at = "brace" /\ at' = "word" /\ pos' = pos /\ text' = text
    BY <1>10 DEF PragmaBrace
  <2> QED
    BY <1>0, <2>1, LessToScan DEF Rank
<1>11. CASE PragmaWordEnds
  <2>1. at = "word" /\ text' = text /\ (Refuse \/ (at' = "pragma" /\ pos' = pos))
    BY <1>11 DEF PragmaWordEnds
  <2>2. CASE at' = "pragma" /\ pos' = pos
    BY <1>0, <2>1, <2>2, LessToScan DEF Rank
  <2> QED
    BY <1>1, <2>1, <2>2
<1> QED
  BY <1>3, <1>4, <1>5, <1>6, <1>7, <1>8, <1>9, <1>10, <1>11 DEF Next

\* Each step of a call leaves less of it, also in a string that nothing
\* closes and in a comment that is never closed: a call that goes on ends,
\* within four steps for a character (scanner.c:48-91, 142-144, 182-197).
THEOREM EveryStepScansOn == Spec => [](ToScan \in Nat) /\ [][ToScan' < ToScan]_vars
<1>1. PragmaInv => ToScan \in Nat
  <2> SUFFICES ASSUME PragmaInv PROVE ToScan \in Nat
    OBVIOUS
  <2>1. Len(text) \in Nat /\ pos \in 1..Len(text) + 1 /\ Rank(at) \in 0..3
    BY RankIsSmall DEF PragmaInv, TypeOK
  <2>2. Len(text) + 1 - pos \in Nat /\ Rank(at) \in Nat
    BY <2>1
  <2>3. ASSUME NEW l \in Nat, NEW r \in Nat PROVE 4 * l + r \in Nat
    OBVIOUS
  <2>4. 4 * (Len(text) + 1 - pos) + Rank(at) \in Nat
    BY <2>2, <2>3
  <2> QED
    BY <2>4 DEF ToScan
<1>2. PragmaInv /\ [Next]_vars => [ToScan' < ToScan]_vars
  BY StepScansOn
<1> QED
  BY <1>1, <1>2, PragmaHolds, PTL DEF Spec
=============================================================================
