---------------------------- MODULE JsonGrammar ----------------------------
(***************************************************************************)
(* What json_parser_r1.cc accepts, as a grammar, and that it does.        *)
(*                                                                         *)
(* A reading of the input from position i on is a pair: what was read, and *)
(* the position behind it.  An operator yields the set of all readings, so *)
(* the grammar knows neither a look-ahead nor an order of alternatives.    *)
(***************************************************************************)
EXTENDS JsonParser

Size == Len(input)
Positions == 1 .. Size + 1
Has(option) == option \in options
Is(i, c) == i <= Size /\ input[i] = c

QuoteAt(i) == Is(i, "\"")
CommaAt(i) == Is(i, ",")
ColonAt(i) == Is(i, ":")

-----------------------------------------------------------------------------
(* White space and comments: the positions they may reach.  A comment that *)
(* is not closed reaches the end of the input.  LineEnd and BlockEnd are   *)
(* the positions behind a comment of which i is inside.                    *)

LineEnd(i) ==
  LET breaks == {k \in i .. Size : input[k] \in LineBreaks}
  IN IF breaks = {} THEN Size + 1 ELSE Min(breaks)

BlockEnd(i) ==
  LET closes == {k \in i .. Size : Is(k, "*") /\ Is(k + 1, "/")}
  IN IF closes = {} THEN Size + 1 ELSE Min(closes) + 2

Commented(i, c) == Has("JSON_ALLOW_COMMENTS") /\ Is(i, "/") /\ Is(i + 1, c)

Space[i \in Positions] ==
  {i}
    \cup (IF i <= Size /\ input[i] \in Blanks \cup LineBreaks
            THEN Space[i + 1] ELSE {})
    \cup (IF Commented(i, "/") THEN Space[LineEnd(i)] ELSE {})
    \cup (IF Commented(i, "*") THEN Space[BlockEnd(i + 2)] ELSE {})

-----------------------------------------------------------------------------
(* Numbers: digits, a fraction, an exponent.                               *)

AreDigits(a, b) == a <= b /\ \A n \in a .. b : input[n] \in Digits

IsWhole(a, b) == AreDigits(a, b) /\ (a < b => input[a] # "0")
IsFraction(a, b) == a > b \/ (input[a] = "." /\ AreDigits(a + 1, b))
IsExponent(a, b) ==
  \/ a > b
  \/ /\ input[a] = "e"
     /\ \/ AreDigits(a + 1, b)
        \/ a < b /\ input[a + 1] \in {"-", "+"} /\ AreDigits(a + 2, b)

IsFinite(a, b) == (\E n \in a .. b : input[n] = "9") => input[a + 1] = "-"

(* The characters from i to k are a number.                                *)
IsNumber(i, k) ==
  LET first == IF input[i] = "-" THEN i + 1 ELSE i
  IN \E p, q \in i .. k :
       /\ p <= q
       /\ IsWhole(first, p)
       /\ IsFraction(p + 1, q)
       /\ IsExponent(q + 1, k)
       /\ IsFinite(q + 1, k)

-----------------------------------------------------------------------------
(* Strings.                                                                *)

IsUnit(i) == /\ Is(i, "\\") /\ Is(i + 1, "u")
             /\ i + 5 <= Size /\ \A k \in i + 2 .. i + 5 : input[k] \in HexDigits
UnitAt(i) == SubSeq(input, i + 2, i + 5)

ReplacedUpTo(k) ==
  IF Has("JSON_REPLACE_INVALID_CHARACTERS") THEN {<<Replacement, k>>} ELSE {}

(* \u escapes; a lead surrogate takes the \u escape behind it with it, be  *)
(* that a trail or not.                                                    *)
LeadsAt(i) == IsLead(UnitAt(i)) /\ Is(i + 6, "\\") /\ Is(i + 7, "u")

SurrogatesAt(i) ==
  CASE ~IsUnit(i + 6) -> {}
    [] IsUnit(i + 6) /\ IsTrail(UnitAt(i + 6)) ->
         {<<UnitAt(i) \o UnitAt(i + 6), i + 12>>}
    [] OTHER -> ReplacedUpTo(i + 12)

UnicodeAt(i) ==
  CASE ~IsUnit(i) -> {}
    [] IsUnit(i) /\ ~IsSurrogate(UnitAt(i)) -> {<<UnitAt(i), i + 6>>}
    [] IsUnit(i) /\ LeadsAt(i) -> SurrogatesAt(i)
    [] OTHER -> ReplacedUpTo(i + 6)

Escaped ==
  {<<"\"", "\"">>, <<"\\", "\\">>, <<"/", "/">>, <<"b", "backspace">>,
   <<"f", "form feed">>, <<"n", "\n">>, <<"r", "\r">>, <<"t", "\t">>}
    \cup (IF Has("JSON_ALLOW_VERT_TAB") THEN {<<"v", "vertical tab">>} ELSE {})

EscapeAt(i) ==
  {<<<<e[2]>>, i + 2>> : e \in {f \in Escaped : Is(i + 1, f[1])}}
    \cup (IF /\ Has("JSON_ALLOW_X_ESCAPES")
             /\ Is(i + 1, "x")
             /\ i + 3 <= Size
             /\ input[i + 2] \in HexDigits /\ input[i + 3] \in HexDigits
            THEN {<<SubSeq(input, i + 2, i + 3), i + 4>>} ELSE {})
    \cup UnicodeAt(i)

CharAt(i) ==
  CASE input[i] \in {"\"", "ctl", "\t"} -> {}
    [] input[i] = "\\" -> EscapeAt(i)
    [] input[i] \in LineBreaks ->
         IF Has("JSON_ALLOW_NEWLINES_IN_STRINGS")
           THEN {<<<<input[i]>>, i + 1>>} ELSE {}
    [] input[i] = "bad" ->
         IF Has("JSON_REPLACE_INVALID_CHARACTERS")
           THEN {<<Replacement, i + 1>>} ELSE {}
    [] OTHER -> {<<<<input[i]>>, i + 1>>}

(* One piece, and what may follow it.                                      *)
Followed(piece, rests) == {<<<<piece[1]>> \o r[1], r[2]>> : r \in rests}

(* The rest of a string.                                                   *)
Chars[i \in Positions] ==
  IF i > Size THEN {}
  ELSE IF QuoteAt(i) THEN {<<<<>>, i + 1>>}
  ELSE UNION {Followed(c, Chars[c[2]]) : c \in CharAt(i)}

StringAt(i) == IF QuoteAt(i) THEN Chars[i + 1] ELSE {}

-----------------------------------------------------------------------------
(* Containers.  values are the readings of what they may contain, at each  *)
(* position; their members are pairs of a key and a value.                 *)

Opener(kind) == IF kind = "list" THEN "[" ELSE "{"
Closer(kind) == IF kind = "list" THEN "]" ELSE "}"

(* The last of several equal keys wins.                                    *)
Contained(kind, pairs) ==
  IF kind = "list" THEN <<"list", [n \in DOMAIN pairs |-> pairs[n][2]]>>
  ELSE <<"dict", [k \in {pairs[n][1] : n \in DOMAIN pairs} |->
           pairs[CHOOSE n \in DOMAIN pairs :
                   /\ pairs[n][1] = k
                   /\ \A l \in n + 1 .. Len(pairs) : pairs[l][1] # k][2]]>>

(* A value behind white space, and one behind a colon.                     *)
SpacedAt(values, i) == UNION {values[start] : start \in Space[i]}
ColonsAt(i) == {colon \in Space[i] : ColonAt(colon)}
AssignedAt(values, i) == UNION {SpacedAt(values, c + 1) : c \in ColonsAt(i)}

PairsOf(values, k) ==
  {<<<<k[1], v[1]>>, v[2]>> : v \in AssignedAt(values, k[2])}
PairsAt(values, i) == UNION {PairsOf(values, k) : k \in StringAt(i)}

MemberAt(values, kind, i) ==
  IF kind = "list" THEN {<<<<<<>>, v[1]>>, v[2]>> : v \in values[i]}
                   ELSE PairsAt(values, i)

(* The closing bracket, from a position on, and at once.                   *)
Closings(kind, i) == {<<<<>>, e + 1>> : e \in {s \in Space[i] : Is(s, Closer(kind))}}
ClosingAt(kind, i) == IF Is(i, Closer(kind)) THEN {<<<<>>, i + 1>>} ELSE {}

(* What may follow a member: the closing bracket, or a comma and more.     *)
RestAt(kind, more, i) ==
  ClosingAt(kind, i)
    \cup (IF CommaAt(i)
            THEN more[i + 1] \cup (IF Has("JSON_ALLOW_TRAILING_COMMAS")
                                     THEN Closings(kind, i + 1) ELSE {})
            ELSE {})

(* One member or more, and the closing bracket: at once, and behind white  *)
(* space.                                                                  *)
BehindMember(kind, more, m) ==
  UNION {Followed(m, RestAt(kind, more, e)) : e \in Space[m[2]]}
MembersAt(values, kind, more, i) ==
  UNION {BehindMember(kind, more, m) : m \in MemberAt(values, kind, i)}

Members(values, kind) ==
  LET members[i \in Positions] ==
        UNION {MembersAt(values, kind, members, start) : start \in Space[i]}
  IN members

ContainerAt(values, kind, i) ==
  IF Is(i, Opener(kind))
    THEN {<<Contained(kind, r[1]), r[2]>> :
            r \in Members(values, kind)[i + 1] \cup Closings(kind, i + 1)}
    ELSE {}

-----------------------------------------------------------------------------
(* Values.  depth is how many containers may still be opened.              *)

NumbersAt(i) ==
  {<<<<"number", SubSeq(input, i, e - 1)>>, e>> :
     e \in {k \in i + 1 .. Size + 1 : IsNumber(i, k - 1)}}

LiteralsAt(i) ==
  {<<<<"literal", l>>, i + Len(l)>> :
     l \in {m \in {<<"t", "r", "u", "e">>, <<"n", "u", "l", "l">>,
                   <<"f", "a", "l", "s", "e">>} :
              \A n \in 1 .. Len(m) : Is(i + n - 1, m[n])}}

StringsAt(i) == {<<<<"string", s[1]>>, s[2]>> : s \in StringAt(i)}

Values[depth \in Nat] ==
  [i \in Positions |->
     NumbersAt(i) \cup LiteralsAt(i) \cup StringsAt(i)
       \cup (IF depth = 0 THEN {}
             ELSE ContainerAt(Values[depth - 1], "list", i)
                    \cup ContainerAt(Values[depth - 1], "dict", i))]

(* The values the whole input may be read as.                              *)
Document ==
  LET nesting == IF MaxDepth = 0 THEN 0 ELSE MaxDepth - 1
      first == IF Is(1, "bom") THEN 2 ELSE 1
  IN {v[1] : v \in {w \in SpacedAt(Values[nesting], first) :
                      Size + 1 \in Space[w[2]]}}

-----------------------------------------------------------------------------
(* Parse returns the one value the grammar reads in the whole input, and   *)
(* none when the grammar reads none: the values of equal keys, surrogates, *)
(* trailing commas, comments and the nesting bound included.               *)
ParsesTheGrammar ==
  pc = "done" => Document = IF result = NoValue THEN {} ELSE {result}

=============================================================================
