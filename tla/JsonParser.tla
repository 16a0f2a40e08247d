----------------------------- MODULE JsonParser -----------------------------
(***************************************************************************)
(* base::internal::JSONParser of json_parser_r1.cc: one call of Parse.     *)
(*                                                                         *)
(* The parser is a recursive descent over a byte string.  Here the calls   *)
(* of ConsumeDictionary and ConsumeList that have not returned are the     *)
(* elements of stack, and a step reads a byte of white space or of a       *)
(* comment, a piece of a string, or a whole number or literal.  GetNextToken *)
(* is called in seven places; then tells which one the token is for.       *)
(*                                                                         *)
(* The input is a sequence of characters, each a TLA+ string: "utf8" is    *)
(* any non-ASCII character, "bad" a byte that is not UTF-8, "ctl" a        *)
(* control character, "bom" a byte order mark; "end" is none of them.      *)
(***************************************************************************)
EXTENDS Integers, Sequences, FiniteSets, SequencesExt

CONSTANTS
  Inputs,       \* what may be parsed
  OptionSets,   \* the sets of options it may be parsed with
  MaxDepth      \* max_depth_

Options == {"JSON_ALLOW_COMMENTS", "JSON_ALLOW_TRAILING_COMMAS",
            "JSON_REPLACE_INVALID_CHARACTERS", "JSON_ALLOW_X_ESCAPES",
            "JSON_ALLOW_VERT_TAB", "JSON_ALLOW_NEWLINES_IN_STRINGS"}

ASSUME JsonAssumption ==
  /\ \A s \in Inputs : s \in Seq(STRING) /\ \A n \in DOMAIN s : s[n] # "end"
  /\ OptionSets \subseteq SUBSET Options
  /\ MaxDepth \in Nat

VARIABLES
  input, options,
  index, line_number, index_last_line,
  pc,               \* what is being read
  then, token,      \* the caller of GetNextToken, and what it gets
  previous_char,    \* in a block comment
  stack,            \* the containers being read, the innermost last
  string, key,      \* the string being read; whether it is a key
  result,
  error

position == <<index, line_number, index_last_line>>
vars == <<input, options, position, pc, then, token, previous_char, stack,
          string, key, result, error>>

NoValue == <<"none">>
NoError == [code |-> "JSON_NO_ERROR", line |-> 0, column |-> 0]

(* Parse, up to the first token: the byte order mark is skipped.           *)
Init ==
  /\ input \in Inputs
  /\ options \in OptionSets
  /\ index = IF input # <<>> /\ input[1] = "bom" THEN 1 ELSE 0
  /\ line_number = 1
  /\ index_last_line = -1
  /\ pc = "eat"
  /\ then = "value"
  /\ token = "T_END_OF_INPUT"
  /\ previous_char = ""
  /\ stack = <<>>
  /\ string = <<>>
  /\ key = FALSE
  /\ result = NoValue
  /\ error = NoError

-----------------------------------------------------------------------------
(* Reading characters.                                                     *)

PeekChars(count) ==
  IF count > Len(input) - index THEN <<>>
  ELSE SubSeq(input, index + 1, index + count)

PeekChar == IF index < Len(input) THEN input[index + 1] ELSE "end"

ConsumeChars(count) ==
  index' = index + count /\ UNCHANGED <<line_number, index_last_line>>

LineBreaks == {"\n", "\r"}

(* A mutant of ConsumeLineBreak: "\r\n" counts as two line breaks.         *)
ConsumeLineBreakTwice ==
  /\ index' = index + 1
  /\ index_last_line' = index
  /\ line_number' = line_number + 1

(* A line break counts once: not again for the second half of "\r\n".      *)
ConsumeLineBreak ==
  /\ index' = index + 1
  /\ index_last_line' = index
  /\ line_number' = IF PeekChar = "\n" /\ index > 0 /\ input[index] = "\r"
                      THEN line_number ELSE line_number + 1

-----------------------------------------------------------------------------
(* Errors and results.                                                     *)

(* ReportError.                                                            *)
Reported(code, column_adjust) ==
  [code |-> code, line |-> line_number,
   column |-> LET column == index' - index_last_line' + column_adjust
              IN IF column < 1 THEN 1 ELSE column]

(* An error unwinds every call; consumed: what was read before it.         *)
ParseError(code, column_adjust, consumed) ==
  /\ ConsumeChars(consumed)
  /\ error' = Reported(code, column_adjust)
  /\ result' = NoValue
  /\ stack' = <<>>
  /\ pc' = "done"
  /\ UNCHANGED <<input, options, then, token, previous_char, string, key>>

(* GetNextToken is called next, by the given caller.                       *)
NextTokenFor(caller) ==
  /\ pc' = "eat"
  /\ then' = caller
  /\ UNCHANGED <<input, options, token, previous_char, error>>

(* A value has been read: it is the root, or goes to its container.        *)
Return(value, containers) ==
  IF containers = <<>>
    THEN /\ result' = value
         /\ stack' = <<>>
         /\ NextTokenFor("end")
    ELSE LET n == Len(containers)
         IN /\ stack' = [containers EXCEPT ![n].values =
                           Append(@, <<containers[n].key, value>>)]
            /\ UNCHANGED result
            /\ NextTokenFor("separator")

-----------------------------------------------------------------------------
(* GetNextToken: white space and comments, then a look at one character.   *)

Blanks == {" ", "\t"}
Digits == {"0", "1", "2", "3", "4", "5", "6", "7", "8", "9"}
HexDigits == Digits \cup {"a", "b", "c", "d", "e", "f"}

TokenOf(c) ==
  CASE c = "{" -> "T_OBJECT_BEGIN"
    [] c = "}" -> "T_OBJECT_END"
    [] c = "[" -> "T_ARRAY_BEGIN"
    [] c = "]" -> "T_ARRAY_END"
    [] c = "\"" -> "T_STRING"
    [] c \in Digits \cup {"-"} -> "T_NUMBER"
    [] c = "t" -> "T_BOOL_TRUE"
    [] c = "f" -> "T_BOOL_FALSE"
    [] c = "n" -> "T_NULL"
    [] c = "," -> "T_LIST_SEPARATOR"
    [] c = ":" -> "T_OBJECT_PAIR_SEPARATOR"
    [] c = "end" -> "T_END_OF_INPUT"
    [] OTHER -> "T_INVALID_TOKEN"

EatWhitespace ==
  /\ pc = "eat"
  /\ \/ PeekChar \in Blanks /\ ConsumeChars(1)
     \/ PeekChar \in LineBreaks /\ ConsumeLineBreak
  /\ UNCHANGED <<input, options, pc, then, token, previous_char, stack, string,
                 key, result, error>>

StartsComment == PeekChars(2) \in {<<"/", "/">>, <<"/", "*">>}

(* The token after which EatWhitespaceAndComments returns.                 *)
TakeToken ==
  /\ token' = TokenOf(PeekChar)
  /\ pc' = "token"
  /\ UNCHANGED <<input, options, position, then, stack, string, key, result>>

SeeToken ==
  /\ pc = "eat"
  /\ PeekChar \notin Blanks \cup LineBreaks
  /\ ~StartsComment
  /\ TakeToken
  /\ UNCHANGED <<previous_char, error>>

(* A mutant of ForbiddenComment: it is reported and read all the same.     *)
ForbiddenCommentRead ==
  /\ pc = "eat"
  /\ StartsComment
  /\ "JSON_ALLOW_COMMENTS" \notin options
  /\ ConsumeChars(2)
  /\ error' = Reported("JSON_UNEXPECTED_TOKEN", 0)
  /\ pc' = IF PeekChars(2) = <<"/", "/">> THEN "line_comment"
                                          ELSE "block_comment"
  /\ previous_char' = ""
  /\ UNCHANGED <<input, options, then, token, stack, string, key, result>>

(* A comment that is not allowed is reported here and again, as an invalid *)
(* token, by the caller.                                                   *)
ForbiddenComment ==
  /\ pc = "eat"
  /\ StartsComment
  /\ "JSON_ALLOW_COMMENTS" \notin options
  /\ TakeToken
  /\ error' = Reported("JSON_UNEXPECTED_TOKEN", 0)
  /\ UNCHANGED previous_char

BeginComment ==
  /\ pc = "eat"
  /\ StartsComment
  /\ "JSON_ALLOW_COMMENTS" \in options
  /\ ConsumeChars(2)
  /\ pc' = IF PeekChars(2) = <<"/", "/">> THEN "line_comment"
                                          ELSE "block_comment"
  /\ previous_char' = ""
  /\ UNCHANGED <<input, options, then, token, stack, string, key, result,
                 error>>

LineComment ==
  /\ pc = "line_comment"
  /\ PeekChar # "end"
  /\ IF PeekChar \in LineBreaks THEN pc' = "eat" /\ UNCHANGED position
                                ELSE ConsumeChars(1) /\ UNCHANGED pc
  /\ UNCHANGED <<input, options, then, token, previous_char, stack, string,
                 key, result, error>>

(* A mutant of BlockComment: the end marker is looked for before it.       *)
BlockCommentForever ==
  /\ pc = "block_comment"
  /\ PeekChar # "end"
  /\ IF previous_char = "*" /\ PeekChar = "/"
       THEN pc' = "eat" /\ ConsumeChars(1) /\ UNCHANGED previous_char
       ELSE previous_char' = PeekChar /\ UNCHANGED <<position, pc>>
  /\ UNCHANGED <<input, options, then, token, stack, string, key, result,
                 error>>

BlockComment ==
  /\ pc = "block_comment"
  /\ PeekChar # "end"
  /\ IF previous_char = "*" /\ PeekChar = "/"
       THEN pc' = "eat" /\ UNCHANGED previous_char
       ELSE previous_char' = PeekChar /\ UNCHANGED pc
  /\ ConsumeChars(1)
  /\ UNCHANGED <<input, options, then, token, stack, string, key, result,
                 error>>

(* The input ends in a comment.                                            *)
CommentUnterminated ==
  /\ pc \in {"line_comment", "block_comment"}
  /\ PeekChar = "end"
  /\ TakeToken
  /\ UNCHANGED <<previous_char, error>>

-----------------------------------------------------------------------------
(* The callers of GetNextToken.                                            *)

For(callers) == pc = "token" /\ then \in callers
Trailing == then = "next" /\ "JSON_ALLOW_TRAILING_COMMAS" \notin options
InList == stack # <<>> /\ Last(stack).kind = "list"

(* ParseToken is called with the token: for the root or the value of a     *)
(* pair, or by the loop of ConsumeList.                                    *)
ParsesToken ==
  \/ For({"value"})
  \/ For({"item", "next"}) /\ InList /\ token # "T_ARRAY_END"

(* A mutant of IsTooDeep: one container too many.                          *)
IsTooDeepLate == Len(stack) + 1 > MaxDepth

(* StackMarker bounds the nesting.                                         *)
IsTooDeep == Len(stack) + 1 >= MaxDepth

(* ConsumeDictionary and ConsumeList.                                      *)
OpenContainer ==
  /\ ParsesToken
  /\ token \in {"T_OBJECT_BEGIN", "T_ARRAY_BEGIN"}
  /\ IF IsTooDeep
       THEN ParseError("JSON_TOO_MUCH_NESTING", -1, 1)
       ELSE /\ ConsumeChars(1)
            /\ stack' = Append(stack,
                 [kind |-> IF token = "T_ARRAY_BEGIN" THEN "list" ELSE "dict",
                  key |-> <<>>, values |-> <<>>])
            /\ NextTokenFor(IF token = "T_ARRAY_BEGIN" THEN "item" ELSE "key")
            /\ UNCHANGED <<string, key, result>>

(* A mutant of DictOf: the first of several equal keys wins.               *)
DictOfFirst(pairs) ==
  [k \in {pairs[n][1] : n \in DOMAIN pairs} |->
     pairs[Min({n \in DOMAIN pairs : pairs[n][1] = k})][2]]

(* DictValue takes the first of the pairs with a key, after the reversal.  *)
DictOf(pairs) ==
  LET reversed == Reverse(pairs)
  IN [k \in {reversed[n][1] : n \in DOMAIN reversed} |->
        reversed[Min({n \in DOMAIN reversed : reversed[n][1] = k})][2]]

ContainerValue(c) ==
  IF c.kind = "list"
    THEN <<"list", [n \in DOMAIN c.values |-> c.values[n][2]]>>
    ELSE <<"dict", DictOf(c.values)>>

ClosesContainer ==
  /\ For({"item", "key", "next", "separator"})
  /\ token = IF InList THEN "T_ARRAY_END" ELSE "T_OBJECT_END"

CloseContainer ==
  /\ ClosesContainer
  /\ ~Trailing
  /\ ConsumeChars(1)
  /\ Return(ContainerValue(Last(stack)), Front(stack))
  /\ UNCHANGED <<string, key>>

TrailingComma ==
  /\ ClosesContainer
  /\ Trailing
  /\ ParseError("JSON_TRAILING_COMMA", 0, 0)

(* After a value in a container.                                           *)
Separator ==
  /\ For({"separator"})
  /\ ~ClosesContainer
  /\ IF token = "T_LIST_SEPARATOR"
       THEN /\ ConsumeChars(1)
            /\ NextTokenFor("next")
            /\ UNCHANGED <<stack, string, key, result>>
       ELSE ParseError("JSON_SYNTAX_ERROR", 0, 0)

(* A key or a string value begins.                                         *)
BeginString(is_key) ==
  /\ ConsumeChars(1)
  /\ string' = <<>>
  /\ key' = is_key
  /\ pc' = "string"
  /\ UNCHANGED <<input, options, then, token, previous_char, stack, result,
                 error>>

Key ==
  /\ For({"key", "next"})
  /\ ~InList
  /\ token # "T_OBJECT_END"
  /\ IF token = "T_STRING" THEN BeginString(TRUE)
     ELSE ParseError("JSON_UNQUOTED_DICTIONARY_KEY", 0, 0)

Colon ==
  /\ For({"colon"})
  /\ IF token = "T_OBJECT_PAIR_SEPARATOR"
       THEN /\ ConsumeChars(1)
            /\ NextTokenFor("value")
            /\ UNCHANGED <<stack, string, key, result>>
       ELSE ParseError("JSON_SYNTAX_ERROR", 0, 0)

StringValue ==
  /\ ParsesToken
  /\ token = "T_STRING"
  /\ BeginString(FALSE)

NoSuchValue ==
  /\ ParsesToken
  /\ token \in {"T_OBJECT_END", "T_ARRAY_END", "T_LIST_SEPARATOR",
                "T_OBJECT_PAIR_SEPARATOR", "T_END_OF_INPUT",
                "T_INVALID_TOKEN"}
  /\ ParseError("JSON_UNEXPECTED_TOKEN", 0, 0)

(* Parse, behind the root.                                                 *)
EndOfInput ==
  /\ For({"end"})
  /\ IF token # "T_END_OF_INPUT"
       THEN ParseError("JSON_UNEXPECTED_DATA_AFTER_ROOT", 0, 0)
       ELSE /\ pc' = "done"
            /\ UNCHANGED <<input, options, position, then, token,
                           previous_char, stack, string, key, result, error>>

-----------------------------------------------------------------------------
(* ConsumeNumber and ConsumeLiteral.                                       *)

At(i) == IF i <= Len(input) THEN input[i] ELSE "end"

(* The end of the digits that begin at i.                                  *)
DigitsEnd(i) ==
  CHOOSE j \in i - 1 .. Len(input) :
    /\ \A k \in i .. j : At(k) \in Digits
    /\ At(j + 1) \notin Digits

(* ReadInt; it reads its digits even when it fails.                        *)
ReadInt(i, allow_leading_zeros) ==
  LET len == DigitsEnd(i) - i + 1
  IN len > 0 /\ (allow_leading_zeros \/ len = 1 \/ At(i) # "0")

(* StringToInt and StringToDouble: only the exponent matters here; one     *)
(* that is positive and has a 9 stands for a number that is not finite.    *)
IsRepresentable(num) ==
  ~\E n \in DOMAIN num :
     /\ num[n] = "e"
     /\ At(index + n + 1) # "-"
     /\ \E k \in n + 1 .. Len(num) : num[k] = "9"

ConsumeNumber ==
  /\ ParsesToken
  /\ token = "T_NUMBER"
  /\ LET first == index + (IF PeekChar = "-" THEN 2 ELSE 1)
         whole == DigitsEnd(first)
         fraction == IF At(whole + 1) = "." THEN DigitsEnd(whole + 2)
                                            ELSE whole
         exponent == fraction
                       + (IF At(fraction + 2) \in {"-", "+"} THEN 3 ELSE 2)
         end == IF At(fraction + 1) = "e" THEN DigitsEnd(exponent)
                                          ELSE fraction
         num == SubSeq(input, index + 1, end)
     IN CASE ~ReadInt(first, FALSE) ->
               ParseError("JSON_SYNTAX_ERROR", 0, whole - index)
          [] ReadInt(first, FALSE) /\ fraction # whole
               /\ ~ReadInt(whole + 2, TRUE) ->
               ParseError("JSON_SYNTAX_ERROR", 0, fraction - index)
          [] ReadInt(first, FALSE)
               /\ (fraction # whole => ReadInt(whole + 2, TRUE))
               /\ end # fraction /\ ~ReadInt(exponent, TRUE) ->
               ParseError("JSON_SYNTAX_ERROR", 0, end - index)
          [] OTHER ->
               IF IsRepresentable(num)
                 THEN /\ ConsumeChars(Len(num))
                      /\ Return(<<"number", num>>, stack)
                      /\ UNCHANGED <<string, key>>
                 ELSE ParseError("JSON_UNREPRESENTABLE_NUMBER", 0, Len(num))

Literals == {<<"t", "r", "u", "e">>, <<"f", "a", "l", "s", "e">>,
             <<"n", "u", "l", "l">>}

ConsumeLiteral ==
  /\ ParsesToken
  /\ token \in {"T_BOOL_TRUE", "T_BOOL_FALSE", "T_NULL"}
  /\ IF \E l \in Literals : PeekChars(Len(l)) = l
       THEN LET l == CHOOSE m \in Literals : PeekChars(Len(m)) = m
            IN /\ ConsumeChars(Len(l))
               /\ Return(<<"literal", l>>, stack)
               /\ UNCHANGED <<string, key>>
       ELSE ParseError("JSON_SYNTAX_ERROR", 0, 0)

-----------------------------------------------------------------------------
(* ConsumeStringRaw: a string is a sequence of characters and code units.  *)

InString == pc = "string"

Write(chars, consumed) ==
  /\ string' = Append(string, chars)
  /\ ConsumeChars(consumed)
  /\ UNCHANGED <<input, options, pc, then, token, previous_char, stack, key,
                 result, error>>

Replacement == <<"U+FFFD">>
ReplacesInvalid == "JSON_REPLACE_INVALID_CHARACTERS" \in options

(* What may not be in a string, the line breaks aside.                     *)
Controls == {"\t", "ctl"}

(* The characters ConsumeStringPart copies.                                *)
CopyCharacter ==
  /\ InString
  /\ PeekChar \notin {"end", "\"", "\\", "bad"} \cup Controls \cup LineBreaks
  /\ Write(<<PeekChar>>, 1)

InvalidCharacter ==
  /\ InString
  /\ PeekChar = "bad"
  /\ IF ReplacesInvalid THEN Write(Replacement, 1)
     ELSE ParseError("JSON_UNSUPPORTED_ENCODING", 0, 0)

LineBreakInString ==
  /\ InString
  /\ PeekChar \in LineBreaks
  /\ IF "JSON_ALLOW_NEWLINES_IN_STRINGS" \in options
       THEN /\ ConsumeLineBreak
            /\ string' = Append(string, <<PeekChar>>)
            /\ UNCHANGED <<input, options, pc, then, token, previous_char,
                           stack, key, result, error>>
       ELSE ParseError("JSON_UNSUPPORTED_ENCODING", -1, 0)

ControlCharacter ==
  /\ InString
  /\ PeekChar \in Controls
  /\ ParseError("JSON_UNSUPPORTED_ENCODING", -1, 0)

UnterminatedString ==
  /\ InString
  /\ PeekChar = "end"
  /\ ParseError("JSON_SYNTAX_ERROR", -1, 0)

EndString ==
  /\ InString
  /\ PeekChar = "\""
  /\ ConsumeChars(1)
  /\ string' = <<>>
  /\ IF key
       THEN /\ stack' = [stack EXCEPT ![Len(stack)].key = string]
            /\ NextTokenFor("colon")
            /\ UNCHANGED result
       ELSE Return(<<"string", string>>, stack)
  /\ key' = FALSE

(* The escape behind a backslash at index.                                 *)
Escape == InString /\ PeekChar = "\\"
EscapeChar == At(index + 2)

(* The simple escapes and what they stand for.                             *)
SimpleEscapes ==
  [c \in {"\"", "\\", "/", "b", "f", "n", "r", "t"} |->
     CASE c = "n" -> "\n" [] c = "r" -> "\r" [] c = "t" -> "\t"
       [] c = "b" -> "backspace" [] c = "f" -> "form feed" [] OTHER -> c]

Allowed(c) ==
  \/ c \in DOMAIN SimpleEscapes \cup {"u"}
  \/ c = "v" /\ "JSON_ALLOW_VERT_TAB" \in options
  \/ c = "x" /\ "JSON_ALLOW_X_ESCAPES" \in options

SimpleEscape ==
  /\ Escape
  /\ Allowed(EscapeChar)
  /\ \/ /\ EscapeChar \in DOMAIN SimpleEscapes
        /\ Write(<<SimpleEscapes[EscapeChar]>>, 2)
     \/ EscapeChar = "v" /\ Write(<<"vertical tab">>, 2)

UnknownEscape ==
  /\ Escape
  /\ ~Allowed(EscapeChar)
  /\ ParseError("JSON_INVALID_ESCAPE", -1, IF EscapeChar = "end" THEN 1 ELSE 2)

(* n hex digits from position i on.                                        *)
Unit(i, n) == SubSeq(input, i, i + n - 1)
Arrived(i, n) == i + n - 1 <= Len(input)
IsHex(i, n) == Arrived(i, n) /\ \A k \in i .. i + n - 1 : At(k) \in HexDigits

HexEscape ==
  /\ Escape
  /\ Allowed("x") /\ EscapeChar = "x"
  /\ IF IsHex(index + 3, 2) THEN Write(Unit(index + 3, 2), 4)
     ELSE ParseError("JSON_INVALID_ESCAPE", -3,
                     IF Arrived(index + 3, 2) THEN 4 ELSE 2)

IsSurrogate(u) == u[1] = "d" /\ u[2] \notin {"0", "1", "2", "3", "4", "5",
                                             "6", "7"}
IsLead(u) == u[1] = "d" /\ u[2] \in {"8", "9", "a", "b"}
IsTrail(u) == u[1] = "d" /\ u[2] \in {"c", "d", "e", "f"}

(* What DecodeUTF16 makes of the escape: the code units it yields (none:   *)
(* it fails) and the characters it has read.                               *)
DecodeUTF16 ==
  LET high == Unit(index + 3, 4)
      low == Unit(index + 9, 4)
      Decoded(units, consumed) == [units |-> units, consumed |-> consumed]
      Invalid(consumed) ==
        Decoded(IF ReplacesInvalid THEN Replacement ELSE <<>>, consumed)
      pair == At(index + 7) = "\\" /\ At(index + 8) = "u"
  IN CASE ~Arrived(index + 3, 4) -> Decoded(<<>>, 2)
       [] Arrived(index + 3, 4) /\ ~IsHex(index + 3, 4) -> Decoded(<<>>, 6)
       [] IsHex(index + 3, 4) /\ ~IsSurrogate(high) -> Decoded(high, 6)
       [] IsHex(index + 3, 4) /\ IsSurrogate(high)
            /\ ~(IsLead(high) /\ pair) -> Invalid(6)
       [] OTHER ->
            CASE ~Arrived(index + 9, 4) -> Decoded(<<>>, 8)
              [] Arrived(index + 9, 4) /\ ~IsHex(index + 9, 4) ->
                   Decoded(<<>>, 12)
              [] IsHex(index + 9, 4) /\ ~IsTrail(low) -> Invalid(12)
              [] OTHER -> Decoded(high \o low, 12)

UnicodeEscape ==
  /\ Escape
  /\ EscapeChar = "u"
  /\ LET d == DecodeUTF16
     IN IF d.units = <<>> THEN ParseError("JSON_INVALID_ESCAPE", -1, d.consumed)
        ELSE Write(d.units, d.consumed)

-----------------------------------------------------------------------------
GetNextToken ==
  \/ EatWhitespace
  \/ SeeToken
  \/ ForbiddenComment
  \/ BeginComment
  \/ LineComment
  \/ BlockComment
  \/ CommentUnterminated

ParseToken ==
  \/ OpenContainer
  \/ StringValue
  \/ ConsumeNumber
  \/ ConsumeLiteral
  \/ NoSuchValue

InContainer ==
  \/ CloseContainer
  \/ TrailingComma
  \/ Separator
  \/ Key
  \/ Colon

ConsumeString ==
  \/ CopyCharacter
  \/ InvalidCharacter
  \/ LineBreakInString
  \/ ControlCharacter
  \/ UnterminatedString
  \/ EndString
  \/ SimpleEscape
  \/ UnknownEscape
  \/ HexEscape
  \/ UnicodeEscape

Next == GetNextToken \/ ParseToken \/ InContainer \/ EndOfInput
          \/ ConsumeString

(* Parse runs to its end.                                                  *)
Spec == Init /\ [][Next]_vars /\ WF_vars(Next)

-----------------------------------------------------------------------------
(* Properties.                                                             *)

(* The parser stays inside its input, the nesting inside its bound, a key  *)
(* is read only for an object, and a finished parse has left every call.   *)
JsonTypeOK ==
  /\ index \in 0 .. Len(input)
  /\ line_number \in 1 .. Len(input) + 1
  /\ index_last_line \in -1 .. index - 1
  /\ pc \in {"eat", "token", "line_comment", "block_comment", "string", "done"}
  /\ then \in {"value", "item", "key", "colon", "separator", "next", "end"}
  /\ stack = <<>> \/ Len(stack) < MaxDepth
  /\ \A n \in DOMAIN stack : stack[n].kind \in {"list", "dict"}
  /\ pc = "string" /\ key => stack # <<>> /\ ~InList
  /\ error # NoError => error.line <= line_number /\ error.column >= 1
  /\ pc = "done" => stack = <<>>

(* An error is reported exactly when no value is returned: json_parser.h   *)
(* has the error's accessors answer 0 otherwise, and EatComment reports    *)
(* one while the parse goes on.                                            *)
ErrorIffFailed == pc = "done" => (result = NoValue <=> error # NoError)

(* The line breaks before position i: a \r\n is one.                       *)
BreaksBefore(i) ==
  {k \in 1 .. i : /\ input[k] \in LineBreaks
                  /\ ~(input[k] = "\n" /\ k > 1 /\ input[k - 1] = "\r")}

(* As long as it has read no asterisk, wherever it may stand, the parser   *)
(* knows its line and where the line began, however the breaks are divided *)
(* among white space, line comments and strings.  (A block comment needs   *)
(* one; that one in a string or a line comment is left out as well is more *)
(* than has to be.)                                                        *)
LinesAreCounted ==
  pc # "done" /\ (\A k \in 1 .. index : input[k] # "*") =>
    /\ line_number = 1 + Cardinality(BreaksBefore(index))
    /\ index_last_line = Max({0} \cup {k \in 1 .. index :
                                        input[k] \in LineBreaks}) - 1

(* Parse comes to its end.                                                 *)
ParseTerminates == <>(pc = "done")

(* The line of an error is the line on which the parser stood, as Parse    *)
(* says of line_number_ and json_parser.h of error_line.  An escape is     *)
(* left out: its error is reported behind the character it names.          *)
ErrorLineIsItsLine ==
  pc = "done" /\ error.code \notin {"JSON_NO_ERROR", "JSON_INVALID_ESCAPE"} =>
    error.line = 1 + Cardinality(BreaksBefore(index))

=============================================================================
