------------------------- MODULE JsonParser_proofs -------------------------
(***************************************************************************)
(* For every set of texts and options and every depth: where the parser    *)
(* stands, what its error says of its result, that it knows its line, and  *)
(* that it returns what the grammar of JsonGrammar reads.                  *)
(*                                                                         *)
(* None of it is inductive alone.  What a caller of GetNextToken may rely  *)
(* on is in CallerInv and ReadingInv; an error that was reported in a      *)
(* comment is still on its way to its caller in ErrorInv.  For the grammar *)
(* the invariant is that what has been read and the readings of the rest   *)
(* of the input make the documents of the whole input (Pending,            *)
(* GrammarInv); a lemma ...Reads for each action says that the action      *)
(* leaves them.                                                            *)
(***************************************************************************)
EXTENDS JsonGrammar, SequenceTheorems, InductionLemmas

Callers == {"value", "item", "key", "colon", "separator", "next", "end"}

InputInv ==
  /\ input \in Inputs
  /\ options \in OptionSets
  /\ pc \in {"eat", "token", "line_comment", "block_comment", "string", "done"}
  /\ then \in Callers

PositionInv ==
  /\ index \in 0 .. Len(input)
  /\ line_number \in 1 .. index + 1
  /\ index_last_line \in -1 .. index - 1

IsContainer(c) ==
  /\ DOMAIN c = {"kind", "key", "values"}
  /\ c.kind \in {"list", "dict"}

AreContainers(s) ==
  /\ s \in Seq(Range(s))
  /\ \A n \in 1 .. Len(s) : IsContainer(s[n])

StackInv ==
  /\ AreContainers(stack)
  /\ stack = <<>> \/ Len(stack) < MaxDepth

(* What the caller of GetNextToken knows of its container.                 *)
CallerInv ==
  /\ then \in {"item", "key", "colon", "separator", "next"} => stack # <<>>
  /\ then = "item" => InList
  /\ then \in {"key", "colon"} => ~InList
  /\ then = "end" => stack = <<>> /\ result # NoValue
  /\ then # "end" => result = NoValue

(* What is known of the character at index, and of how it was reached.     *)
ReadingInv ==
  /\ pc = "token" => token = TokenOf(PeekChar)
  /\ pc = "string" => then \in {"value", "item", "key", "next"}
  /\ pc = "string" /\ key => stack # <<>> /\ ~InList
  /\ pc = "block_comment" => \E k \in 1 .. index : input[k] = "*"

ErrorInv ==
  /\ error # NoError => error.line <= line_number /\ error.column >= 1
  /\ pc = "done" => stack = <<>> /\ (result = NoValue <=> error # NoError)
  /\ pc # "done" /\ error # NoError => pc = "token" /\ token = "T_INVALID_TOKEN"

(* Where the line at position i begins.                                    *)
LineStart(i) == Max({0} \cup {k \in 1 .. i : input[k] \in LineBreaks})

LinesInv ==
  (\A k \in 1 .. index : input[k] # "*") =>
    /\ line_number = 1 + Cardinality(BreaksBefore(index))
    /\ index_last_line = LineStart(index) - 1

RunningInv == pc # "done" => CallerInv /\ ReadingInv /\ LinesInv

IInv == InputInv /\ PositionInv /\ StackInv /\ ErrorInv /\ RunningInv

-----------------------------------------------------------------------------
(* Sequences.                                                              *)

LEMMA SeqOfItsRange ==
  ASSUME NEW S, NEW s \in Seq(S)
  PROVE  s \in Seq(Range(s))
<1>1. Len(s) \in Nat /\ DOMAIN s = 1 .. Len(s) /\ s = [i \in 1 .. Len(s) |-> s[i]]
  BY LenProperties
<1>2. \A i \in 1 .. Len(s) : s[i] \in Range(s)
  BY <1>1 DEF Range
<1>3. s \in [1 .. Len(s) -> Range(s)]
  BY <1>1, <1>2
<1> QED
  BY <1>1, <1>3, SeqDef

LEMMA EmptyIsNoContainer == AreContainers(<<>>)
<1>1. <<>> \in Seq(Range(<<>>))
  BY EmptySeq
<1>2. Len(<<>>) = 0
  OBVIOUS
<1> QED
  BY <1>1, <1>2 DEF AreContainers

LEMMA AppendContainer ==
  ASSUME NEW s, AreContainers(s), NEW c, IsContainer(c)
  PROVE  /\ AreContainers(Append(s, c))
         /\ Len(Append(s, c)) = Len(s) + 1
         /\ Append(s, c) # <<>>
         /\ Last(Append(s, c)) = c
<1> DEFINE S == Range(s) \cup {c}
           t == Append(s, c)
<1>1. s \in Seq(S) /\ Len(s) \in Nat
  BY SeqMonotonic, LenProperties DEF AreContainers
<1> HIDE DEF S
<1>2. c \in S
  BY DEF S
<1>3. t \in Seq(S) /\ Len(t) = Len(s) + 1 /\ t[Len(t)] = c
      /\ \A n \in 1 .. Len(s) : t[n] = s[n]
  BY <1>1, <1>2
<1>4. t \in Seq(Range(t))
  BY <1>3, SeqOfItsRange
<1>5. ASSUME NEW n \in 1 .. Len(t) PROVE IsContainer(t[n])
  <2>1. CASE n = Len(t)
    BY <2>1, <1>3
  <2>2. CASE n # Len(t)
    BY <2>2, <1>1, <1>3 DEF AreContainers
  <2> QED
    BY <2>1, <2>2
<1>6. t # <<>> /\ Last(t) = c
  BY <1>1, <1>3, EmptySeq DEF Last
<1> QED
  BY <1>3, <1>4, <1>5, <1>6 DEF AreContainers

LEMMA FrontContainers ==
  ASSUME NEW s, AreContainers(s), s # <<>>
  PROVE  AreContainers(Front(s)) /\ Len(Front(s)) = Len(s) - 1
<1>1. s \in Seq(Range(s)) /\ Len(s) \in Nat \ {0}
  BY EmptySeq DEF AreContainers
<1>2. \A i \in 1 .. Len(s) - 1 : s[i] \in Range(s)
  BY <1>1, ElementOfSeq
<1>3. PICK n \in Nat : Len(s) = n + 1
  <2>1. Len(s) - 1 \in Nat /\ Len(s) = (Len(s) - 1) + 1
    BY <1>1
  <2> QED
    BY <2>1
<1>4. Front(s) = SubSeq(s, 1, n)
  BY <1>3 DEF Front
<1>5. /\ Front(s) \in Seq(Range(s))
      /\ Len(Front(s)) = n
      /\ \A i \in 1 .. n : Front(s)[i] = s[i]
  <2>1. \A i \in 1 .. n : s[i] \in Range(s)
    BY <1>2, <1>3
  <2> QED
    BY <1>4, <2>1, SubSeqProperties
<1>6. Front(s) \in Seq(Range(Front(s)))
  BY <1>5, SeqOfItsRange
<1> QED
  BY <1>1, <1>3, <1>5, <1>6 DEF AreContainers

(* The innermost container gets a key or another value.                    *)
LEMMA ChangeContainer ==
  ASSUME NEW s, AreContainers(s), s # <<>>, NEW c, IsContainer(c),
         c.kind = s[Len(s)].kind
  PROVE  LET t == [s EXCEPT ![Len(s)] = c]
         IN  /\ AreContainers(t)
             /\ Len(t) = Len(s)
             /\ t # <<>>
             /\ Last(t).kind = Last(s).kind
<1> DEFINE S == Range(s) \cup {c}
           t == [s EXCEPT ![Len(s)] = c]
<1>1. s \in Seq(S) /\ Len(s) \in Nat \ {0}
  BY SeqMonotonic, EmptySeq DEF AreContainers
<1>2. c \in S /\ Len(s) \in 1 .. Len(s)
  BY <1>1
<1> HIDE DEF S
<1>3. /\ t \in Seq(S)
      /\ Len(t) = Len(s)
      /\ \A j \in 1 .. Len(s) : t[j] = IF j = Len(s) THEN c ELSE s[j]
  BY <1>1, <1>2, ExceptSeq
<1> HIDE DEF t
<1>4. t \in Seq(Range(t)) /\ t # <<>>
  BY <1>1, <1>3, SeqOfItsRange, EmptySeq
<1>5. \A n \in 1 .. Len(t) : IsContainer(t[n])
  BY <1>3 DEF AreContainers
<1>6. Last(t).kind = Last(s).kind
  BY <1>2, <1>3 DEF Last
<1> QED
  BY <1>3, <1>4, <1>5, <1>6 DEF AreContainers, t

-----------------------------------------------------------------------------
(* The text.                                                               *)

LEMMA InputFacts ==
  ASSUME InputInv
  PROVE  input \in Seq(STRING) /\ Len(input) \in Nat
BY JsonAssumption, LenProperties DEF InputInv

(* Nothing else is peeked than a character of the text or its end.         *)
LEMMA PeekedIsThere ==
  ASSUME InputInv, PositionInv, PeekChar # "end"
  PROVE  /\ index \in Nat /\ index + 1 \in 1 .. Len(input)
         /\ PeekChar = input[index + 1]
BY InputFacts DEF PositionInv, PeekChar

LEMMA PeekedPair ==
  ASSUME InputInv, PositionInv, StartsComment
  PROVE  /\ index \in Nat /\ index + 2 \in 1 .. Len(input)
         /\ input[index + 1] = "/"
         /\ input[index + 2] \in {"/", "*"}
         /\ PeekChar = "/"
         /\ PeekChars(2) # <<"/", "/">> => input[index + 2] = "*"
<1>1. index \in Nat /\ Len(input) \in Nat
  BY InputFacts DEF PositionInv
<1>2. 2 <= Len(input) - index /\ PeekChars(2) = SubSeq(input, index + 1, index + 2)
  BY <1>1 DEF StartsComment, PeekChars
<1>3. /\ PeekChars(2)[1] = input[index + 1]
      /\ PeekChars(2)[2] = input[index + 2]
  <2>1. \A i \in index + 1 .. index + 2 : input[i] \in STRING
    BY <1>1, <1>2, InputFacts, ElementOfSeq
  <2>2. \A i \in 1 .. (index + 2) - (index + 1) + 1 :
          SubSeq(input, index + 1, index + 2)[i] = input[(index + 1) + i - 1]
    <3>1. index + 1 \in Int /\ index + 2 \in Int
      BY <1>1
    <3> QED
      BY <2>1, <3>1, SubSeqProperties
  <2> QED
    BY <1>1, <1>2, <2>2
<1>4. PeekChar = input[index + 1]
  BY <1>1, <1>2 DEF PeekChar
<1> QED
  BY <1>1, <1>2, <1>3, <1>4 DEF StartsComment

LEMMA Consumes ==
  ASSUME InputInv, PositionInv, NEW n \in Nat, index + n <= Len(input),
         ConsumeChars(n), UNCHANGED input
  PROVE  PositionInv'
BY InputFacts DEF PositionInv, ConsumeChars

(* A token that is one begins with a character of its own.                 *)
LEMMA TokenIsThere ==
  ASSUME InputInv, PositionInv, ErrorInv, RunningInv, pc = "token",
         token \notin {"T_INVALID_TOKEN", "T_END_OF_INPUT"}
  PROVE  /\ index + 1 \in 1 .. Len(input)
         /\ PeekChar = input[index + 1]
         /\ PeekChar \notin LineBreaks \cup {"*", "end"}
<1>1. token = TokenOf(PeekChar)
  BY DEF RunningInv, ReadingInv
<1>2. PeekChar \notin LineBreaks \cup {"*", "end"}
  BY <1>1 DEF TokenOf, LineBreaks, Digits
<1> QED
  BY <1>2, PeekedIsThere

(* An error that is on its way is behind an invalid token.                 *)
LEMMA NoErrorYet ==
  ASSUME ErrorInv, pc # "done", pc = "token" => token # "T_INVALID_TOKEN"
  PROVE  error = NoError
BY DEF ErrorInv

-----------------------------------------------------------------------------
(* Lines.                                                                  *)

IsBreak(k) ==
  /\ input[k] \in LineBreaks
  /\ ~(input[k] = "\n" /\ k > 1 /\ input[k - 1] = "\r")

LEMMA BreaksAreFinite ==
  ASSUME NEW i \in Nat
  PROVE  IsFiniteSet(BreaksBefore(i))
<1>1. BreaksBefore(i) \subseteq 1 .. i /\ IsFiniteSet(1 .. i)
  BY FS_Interval DEF BreaksBefore
<1> QED
  BY <1>1, FS_Subset

LEMMA LinesStay ==
  ASSUME NEW i \in Nat, NEW n \in Nat,
         \A k \in i + 1 .. i + n : input[k] \notin LineBreaks
  PROVE  BreaksBefore(i + n) = BreaksBefore(i) /\ LineStart(i + n) = LineStart(i)
<1>1. BreaksBefore(i + n) = BreaksBefore(i)
  BY DEF BreaksBefore
<1>2. {k \in 1 .. i + n : input[k] \in LineBreaks} = {k \in 1 .. i : input[k] \in LineBreaks}
  OBVIOUS
<1> QED
  BY <1>1, <1>2 DEF LineStart

LEMMA LinesGrow ==
  ASSUME NEW i \in Nat, input[i + 1] \in LineBreaks
  PROVE  /\ BreaksBefore(i + 1) =
              BreaksBefore(i) \cup (IF IsBreak(i + 1) THEN {i + 1} ELSE {})
         /\ i + 1 \notin BreaksBefore(i)
         /\ LineStart(i + 1) = i + 1
<1>1. /\ BreaksBefore(i + 1) =
           BreaksBefore(i) \cup (IF IsBreak(i + 1) THEN {i + 1} ELSE {})
      /\ i + 1 \notin BreaksBefore(i)
  BY DEF BreaksBefore, IsBreak
<1> DEFINE S == {0} \cup {k \in 1 .. i + 1 : input[k] \in LineBreaks}
<1>2. i + 1 \in S /\ (\A k \in S : k \in Int /\ k <= i + 1)
  OBVIOUS
<1>3. Max(S) = CHOOSE x \in S : \A y \in S : x >= y
  BY DEF Max
<1> HIDE DEF S
<1>4. Max(S) = i + 1
  BY <1>2, <1>3
<1> QED
  BY <1>1, <1>4 DEF LineStart, S

LEMMA StaysInLine ==
  ASSUME InputInv, PositionInv, LinesInv, NEW n \in Nat,
         \A k \in index + 1 .. index + n : input[k] \notin LineBreaks,
         ConsumeChars(n), UNCHANGED input
  PROVE  LinesInv'
<1>1. /\ index \in Nat /\ index' = index + n
      /\ line_number' = line_number /\ index_last_line' = index_last_line
  BY InputFacts DEF PositionInv, ConsumeChars
<1>2. BreaksBefore(index') = BreaksBefore(index) /\ LineStart(index') = LineStart(index)
  BY <1>1, LinesStay
<1>3. BreaksBefore(index)' = BreaksBefore(index') /\ LineStart(index)' = LineStart(index')
  BY DEF BreaksBefore, LineStart
<1>4. (\A k \in 1 .. index' : input[k] # "*") => \A k \in 1 .. index : input[k] # "*"
  BY <1>1
<1> QED
  BY <1>1, <1>2, <1>3, <1>4 DEF LinesInv

LEMMA BreakIsCounted ==
  ASSUME InputInv, PositionInv, LinesInv, PeekChar \in LineBreaks,
         ConsumeLineBreak, UNCHANGED input
  PROVE  PositionInv' /\ LinesInv'
<1>1. /\ index \in Nat /\ index + 1 \in 1 .. Len(input)
      /\ input[index + 1] = PeekChar
  BY PeekedIsThere, InputFacts DEF PositionInv, LineBreaks
<1>2. /\ index' = index + 1 /\ index_last_line' = index
      /\ line_number' = IF IsBreak(index + 1) THEN line_number + 1 ELSE line_number
  <2>1. IsBreak(index + 1) <=> ~(PeekChar = "\n" /\ index > 0 /\ input[index] = "\r")
    BY <1>1 DEF IsBreak
  <2> QED
    BY <2>1 DEF ConsumeLineBreak
<1>3. PositionInv'
  BY <1>1, <1>2, InputFacts DEF PositionInv
<1>4. /\ BreaksBefore(index') =
           BreaksBefore(index) \cup (IF IsBreak(index + 1) THEN {index + 1} ELSE {})
      /\ index + 1 \notin BreaksBefore(index)
      /\ LineStart(index') = index'
  BY <1>1, <1>2, LinesGrow
<1>5. Cardinality(BreaksBefore(index')) =
        Cardinality(BreaksBefore(index)) + (IF IsBreak(index + 1) THEN 1 ELSE 0)
      /\ Cardinality(BreaksBefore(index)) \in Nat
  <2>1. IsFiniteSet(BreaksBefore(index))
    BY <1>1, BreaksAreFinite
  <2>2. Cardinality(BreaksBefore(index)) \in Nat
    BY <2>1, FS_CardinalityType
  <2>3. CASE IsBreak(index + 1)
    BY <2>1, <2>2, <2>3, <1>4, FS_AddElement
  <2>4. CASE ~IsBreak(index + 1)
    <3>1. BreaksBefore(index') = BreaksBefore(index)
      BY <2>4, <1>4
    <3> QED
      BY <3>1, <2>2, <2>4
  <2> QED
    BY <2>3, <2>4
<1>6. BreaksBefore(index)' = BreaksBefore(index') /\ LineStart(index)' = LineStart(index')
  BY DEF BreaksBefore, LineStart
<1>7. (\A k \in 1 .. index' : input[k] # "*") => \A k \in 1 .. index : input[k] # "*"
  BY <1>1, <1>2
<1>8. line_number \in Int
  BY <1>1 DEF PositionInv
<1>9. LinesInv'
  BY <1>1, <1>2, <1>4, <1>5, <1>6, <1>7, <1>8 DEF LinesInv
<1> QED
  BY <1>3, <1>9

-----------------------------------------------------------------------------
(* Results and errors.                                                     *)

LEMMA ErrorStep ==
  ASSUME IInv, pc # "done",
         NEW code, code # "JSON_NO_ERROR", NEW column_adjust \in Int,
         NEW consumed \in Nat, index + consumed <= Len(input),
         ParseError(code, column_adjust, consumed)
  PROVE  IInv'
<1>1. InputInv' /\ pc' = "done" /\ UNCHANGED input
  BY DEF IInv, InputInv, ParseError
<1>2. ConsumeChars(consumed) /\ PositionInv'
  BY <1>1, Consumes DEF IInv, ParseError
<1>3. StackInv'
  BY EmptyIsNoContainer DEF ParseError, StackInv
<1>4. /\ error'.code = code /\ error'.line = line_number /\ error'.column >= 1
      /\ line_number' = line_number /\ line_number \in Int
  <2>1. index' - index_last_line' + column_adjust \in Int
    BY <1>2, InputFacts, <1>1 DEF PositionInv, IInv
  <2>2. line_number' = line_number /\ line_number \in Int
    BY <1>2, InputFacts DEF IInv, PositionInv, ConsumeChars
  <2>3. error' = Reported(code, column_adjust)
    BY DEF ParseError
  <2> QED
    BY <2>1, <2>2, <2>3 DEF Reported
<1>5. error' # NoError
  BY <1>4 DEF NoError
<1>6. ErrorInv'
  BY <1>1, <1>4, <1>5 DEF ErrorInv, ParseError, NoValue
<1> QED
  BY <1>1, <1>2, <1>3, <1>6 DEF IInv, RunningInv

(* A step that reads on in the same call.                                  *)
LEMMA CallerStays ==
  ASSUME CallerInv, StackInv, UNCHANGED <<then, stack, result>>
  PROVE  CallerInv' /\ StackInv'
BY DEF CallerInv, StackInv, InList

(* Without an error there is nothing to say of it.                         *)
LEMMA NoErrorStays ==
  ASSUME error = NoError, error' = error, pc' # "done"
  PROVE  ErrorInv'
BY DEF ErrorInv

(* GetNextToken is called.                                                 *)
LEMMA NextTokenStep ==
  ASSUME InputInv, error = NoError, NEW caller \in Callers, NextTokenFor(caller)
  PROVE  InputInv' /\ ErrorInv' /\ ReadingInv' /\ UNCHANGED input
         /\ pc' = "eat" /\ then' = caller
<1>1. InputInv' /\ UNCHANGED input /\ pc' = "eat" /\ then' = caller
  BY DEF NextTokenFor, InputInv
<1>2. ErrorInv'
  BY NoErrorStays DEF NextTokenFor
<1>3. ReadingInv'
  BY <1>1 DEF ReadingInv
<1> QED
  BY <1>1, <1>2, <1>3

LEMMA ReturnStep ==
  ASSUME InputInv, CallerInv, error = NoError, then # "end",
         NEW value, value # NoValue,
         NEW containers, AreContainers(containers),
         containers = <<>> \/ Len(containers) < MaxDepth,
         Return(value, containers)
  PROVE  InputInv' /\ StackInv' /\ ErrorInv' /\ CallerInv' /\ ReadingInv'
         /\ UNCHANGED input
<1>1. CASE containers = <<>>
  <2>1. result' = value /\ stack' = <<>> /\ NextTokenFor("end")
    BY <1>1 DEF Return
  <2>2. InputInv' /\ ErrorInv' /\ ReadingInv' /\ UNCHANGED input /\ then' = "end"
    BY <2>1, NextTokenStep DEF Callers
  <2>3. StackInv'
    BY <2>1, EmptyIsNoContainer DEF StackInv
  <2>4. CallerInv'
    BY <2>1, <2>2 DEF CallerInv, NoValue
  <2> QED
    BY <2>2, <2>3, <2>4
<1>2. CASE containers # <<>>
  <2> DEFINE n == Len(containers)
             c == [containers[n] EXCEPT !.values =
                     Append(@, <<containers[n].key, value>>)]
  <2>1. stack' = [containers EXCEPT ![n] = c] /\ result' = result
        /\ NextTokenFor("separator")
    BY <1>2 DEF Return
  <2>2. InputInv' /\ ErrorInv' /\ ReadingInv' /\ UNCHANGED input /\ then' = "separator"
    BY <2>1, NextTokenStep DEF Callers
  <2>3. IsContainer(containers[n])
    <3>1. n \in Nat \ {0}
      BY <1>2, EmptySeq DEF AreContainers
    <3> QED
      BY <3>1 DEF AreContainers
  <2>4. IsContainer(c) /\ c.kind = containers[n].kind
    BY <2>3 DEF IsContainer
  <2> HIDE DEF c
  <2>5. /\ AreContainers(stack') /\ Len(stack') = n /\ stack' # <<>>
    BY <1>2, <2>1, <2>4, ChangeContainer
  <2>6. StackInv'
    <3>1. AreContainers(stack)'
      BY <2>5 DEF AreContainers, Range, IsContainer
    <3> QED
      BY <1>2, <2>5, <3>1 DEF StackInv
  <2>7. CallerInv'
    BY <2>1, <2>2, <2>5 DEF CallerInv
  <2> QED
    BY <2>2, <2>6, <2>7
<1> QED
  BY <1>1, <1>2

-----------------------------------------------------------------------------
(* GetNextToken.                                                           *)

(* It is called with no error on its way.                                  *)
LEMMA WithoutError ==
  ASSUME IInv, pc \in {"eat", "line_comment", "block_comment", "string"}
  PROVE  /\ error = NoError
         /\ CallerInv /\ ReadingInv /\ LinesInv
         /\ InputInv /\ PositionInv /\ StackInv
BY NoErrorYet DEF IInv, RunningInv

(* A step that only reads on, in a line.                                   *)
LEMMA ReadOn ==
  ASSUME IInv, pc \in {"eat", "line_comment", "block_comment"},
         pc' \in {"eat", "line_comment", "block_comment"},
         UNCHANGED <<input, options, then, token, stack, string, key, result, error>>,
         ReadingInv',
         NEW n \in Nat, index + n <= Len(input), ConsumeChars(n),
         \A k \in index + 1 .. index + n : input[k] \notin LineBreaks
  PROVE  IInv'
<1>1. InputInv' /\ pc' # "done"
  BY DEF IInv, InputInv
<1>2. PositionInv' /\ LinesInv'
  BY WithoutError, Consumes, StaysInLine
<1>3. CallerInv' /\ StackInv'
  BY WithoutError, CallerStays
<1>4. ErrorInv'
  BY WithoutError, NoErrorStays
<1> QED
  BY <1>1, <1>2, <1>3, <1>4 DEF IInv, RunningInv

LEMMA EatWhitespaceStep == IInv /\ EatWhitespace => IInv'
<1> SUFFICES ASSUME IInv, EatWhitespace PROVE IInv'
  OBVIOUS
<1>1. pc = "eat" /\ pc' = "eat"
      /\ UNCHANGED <<input, options, then, token, stack, string, key, result, error>>
  BY DEF EatWhitespace
<1>2. ReadingInv'
  BY <1>1 DEF ReadingInv
<1>3. CASE PeekChar \in Blanks /\ ConsumeChars(1)
  <2>1. index + 1 \in 1 .. Len(input) /\ input[index + 1] \notin LineBreaks
        /\ index \in Nat
    BY <1>3, PeekedIsThere DEF IInv, Blanks, LineBreaks
  <2>2. index + 1 <= Len(input)
        /\ \A k \in index + 1 .. index + 1 : input[k] \notin LineBreaks
    BY <2>1, InputFacts DEF IInv
  <2>3. ConsumeChars(1)
    BY <1>3
  <2> QED
    BY <1>1, <1>2, <2>2, <2>3, ReadOn
<1>4. CASE PeekChar \in LineBreaks /\ ConsumeLineBreak
  <2>1. PositionInv' /\ LinesInv'
    BY <1>1, <1>4, WithoutError, BreakIsCounted
  <2>2. CallerInv' /\ StackInv'
    BY <1>1, WithoutError, CallerStays
  <2>3. ErrorInv'
    BY <1>1, WithoutError, NoErrorStays
  <2> QED
    BY <1>1, <1>2, <2>1, <2>2, <2>3 DEF IInv, InputInv, RunningInv
<1> QED
  BY <1>3, <1>4 DEF EatWhitespace

(* The token is that of the character at index; an error that is on its    *)
(* way goes with an invalid one.                                           *)
LEMMA TakeTokenStep ==
  ASSUME IInv, pc \in {"eat", "line_comment", "block_comment"}, TakeToken,
         \/ UNCHANGED error
         \/ error' = Reported("JSON_UNEXPECTED_TOKEN", 0) /\ PeekChar = "/"
  PROVE  IInv'
<1>1. pc' = "token" /\ token' = TokenOf(PeekChar)
      /\ UNCHANGED <<input, options, then, stack, string, key, result>>
      /\ UNCHANGED <<index, line_number, index_last_line>>
  BY DEF TakeToken, position
<1>2. InputInv' /\ PositionInv'
  BY <1>1 DEF IInv, InputInv, PositionInv
<1>3. CallerInv' /\ StackInv'
  BY <1>1, WithoutError, CallerStays
<1>4. ReadingInv'
  <2>1. PeekChar' = PeekChar
    BY <1>1 DEF PeekChar
  <2> QED
    BY <1>1, <2>1 DEF ReadingInv
<1>5. LinesInv'
  <2>1. BreaksBefore(index)' = BreaksBefore(index) /\ LineStart(index)' = LineStart(index)
    BY <1>1 DEF BreaksBefore, LineStart
  <2> QED
    BY <1>1, <2>1, WithoutError DEF LinesInv
<1>6. ErrorInv'
  <2>1. CASE UNCHANGED error
    BY <2>1, <1>1, WithoutError, NoErrorStays
  <2>2. CASE error' = Reported("JSON_UNEXPECTED_TOKEN", 0) /\ PeekChar = "/"
    <3>1. token' = "T_INVALID_TOKEN"
      BY <1>1, <2>2 DEF TokenOf, Digits
    <3>2. index' - index_last_line' + 0 \in Int /\ line_number \in Int
      BY <1>1, InputFacts DEF IInv, PositionInv
    <3>3. error'.line = line_number /\ error'.column >= 1
      BY <2>2, <3>2 DEF Reported
    <3> QED
      BY <1>1, <3>1, <3>2, <3>3 DEF ErrorInv
  <2> QED
    BY <2>1, <2>2
<1> QED
  BY <1>1, <1>2, <1>3, <1>4, <1>5, <1>6 DEF IInv, RunningInv

LEMMA SeeTokenStep == IInv /\ SeeToken => IInv'
BY TakeTokenStep DEF SeeToken

LEMMA CommentUnterminatedStep == IInv /\ CommentUnterminated => IInv'
BY TakeTokenStep DEF CommentUnterminated

LEMMA ForbiddenCommentStep == IInv /\ ForbiddenComment => IInv'
<1> SUFFICES ASSUME IInv, ForbiddenComment PROVE IInv'
  OBVIOUS
<1>1. PeekChar = "/"
  BY PeekedPair DEF IInv, ForbiddenComment
<1> QED
  BY <1>1, TakeTokenStep DEF ForbiddenComment

LEMMA BeginCommentStep == IInv /\ BeginComment => IInv'
<1> SUFFICES ASSUME IInv, BeginComment PROVE IInv'
  OBVIOUS
<1>1. /\ pc = "eat" /\ pc' \in {"line_comment", "block_comment"}
      /\ pc' = "block_comment" => PeekChars(2) # <<"/", "/">>
      /\ UNCHANGED <<input, options, then, token, stack, string, key, result, error>>
  BY DEF BeginComment
<1>2. /\ index \in Nat /\ index + 2 \in 1 .. Len(input)
      /\ input[index + 1] = "/"
      /\ input[index + 2] \in {"/", "*"}
      /\ PeekChars(2) # <<"/", "/">> => input[index + 2] = "*"
  BY PeekedPair DEF IInv, BeginComment
<1>3. index' = index + 2 /\ ConsumeChars(2)
  BY DEF BeginComment, ConsumeChars
<1>4. ReadingInv'
  <2>1. pc' = "block_comment" => \E k \in 1 .. index' : input'[k] = "*"
    BY <1>1, <1>2, <1>3
  <2> QED
    BY <1>1, <2>1 DEF ReadingInv
<1>5. \A k \in index + 1 .. index + 2 : input[k] \notin LineBreaks
  <2>1. \A k \in index + 1 .. index + 2 : k = index + 1 \/ k = index + 2
    BY <1>2
  <2> QED
    BY <2>1, <1>2 DEF LineBreaks
<1>6. index + 2 <= Len(input)
  BY <1>2, InputFacts DEF IInv
<1> QED
  BY <1>1, <1>3, <1>4, <1>5, <1>6, ReadOn

LEMMA LineCommentStep == IInv /\ LineComment => IInv'
<1> SUFFICES ASSUME IInv, LineComment PROVE IInv'
  OBVIOUS
<1>1. /\ pc = "line_comment" /\ pc' \in {"eat", "line_comment"}
      /\ UNCHANGED <<input, options, then, token, stack, string, key, result, error>>
      /\ index + 1 \in 1 .. Len(input) /\ PeekChar = input[index + 1]
      /\ index \in Nat
  BY PeekedIsThere DEF LineComment, IInv
<1>2. ReadingInv'
  BY <1>1 DEF ReadingInv
<1>3. CASE PeekChar \in LineBreaks
  <2>1. ConsumeChars(0)
    BY <1>3, <1>1 DEF LineComment, position, ConsumeChars
  <2>2. index + 0 <= Len(input) /\ \A k \in index + 1 .. index + 0 : input[k] \notin LineBreaks
    BY <1>1, InputFacts DEF IInv
  <2> QED
    BY <1>1, <1>2, <2>1, <2>2, ReadOn
<1>4. CASE PeekChar \notin LineBreaks
  <2>1. ConsumeChars(1)
    BY <1>4 DEF LineComment
  <2>2. index + 1 <= Len(input) /\ \A k \in index + 1 .. index + 1 : input[k] \notin LineBreaks
    BY <1>1, <1>4, InputFacts DEF IInv
  <2> QED
    BY <1>1, <1>2, <2>1, <2>2, ReadOn
<1> QED
  BY <1>3, <1>4

(* In a block comment nothing is promised of lines.                        *)
LEMMA BlockCommentStep == IInv /\ BlockComment => IInv'
<1> SUFFICES ASSUME IInv, BlockComment PROVE IInv'
  OBVIOUS
<1>1. /\ pc = "block_comment" /\ pc' \in {"eat", "block_comment"}
      /\ UNCHANGED <<input, options, then, token, stack, string, key, result, error>>
      /\ index + 1 <= Len(input) /\ index \in Nat
      /\ ConsumeChars(1) /\ index' = index + 1
  BY PeekedIsThere, InputFacts DEF BlockComment, IInv, ConsumeChars
<1>2. PositionInv'
  BY <1>1, WithoutError, Consumes
<1>3. CallerInv' /\ StackInv' /\ ErrorInv'
  BY <1>1, WithoutError, CallerStays, NoErrorStays
<1>4. PICK k \in 1 .. index : input[k] = "*"
  BY <1>1 DEF IInv, RunningInv, ReadingInv
<1>5. k \in 1 .. index' /\ input'[k] = "*"
  BY <1>1, <1>4
<1>6. ReadingInv' /\ LinesInv'
  BY <1>1, <1>5 DEF ReadingInv, LinesInv
<1> QED
  BY <1>1, <1>2, <1>3, <1>6 DEF IInv, InputInv, RunningInv

-----------------------------------------------------------------------------
(* The callers of GetNextToken.                                            *)

LEMMA AtToken ==
  ASSUME IInv, pc = "token"
  PROVE  /\ CallerInv /\ ReadingInv /\ LinesInv
         /\ InputInv /\ PositionInv /\ StackInv
         /\ pc # "done"
         /\ index \in Nat /\ index + 0 <= Len(input)
BY InputFacts DEF IInv, RunningInv, PositionInv

LEMMA AtGoodToken ==
  ASSUME IInv, pc = "token", token \notin {"T_INVALID_TOKEN", "T_END_OF_INPUT"}
  PROVE  /\ error = NoError
         /\ index + 1 <= Len(input)
         /\ PeekChar = input[index + 1]
         /\ PeekChar \notin LineBreaks \cup {"*", "end"}
         /\ token = TokenOf(PeekChar)
<1>1. error = NoError
  BY NoErrorYet DEF IInv
<1>2. /\ index + 1 \in 1 .. Len(input)
      /\ PeekChar = input[index + 1]
      /\ PeekChar \notin LineBreaks \cup {"*", "end"}
  BY TokenIsThere DEF IInv
<1>3. token = TokenOf(PeekChar)
  BY AtToken DEF ReadingInv
<1> QED
  BY <1>1, <1>2, <1>3, InputFacts DEF IInv

(* The character of the token is read.                                     *)
LEMMA TokenIsRead ==
  ASSUME IInv, pc = "token", token \notin {"T_INVALID_TOKEN", "T_END_OF_INPUT"},
         ConsumeChars(1), UNCHANGED input
  PROVE  PositionInv' /\ LinesInv'
<1>1. index \in Nat /\ index + 1 <= Len(input) /\ input[index + 1] \notin LineBreaks
  BY AtToken, AtGoodToken
<1>2. \A k \in index + 1 .. index + 1 : input[k] \notin LineBreaks
  BY <1>1
<1> QED
  BY <1>1, <1>2, AtToken, Consumes, StaysInLine

(* ParseToken is called where a value may be.                              *)
LEMMA ParsesTokenFacts ==
  ASSUME IInv, ParsesToken
  PROVE  /\ pc = "token" /\ then \in {"value", "item", "next"}
         /\ result = NoValue
<1>1. pc = "token" /\ then \in {"value", "item", "next"}
  BY DEF ParsesToken, For
<1> QED
  BY <1>1, AtToken DEF CallerInv

LEMMA OpenContainerStep == IInv /\ OpenContainer => IInv'
<1> SUFFICES ASSUME IInv, OpenContainer PROVE IInv'
  OBVIOUS
<1>1. /\ pc = "token" /\ result = NoValue
      /\ token \in {"T_OBJECT_BEGIN", "T_ARRAY_BEGIN"}
      /\ token \notin {"T_INVALID_TOKEN", "T_END_OF_INPUT"}
  BY ParsesTokenFacts DEF OpenContainer
<1>2. error = NoError /\ index \in Nat /\ index + 1 <= Len(input)
  BY <1>1, AtToken, AtGoodToken
<1>3. CASE IsTooDeep
  BY <1>1, <1>2, <1>3, ErrorStep DEF OpenContainer
<1>4. CASE ~IsTooDeep
  <2> DEFINE list == token = "T_ARRAY_BEGIN"
             c == [kind |-> IF list THEN "list" ELSE "dict",
                   key |-> <<>>, values |-> <<>>]
             caller == IF list THEN "item" ELSE "key"
  <2>1. ConsumeChars(1) /\ stack' = Append(stack, c) /\ NextTokenFor(caller)
        /\ result' = result
    BY <1>4 DEF OpenContainer
  <2>2. IsContainer(c) /\ (c.kind = "list" <=> list)
    BY DEF IsContainer
  <2>3. IF list THEN caller = "item" ELSE caller = "key"
    OBVIOUS
  <2> HIDE DEF c, list, caller
  <2>4. InputInv' /\ ErrorInv' /\ ReadingInv' /\ UNCHANGED input /\ pc' = "eat"
        /\ then' = caller
    BY <2>1, <2>3, <1>1, <1>2, AtToken, NextTokenStep DEF Callers
  <2>5. PositionInv' /\ LinesInv'
    BY <1>1, <2>1, <2>4, TokenIsRead
  <2>6. /\ AreContainers(stack') /\ Len(stack') = Len(stack) + 1
        /\ stack' # <<>> /\ Last(stack') = c
    BY <2>1, <2>2, <1>1, AtToken, AppendContainer DEF StackInv
  <2>7. StackInv'
    <3>1. AreContainers(stack)'
      BY <2>6 DEF AreContainers, Range, IsContainer
    <3>2. Len(stack) \in Nat /\ MaxDepth \in Nat
      BY <1>1, AtToken, LenProperties, JsonAssumption DEF StackInv, AreContainers
    <3>3. Len(stack') < MaxDepth
      BY <3>2, <1>4, <2>6 DEF IsTooDeep
    <3> QED
      BY <3>1, <3>3 DEF StackInv
  <2>8. InList' <=> list
    BY <2>2, <2>6 DEF InList, Last
  <2>9. CallerInv'
    BY <2>1, <2>3, <2>4, <2>6, <2>8, <1>1 DEF CallerInv
  <2> QED
    BY <2>4, <2>5, <2>7, <2>9 DEF IInv, RunningInv
<1> QED
  BY <1>3, <1>4

(* A string begins behind its quotation mark.                              *)
LEMMA BeginStringStep ==
  ASSUME IInv, pc = "token", token = "T_STRING", NEW is_key \in BOOLEAN,
         BeginString(is_key), then \in {"value", "item", "key", "next"},
         is_key => stack # <<>> /\ ~InList
  PROVE  IInv'
<1>1. /\ pc' = "string" /\ key' = is_key /\ ConsumeChars(1)
      /\ UNCHANGED <<input, options, then, token, stack, result, error>>
  BY DEF BeginString
<1>2. error = NoError
  BY AtGoodToken
<1>3. PositionInv' /\ LinesInv'
  BY <1>1, TokenIsRead
<1>4. CallerInv' /\ StackInv' /\ ErrorInv'
  BY <1>1, <1>2, AtToken, CallerStays, NoErrorStays
<1>5. ReadingInv'
  BY <1>1 DEF ReadingInv, InList
<1> QED
  BY <1>1, <1>3, <1>4, <1>5 DEF IInv, InputInv, RunningInv

LEMMA StringValueStep == IInv /\ StringValue => IInv'
BY ParsesTokenFacts, BeginStringStep DEF StringValue

LEMMA NoSuchValueStep == IInv /\ NoSuchValue => IInv'
<1> SUFFICES ASSUME IInv, NoSuchValue PROVE IInv'
  OBVIOUS
<1>1. pc = "token"
  BY ParsesTokenFacts DEF NoSuchValue
<1> QED
  BY <1>1, AtToken, ErrorStep DEF NoSuchValue

(* The token that closes a container has one to close.                     *)
LEMMA ClosesFacts ==
  ASSUME IInv, ClosesContainer
  PROVE  /\ pc = "token" /\ stack # <<>> /\ then # "end"
         /\ token \notin {"T_INVALID_TOKEN", "T_END_OF_INPUT"}
<1>1. /\ pc = "token" /\ then \in {"item", "key", "next", "separator"}
      /\ token \notin {"T_INVALID_TOKEN", "T_END_OF_INPUT"}
  BY DEF ClosesContainer, For
<1> QED
  BY <1>1, AtToken DEF CallerInv

LEMMA CloseContainerStep == IInv /\ CloseContainer => IInv'
<1> SUFFICES ASSUME IInv, CloseContainer PROVE IInv'
  OBVIOUS
<1>1. /\ pc = "token" /\ stack # <<>> /\ then # "end"
      /\ token \notin {"T_INVALID_TOKEN", "T_END_OF_INPUT"}
      /\ ConsumeChars(1) /\ Return(ContainerValue(Last(stack)), Front(stack))
  BY ClosesFacts DEF CloseContainer
<1>2. ContainerValue(Last(stack)) # NoValue
  BY DEF ContainerValue, NoValue
<1>3. /\ AreContainers(Front(stack))
      /\ Front(stack) = <<>> \/ Len(Front(stack)) < MaxDepth
  <2>1. AreContainers(stack) /\ Len(stack) \in Nat /\ MaxDepth \in Nat
        /\ Len(stack) < MaxDepth
    BY <1>1, AtToken, LenProperties, JsonAssumption DEF StackInv, AreContainers
  <2> QED
    BY <1>1, <2>1, FrontContainers
<1>4. error = NoError
  BY <1>1, AtGoodToken
<1>5. InputInv' /\ StackInv' /\ ErrorInv' /\ CallerInv' /\ ReadingInv' /\ UNCHANGED input
  BY <1>1, <1>2, <1>3, <1>4, AtToken, ReturnStep
<1>6. PositionInv' /\ LinesInv'
  BY <1>1, <1>5, TokenIsRead
<1> QED
  BY <1>5, <1>6 DEF IInv, RunningInv

LEMMA TrailingCommaStep == IInv /\ TrailingComma => IInv'
BY ClosesFacts, AtToken, ErrorStep DEF TrailingComma

(* One of the separators is read, and the next token is for the caller.    *)
LEMMA SeparatorIsRead ==
  ASSUME IInv, pc = "token", token \notin {"T_INVALID_TOKEN", "T_END_OF_INPUT"},
         then # "end", NEW caller \in {"next", "value"},
         caller = "next" => stack # <<>>,
         ConsumeChars(1), NextTokenFor(caller), UNCHANGED <<stack, string, key, result>>
  PROVE  IInv'
<1>1. error = NoError
  BY AtGoodToken
<1>2. InputInv' /\ ErrorInv' /\ ReadingInv' /\ UNCHANGED input /\ then' = caller
  BY <1>1, AtToken, NextTokenStep DEF Callers
<1>3. PositionInv' /\ LinesInv'
  BY <1>2, TokenIsRead
<1>4. StackInv'
  BY AtToken DEF StackInv
<1>5. CallerInv'
  BY <1>2, AtToken DEF CallerInv
<1> QED
  BY <1>2, <1>3, <1>4, <1>5 DEF IInv, RunningInv

LEMMA SeparatorStep == IInv /\ Separator => IInv'
<1> SUFFICES ASSUME IInv, Separator PROVE IInv'
  OBVIOUS
<1>1. pc = "token" /\ then = "separator" /\ stack # <<>>
  BY AtToken DEF Separator, For, CallerInv
<1>2. CASE token = "T_LIST_SEPARATOR"
  BY <1>1, <1>2, SeparatorIsRead DEF Separator
<1>3. CASE token # "T_LIST_SEPARATOR"
  BY <1>1, <1>3, AtToken, ErrorStep DEF Separator
<1> QED
  BY <1>2, <1>3

LEMMA ColonStep == IInv /\ Colon => IInv'
<1> SUFFICES ASSUME IInv, Colon PROVE IInv'
  OBVIOUS
<1>1. pc = "token" /\ then = "colon"
  BY DEF Colon, For
<1>2. CASE token = "T_OBJECT_PAIR_SEPARATOR"
  BY <1>1, <1>2, SeparatorIsRead DEF Colon
<1>3. CASE token # "T_OBJECT_PAIR_SEPARATOR"
  BY <1>1, <1>3, AtToken, ErrorStep DEF Colon
<1> QED
  BY <1>2, <1>3

LEMMA KeyStep == IInv /\ Key => IInv'
<1> SUFFICES ASSUME IInv, Key PROVE IInv'
  OBVIOUS
<1>1. pc = "token" /\ then \in {"key", "next"} /\ ~InList /\ stack # <<>>
  BY AtToken DEF Key, For, CallerInv
<1>2. CASE token = "T_STRING"
  BY <1>1, <1>2, BeginStringStep DEF Key
<1>3. CASE token # "T_STRING"
  BY <1>1, <1>3, AtToken, ErrorStep DEF Key
<1> QED
  BY <1>2, <1>3

LEMMA EndOfInputStep == IInv /\ EndOfInput => IInv'
<1> SUFFICES ASSUME IInv, EndOfInput PROVE IInv'
  OBVIOUS
<1>1. pc = "token" /\ then = "end"
  BY DEF EndOfInput, For
<1>2. CASE token = "T_END_OF_INPUT"
  <2>1. /\ pc' = "done"
        /\ UNCHANGED <<input, options, then, stack, result, error>>
        /\ UNCHANGED <<index, line_number, index_last_line>>
    BY <1>2 DEF EndOfInput, position
  <2>2. error = NoError /\ stack = <<>> /\ result # NoValue
    BY <1>1, <1>2, AtToken, NoErrorYet DEF IInv, CallerInv
  <2> QED
    BY <1>1, <2>1, <2>2 DEF IInv, InputInv, PositionInv, StackInv, ErrorInv,
       RunningInv, Callers
<1>3. CASE token # "T_END_OF_INPUT"
  BY <1>1, <1>3, AtToken, ErrorStep DEF EndOfInput
<1> QED
  BY <1>2, <1>3

-----------------------------------------------------------------------------
(* Numbers and literals.                                                   *)

LEMMA DigitsAreThere ==
  ASSUME InputInv, NEW i \in 1 .. Len(input) + 1
  PROVE  /\ DigitsEnd(i) \in i - 1 .. Len(input)
         /\ \A k \in i .. DigitsEnd(i) : input[k] \in Digits
         /\ At(DigitsEnd(i) + 1) \notin Digits
<1> DEFINE End(j) == /\ \A k \in i .. j : At(k) \in Digits
                     /\ At(j + 1) \notin Digits
           T == {j \in i - 1 .. Len(input) : At(j + 1) \notin Digits}
<1>1. Len(input) \in Nat /\ i \in Nat \ {0} /\ i - 1 \in Nat
  BY InputFacts
<1>2. T \subseteq Nat /\ Len(input) \in T
  <2>1. At(Len(input) + 1) = "end"
    BY <1>1 DEF At
  <2>2. "end" \notin Digits
    BY DEF Digits
  <2> QED
    BY <1>1, <2>1, <2>2
<1>3. PICK j \in T : \A l \in T : j <= l
  <2> HIDE DEF T
  <2> QED
    BY <1>2, LeastNatural
<1>4. ASSUME NEW k \in i .. j PROVE At(k) \in Digits
  <2>1. k - 1 \in i - 1 .. Len(input) /\ ~(j <= k - 1) /\ (k - 1) + 1 = k
    BY <1>1, <1>3
  <2> QED
    BY <2>1, <1>3
<1>5. j \in i - 1 .. Len(input) /\ End(j)
  BY <1>3, <1>4
<1>6. DigitsEnd(i) = CHOOSE l \in i - 1 .. Len(input) : End(l)
  BY DEF DigitsEnd
<1>7. DigitsEnd(i) \in i - 1 .. Len(input) /\ End(DigitsEnd(i))
  <2> HIDE DEF End
  <2> QED
    BY <1>5, <1>6
<1>8. \A k \in i .. DigitsEnd(i) : k \in Nat /\ k <= Len(input)
  BY <1>1, <1>7
<1> QED
  BY <1>7, <1>8 DEF At

(* A character that is not "end" is there.                                 *)
LEMMA AtIsThere ==
  ASSUME InputInv, NEW i \in Nat, At(i) # "end"
  PROVE  i <= Len(input) /\ input[i] = At(i)
BY DEF At

LEMMA NoBreaks ==
  /\ Digits \cap LineBreaks = {}
  /\ HexDigits \cap LineBreaks = {}
  /\ "end" \notin Digits /\ "end" \notin HexDigits
BY DEF Digits, HexDigits, LineBreaks

LEMMA ConsumeNumberStep == IInv /\ ConsumeNumber => IInv'
<1> SUFFICES ASSUME IInv, ConsumeNumber PROVE IInv'
  OBVIOUS
<1> DEFINE first == index + (IF PeekChar = "-" THEN 2 ELSE 1)
           whole == DigitsEnd(first)
           fraction == IF At(whole + 1) = "." THEN DigitsEnd(whole + 2)
                                              ELSE whole
           exponent == fraction
                         + (IF At(fraction + 2) \in {"-", "+"} THEN 3 ELSE 2)
           end == IF At(fraction + 1) = "e" THEN DigitsEnd(exponent)
                                            ELSE fraction
           num == SubSeq(input, index + 1, end)
<1>1. /\ pc = "token" /\ then \in {"value", "item", "next"} /\ token = "T_NUMBER"
      /\ token \notin {"T_INVALID_TOKEN", "T_END_OF_INPUT"}
  BY ParsesTokenFacts DEF ConsumeNumber
<1>2. /\ error = NoError /\ index \in Nat /\ Len(input) \in Nat
      /\ index + 1 <= Len(input) /\ PeekChar = input[index + 1]
      /\ PeekChar \notin LineBreaks
      /\ InputInv /\ pc # "done"
  BY <1>1, AtToken, AtGoodToken, InputFacts
<1>3. \/ ParseError("JSON_SYNTAX_ERROR", 0, whole - index)
      \/ ParseError("JSON_SYNTAX_ERROR", 0, fraction - index)
      \/ ParseError("JSON_SYNTAX_ERROR", 0, end - index)
      \/ ParseError("JSON_UNREPRESENTABLE_NUMBER", 0, Len(num))
      \/ ConsumeChars(Len(num)) /\ Return(<<"number", num>>, stack)
  BY DEF ConsumeNumber
<1>4. /\ first \in 1 .. Len(input) + 1 /\ first >= index + 1
      /\ \A k \in index + 1 .. first - 1 : input[k] \notin LineBreaks
  <2>1. first = index + 1 \/ first = index + 2
    OBVIOUS
  <2>2. \A k \in index + 1 .. first - 1 : k = index + 1
    BY <1>2, <2>1
  <2> QED
    BY <1>2, <2>1, <2>2
<1> HIDE DEF first
<1>5. /\ whole \in index .. Len(input)
      /\ \A k \in first .. whole : input[k] \notin LineBreaks
  <2>1. whole \in first - 1 .. Len(input) /\ \A k \in first .. whole : input[k] \in Digits
    BY <1>2, <1>4, DigitsAreThere
  <2> QED
    BY <1>2, <1>4, <2>1, NoBreaks
<1>6. \A k \in index + 1 .. whole : input[k] \notin LineBreaks
  BY <1>2, <1>4, <1>5
<1> HIDE DEF whole
<1>7. /\ fraction \in whole .. Len(input)
      /\ \A k \in whole + 1 .. fraction : input[k] \notin LineBreaks
  <2>1. CASE At(whole + 1) = "."
    <3>1. whole + 1 \in Nat /\ At(whole + 1) # "end"
      BY <2>1, <1>2, <1>5
    <3>2. whole + 1 <= Len(input) /\ input[whole + 1] = "."
      BY <1>2, <2>1, <3>1, AtIsThere
    <3>3. whole + 2 \in 1 .. Len(input) + 1
      BY <1>2, <1>5, <3>2
    <3>4. /\ fraction \in whole + 1 .. Len(input)
          /\ \A k \in whole + 2 .. fraction : input[k] \in Digits
      BY <1>2, <1>5, <2>1, <3>3, DigitsAreThere
    <3>5. \A k \in whole + 1 .. fraction : k = whole + 1 \/ k \in whole + 2 .. fraction
      BY <1>2, <1>5, <3>4
    <3>6. "." \notin LineBreaks
      BY DEF LineBreaks
    <3> QED
      BY <1>2, <1>5, <3>2, <3>4, <3>5, <3>6, NoBreaks
  <2>2. CASE At(whole + 1) # "."
    BY <2>2, <1>2, <1>5
  <2> QED
    BY <2>1, <2>2
<1> HIDE DEF fraction
<1>8. /\ end \in fraction .. Len(input)
      /\ \A k \in fraction + 1 .. end : input[k] \notin LineBreaks
  <2>1. CASE At(fraction + 1) = "e"
    <3>1. fraction \in Nat /\ fraction + 1 \in Nat /\ At(fraction + 1) # "end"
      BY <2>1, <1>2, <1>5, <1>7
    <3>2. fraction + 1 <= Len(input) /\ input[fraction + 1] = "e"
      BY <1>2, <2>1, <3>1, AtIsThere
    <3>3. /\ exponent \in fraction + 2 .. Len(input) + 1
          /\ \A k \in fraction + 2 .. exponent - 1 : input[k] \notin LineBreaks
      <4>1. CASE At(fraction + 2) \in {"-", "+"}
        <5>1. fraction + 2 \in Nat /\ At(fraction + 2) # "end"
          BY <4>1, <3>1
        <5>2. fraction + 2 <= Len(input) /\ input[fraction + 2] \in {"-", "+"}
          BY <1>2, <4>1, <5>1, AtIsThere
        <5>3. exponent = fraction + 3
          BY <4>1
        <5>4. \A k \in fraction + 2 .. exponent - 1 : k = fraction + 2
          BY <3>1, <5>3
        <5> QED
          BY <1>2, <3>1, <5>2, <5>3, <5>4 DEF LineBreaks
      <4>2. CASE At(fraction + 2) \notin {"-", "+"}
        BY <4>2, <1>2, <3>1, <3>2
      <4> QED
        BY <4>1, <4>2
    <3> HIDE DEF exponent
    <3>4. exponent \in 1 .. Len(input) + 1
      BY <1>2, <3>1, <3>3
    <3>5. /\ end \in exponent - 1 .. Len(input)
          /\ \A k \in exponent .. end : input[k] \in Digits
      BY <1>2, <2>1, <3>4, DigitsAreThere
    <3>6. \A k \in fraction + 1 .. end :
             \/ k = fraction + 1
             \/ k \in fraction + 2 .. exponent - 1
             \/ k \in exponent .. end
      BY <1>2, <3>1, <3>3, <3>5
    <3>7. "e" \notin LineBreaks
      BY DEF LineBreaks
    <3> QED
      BY <1>2, <3>1, <3>2, <3>3, <3>5, <3>6, <3>7, NoBreaks
  <2>2. CASE At(fraction + 1) # "e"
    BY <2>2, <1>2, <1>5, <1>7
  <2> QED
    BY <2>1, <2>2
<1> HIDE DEF end
<1>9. end \in index .. Len(input)
      /\ \A k \in index + 1 .. end : input[k] \notin LineBreaks
  <2>1. \A k \in index + 1 .. end :
           k \in index + 1 .. whole \/ k \in whole + 1 .. fraction \/ k \in fraction + 1 .. end
    BY <1>2, <1>5, <1>7, <1>8
  <2> QED
    BY <2>1, <1>2, <1>5, <1>6, <1>7, <1>8
<1>10. Len(num) = end - index
  <2>1. index + 1 \in Int /\ end \in Int
    BY <1>2, <1>9
  <2>2. \A i \in index + 1 .. end : input[i] \in STRING
    <3>1. \A i \in index + 1 .. end : i \in 1 .. Len(input)
      BY <1>2, <1>9
    <3> QED
      BY <1>2, <3>1, InputFacts, ElementOfSeq
  <2>3. Len(num) = IF index + 1 <= end THEN end - (index + 1) + 1 ELSE 0
    <3> HIDE DEF num
    <3>1. num = SubSeq(input, index + 1, end)
      BY DEF num
    <3> QED
      BY <2>1, <2>2, <3>1, SubSeqProperties
  <2> HIDE DEF num
  <2> QED
    BY <2>3, <1>2, <1>9
<1> HIDE DEF num
<1>11. /\ whole - index \in Nat /\ index + (whole - index) <= Len(input)
       /\ fraction - index \in Nat /\ index + (fraction - index) <= Len(input)
       /\ end - index \in Nat /\ index + (end - index) <= Len(input)
       /\ index + (end - index) = end
  BY <1>2, <1>5, <1>7, <1>9
<1>12. CASE \/ ParseError("JSON_SYNTAX_ERROR", 0, whole - index)
            \/ ParseError("JSON_SYNTAX_ERROR", 0, fraction - index)
            \/ ParseError("JSON_SYNTAX_ERROR", 0, end - index)
            \/ ParseError("JSON_UNREPRESENTABLE_NUMBER", 0, Len(num))
  BY <1>2, <1>10, <1>11, <1>12, ErrorStep
<1>13. CASE ConsumeChars(Len(num)) /\ Return(<<"number", num>>, stack)
  <2>1. <<"number", num>> # NoValue
    BY DEF NoValue
  <2>2. InputInv' /\ StackInv' /\ ErrorInv' /\ CallerInv' /\ ReadingInv' /\ UNCHANGED input
    BY <1>1, <1>2, <1>13, <2>1, AtToken, ReturnStep DEF StackInv
  <2>3. ConsumeChars(end - index)
    BY <1>10, <1>13
  <2>4. PositionInv' /\ LinesInv'
    BY <1>1, <1>9, <1>11, <2>2, <2>3, AtToken, Consumes, StaysInLine
  <2> QED
    BY <2>2, <2>4 DEF IInv, RunningInv
<1> QED
  BY <1>3, <1>12, <1>13

LEMMA LiteralsAreInLine ==
  ASSUME NEW l \in Literals
  PROVE  /\ Len(l) \in {4, 5}
         /\ \A k \in 1 .. Len(l) : l[k] \notin LineBreaks
<1>1. \/ l = <<"t", "r", "u", "e">> /\ Len(l) = 4
      \/ l = <<"f", "a", "l", "s", "e">> /\ Len(l) = 5
      \/ l = <<"n", "u", "l", "l">> /\ Len(l) = 4
  BY DEF Literals
<1>2. Len(l) \in {4, 5}
  BY <1>1
<1>3. ASSUME NEW k \in 1 .. Len(l) PROVE l[k] \notin LineBreaks
  <2>1. PICK n \in {4, 5} : n = Len(l)
    BY <1>2
  <2>2. k = 1 \/ k = 2 \/ k = 3 \/ k = 4 \/ k = 5
    <3>1. k \in 1 .. n
      BY <2>1
    <3>2. CASE n = 4
      BY <3>1, <3>2
    <3>3. CASE n = 5
      BY <3>1, <3>3
    <3> QED
      BY <3>2, <3>3
  <2> QED
    BY <1>1, <2>2 DEF LineBreaks
<1> QED
  BY <1>2, <1>3

LEMMA ConsumeLiteralStep == IInv /\ ConsumeLiteral => IInv'
<1> SUFFICES ASSUME IInv, ConsumeLiteral PROVE IInv'
  OBVIOUS
<1>1. /\ pc = "token" /\ then \in {"value", "item", "next"}
      /\ token \notin {"T_INVALID_TOKEN", "T_END_OF_INPUT"}
  BY ParsesTokenFacts DEF ConsumeLiteral
<1>2. error = NoError /\ index \in Nat /\ Len(input) \in Nat
      /\ InputInv /\ pc # "done" /\ index + 0 <= Len(input)
  BY <1>1, AtToken, AtGoodToken, InputFacts
<1>3. CASE \E m \in Literals : PeekChars(Len(m)) = m
  <2> DEFINE l == CHOOSE m \in Literals : PeekChars(Len(m)) = m
  <2>1. l \in Literals /\ PeekChars(Len(l)) = l
    BY <1>3
  <2>2. ConsumeChars(Len(l)) /\ Return(<<"literal", l>>, stack)
    BY <1>3 DEF ConsumeLiteral
  <2> HIDE DEF l
  <2>3. Len(l) \in Nat /\ Len(l) > 0 /\ l # <<>>
        /\ \A k \in 1 .. Len(l) : l[k] \notin LineBreaks
    BY <2>1, LiteralsAreInLine
  <2>4. Len(l) <= Len(input) - index /\ l = SubSeq(input, index + 1, index + Len(l))
    BY <1>2, <2>1, <2>3 DEF PeekChars
  <2>5. index + Len(l) <= Len(input)
    BY <1>2, <2>3, <2>4
  <2>6. \A k \in index + 1 .. index + Len(l) : input[k] \notin LineBreaks
    <3>1. \A i \in index + 1 .. index + Len(l) : input[i] \in STRING
      <4>1. \A i \in index + 1 .. index + Len(l) : i \in 1 .. Len(input)
        BY <1>2, <2>3, <2>5
      <4> QED
        BY <1>2, <4>1, InputFacts, ElementOfSeq
    <3>2. PICK n \in Nat : n = Len(l)
      BY <2>3
    <3>3. \A i \in 1 .. (index + n) - (index + 1) + 1 :
             SubSeq(input, index + 1, index + n)[i] = input[(index + 1) + i - 1]
      <4>1. index + 1 \in Int /\ index + n \in Int
        BY <1>2
      <4> QED
        BY <3>1, <3>2, <4>1, SubSeqProperties
    <3>4. ASSUME NEW k \in index + 1 .. index + n PROVE input[k] \notin LineBreaks
      <4>1. k - index \in 1 .. (index + n) - (index + 1) + 1 /\ k - index \in 1 .. n
            /\ (index + 1) + (k - index) - 1 = k
        BY <1>2, <3>2
      <4> QED
        BY <4>1, <3>2, <3>3, <2>3, <2>4
    <3> QED
      BY <3>2, <3>4
  <2>7. <<"literal", l>> # NoValue
    BY DEF NoValue
  <2>8. InputInv' /\ StackInv' /\ ErrorInv' /\ CallerInv' /\ ReadingInv' /\ UNCHANGED input
    BY <1>1, <1>2, <2>2, <2>7, AtToken, ReturnStep DEF StackInv
  <2>9. PositionInv' /\ LinesInv'
    BY <1>1, <2>2, <2>3, <2>5, <2>6, <2>8, AtToken, Consumes, StaysInLine
  <2> QED
    BY <2>8, <2>9 DEF IInv, RunningInv
<1>4. CASE ~\E m \in Literals : PeekChars(Len(m)) = m
  BY <1>2, <1>4, ErrorStep DEF ConsumeLiteral
<1> QED
  BY <1>3, <1>4

-----------------------------------------------------------------------------
(* Strings.                                                                *)

LEMMA InAString ==
  ASSUME IInv, InString
  PROVE  /\ error = NoError /\ result = NoValue
         /\ then \in {"value", "item", "key", "next"} /\ pc = "string" /\ pc # "done"
         /\ InputInv /\ PositionInv /\ StackInv
         /\ CallerInv /\ ReadingInv /\ LinesInv
         /\ index \in Nat /\ Len(input) \in Nat /\ index + 0 <= Len(input)
<1>1. pc = "string" /\ pc # "done"
  BY DEF InString
<1>2. /\ error = NoError
      /\ InputInv /\ PositionInv /\ StackInv
      /\ CallerInv /\ ReadingInv /\ LinesInv
  BY <1>1, WithoutError
<1>3. then \in {"value", "item", "key", "next"} /\ result = NoValue
  BY <1>1, <1>2 DEF ReadingInv, CallerInv
<1>4. index \in Nat /\ Len(input) \in Nat /\ index + 0 <= Len(input)
  BY <1>2, InputFacts DEF PositionInv
<1> QED
  BY <1>1, <1>2, <1>3, <1>4

LEMMA WriteStep ==
  ASSUME IInv, InString, NEW chars, NEW n \in Nat, index + n <= Len(input),
         \A k \in index + 1 .. index + n : input[k] \notin LineBreaks,
         Write(chars, n)
  PROVE  IInv'
<1>1. /\ ConsumeChars(n)
      /\ UNCHANGED <<input, options, pc, then, token, stack, key, result, error>>
  BY DEF Write
<1>2. PositionInv' /\ LinesInv'
  BY <1>1, InAString, Consumes, StaysInLine
<1>3. CallerInv' /\ StackInv' /\ ErrorInv'
  BY <1>1, InAString, CallerStays, NoErrorStays
<1>4. ReadingInv'
  BY <1>1, InAString DEF ReadingInv, InList
<1> QED
  BY <1>1, <1>2, <1>3, <1>4 DEF IInv, InputInv, RunningInv

(* A character in a string that is there and ends no line.                 *)
LEMMA CharacterInString ==
  ASSUME IInv, InString, PeekChar # "end"
  PROVE  /\ index + 1 <= Len(input) /\ PeekChar = input[index + 1]
         /\ PeekChar \notin LineBreaks =>
              \A k \in index + 1 .. index + 1 : input[k] \notin LineBreaks
<1>1. index + 1 \in 1 .. Len(input) /\ PeekChar = input[index + 1] /\ index \in Nat
  BY InAString, PeekedIsThere
<1>2. \A k \in index + 1 .. index + 1 : k = index + 1
  BY <1>1
<1> QED
  BY <1>1, <1>2, InAString

LEMMA CopyCharacterStep == IInv /\ CopyCharacter => IInv'
BY CharacterInString, WriteStep DEF CopyCharacter

LEMMA InvalidCharacterStep == IInv /\ InvalidCharacter => IInv'
<1> SUFFICES ASSUME IInv, InvalidCharacter PROVE IInv'
  OBVIOUS
<1>1. InString /\ PeekChar = "bad" /\ PeekChar # "end" /\ PeekChar \notin LineBreaks
  BY DEF InvalidCharacter, LineBreaks
<1>2. CASE ReplacesInvalid
  <2>1. Write(Replacement, 1)
    BY <1>2 DEF InvalidCharacter
  <2> QED
    BY <1>1, <2>1, CharacterInString, WriteStep
<1>3. CASE ~ReplacesInvalid
  BY <1>1, <1>3, InAString, ErrorStep DEF InvalidCharacter
<1> QED
  BY <1>2, <1>3

LEMMA LineBreakInStringStep == IInv /\ LineBreakInString => IInv'
<1> SUFFICES ASSUME IInv, LineBreakInString PROVE IInv'
  OBVIOUS
<1>1. InString /\ PeekChar \in LineBreaks
  BY DEF LineBreakInString
<1>2. CASE "JSON_ALLOW_NEWLINES_IN_STRINGS" \in options
  <2>1. /\ ConsumeLineBreak
        /\ UNCHANGED <<input, options, pc, then, token, stack, key, result, error>>
    BY <1>2 DEF LineBreakInString
  <2>2. PositionInv' /\ LinesInv'
    BY <1>1, <2>1, InAString, BreakIsCounted
  <2>3. CallerInv' /\ StackInv' /\ ErrorInv'
    BY <1>1, <2>1, InAString, CallerStays, NoErrorStays
  <2>4. ReadingInv'
    BY <1>1, <2>1, InAString DEF ReadingInv, InList
  <2> QED
    BY <2>1, <2>2, <2>3, <2>4 DEF IInv, InputInv, RunningInv
<1>3. CASE "JSON_ALLOW_NEWLINES_IN_STRINGS" \notin options
  BY <1>1, <1>3, InAString, ErrorStep DEF LineBreakInString
<1> QED
  BY <1>2, <1>3

LEMMA ControlCharacterStep == IInv /\ ControlCharacter => IInv'
BY InAString, ErrorStep DEF ControlCharacter

LEMMA UnterminatedStringStep == IInv /\ UnterminatedString => IInv'
BY InAString, ErrorStep DEF UnterminatedString

(* A key goes to its object and a value to its container.                  *)
LEMMA EndStringStep == IInv /\ EndString => IInv'
<1> SUFFICES ASSUME IInv, EndString PROVE IInv'
  OBVIOUS
<1>1. /\ InString /\ PeekChar = "\"" /\ PeekChar # "end" /\ PeekChar \notin LineBreaks
      /\ ConsumeChars(1)
  BY DEF EndString, LineBreaks
<1>2. UNCHANGED input => PositionInv' /\ LinesInv'
  BY <1>1, InAString, CharacterInString, Consumes, StaysInLine
<1>3. CASE key
  <2> DEFINE n == Len(stack)
             c == [stack[n] EXCEPT !.key = string]
  <2>1. stack' = [stack EXCEPT ![n] = c] /\ NextTokenFor("colon") /\ result' = result
    BY <1>3 DEF EndString
  <2>2. InputInv' /\ ErrorInv' /\ ReadingInv' /\ UNCHANGED input /\ then' = "colon"
    BY <1>1, <2>1, InAString, NextTokenStep DEF Callers
  <2>3. stack # <<>> /\ ~InList /\ AreContainers(stack)
        /\ (stack = <<>> \/ n < MaxDepth)
    BY <1>1, <1>3, InAString DEF ReadingInv, StackInv
  <2>4. IsContainer(stack[n])
    <3>1. n \in Nat \ {0}
      BY <2>3, EmptySeq DEF AreContainers
    <3> QED
      BY <2>3, <3>1 DEF AreContainers
  <2>5. IsContainer(c) /\ c.kind = stack[n].kind
    BY <2>4 DEF IsContainer
  <2> HIDE DEF c
  <2>6. /\ AreContainers(stack') /\ Len(stack') = n /\ stack' # <<>>
        /\ Last(stack').kind = Last(stack).kind
    BY <2>1, <2>3, <2>5, ChangeContainer
  <2>7. StackInv'
    <3>1. AreContainers(stack)'
      BY <2>6 DEF AreContainers, Range, IsContainer
    <3> QED
      BY <2>3, <2>6, <3>1 DEF StackInv
  <2>8. ~InList'
    <3>1. Last(stack)' = Last(stack')
      BY DEF Last
    <3> QED
      BY <2>3, <2>6, <3>1 DEF InList
  <2>9. CallerInv'
    BY <1>1, <2>1, <2>2, <2>6, <2>8, InAString DEF CallerInv
  <2> QED
    BY <1>2, <2>2, <2>7, <2>9 DEF IInv, RunningInv
<1>4. CASE ~key
  <2>1. Return(<<"string", string>>, stack)
    BY <1>4 DEF EndString
  <2>2. <<"string", string>> # NoValue
    BY DEF NoValue
  <2>3. InputInv' /\ StackInv' /\ ErrorInv' /\ CallerInv' /\ ReadingInv' /\ UNCHANGED input
    BY <1>1, <2>1, <2>2, InAString, ReturnStep DEF StackInv
  <2> QED
    BY <1>2, <2>3 DEF IInv, RunningInv
<1> QED
  BY <1>3, <1>4

(* An escape is at least as long as its two first characters.              *)
LEMMA EscapeFacts ==
  ASSUME IInv, Escape
  PROVE  /\ InString
         /\ index + 1 <= Len(input) /\ input[index + 1] \notin LineBreaks
         /\ EscapeChar # "end" => index + 2 <= Len(input)
         /\ EscapeChar \notin LineBreaks \cup {"end"} =>
              \A k \in index + 1 .. index + 2 : input[k] \notin LineBreaks
<1>1. InString /\ PeekChar = "\\" /\ PeekChar # "end" /\ PeekChar \notin LineBreaks
  BY DEF Escape, LineBreaks
<1>2. index + 1 <= Len(input) /\ input[index + 1] \notin LineBreaks
  BY <1>1, CharacterInString
<1>3. EscapeChar # "end" => index + 2 <= Len(input) /\ input[index + 2] = EscapeChar
  BY <1>1, InAString DEF EscapeChar, At
<1>4. \A k \in index + 1 .. index + 2 : k = index + 1 \/ k = index + 2
  BY <1>1, InAString
<1> QED
  BY <1>1, <1>2, <1>3, <1>4

LEMMA SimpleEscapeStep == IInv /\ SimpleEscape => IInv'
<1> SUFFICES ASSUME IInv, SimpleEscape PROVE IInv'
  OBVIOUS
<1>1. /\ Escape
      /\ EscapeChar \in {"\"", "\\", "/", "b", "f", "n", "r", "t", "v"}
      /\ \E chars : Write(chars, 2)
  BY DEF SimpleEscape, SimpleEscapes
<1>2. EscapeChar \notin LineBreaks \cup {"end"}
  BY <1>1 DEF LineBreaks
<1> QED
  BY <1>1, <1>2, EscapeFacts, WriteStep

LEMMA UnknownEscapeStep == IInv /\ UnknownEscape => IInv'
<1> SUFFICES ASSUME IInv, UnknownEscape PROVE IInv'
  OBVIOUS
<1>1. CASE EscapeChar = "end"
  BY <1>1, EscapeFacts, InAString, ErrorStep DEF UnknownEscape
<1>2. CASE EscapeChar # "end"
  BY <1>2, EscapeFacts, InAString, ErrorStep DEF UnknownEscape
<1> QED
  BY <1>1, <1>2

LEMMA HexIsThere ==
  ASSUME InputInv, NEW i \in Nat \ {0}, NEW n \in Nat
  PROVE  /\ Arrived(i, n) => (i - 1) + n <= Len(input)
         /\ IsHex(i, n) => /\ (i - 1) + n <= Len(input)
                           /\ \A k \in i .. (i - 1) + n : input[k] \notin LineBreaks
<1>1. Len(input) \in Nat
  BY InputFacts
<1>2. Arrived(i, n) => (i - 1) + n <= Len(input)
  BY <1>1 DEF Arrived
<1>3. ASSUME IsHex(i, n), NEW k \in i .. (i - 1) + n PROVE input[k] \notin LineBreaks
  <2>1. k \in i .. i + n - 1
    OBVIOUS
  <2>2. At(k) \in HexDigits
    BY <1>3, <2>1 DEF IsHex
  <2>3. input[k] = At(k)
    BY <2>2, NoBreaks DEF At
  <2> QED
    BY <2>2, <2>3, NoBreaks
<1> QED
  BY <1>2, <1>3 DEF IsHex

LEMMA HexEscapeStep == IInv /\ HexEscape => IInv'
<1> SUFFICES ASSUME IInv, HexEscape PROVE IInv'
  OBVIOUS
<1>1. /\ Escape /\ InString /\ EscapeChar = "x"
      /\ EscapeChar \notin LineBreaks \cup {"end"}
      /\ index + 2 <= Len(input)
      /\ \A k \in index + 1 .. index + 2 : input[k] \notin LineBreaks
  BY EscapeFacts DEF HexEscape, LineBreaks
<1>2. index \in Nat /\ Len(input) \in Nat /\ InputInv /\ pc # "done"
  BY <1>1, InAString
<1>3. index + 3 \in Nat \ {0} /\ ((index + 3) - 1) + 2 = index + 4
  BY <1>2
<1>4. /\ Arrived(index + 3, 2) => index + 4 <= Len(input)
      /\ IsHex(index + 3, 2) =>
           \A k \in index + 3 .. index + 4 : input[k] \notin LineBreaks
      /\ IsHex(index + 3, 2) => Arrived(index + 3, 2)
  BY <1>2, <1>3, HexIsThere DEF IsHex
<1>5. CASE IsHex(index + 3, 2)
  <2>1. \A k \in index + 1 .. index + 4 : k \in index + 1 .. index + 2 \/ k \in index + 3 .. index + 4
    BY <1>2
  <2>2. Write(Unit(index + 3, 2), 4)
    BY <1>5 DEF HexEscape
  <2> QED
    BY <1>1, <1>4, <1>5, <2>1, <2>2, WriteStep
<1>6. CASE ~IsHex(index + 3, 2)
  <2>1. ParseError("JSON_INVALID_ESCAPE", -3, IF Arrived(index + 3, 2) THEN 4 ELSE 2)
    BY <1>6 DEF HexEscape
  <2>2. CASE Arrived(index + 3, 2)
    BY <1>2, <1>4, <2>1, <2>2, ErrorStep
  <2>3. CASE ~Arrived(index + 3, 2)
    BY <1>1, <1>2, <2>1, <2>3, ErrorStep
  <2> QED
    BY <2>2, <2>3
<1> QED
  BY <1>5, <1>6

(* What has been read of a code point, or of a surrogate pair.             *)
LEMMA DecodeFacts ==
  ASSUME IInv, Escape, EscapeChar = "u"
  PROVE  LET c == DecodeUTF16.consumed
         IN  /\ c \in Nat
             /\ index + c <= Len(input)
             /\ DecodeUTF16.units # <<>> =>
                  \A k \in index + 1 .. index + c : input[k] \notin LineBreaks
<1> DEFINE high == Unit(index + 3, 4)
           low == Unit(index + 9, 4)
           Decoded(units, consumed) == [units |-> units, consumed |-> consumed]
           pair == At(index + 7) = "\\" /\ At(index + 8) = "u"
<1>1. /\ InString /\ EscapeChar \notin LineBreaks \cup {"end"}
      /\ index + 2 <= Len(input)
      /\ \A k \in index + 1 .. index + 2 : input[k] \notin LineBreaks
  BY EscapeFacts DEF LineBreaks
<1>2. index \in Nat /\ Len(input) \in Nat /\ InputInv
  BY <1>1, InAString
<1>3. /\ Arrived(index + 3, 4) => index + 6 <= Len(input)
      /\ IsHex(index + 3, 4) =>
           \A k \in index + 3 .. index + 6 : input[k] \notin LineBreaks
      /\ IsHex(index + 3, 4) => Arrived(index + 3, 4)
  <2>1. index + 3 \in Nat \ {0} /\ ((index + 3) - 1) + 4 = index + 6
    BY <1>2
  <2> QED
    BY <1>2, <2>1, HexIsThere DEF IsHex
<1>4. /\ Arrived(index + 9, 4) => index + 12 <= Len(input)
      /\ IsHex(index + 9, 4) =>
           \A k \in index + 9 .. index + 12 : input[k] \notin LineBreaks
      /\ IsHex(index + 9, 4) => Arrived(index + 9, 4)
  <2>1. index + 9 \in Nat \ {0} /\ ((index + 9) - 1) + 4 = index + 12
    BY <1>2
  <2> QED
    BY <1>2, <2>1, HexIsThere DEF IsHex
<1>5. pair => /\ index + 8 <= Len(input)
              /\ input[index + 7] \notin LineBreaks
              /\ input[index + 8] \notin LineBreaks
  BY <1>2 DEF At, LineBreaks
<1>6. \/ \E n \in {2, 6, 8, 12} : /\ DecodeUTF16 = Decoded(<<>>, n)
                                  /\ n = 6 => Arrived(index + 3, 4)
                                  /\ n = 8 => pair
                                  /\ n = 12 => Arrived(index + 9, 4)
      \/ \E units : DecodeUTF16 = Decoded(units, 6) /\ IsHex(index + 3, 4)
      \/ \E units : /\ DecodeUTF16 = Decoded(units, 12)
                    /\ IsHex(index + 3, 4) /\ pair /\ IsHex(index + 9, 4)
  <2> HIDE DEF pair
  <2>1. CASE ~Arrived(index + 3, 4)
    <3>1. DecodeUTF16 = Decoded(<<>>, 2)
      BY <2>1, <1>3 DEF DecodeUTF16
    <3> QED
      BY <3>1
  <2>2. CASE Arrived(index + 3, 4) /\ ~IsHex(index + 3, 4)
    <3>1. DecodeUTF16 = Decoded(<<>>, 6)
      BY <2>2 DEF DecodeUTF16
    <3> QED
      BY <2>2, <3>1
  <2>3. CASE IsHex(index + 3, 4) /\ ~IsSurrogate(high)
    <3>1. DecodeUTF16 = Decoded(high, 6)
      BY <2>3, <1>3 DEF DecodeUTF16
    <3> QED
      BY <2>3, <3>1
  <2>4. CASE IsHex(index + 3, 4) /\ IsSurrogate(high) /\ ~(IsLead(high) /\ pair)
    <3>1. \E units : DecodeUTF16 = Decoded(units, 6)
      BY <2>4, <1>3 DEF DecodeUTF16, pair
    <3> QED
      BY <2>4, <3>1
  <2>5. CASE IsHex(index + 3, 4) /\ IsSurrogate(high) /\ IsLead(high) /\ pair
    <3>1. CASE ~Arrived(index + 9, 4)
      <4>1. DecodeUTF16 = Decoded(<<>>, 8)
        BY <2>5, <3>1, <1>3, <1>4 DEF DecodeUTF16, pair
      <4> QED
        BY <2>5, <4>1
    <3>2. CASE Arrived(index + 9, 4) /\ ~IsHex(index + 9, 4)
      <4>1. DecodeUTF16 = Decoded(<<>>, 12)
        BY <2>5, <3>2, <1>3 DEF DecodeUTF16, pair
      <4> QED
        BY <3>2, <4>1
    <3>3. CASE IsHex(index + 9, 4) /\ ~IsTrail(low)
      <4>1. \E units : DecodeUTF16 = Decoded(units, 12)
        BY <2>5, <3>3, <1>3, <1>4 DEF DecodeUTF16, pair
      <4> QED
        BY <2>5, <3>3, <4>1
    <3>4. CASE IsHex(index + 9, 4) /\ IsTrail(low)
      <4>1. DecodeUTF16 = Decoded(high \o low, 12)
        BY <2>5, <3>4, <1>3, <1>4 DEF DecodeUTF16, pair
      <4> QED
        BY <2>5, <3>4, <4>1
    <3> QED
      BY <3>1, <3>2, <3>3, <3>4
  <2> QED
    BY <2>1, <2>2, <2>3, <2>4, <2>5
<1> HIDE DEF pair
<1>7. CASE \E n \in {2, 6, 8, 12} : /\ DecodeUTF16 = Decoded(<<>>, n)
                                    /\ n = 6 => Arrived(index + 3, 4)
                                    /\ n = 8 => pair
                                    /\ n = 12 => Arrived(index + 9, 4)
  <2>1. PICK n \in {2, 6, 8, 12} : /\ DecodeUTF16 = Decoded(<<>>, n)
                                   /\ n = 6 => Arrived(index + 3, 4)
                                   /\ n = 8 => pair
                                   /\ n = 12 => Arrived(index + 9, 4)
    BY <1>7
  <2>2. n \in Nat /\ index + n <= Len(input)
    BY <1>1, <1>2, <1>3, <1>4, <1>5, <2>1
  <2> QED
    BY <2>1, <2>2
<1>8. CASE \E units : DecodeUTF16 = Decoded(units, 6) /\ IsHex(index + 3, 4)
  <2>1. \A k \in index + 1 .. index + 6 : k \in index + 1 .. index + 2 \/ k \in index + 3 .. index + 6
    BY <1>2
  <2>2. DecodeUTF16.consumed = 6
    BY <1>8
  <2> QED
    BY <1>1, <1>3, <1>8, <2>1, <2>2
<1>9. CASE \E units : /\ DecodeUTF16 = Decoded(units, 12)
                      /\ IsHex(index + 3, 4) /\ pair /\ IsHex(index + 9, 4)
  <2>1. \A k \in index + 1 .. index + 12 :
           \/ k \in index + 1 .. index + 2
           \/ k \in index + 3 .. index + 6
           \/ k = index + 7
           \/ k = index + 8
           \/ k \in index + 9 .. index + 12
    BY <1>2
  <2>2. DecodeUTF16.consumed = 12
    BY <1>9
  <2> QED
    BY <1>1, <1>3, <1>4, <1>5, <1>9, <2>1, <2>2
<1> QED
  BY <1>6, <1>7, <1>8, <1>9

LEMMA UnicodeEscapeStep == IInv /\ UnicodeEscape => IInv'
<1> SUFFICES ASSUME IInv, UnicodeEscape PROVE IInv'
  OBVIOUS
<1> DEFINE c == DecodeUTF16.consumed
           units == DecodeUTF16.units
<1>1. Escape /\ EscapeChar = "u"
  BY DEF UnicodeEscape
<1>2. /\ c \in Nat
      /\ index + c <= Len(input)
      /\ units # <<>> => \A k \in index + 1 .. index + c : input[k] \notin LineBreaks
  BY <1>1, DecodeFacts
<1>3. IF units = <<>> THEN ParseError("JSON_INVALID_ESCAPE", -1, c) ELSE Write(units, c)
  BY DEF UnicodeEscape
<1>4. InString /\ pc # "done"
  BY <1>1, EscapeFacts, InAString
<1> HIDE DEF c, units
<1>5. CASE units = <<>>
  BY <1>2, <1>3, <1>4, <1>5, ErrorStep
<1>6. CASE units # <<>>
  BY <1>2, <1>3, <1>4, <1>6, WriteStep
<1> QED
  BY <1>5, <1>6

-----------------------------------------------------------------------------
(* The invariant.                                                          *)

LEMMA InitIInv == Init => IInv
<1> SUFFICES ASSUME Init PROVE IInv
  OBVIOUS
<1>1. InputInv
  BY DEF Init, InputInv, Callers
<1>2. /\ index \in {0, 1} /\ index <= Len(input)
      /\ \A k \in 1 .. index : input[k] \notin LineBreaks
  <2>1. CASE input # <<>> /\ input[1] = "bom"
    <3>1. Len(input) \in Nat /\ Len(input) # 0
      BY <1>1, <2>1, InputFacts, EmptySeq
    <3>2. index = 1
      BY <2>1 DEF Init
    <3>3. "bom" \notin LineBreaks
      BY DEF LineBreaks
    <3>4. \A k \in 1 .. 1 : k = 1
      OBVIOUS
    <3> QED
      BY <2>1, <3>1, <3>2, <3>3, <3>4
  <2>2. CASE ~(input # <<>> /\ input[1] = "bom")
    <3>1. index = 0
      BY <2>2 DEF Init
    <3> QED
      BY <1>1, <3>1, InputFacts
  <2> QED
    BY <2>1, <2>2
<1>3. PositionInv
  <2>1. line_number = 1 /\ index_last_line = -1
    BY DEF Init
  <2> QED
    BY <1>1, <1>2, <2>1, InputFacts DEF PositionInv
<1>4. StackInv
  BY EmptyIsNoContainer DEF StackInv, Init
<1>5. ErrorInv
  BY DEF ErrorInv, Init
<1>6. CallerInv /\ ReadingInv
  BY DEF CallerInv, ReadingInv, Init
<1>7. LinesInv
  <2>1. BreaksBefore(index) = {}
    BY <1>2 DEF BreaksBefore
  <2>2. LineStart(index) = 0
    <3>1. {0} \cup {k \in 1 .. index : input[k] \in LineBreaks} = {0}
      BY <1>2
    <3>2. Max({0}) = 0
      BY DEF Max
    <3> QED
      BY <3>1, <3>2 DEF LineStart
  <2>3. line_number = 1 /\ index_last_line = -1
    BY DEF Init
  <2> QED
    BY <2>1, <2>2, <2>3, FS_EmptySet DEF LinesInv
<1> QED
  BY <1>1, <1>3, <1>4, <1>5, <1>6, <1>7 DEF IInv, RunningInv

LEMMA NextIInv == IInv /\ [Next]_vars => IInv'
<1> SUFFICES ASSUME IInv, [Next]_vars PROVE IInv'
  OBVIOUS
<1>1. CASE GetNextToken
  BY <1>1, EatWhitespaceStep, SeeTokenStep, ForbiddenCommentStep, BeginCommentStep,
     LineCommentStep, BlockCommentStep, CommentUnterminatedStep DEF GetNextToken
<1>2. CASE ParseToken
  BY <1>2, OpenContainerStep, StringValueStep, ConsumeNumberStep, ConsumeLiteralStep,
     NoSuchValueStep DEF ParseToken
<1>3. CASE InContainer
  BY <1>3, CloseContainerStep, TrailingCommaStep, SeparatorStep, KeyStep, ColonStep
     DEF InContainer
<1>4. CASE EndOfInput
  BY <1>4, EndOfInputStep
<1>5. CASE ConsumeString
  BY <1>5, CopyCharacterStep, InvalidCharacterStep, LineBreakInStringStep,
     ControlCharacterStep, UnterminatedStringStep, EndStringStep, SimpleEscapeStep,
     UnknownEscapeStep, HexEscapeStep, UnicodeEscapeStep DEF ConsumeString
<1>6. CASE UNCHANGED vars
  <2>1. /\ UNCHANGED <<input, options, pc, then, token, stack, key, result, error>>
        /\ UNCHANGED <<index, line_number, index_last_line>>
    BY <1>6 DEF vars, position
  <2>2. InputInv' /\ PositionInv' /\ StackInv' /\ ErrorInv'
    BY <2>1 DEF IInv, InputInv, PositionInv, StackInv, ErrorInv
  <2>3. CallerInv' = CallerInv
    BY <2>1 DEF CallerInv, InList
  <2>4. PeekChar' = PeekChar /\ InList' = InList
    BY <2>1 DEF PeekChar, InList
  <2>5. ReadingInv' = ReadingInv
    BY <2>1, <2>4 DEF ReadingInv
  <2>6. LinesInv' = LinesInv
    BY <2>1 DEF LinesInv, BreaksBefore, LineStart
  <2> QED
    BY <2>1, <2>2, <2>3, <2>5, <2>6 DEF IInv, RunningInv
<1> QED
  BY <1>1, <1>2, <1>3, <1>4, <1>5, <1>6 DEF Next

-----------------------------------------------------------------------------
(* What the grammar reads.                                                 *)

LEMMA SizeTyped ==
  ASSUME InputInv
  PROVE  /\ Size \in Nat /\ Size + 1 \in Nat /\ Positions = 1 .. Size + 1
         /\ input \in Seq(STRING) /\ DOMAIN input = 1 .. Size
         /\ \A n \in 1 .. Size : input[n] \in STRING /\ input[n] # "end"
BY InputFacts, JsonAssumption, LenProperties, ElementOfSeq
   DEF InputInv, Size, Positions

LEMMA LeastIs ==
  ASSUME NEW T, T \subseteq Nat, T # {}
  PROVE  Min(T) \in T /\ \A y \in T : Min(T) <= y
<1>1. PICK x \in T : \A y \in T : x <= y
  BY LeastNatural
<1> QED
  BY <1>1 DEF Min

LEMMA LineEndIs ==
  ASSUME InputInv, NEW i \in Positions
  PROVE  /\ LineEnd(i) \in Positions /\ i <= LineEnd(i)
         /\ LineEnd(i) <= Size => input[LineEnd(i)] \in LineBreaks
         /\ \A k \in i .. LineEnd(i) - 1 : k <= Size /\ input[k] \notin LineBreaks
<1> DEFINE breaks == {k \in i .. Size : input[k] \in LineBreaks}
<1>1. Size \in Nat /\ i \in Nat /\ Positions = 1 .. Size + 1
  BY SizeTyped
<1>2. CASE breaks = {}
  <2>1. LineEnd(i) = Size + 1
    BY <1>2 DEF LineEnd
  <2> QED
    BY <1>1, <1>2, <2>1
<1>3. CASE breaks # {}
  <2>1. LineEnd(i) = Min(breaks)
    BY <1>3 DEF LineEnd
  <2>2. LineEnd(i) \in breaks /\ \A y \in breaks : LineEnd(i) <= y
    <3>1. breaks \subseteq Nat
      BY <1>1
    <3> HIDE DEF breaks
    <3> QED
      BY <1>3, <2>1, <3>1, LeastIs
  <2>3. PICK e : e = LineEnd(i)
    OBVIOUS
  <2>4. e \in i .. Size /\ input[e] \in LineBreaks
    BY <2>2, <2>3
  <2>5. ASSUME NEW k \in i .. e - 1 PROVE k <= Size /\ input[k] \notin LineBreaks
    <3>1. k \in i .. Size /\ ~(e <= k)
      BY <1>1, <2>4
    <3>2. k \notin breaks
      BY <2>2, <2>3, <3>1
    <3> QED
      BY <1>1, <3>1, <3>2
  <2> QED
    BY <1>1, <2>3, <2>4, <2>5
<1> QED
  BY <1>2, <1>3

ClosedAt(k) == Is(k, "*") /\ Is(k + 1, "/")

LEMMA BlockEndIs ==
  ASSUME InputInv, NEW i \in Nat, i > 0
  PROVE  /\ BlockEnd(i) \in Positions
         /\ \/ BlockEnd(i) = Size + 1 /\ \A k \in i .. Size : ~ClosedAt(k)
            \/ /\ BlockEnd(i) >= i + 2 /\ ClosedAt(BlockEnd(i) - 2)
               /\ \A k \in i .. BlockEnd(i) - 3 : ~ClosedAt(k)
<1> DEFINE closes == {k \in i .. Size : Is(k, "*") /\ Is(k + 1, "/")}
<1>1. Size \in Nat /\ Positions = 1 .. Size + 1
  BY SizeTyped
<1>2. CASE closes = {}
  <2>1. BlockEnd(i) = Size + 1
    BY <1>2 DEF BlockEnd
  <2>2. \A k \in i .. Size : ~ClosedAt(k)
    BY <1>2 DEF ClosedAt
  <2> QED
    BY <1>1, <2>1, <2>2
<1>3. CASE closes # {}
  <2>1. BlockEnd(i) = Min(closes) + 2
    BY <1>3 DEF BlockEnd
  <2>2. Min(closes) \in closes /\ \A y \in closes : Min(closes) <= y
    <3>1. closes \subseteq Nat
      BY <1>1
    <3> HIDE DEF closes
    <3> QED
      BY <1>3, <3>1, LeastIs
  <2>3. PICK e : e = Min(closes)
    OBVIOUS
  <2>4. e \in i .. Size /\ ClosedAt(e)
    BY <2>2, <2>3 DEF ClosedAt
  <2>5. e + 1 <= Size
    BY <2>4 DEF ClosedAt, Is
  <2>6. ASSUME NEW k \in i .. e - 1 PROVE ~ClosedAt(k)
    <3>1. k \in i .. Size /\ ~(e <= k)
      BY <1>1, <2>4
    <3>2. k \notin closes
      BY <2>2, <2>3, <3>1
    <3> QED
      BY <3>1, <3>2 DEF ClosedAt
  <2>7. BlockEnd(i) = e + 2
    BY <2>1, <2>3
  <2>8. /\ e + 2 \in Positions /\ e + 2 >= i + 2 /\ (e + 2) - 2 = e
        /\ i .. (e + 2) - 3 = i .. e - 1
    BY <1>1, <2>4, <2>5
  <2> QED
    BY <2>4, <2>6, <2>7, <2>8
<1> QED
  BY <1>2, <1>3

-----------------------------------------------------------------------------
(* White space.                                                            *)

(* Space is a function that is defined by its values at later positions.   *)
SpaceBody(f, i) ==
  {i}
    \cup (IF i <= Size /\ input[i] \in Blanks \cup LineBreaks
            THEN f[i + 1] ELSE {})
    \cup (IF Commented(i, "/") THEN f[LineEnd(i)] ELSE {})
    \cup (IF Commented(i, "*") THEN f[BlockEnd(i + 2)] ELSE {})

(* The functions of the grammar have a value at each position.             *)
IsOnPositions(f) == f = [i \in Positions |-> f[i]]

SpaceReads(f) ==
  /\ IsOnPositions(f)
  /\ \A i \in Positions : f[i] = SpaceBody(f, i)

LEMMA CommentEnds ==
  ASSUME InputInv, NEW i \in Positions
  PROVE  /\ Commented(i, "/") => LineEnd(i) \in i + 1 .. Size + 1
         /\ Commented(i, "*") => BlockEnd(i + 2) \in i + 2 .. Size + 1
<1>1. Size \in Nat /\ i \in Nat /\ i > 0 /\ Positions = 1 .. Size + 1
  BY SizeTyped
<1>2. ASSUME Commented(i, "/") PROVE LineEnd(i) \in i + 1 .. Size + 1
  <2>1. i <= Size /\ input[i] \notin LineBreaks
    BY <1>2 DEF Commented, Is, LineBreaks
  <2>2. LineEnd(i) # i
    BY <2>1, LineEndIs
  <2> QED
    BY <1>1, <2>2, LineEndIs
<1>3. ASSUME Commented(i, "*") PROVE BlockEnd(i + 2) \in i + 2 .. Size + 1
  <2>1. i + 1 <= Size /\ i + 2 \in Nat /\ i + 2 > 0
    BY <1>1, <1>3 DEF Commented, Is
  <2>2. BlockEnd(i + 2) \in Positions /\ (BlockEnd(i + 2) = Size + 1 \/ BlockEnd(i + 2) >= i + 4)
    <3>1. PICK j : j = i + 2
      OBVIOUS
    <3>2. j + 2 = i + 4
      BY <1>1, <3>1
    <3> QED
      BY <2>1, <3>1, <3>2, BlockEndIs
  <2> QED
    BY <1>1, <2>1, <2>2
<1> QED
  BY <1>2, <1>3

LEMMA SpaceIsLocal ==
  ASSUME InputInv, NEW i \in Positions, NEW g, NEW h,
         \A k \in i + 1 .. Size + 1 : g[k] = h[k]
  PROVE  SpaceBody(g, i) = SpaceBody(h, i)
<1>1. Size \in Nat /\ i \in Nat /\ Positions = 1 .. Size + 1
  BY SizeTyped
<1>2. i <= Size => g[i + 1] = h[i + 1]
  BY <1>1
<1>3. /\ Commented(i, "/") => g[LineEnd(i)] = h[LineEnd(i)]
      /\ Commented(i, "*") => g[BlockEnd(i + 2)] = h[BlockEnd(i + 2)]
  <2>1. i + 2 .. Size + 1 \subseteq i + 1 .. Size + 1
    BY <1>1
  <2> QED
    BY <2>1, CommentEnds
<1> QED
  BY <1>2, <1>3 DEF SpaceBody

LEMMA SpaceUnfolds ==
  ASSUME InputInv
  PROVE  SpaceReads(Space)
<1>1. PICK n \in Nat : n = Size + 1 /\ Positions = 1 .. n
  BY SizeTyped
<1> DEFINE S == SUBSET (1 .. n)
           b == [x \in (1 .. n) \X [1 .. n -> S] |-> SpaceBody(x[2], x[1])]
<1>2. ASSUME NEW i \in 1 .. n, NEW g \in [1 .. n -> S]
      PROVE  SpaceBody(g, i) \in S
  <2>1. i <= Size => i + 1 \in 1 .. n
    BY <1>1, SizeTyped
  <2>2. /\ Commented(i, "/") => LineEnd(i) \in 1 .. n
        /\ Commented(i, "*") => BlockEnd(i + 2) \in 1 .. n
    <3>1. i + 1 .. Size + 1 \subseteq 1 .. n /\ i + 2 .. Size + 1 \subseteq 1 .. n
      BY <1>1
    <3> QED
      BY <1>1, <3>1, CommentEnds
  <2> QED
    BY <2>1, <2>2 DEF SpaceBody
<1>3. b \in [(1 .. n) \X [1 .. n -> S] -> S]
  <2> HIDE DEF S
  <2> QED
    BY <1>2
<1>4. \A i \in 1 .. n : \A g \in [1 .. n -> S] : b[<<i, g>>] = SpaceBody(g, i)
  <2> HIDE DEF S
  <2> QED
    OBVIOUS
<1>5. PICK f \in [1 .. n -> S] : \A i \in 1 .. n : f[i] = b[<<i, f>>]
  <2>1. PICK s, c : s = S /\ c = b
    OBVIOUS
  <2>2. S # {}
    OBVIOUS
  <2> HIDE DEF b, S
  <2>3. ASSUME NEW i \in 1 .. n, NEW g \in [1 .. n -> s], NEW h \in [1 .. n -> s],
               \A k \in i + 1 .. n : g[k] = h[k]
        PROVE  c[<<i, g>>] = c[<<i, h>>]
    <3>1. SpaceBody(g, i) = SpaceBody(h, i)
      BY <1>1, <2>3, SpaceIsLocal
    <3>2. c[<<i, g>>] = SpaceBody(g, i) /\ c[<<i, h>>] = SpaceBody(h, i)
      BY <1>4, <2>1
    <3> QED
      BY <3>1, <3>2
  <2>4. s # {} /\ c \in [(1 .. n) \X [1 .. n -> s] -> s]
    BY <1>3, <2>1, <2>2
  <2>5. IsBody(n, s, c)
    BY <2>3, <2>4 DEF IsBody
  <2>6. \E f \in [1 .. n -> s] : \A i \in 1 .. n : f[i] = c[<<i, f>>]
    BY <2>5, DescendingRecursion
  <2> QED
    BY <2>1, <2>6
<1>6. f = [i \in Positions |-> SpaceBody(f, i)]
  <2> HIDE DEF b, S
  <2>1. f = [i \in 1 .. n |-> f[i]]
    OBVIOUS
  <2>2. \A i \in 1 .. n : f[i] = SpaceBody(f, i)
    BY <1>4, <1>5
  <2> QED
    BY <1>1, <2>1, <2>2
<1> DEFINE space == CHOOSE g : g = [i \in Positions |-> SpaceBody(g, i)]
<1>7. Space = space
  BY DEF Space, SpaceBody
<1>8. space = [i \in Positions |-> SpaceBody(space, i)]
  BY <1>6
<1> HIDE DEF space
<1>9. \A i \in Positions : space[i] = SpaceBody(space, i)
  BY <1>8
<1>10. space = [i \in Positions |-> space[i]]
  BY <1>8
<1> QED
  BY <1>7, <1>9, <1>10 DEF IsOnPositions, SpaceReads

LEMMA SpaceIsUnique ==
  ASSUME InputInv, NEW g, NEW h, SpaceReads(g), SpaceReads(h)
  PROVE  g = h
<1>1. PICK n \in Nat : n = Size + 1 /\ Positions = 1 .. n
  BY SizeTyped
<1> DEFINE T == {i \in 1 .. n : g[i] = h[i]}
<1>2. ASSUME NEW i \in 1 .. n, \A k \in i + 1 .. n : k \in T PROVE i \in T
  <2>1. \A k \in i + 1 .. n : g[k] = h[k]
    BY <1>2
  <2> QED
    BY <1>1, <2>1, SpaceIsLocal DEF SpaceReads
<1>3. \A i \in 1 .. n : i \in T
  <2> HIDE DEF T
  <2> QED
    BY <1>2, DescendingInduction
<1>4. g = [i \in Positions |-> g[i]] /\ h = [i \in Positions |-> h[i]]
  BY DEF IsOnPositions, SpaceReads
<1>5. \A i \in Positions : g[i] = h[i]
  BY <1>1, <1>3
<1> QED
  BY <1>4, <1>5

LEMMA SpaceAdvances ==
  ASSUME InputInv
  PROVE  \A i \in Positions : Space[i] \subseteq i .. Size + 1
<1>1. PICK n \in Nat : n = Size + 1 /\ Positions = 1 .. n /\ Size \in Nat
  BY SizeTyped
<1> DEFINE T == {i \in 1 .. n : Space[i] \subseteq i .. n}
<1>2. ASSUME NEW i \in 1 .. n, \A k \in i + 1 .. n : k \in T PROVE i \in T
  <2>1. ASSUME NEW k \in i + 1 .. n PROVE Space[k] \subseteq i .. n
    <3>1. Space[k] \subseteq k .. n
      BY <1>2
    <3> QED
      BY <3>1
  <2>2. i \in Positions /\ Space[i] = SpaceBody(Space, i)
    BY <1>1, SpaceUnfolds DEF SpaceReads
  <2>3. i <= Size => Space[i + 1] \subseteq i .. n
    BY <1>1, <2>1
  <2>4. /\ Commented(i, "/") => Space[LineEnd(i)] \subseteq i .. n
        /\ Commented(i, "*") => Space[BlockEnd(i + 2)] \subseteq i .. n
    <3>1. i + 2 .. n \subseteq i + 1 .. n
      BY <1>1
    <3> QED
      BY <1>1, <2>1, <2>2, <3>1, CommentEnds
  <2>5. i \in i .. n
    BY <1>1
  <2> QED
    BY <2>2, <2>3, <2>4, <2>5 DEF SpaceBody
<1>3. \A i \in 1 .. n : i \in T
  <2> HIDE DEF T
  <2> QED
    BY <1>2, DescendingInduction
<1> QED
  BY <1>1, <1>3

-----------------------------------------------------------------------------
(* Strings.                                                                *)

(* What is read at position i ends behind it.                              *)
EndsBehind(r, i) == r = <<r[1], r[2]>> /\ r[2] \in i + 1 .. Size + 1

LEMMA UnicodeAdvances ==
  ASSUME InputInv, NEW i \in 1 .. Size, NEW c \in UnicodeAt(i)
  PROVE  EndsBehind(c, i)
<1>1. Size \in Nat
  BY SizeTyped
<1>2. IsUnit(i)
  BY DEF UnicodeAt
<1>3. \E a : \/ c = <<a, i + 6>>
             \/ IsUnit(i + 6) /\ c = <<a, i + 12>>
  BY <1>2 DEF UnicodeAt, SurrogatesAt, ReplacedUpTo
<1>4. PICK a : c = <<a, i + 6>> \/ (IsUnit(i + 6) /\ c = <<a, i + 12>>)
  BY <1>3
<1>5. i + 6 <= Size + 1
  BY <1>1, <1>2 DEF IsUnit
<1>6. IsUnit(i + 6) => i + 12 <= Size + 1
  <2>1. PICK j : j = i + 6
    OBVIOUS
  <2>2. IsUnit(j) => j + 5 <= Size
    BY DEF IsUnit
  <2> QED
    BY <1>1, <2>1, <2>2
<1> QED
  BY <1>1, <1>4, <1>5, <1>6 DEF EndsBehind

LEMMA EscapeAdvances ==
  ASSUME InputInv, NEW i \in 1 .. Size, NEW c \in EscapeAt(i)
  PROVE  EndsBehind(c, i)
<1>1. Size \in Nat
  BY SizeTyped
<1>2. CASE c \in UnicodeAt(i)
  BY <1>2, UnicodeAdvances
<1>3. CASE \E a, l : Is(i + 1, l) /\ c = <<a, i + 2>>
  BY <1>1, <1>3 DEF EndsBehind, Is
<1>4. CASE i + 3 <= Size /\ c = <<SubSeq(input, i + 2, i + 3), i + 4>>
  BY <1>1, <1>4 DEF EndsBehind
<1>5. \/ c \in UnicodeAt(i)
      \/ i + 3 <= Size /\ c = <<SubSeq(input, i + 2, i + 3), i + 4>>
      \/ \E f \in Escaped : Is(i + 1, f[1]) /\ c = <<<<f[2]>>, i + 2>>
  BY Zenon DEF EscapeAt
<1> QED
  BY <1>2, <1>3, <1>4, <1>5

LEMMA CharAdvances ==
  ASSUME InputInv, NEW i \in 1 .. Size, NEW c \in CharAt(i)
  PROVE  EndsBehind(c, i)
<1>1. Size \in Nat
  BY SizeTyped
<1>2. c \in EscapeAt(i) \/ \E a : c = <<a, i + 1>>
  BY Zenon DEF CharAt
<1>3. CASE \E a : c = <<a, i + 1>>
  BY <1>1, <1>3 DEF EndsBehind
<1> QED
  BY <1>2, <1>3, EscapeAdvances

(* What strings are made of.                                               *)
Letters == {c[1] : c \in UNION {CharAt(i) : i \in 1 .. Size}}
Texts == Seq(Letters)

LEMMA CharIsRead ==
  ASSUME InputInv, NEW i \in 1 .. Size, NEW c \in CharAt(i)
  PROVE  c[1] \in Letters /\ c[2] \in i + 1 .. Size + 1
<1>1. c \in UNION {CharAt(k) : k \in 1 .. Size}
  OBVIOUS
<1> QED
  BY <1>1, CharAdvances DEF Letters, EndsBehind

CharsBody(f, i) ==
  IF i > Size THEN {}
  ELSE IF QuoteAt(i) THEN {<<<<>>, i + 1>>}
  ELSE UNION {Followed(c, f[c[2]]) : c \in CharAt(i)}

CharsRead(f) ==
  /\ IsOnPositions(f)
  /\ \A i \in Positions : f[i] = CharsBody(f, i)

LEMMA CharsBodyHas ==
  ASSUME NEW f, NEW i, NEW r
  PROVE  r \in CharsBody(f, i) <=>
           /\ ~(i > Size)
           /\ \/ QuoteAt(i) /\ r = <<<<>>, i + 1>>
              \/ ~QuoteAt(i) /\ \E c \in CharAt(i) : r \in Followed(c, f[c[2]])
BY Zenon DEF CharsBody

LEMMA CharsAreLocal ==
  ASSUME InputInv, NEW i \in Positions, NEW g, NEW h,
         \A k \in i + 1 .. Size + 1 : g[k] = h[k]
  PROVE  CharsBody(g, i) = CharsBody(h, i)
<1>1. i > Size \/ i \in 1 .. Size
  BY SizeTyped
<1>2. i \in 1 .. Size => \A c \in CharAt(i) : g[c[2]] = h[c[2]]
  BY CharIsRead
<1>3. ASSUME NEW r
      PROVE  r \in CharsBody(g, i) <=> r \in CharsBody(h, i)
  <2>1. ~(i > Size) => \A c \in CharAt(i) : g[c[2]] = h[c[2]]
    BY <1>1, <1>2
  <2>2. ~(i > Size) => \A c \in CharAt(i) : Followed(c, g[c[2]]) = Followed(c, h[c[2]])
    BY <2>1
  <2>3. ASSUME NEW a, NEW b, r \in CharsBody(a, i),
               ~(i > Size) => \A c \in CharAt(i) : Followed(c, a[c[2]]) = Followed(c, b[c[2]])
        PROVE  r \in CharsBody(b, i)
    <3>1. CASE QuoteAt(i)
      BY <2>3, <3>1, CharsBodyHas
    <3>2. CASE ~QuoteAt(i)
      <4>1. PICK c \in CharAt(i) : r \in Followed(c, a[c[2]])
        BY <2>3, <3>2, CharsBodyHas
      <4>2. ~(i > Size) /\ r \in Followed(c, b[c[2]])
        BY <2>3, <4>1, CharsBodyHas
      <4> QED
        BY <3>2, <4>2, CharsBodyHas
    <3> QED
      BY <3>1, <3>2
  <2> QED
    BY <2>2, <2>3
<1> QED
  BY <1>3

LEMMA TextGrows ==
  ASSUME NEW c \in Letters, NEW t \in Texts
  PROVE  <<c>> \o t \in Texts
BY DEF Texts

LEMMA CharsUnfold ==
  ASSUME InputInv
  PROVE  CharsRead(Chars)
<1>1. PICK n \in Nat : n = Size + 1 /\ Positions = 1 .. n /\ Size \in Nat
  BY SizeTyped
<1> DEFINE S == SUBSET (Texts \X (1 .. n))
           b == [x \in (1 .. n) \X [1 .. n -> S] |-> CharsBody(x[2], x[1])]
<1>2. ASSUME NEW i \in 1 .. n, NEW g \in [1 .. n -> S]
      PROVE  CharsBody(g, i) \in S
  <2>1. CASE i > Size
    BY <2>1 DEF CharsBody
  <2>2. CASE i \in 1 .. Size /\ QuoteAt(i)
    <3>1. i + 1 \in 1 .. n /\ ~(i > Size)
      BY <1>1, <2>2
    <3>2. <<>> \in Texts
      BY DEF Texts
    <3>3. CharsBody(g, i) = {<<<<>>, i + 1>>}
      BY <2>2, <3>1 DEF CharsBody
    <3> QED
      BY <3>1, <3>2, <3>3
  <2>3. CASE i \in 1 .. Size /\ ~QuoteAt(i)
    <3>1. ASSUME NEW c \in CharAt(i), NEW r \in g[c[2]]
          PROVE  <<<<c[1]>> \o r[1], r[2]>> \in Texts \X (1 .. n)
      <4>1. c[1] \in Letters /\ c[2] \in 1 .. n
        BY <1>1, <2>3, CharIsRead
      <4>2. g[c[2]] \in S
        BY <4>1
      <4>3. r[1] \in Texts /\ r[2] \in 1 .. n
        BY <4>2
      <4> QED
        BY <4>1, <4>3, TextGrows
    <3>2. ~(i > Size)
      BY <1>1, <2>3
    <3>3. ASSUME NEW r \in CharsBody(g, i) PROVE r \in Texts \X (1 .. n)
      <4>1. PICK c \in CharAt(i) : r \in Followed(c, g[c[2]])
        BY <2>3, CharsBodyHas, Zenon
      <4> QED
        BY <3>1, <4>1 DEF Followed
    <3> QED
      BY <3>3
  <2> QED
    BY <1>1, <2>1, <2>2, <2>3
<1>3. b \in [(1 .. n) \X [1 .. n -> S] -> S]
  <2> HIDE DEF S
  <2> QED
    BY <1>2
<1>4. \A i \in 1 .. n : \A g \in [1 .. n -> S] : b[<<i, g>>] = CharsBody(g, i)
  <2> HIDE DEF S
  <2> QED
    OBVIOUS
<1>5. PICK f \in [1 .. n -> S] : \A i \in 1 .. n : f[i] = b[<<i, f>>]
  <2>1. PICK s, c : s = S /\ c = b
    OBVIOUS
  <2>2. {} \in S
    OBVIOUS
  <2> HIDE DEF b, S
  <2>3. ASSUME NEW i \in 1 .. n, NEW g \in [1 .. n -> s], NEW h \in [1 .. n -> s],
               \A k \in i + 1 .. n : g[k] = h[k]
        PROVE  c[<<i, g>>] = c[<<i, h>>]
    <3>1. CharsBody(g, i) = CharsBody(h, i)
      BY <1>1, <2>3, CharsAreLocal
    <3>2. c[<<i, g>>] = CharsBody(g, i) /\ c[<<i, h>>] = CharsBody(h, i)
      BY <1>4, <2>1
    <3> QED
      BY <3>1, <3>2
  <2>4. s # {} /\ c \in [(1 .. n) \X [1 .. n -> s] -> s]
    BY <1>3, <2>1, <2>2
  <2>5. IsBody(n, s, c)
    BY <2>3, <2>4 DEF IsBody
  <2>6. \E f \in [1 .. n -> s] : \A i \in 1 .. n : f[i] = c[<<i, f>>]
    BY <2>5, DescendingRecursion
  <2> QED
    BY <2>1, <2>6
<1>6. f = [i \in Positions |-> CharsBody(f, i)]
  <2> HIDE DEF b, S
  <2>1. f = [i \in 1 .. n |-> f[i]]
    OBVIOUS
  <2>2. \A i \in 1 .. n : f[i] = CharsBody(f, i)
    BY <1>4, <1>5
  <2> QED
    BY <1>1, <2>1, <2>2
<1> DEFINE chars == CHOOSE g : g = [i \in Positions |-> CharsBody(g, i)]
<1>7. Chars = chars
  BY DEF Chars, CharsBody
<1>8. chars = [i \in Positions |-> CharsBody(chars, i)]
  BY <1>6
<1> HIDE DEF chars
<1>9. \A i \in Positions : chars[i] = CharsBody(chars, i)
  BY <1>8
<1>10. chars = [i \in Positions |-> chars[i]]
  BY <1>8
<1> QED
  BY <1>7, <1>9, <1>10 DEF IsOnPositions, CharsRead

LEMMA CharsAreUnique ==
  ASSUME InputInv, NEW g, NEW h, CharsRead(g), CharsRead(h)
  PROVE  g = h
<1>1. PICK n \in Nat : n = Size + 1 /\ Positions = 1 .. n
  BY SizeTyped
<1> DEFINE T == {i \in 1 .. n : g[i] = h[i]}
<1>2. ASSUME NEW i \in 1 .. n, \A k \in i + 1 .. n : k \in T PROVE i \in T
  <2>1. \A k \in i + 1 .. n : g[k] = h[k]
    BY <1>2
  <2> QED
    BY <1>1, <2>1, CharsAreLocal DEF CharsRead
<1>3. \A i \in 1 .. n : i \in T
  <2> HIDE DEF T
  <2> QED
    BY <1>2, DescendingInduction
<1>4. g = [i \in Positions |-> g[i]] /\ h = [i \in Positions |-> h[i]]
  BY DEF IsOnPositions, CharsRead
<1>5. \A i \in Positions : g[i] = h[i]
  BY <1>1, <1>3
<1> QED
  BY <1>4, <1>5

LEMMA CharsAdvance ==
  ASSUME InputInv
  PROVE  \A i \in Positions : \A r \in Chars[i] :
           EndsBehind(r, i) /\ r[1] \in Texts
<1>1. PICK n \in Nat : n = Size + 1 /\ Positions = 1 .. n /\ Size \in Nat
  BY SizeTyped
<1> DEFINE T == {i \in 1 .. n : \A r \in Chars[i] : EndsBehind(r, i) /\ r[1] \in Texts}
<1>2. ASSUME NEW i \in 1 .. n, \A k \in i + 1 .. n : k \in T PROVE i \in T
  <2> SUFFICES ASSUME NEW r \in Chars[i] PROVE EndsBehind(r, i) /\ r[1] \in Texts
    OBVIOUS
  <2>1. r \in CharsBody(Chars, i)
    BY <1>1, CharsUnfold DEF CharsRead
  <2>2. i \in 1 .. Size
    BY <1>1, <2>1, CharsBodyHas
  <2>3. CASE r = <<<<>>, i + 1>>
    <3>1. <<>> \in Texts
      BY DEF Texts
    <3> QED
      BY <1>1, <2>2, <2>3, <3>1 DEF EndsBehind
  <2>4. CASE \E c \in CharAt(i) : r \in Followed(c, Chars[c[2]])
    <3>1. PICK c \in CharAt(i) : r \in Followed(c, Chars[c[2]])
      BY <2>4
    <3>5. PICK q \in Chars[c[2]] : r = <<<<c[1]>> \o q[1], q[2]>>
      BY <3>1 DEF Followed
    <3>2. c[1] \in Letters /\ c[2] \in i + 1 .. n
      BY <1>1, <2>2, CharIsRead
    <3>3. EndsBehind(q, c[2]) /\ q[1] \in Texts
      BY <1>2, <3>2
    <3>4. q[1] \in Texts /\ q[2] \in i + 1 .. n
      BY <1>1, <3>2, <3>3 DEF EndsBehind
    <3> QED
      BY <1>1, <3>2, <3>4, <3>5, TextGrows DEF EndsBehind
  <2> QED
    BY <2>1, <2>3, <2>4, CharsBodyHas
<1>3. \A i \in 1 .. n : i \in T
  <2> HIDE DEF T
  <2> QED
    BY <1>2, DescendingInduction
<1> QED
  BY <1>1, <1>3

-----------------------------------------------------------------------------
(* Containers.                                                             *)

(* values are readings: they end behind where they begin.                  *)
AreReadings(values) == \A i \in Positions : \A v \in values[i] : EndsBehind(v, i)

ValuesOf(values) == {v[1] : v \in UNION {values[i] : i \in Positions}}
MembersOf(values) == Texts \X ValuesOf(values)

LEMMA StringEnds ==
  ASSUME InputInv, NEW i \in Positions, NEW k \in StringAt(i)
  PROVE  /\ i \in 1 .. Size /\ EndsBehind(k, i) /\ k[1] \in Texts
         /\ QuoteAt(i) /\ k \in Chars[i + 1]
<1>1. Size \in Nat /\ Positions = 1 .. Size + 1
  BY SizeTyped
<1>2. QuoteAt(i) /\ k \in Chars[i + 1]
  BY DEF StringAt
<1>3. i \in 1 .. Size /\ i + 1 \in Positions
  <2>1. i <= Size
    BY <1>2, Zenon DEF QuoteAt, Is
  <2> QED
    BY <1>1, <2>1
<1>4. EndsBehind(k, i + 1) /\ k[1] \in Texts
  BY <1>2, <1>3, CharsAdvance
<1> QED
  BY <1>1, <1>2, <1>3, <1>4 DEF EndsBehind

LEMMA PairsAtHas ==
  ASSUME NEW values, NEW i, NEW m
  PROVE  m \in PairsAt(values, i) <=>
           \E k \in StringAt(i) : \E c \in Space[k[2]] :
             /\ ColonAt(c)
             /\ \E start \in Space[c + 1] : \E v \in values[start] :
                  m = <<<<k[1], v[1]>>, v[2]>>
<1>1. ASSUME NEW j, NEW v
      PROVE  v \in SpacedAt(values, j) <=> \E start \in Space[j] : v \in values[start]
  BY Zenon DEF SpacedAt
<1>2. ASSUME NEW j, NEW c
      PROVE  c \in ColonsAt(j) <=> c \in Space[j] /\ ColonAt(c)
  BY Zenon DEF ColonsAt
<1>3. ASSUME NEW j, NEW v
      PROVE  v \in AssignedAt(values, j) <=>
               \E c \in ColonsAt(j) : v \in SpacedAt(values, c + 1)
  BY Zenon DEF AssignedAt
<1>4. ASSUME NEW k
      PROVE  m \in PairsOf(values, k) <=>
               \E v \in AssignedAt(values, k[2]) : m = <<<<k[1], v[1]>>, v[2]>>
  BY Zenon DEF PairsOf
<1>5. m \in PairsAt(values, i) <=> \E k \in StringAt(i) : m \in PairsOf(values, k)
  BY Zenon DEF PairsAt
<1> QED
  BY <1>1, <1>2, <1>3, <1>4, <1>5

LEMMA MemberAdvances ==
  ASSUME InputInv, NEW values, AreReadings(values), NEW kind, NEW i \in Positions,
         NEW m \in MemberAt(values, kind, i)
  PROVE  EndsBehind(m, i) /\ m[1] \in MembersOf(values)
<1>1. Size \in Nat /\ Positions = 1 .. Size + 1
  BY SizeTyped
<1>2. ASSUME NEW j \in Positions, NEW v \in values[j]
      PROVE  EndsBehind(v, j) /\ v[1] \in ValuesOf(values)
  <2>1. v \in UNION {values[l] : l \in Positions}
    BY <1>2
  <2> QED
    BY <1>2, <2>1 DEF AreReadings, ValuesOf
<1>3. CASE kind = "list"
  <2>1. PICK v \in values[i] : m = <<<<<<>>, v[1]>>, v[2]>>
    BY <1>3 DEF MemberAt
  <2>2. <<>> \in Texts
    BY DEF Texts
  <2> QED
    BY <1>2, <2>1, <2>2 DEF EndsBehind, MembersOf
<1>4. CASE kind # "list"
  <2>1. m \in PairsAt(values, i)
    BY <1>4 DEF MemberAt
  <2>2. PICK k \in StringAt(i) : \E c \in Space[k[2]] :
             /\ ColonAt(c)
             /\ \E start \in Space[c + 1] : \E v \in values[start] :
                  m = <<<<k[1], v[1]>>, v[2]>>
    BY <2>1, PairsAtHas
  <2>3. PICK c \in Space[k[2]] :
             /\ ColonAt(c)
             /\ \E start \in Space[c + 1] : \E v \in values[start] :
                  m = <<<<k[1], v[1]>>, v[2]>>
    BY <2>2
  <2>4. PICK start \in Space[c + 1] : \E v \in values[start] :
                  m = <<<<k[1], v[1]>>, v[2]>>
    BY <2>3
  <2>5. PICK v \in values[start] : m = <<<<k[1], v[1]>>, v[2]>>
    BY <2>4
  <2>6. k[1] \in Texts /\ k[2] \in i + 1 .. Size + 1
    BY StringEnds DEF EndsBehind
  <2>7. c \in i + 1 .. Size
    <3>1. k[2] \in Positions
      BY <1>1, <2>6
    <3>2. c \in k[2] .. Size + 1
      BY <3>1, SpaceAdvances
    <3>3. c <= Size
      BY <2>3 DEF ColonAt, Is
    <3> QED
      BY <1>1, <2>6, <3>2, <3>3
  <2>8. start \in i + 2 .. Size + 1
    <3>1. c + 1 \in Positions
      BY <1>1, <2>7
    <3>2. start \in c + 1 .. Size + 1
      BY <3>1, SpaceAdvances
    <3> QED
      BY <1>1, <2>7, <3>2
  <2>9. EndsBehind(v, start) /\ v[1] \in ValuesOf(values)
    BY <1>1, <1>2, <2>8
  <2> QED
    BY <1>1, <2>5, <2>6, <2>8, <2>9 DEF EndsBehind, MembersOf
<1> QED
  BY <1>3, <1>4

LEMMA MembersAtHas ==
  ASSUME NEW values, NEW kind, NEW more, NEW i, NEW r
  PROVE  r \in MembersAt(values, kind, more, i) <=>
           \E m \in MemberAt(values, kind, i) : \E e \in Space[m[2]] :
             r \in Followed(m, RestAt(kind, more, e))
<1>1. ASSUME NEW m
      PROVE  r \in BehindMember(kind, more, m) <=>
               \E e \in Space[m[2]] : r \in Followed(m, RestAt(kind, more, e))
  BY Zenon DEF BehindMember
<1>2. r \in MembersAt(values, kind, more, i) <=>
        \E m \in MemberAt(values, kind, i) : r \in BehindMember(kind, more, m)
  BY Zenon DEF MembersAt
<1> QED
  BY <1>1, <1>2

LEMMA ClosingsHave ==
  ASSUME NEW kind, NEW i, NEW r
  PROVE  /\ r \in Closings(kind, i) <=> \E e \in Space[i] : r \in ClosingAt(kind, e)
         /\ r \in ClosingAt(kind, i) <=> Is(i, Closer(kind)) /\ r = <<<<>>, i + 1>>
<1>1. r \in ClosingAt(kind, i) <=> Is(i, Closer(kind)) /\ r = <<<<>>, i + 1>>
  BY DEF ClosingAt
<1>2. r \in Closings(kind, i) <=> \E e \in Space[i] : r \in ClosingAt(kind, e)
  BY DEF ClosingAt, Closings
<1> QED
  BY <1>1, <1>2

LEMMA RestAtHas ==
  ASSUME NEW kind, NEW more, NEW i, NEW r
  PROVE  r \in RestAt(kind, more, i) <=>
           \/ r \in ClosingAt(kind, i)
           \/ /\ CommaAt(i)
              /\ \/ r \in more[i + 1]
                 \/ Has("JSON_ALLOW_TRAILING_COMMAS") /\ r \in Closings(kind, i + 1)
BY Zenon DEF RestAt

LEMMA ClosingAdvances ==
  ASSUME InputInv, NEW kind, NEW i \in Positions
  PROVE  /\ \A r \in ClosingAt(kind, i) : r[1] = <<>> /\ EndsBehind(r, i)
         /\ \A r \in Closings(kind, i) : r[1] = <<>> /\ EndsBehind(r, i)
<1>1. Size \in Nat /\ Positions = 1 .. Size + 1
  BY SizeTyped
<1>2. ASSUME NEW e \in Positions, NEW r \in ClosingAt(kind, e)
      PROVE  r[1] = <<>> /\ EndsBehind(r, e)
  <2>1. Is(e, Closer(kind)) /\ r = <<<<>>, e + 1>>
    BY <1>2, ClosingsHave
  <2>2. e <= Size
    BY <2>1 DEF Is
  <2> QED
    BY <1>1, <2>1, <2>2 DEF EndsBehind
<1>3. ASSUME NEW r \in Closings(kind, i)
      PROVE  r[1] = <<>> /\ EndsBehind(r, i)
  <2>1. PICK e \in Space[i] : r \in ClosingAt(kind, e)
    BY <1>3, ClosingsHave
  <2>2. e \in i .. Size + 1
    BY SpaceAdvances
  <2>3. r[1] = <<>> /\ EndsBehind(r, e)
    BY <1>1, <1>2, <2>1, <2>2
  <2> QED
    BY <1>1, <2>2, <2>3 DEF EndsBehind
<1> QED
  BY <1>2, <1>3

MembersBody(values, kind, f, i) ==
  UNION {MembersAt(values, kind, f, start) : start \in Space[i]}

MembersRead(values, kind, f) ==
  /\ IsOnPositions(f)
  /\ \A i \in Positions : f[i] = MembersBody(values, kind, f, i)

LEMMA MembersBodyHas ==
  ASSUME NEW values, NEW kind, NEW f, NEW i, NEW r
  PROVE  r \in MembersBody(values, kind, f, i) <=>
           \E start \in Space[i] : r \in MembersAt(values, kind, f, start)
BY Zenon DEF MembersBody

(* Behind a member at most the rest from a later position on is asked for. *)
LEMMA MembersAreLocal ==
  ASSUME InputInv, NEW values, AreReadings(values), NEW kind,
         NEW i \in Positions, NEW g, NEW h,
         \A k \in i + 1 .. Size + 1 : g[k] = h[k]
  PROVE  MembersBody(values, kind, g, i) = MembersBody(values, kind, h, i)
<1>1. Size \in Nat /\ Positions = 1 .. Size + 1
  BY SizeTyped
<1>2. ASSUME NEW start \in Space[i], NEW m \in MemberAt(values, kind, start),
             NEW e \in Space[m[2]]
      PROVE  RestAt(kind, g, e) = RestAt(kind, h, e)
  <2>1. start \in Positions /\ start \in i .. Size + 1
    BY <1>1, SpaceAdvances
  <2>2. m[2] \in i + 1 .. Size + 1
    BY <1>1, <2>1, MemberAdvances DEF EndsBehind
  <2>3. e \in i + 1 .. Size + 1
    <3>1. m[2] \in Positions
      BY <1>1, <2>2
    <3>2. e \in m[2] .. Size + 1
      BY <3>1, SpaceAdvances
    <3> QED
      BY <1>1, <2>2, <3>2
  <2>4. CommaAt(e) => g[e + 1] = h[e + 1]
    <3>1. CommaAt(e) => e <= Size
      BY DEF CommaAt, Is
    <3>2. CommaAt(e) => e + 1 \in i + 1 .. Size + 1
      BY <1>1, <2>3, <3>1
    <3> QED
      BY <3>2
  <2> QED
    BY <2>4 DEF RestAt
<1>3. ASSUME NEW a, NEW b, NEW r \in MembersBody(values, kind, a, i),
             \A start \in Space[i] : \A m \in MemberAt(values, kind, start) :
               \A e \in Space[m[2]] : RestAt(kind, a, e) = RestAt(kind, b, e)
      PROVE  r \in MembersBody(values, kind, b, i)
  <2>1. PICK start \in Space[i] : r \in MembersAt(values, kind, a, start)
    BY <1>3, MembersBodyHas
  <2>2. PICK m \in MemberAt(values, kind, start) :
          \E e \in Space[m[2]] : r \in Followed(m, RestAt(kind, a, e))
    BY <2>1, MembersAtHas
  <2>3. PICK e \in Space[m[2]] : r \in Followed(m, RestAt(kind, a, e))
    BY <2>2
  <2>4. r \in Followed(m, RestAt(kind, b, e))
    BY <1>3, <2>3
  <2>5. r \in MembersAt(values, kind, b, start)
    BY <2>4, MembersAtHas
  <2> QED
    BY <2>5, MembersBodyHas
<1> QED
  BY <1>2, <1>3

LEMMA MembersGrow ==
  ASSUME NEW V, NEW m \in V, NEW s \in Seq(V)
  PROVE  <<m>> \o s \in Seq(V)
OBVIOUS

(* What is read from a position on ends behind it.                         *)
LEMMA MembersBodyAdvances ==
  ASSUME InputInv, NEW values, AreReadings(values), NEW kind, NEW i \in Positions,
         NEW f, \A k \in i + 1 .. Size + 1 : \A r \in f[k] :
                  r[1] \in Seq(MembersOf(values)) /\ r[2] \in Positions,
         NEW r \in MembersBody(values, kind, f, i)
  PROVE  /\ r = <<r[1], r[2]>> /\ r[1] \in Seq(MembersOf(values)) /\ r[2] \in Positions
         /\ (\A k \in i + 1 .. Size + 1 : \A q \in f[k] : EndsBehind(q, k))
              => EndsBehind(r, i)
<1>1. Size \in Nat /\ Positions = 1 .. Size + 1
  BY SizeTyped
<1>2. PICK start \in Space[i] : r \in MembersAt(values, kind, f, start)
  BY MembersBodyHas
<1>3. PICK m \in MemberAt(values, kind, start) :
        \E e \in Space[m[2]] : r \in Followed(m, RestAt(kind, f, e))
  BY <1>2, MembersAtHas
<1>4. PICK e \in Space[m[2]] : r \in Followed(m, RestAt(kind, f, e))
  BY <1>3
<1>5. PICK q \in RestAt(kind, f, e) : r = <<<<m[1]>> \o q[1], q[2]>>
  BY <1>4 DEF Followed
<1>6. start \in Positions /\ start \in i .. Size + 1
  BY <1>1, SpaceAdvances
<1>7. m[1] \in MembersOf(values) /\ m[2] \in i + 1 .. Size + 1
  BY <1>1, <1>6, MemberAdvances DEF EndsBehind
<1>8. e \in i + 1 .. Size + 1 /\ e \in Positions
  <2>1. m[2] \in Positions
    BY <1>1, <1>7
  <2>2. e \in m[2] .. Size + 1
    BY <2>1, SpaceAdvances
  <2> QED
    BY <1>1, <1>7, <2>2
<1>9. CommaAt(e) => e + 1 \in i + 1 .. Size + 1 /\ e + 1 \in Positions
  <2>1. CommaAt(e) => e <= Size
    BY DEF CommaAt, Is
  <2> QED
    BY <1>1, <1>8, <2>1
<1>10. /\ q[1] \in Seq(MembersOf(values)) /\ q[2] \in Positions
       /\ (\A k \in i + 1 .. Size + 1 : \A p \in f[k] : EndsBehind(p, k))
            => q[2] \in i + 1 .. Size + 1
  <2>1. CASE q \in ClosingAt(kind, e)
    <3>1. q[1] = <<>> /\ EndsBehind(q, e)
      BY <1>8, <2>1, ClosingAdvances
    <3> QED
      BY <1>1, <1>8, <3>1 DEF EndsBehind
  <2>2. CASE CommaAt(e) /\ q \in f[e + 1]
    <3>1. q[1] \in Seq(MembersOf(values)) /\ q[2] \in Positions
      BY <1>9, <2>2
    <3>2. ASSUME \A k \in i + 1 .. Size + 1 : \A p \in f[k] : EndsBehind(p, k)
          PROVE  q[2] \in i + 1 .. Size + 1
      <4>1. EndsBehind(q, e + 1)
        BY <1>9, <2>2, <3>2
      <4> QED
        BY <1>1, <1>8, <4>1 DEF EndsBehind
    <3> QED
      BY <3>1, <3>2
  <2>3. CASE CommaAt(e) /\ q \in Closings(kind, e + 1)
    <3>1. q[1] = <<>> /\ EndsBehind(q, e + 1)
      BY <1>9, <2>3, ClosingAdvances
    <3> QED
      BY <1>1, <1>8, <3>1 DEF EndsBehind
  <2> QED
    BY <1>5, <2>1, <2>2, <2>3, RestAtHas
<1>11. <<m[1]>> \o q[1] \in Seq(MembersOf(values))
  BY <1>7, <1>10, MembersGrow
<1> QED
  BY <1>5, <1>10, <1>11 DEF EndsBehind

LEMMA MembersUnfold ==
  ASSUME InputInv, NEW values, AreReadings(values), NEW kind
  PROVE  MembersRead(values, kind, Members(values, kind))
<1>1. PICK n \in Nat : n = Size + 1 /\ Positions = 1 .. n /\ Size \in Nat
  BY SizeTyped
<1> DEFINE S == SUBSET (Seq(MembersOf(values)) \X (1 .. n))
           Body(g, i) == MembersBody(values, kind, g, i)
           b == [x \in (1 .. n) \X [1 .. n -> S] |-> Body(x[2], x[1])]
<1>2. ASSUME NEW i \in 1 .. n, NEW g \in [1 .. n -> S]
      PROVE  Body(g, i) \in S
  <2>1. ASSUME NEW k \in i + 1 .. Size + 1, NEW r \in g[k]
        PROVE  r[1] \in Seq(MembersOf(values)) /\ r[2] \in Positions
    <3>1. k \in 1 .. n
      BY <1>1
    <3>2. g[k] \in S
      BY <3>1
    <3> QED
      BY <1>1, <2>1, <3>2
  <2>2. i \in Positions
    BY <1>1
  <2>3. ASSUME NEW r \in Body(g, i) PROVE r \in Seq(MembersOf(values)) \X (1 .. n)
    <3>1. r = <<r[1], r[2]>> /\ r[1] \in Seq(MembersOf(values)) /\ r[2] \in Positions
      BY <2>1, <2>2, <2>3, MembersBodyAdvances
    <3> QED
      BY <1>1, <3>1
  <2> QED
    BY <2>3
<1>3. b \in [(1 .. n) \X [1 .. n -> S] -> S]
  <2> HIDE DEF S, Body
  <2> QED
    BY <1>2
<1>4. \A i \in 1 .. n : \A g \in [1 .. n -> S] : b[<<i, g>>] = Body(g, i)
  <2> HIDE DEF S, Body
  <2> QED
    OBVIOUS
<1>5. PICK f \in [1 .. n -> S] : \A i \in 1 .. n : f[i] = b[<<i, f>>]
  <2>1. PICK s, c : s = S /\ c = b
    OBVIOUS
  <2>2. S # {}
    OBVIOUS
  <2> HIDE DEF b, S, Body
  <2>3. ASSUME NEW i \in 1 .. n, NEW g \in [1 .. n -> s], NEW h \in [1 .. n -> s],
               \A k \in i + 1 .. n : g[k] = h[k]
        PROVE  c[<<i, g>>] = c[<<i, h>>]
    <3>1. Body(g, i) = Body(h, i)
      BY <1>1, <2>3, MembersAreLocal DEF Body
    <3>2. c[<<i, g>>] = Body(g, i) /\ c[<<i, h>>] = Body(h, i)
      BY <1>4, <2>1
    <3> QED
      BY <3>1, <3>2
  <2>4. s # {} /\ c \in [(1 .. n) \X [1 .. n -> s] -> s]
    BY <1>3, <2>1, <2>2
  <2>5. IsBody(n, s, c)
    BY <2>3, <2>4 DEF IsBody
  <2>6. \E f \in [1 .. n -> s] : \A i \in 1 .. n : f[i] = c[<<i, f>>]
    BY <2>5, DescendingRecursion
  <2> QED
    BY <2>1, <2>6
<1>6. f = [i \in Positions |-> Body(f, i)]
  <2> HIDE DEF b, S, Body
  <2>1. f = [i \in 1 .. n |-> f[i]]
    OBVIOUS
  <2>2. \A i \in 1 .. n : f[i] = Body(f, i)
    BY <1>4, <1>5
  <2> QED
    BY <1>1, <2>1, <2>2
<1> DEFINE members == CHOOSE g : g = [i \in Positions |-> Body(g, i)]
<1>7. Members(values, kind) = members
  BY DEF Members, MembersBody
<1> HIDE DEF Body
<1>8. members = [i \in Positions |-> Body(members, i)]
  BY <1>6
<1> HIDE DEF members
<1>9. \A i \in Positions : members[i] = Body(members, i)
  BY <1>8
<1>10. members = [i \in Positions |-> members[i]]
  BY <1>8
<1> QED
  BY <1>7, <1>9, <1>10 DEF IsOnPositions, MembersRead, Body

LEMMA MembersAreUnique ==
  ASSUME InputInv, NEW values, AreReadings(values), NEW kind, NEW g, NEW h,
         MembersRead(values, kind, g), MembersRead(values, kind, h)
  PROVE  g = h
<1>1. PICK n \in Nat : n = Size + 1 /\ Positions = 1 .. n
  BY SizeTyped
<1> DEFINE T == {i \in 1 .. n : g[i] = h[i]}
<1>2. ASSUME NEW i \in 1 .. n, \A k \in i + 1 .. n : k \in T PROVE i \in T
  <2>1. \A k \in i + 1 .. n : g[k] = h[k]
    BY <1>2
  <2> QED
    BY <1>1, <2>1, MembersAreLocal DEF MembersRead
<1>3. \A i \in 1 .. n : i \in T
  <2> HIDE DEF T
  <2> QED
    BY <1>2, DescendingInduction
<1>4. g = [i \in Positions |-> g[i]] /\ h = [i \in Positions |-> h[i]]
  BY DEF IsOnPositions, MembersRead
<1>5. \A i \in Positions : g[i] = h[i]
  BY <1>1, <1>3
<1> QED
  BY <1>4, <1>5

LEMMA MembersAdvance ==
  ASSUME InputInv, NEW values, AreReadings(values), NEW kind
  PROVE  \A i \in Positions : \A r \in Members(values, kind)[i] :
           EndsBehind(r, i) /\ r[1] \in Seq(MembersOf(values))
<1>1. PICK n \in Nat : n = Size + 1 /\ Positions = 1 .. n /\ Size \in Nat
  BY SizeTyped
<1>2. PICK f : f = Members(values, kind)
  OBVIOUS
<1> DEFINE T == {i \in 1 .. n : \A r \in f[i] :
                   EndsBehind(r, i) /\ r[1] \in Seq(MembersOf(values))}
<1>3. ASSUME NEW i \in 1 .. n, \A k \in i + 1 .. n : k \in T PROVE i \in T
  <2> SUFFICES ASSUME NEW r \in f[i]
               PROVE  EndsBehind(r, i) /\ r[1] \in Seq(MembersOf(values))
    OBVIOUS
  <2>1. r \in MembersBody(values, kind, f, i) /\ i \in Positions
    BY <1>1, <1>2, MembersUnfold DEF MembersRead
  <2>2. ASSUME NEW k \in i + 1 .. Size + 1, NEW q \in f[k]
        PROVE  EndsBehind(q, k) /\ q[1] \in Seq(MembersOf(values)) /\ q[2] \in Positions
    <3>1. EndsBehind(q, k) /\ q[1] \in Seq(MembersOf(values))
      BY <1>1, <1>3, <2>2
    <3> QED
      BY <1>1, <3>1 DEF EndsBehind
  <2> QED
    BY <2>1, <2>2, MembersBodyAdvances
<1>4. \A i \in 1 .. n : i \in T
  <2> HIDE DEF T
  <2> QED
    BY <1>3, DescendingInduction
<1> QED
  BY <1>1, <1>2, <1>4

-----------------------------------------------------------------------------
(* Values.                                                                 *)

LevelAt(values, depth, i) ==
  NumbersAt(i) \cup LiteralsAt(i) \cup StringsAt(i)
    \cup (IF depth = 0 THEN {}
          ELSE ContainerAt(values, "list", i) \cup ContainerAt(values, "dict", i))
Level(values, depth) == [i \in Positions |-> LevelAt(values, depth, i)]

ReadsTo(f, n) == \A d \in Nat : d <= n => f[d] = Level(f[d - 1], d)

LEMMA FirstLevel ==
  ASSUME NEW v, NEW w
  PROVE  Level(v, 0) = Level(w, 0)
<1>1. \A i : LevelAt(v, 0, i) = LevelAt(w, 0, i)
  BY DEF LevelAt
<1> QED
  BY <1>1 DEF Level

LEMMA LevelsExist == \A n \in Nat : \E f : ReadsTo(f, n)
<1> DEFINE T == {n \in Nat : \E f : ReadsTo(f, n)}
<1>1. 0 \in T
  <2>1. PICK f : f = [d \in Nat |-> Level({}, 0)]
    OBVIOUS
  <2>2. f[0] = Level(f[0 - 1], 0)
    <3>1. f[0] = Level({}, 0)
      BY <2>1
    <3>2. Level({}, 0) = Level(f[0 - 1], 0)
      BY FirstLevel
    <3> QED
      BY <3>1, <3>2
  <2>3. ReadsTo(f, 0)
    <3>1. \A d \in Nat : d <= 0 => d = 0
      OBVIOUS
    <3> QED
      BY <2>2, <3>1 DEF ReadsTo
  <2> QED
    BY <2>3
<1>2. ASSUME NEW n \in Nat, n \in T PROVE n + 1 \in T
  <2>1. PICK f : ReadsTo(f, n)
    BY <1>2
  <2>2. PICK top : top = Level(f[n], n + 1)
    OBVIOUS
  <2>3. PICK g : g = [d \in Nat |-> IF d <= n THEN f[d] ELSE top]
    OBVIOUS
  <2>4. ASSUME NEW d \in Nat, d <= n + 1 PROVE g[d] = Level(g[d - 1], d)
    <3>1. CASE d = 0
      <4>1. g[0] = f[0] /\ f[0] = Level(f[0 - 1], 0)
        BY <2>1, <2>3 DEF ReadsTo
      <4>2. Level(f[0 - 1], 0) = Level(g[0 - 1], 0)
        BY FirstLevel
      <4> QED
        BY <3>1, <4>1, <4>2
    <3>2. CASE d # 0 /\ d <= n
      <4>1. d - 1 \in Nat /\ d - 1 <= n
        BY <3>2
      <4>2. g[d] = f[d] /\ g[d - 1] = f[d - 1] /\ f[d] = Level(f[d - 1], d)
        BY <2>1, <2>3, <3>2, <4>1 DEF ReadsTo
      <4> QED
        BY <4>2
    <3>3. CASE ~(d <= n)
      <4>1. d = n + 1 /\ d - 1 = n
        BY <2>4, <3>3
      <4>2. g[d] = top /\ g[n] = f[n]
        BY <2>3, <3>3
      <4> QED
        BY <2>2, <4>1, <4>2
    <3> QED
      BY <3>1, <3>2, <3>3
  <2>5. ReadsTo(g, n + 1)
    BY <2>4 DEF ReadsTo
  <2> QED
    BY <2>5
<1>3. Nat \subseteq T
  <2> HIDE DEF T
  <2> QED
    BY <1>1, <1>2, SetInduction
<1> QED
  BY <1>3

LEMMA LevelsAreUnique ==
  ASSUME NEW f, NEW g, NEW m \in Nat, NEW n \in Nat, ReadsTo(f, m), ReadsTo(g, n)
  PROVE  \A d \in Nat : d <= m /\ d <= n => f[d] = g[d]
<1> DEFINE T == {d \in Nat : d <= m /\ d <= n => f[d] = g[d]}
<1>1. 0 \in T
  <2>1. f[0] = Level(f[0 - 1], 0) /\ g[0] = Level(g[0 - 1], 0)
    BY DEF ReadsTo
  <2>2. Level(f[0 - 1], 0) = Level(g[0 - 1], 0)
    BY FirstLevel
  <2> QED
    BY <2>1, <2>2
<1>2. ASSUME NEW d \in Nat, d \in T PROVE d + 1 \in T
  <2> SUFFICES ASSUME d + 1 <= m, d + 1 <= n PROVE f[d + 1] = g[d + 1]
    OBVIOUS
  <2>1. d <= m /\ d <= n /\ (d + 1) - 1 = d /\ d + 1 \in Nat
    OBVIOUS
  <2>2. f[d + 1] = Level(f[d], d + 1) /\ g[d + 1] = Level(g[d], d + 1)
    BY <2>1 DEF ReadsTo
  <2> QED
    BY <1>2, <2>1, <2>2
<1>3. Nat \subseteq T
  <2> HIDE DEF T
  <2> QED
    BY <1>1, <1>2, SetInduction
<1> QED
  BY <1>3

LEMMA ValuesUnfold ==
  /\ Values = [d \in Nat |-> Values[d]]
  /\ \A d \in Nat : Values[d] = Level(Values[d - 1], d)
<1> DEFINE upto(d) == CHOOSE g : ReadsTo(g, d)
           f == [d \in Nat |-> upto(d)[d]]
<1>1. \A d \in Nat : ReadsTo(upto(d), d)
  BY LevelsExist
<1>2. ASSUME NEW d \in Nat PROVE f[d] = Level(f[d - 1], d)
  <2>1. f[d] = upto(d)[d]
    OBVIOUS
  <2>2. ReadsTo(upto(d), d)
    BY <1>1
  <2> HIDE DEF upto
  <2>3. upto(d)[d] = Level(upto(d)[d - 1], d)
    BY <2>2 DEF ReadsTo
  <2>4. CASE d = 0
    <3>1. Level(upto(d)[d - 1], 0) = Level(f[d - 1], 0)
      BY FirstLevel
    <3> QED
      BY <2>1, <2>3, <2>4, <3>1
  <2>5. CASE d # 0
    <3>1. d - 1 \in Nat /\ d - 1 <= d
      BY <2>5
    <3>2. ReadsTo(upto(d - 1), d - 1)
      BY <1>1, <3>1
    <3>3. upto(d)[d - 1] = upto(d - 1)[d - 1]
      BY <2>2, <3>1, <3>2, LevelsAreUnique
    <3>4. f[d - 1] = upto(d - 1)[d - 1]
      BY <3>1
    <3> QED
      BY <2>1, <2>3, <3>3, <3>4
  <2> QED
    BY <2>4, <2>5
<1>3. f = [d \in Nat |-> Level(f[d - 1], d)]
  <2>1. f = [d \in Nat |-> f[d]]
    OBVIOUS
  <2> HIDE DEF f
  <2> QED
    BY <1>2, <2>1
<1> DEFINE values == CHOOSE g : g = [d \in Nat |-> Level(g[d - 1], d)]
<1>4. Values = values
  BY DEF Values, Level, LevelAt
<1> HIDE DEF f
<1>5. values = [d \in Nat |-> Level(values[d - 1], d)]
  BY <1>3
<1> HIDE DEF values
<1>6. \A d \in Nat : values[d] = Level(values[d - 1], d)
  BY <1>5
<1>7. values = [d \in Nat |-> values[d]]
  BY <1>5
<1> QED
  BY <1>4, <1>6, <1>7

(* What is read at a position.                                             *)
LEMMA ValuesAre ==
  ASSUME NEW d \in Nat, NEW i \in Positions, NEW v
  PROVE  v \in Values[d][i] <=>
           \/ v \in NumbersAt(i)
           \/ v \in LiteralsAt(i)
           \/ v \in StringsAt(i)
           \/ d # 0 /\ \E kind \in {"list", "dict"} : v \in ContainerAt(Values[d - 1], kind, i)
<1>1. Values[d][i] = LevelAt(Values[d - 1], d, i)
  BY ValuesUnfold DEF Level
<1> QED
  BY <1>1, Zenon DEF LevelAt

LEMMA LiteralEnds ==
  ASSUME InputInv, NEW i \in Positions, NEW v \in LiteralsAt(i)
  PROVE  EndsBehind(v, i)
<1>1. Size \in Nat /\ Positions = 1 .. Size + 1
  BY SizeTyped
<1>2. PICK l \in {<<"t", "r", "u", "e">>, <<"n", "u", "l", "l">>,
                  <<"f", "a", "l", "s", "e">>} :
        /\ \A n \in 1 .. Len(l) : Is(i + n - 1, l[n])
        /\ v = <<<<"literal", l>>, i + Len(l)>>
  BY DEF LiteralsAt
<1>3. Len(l) \in 4 .. 5
  BY <1>2
<1>4. Is(i + Len(l) - 1, l[Len(l)])
  BY <1>2, <1>3
<1>5. i + Len(l) - 1 <= Size
  BY <1>4 DEF Is
<1> QED
  BY <1>1, <1>2, <1>3, <1>5 DEF EndsBehind

LEMMA ContainerAtHas ==
  ASSUME NEW values, NEW kind, NEW i, NEW v
  PROVE  v \in ContainerAt(values, kind, i) <=>
           /\ Is(i, Opener(kind))
           /\ \E r \in Members(values, kind)[i + 1] \cup Closings(kind, i + 1) :
                v = <<Contained(kind, r[1]), r[2]>>
BY Zenon DEF ContainerAt

LEMMA ContainerEnds ==
  ASSUME InputInv, NEW values, AreReadings(values), NEW kind,
         NEW i \in Positions, NEW v \in ContainerAt(values, kind, i)
  PROVE  EndsBehind(v, i)
<1>1. Size \in Nat /\ Positions = 1 .. Size + 1
  BY SizeTyped
<1>2. PICK r \in Members(values, kind)[i + 1] \cup Closings(kind, i + 1) :
        v = <<Contained(kind, r[1]), r[2]>>
  BY ContainerAtHas
<1>3. i + 1 \in Positions
  <2>1. i <= Size
    BY ContainerAtHas DEF Is
  <2> QED
    BY <1>1, <2>1
<1>4. EndsBehind(r, i + 1)
  BY <1>3, ClosingAdvances, MembersAdvance
<1> QED
  BY <1>1, <1>2, <1>3, <1>4 DEF EndsBehind

LEMMA ValuesAdvance ==
  ASSUME InputInv
  PROVE  \A d \in Nat : AreReadings(Values[d])
<1>1. Size \in Nat /\ Positions = 1 .. Size + 1
  BY SizeTyped
<1>2. ASSUME NEW i \in Positions, NEW v,
             v \in NumbersAt(i) \/ v \in LiteralsAt(i) \/ v \in StringsAt(i)
      PROVE  EndsBehind(v, i)
  <2>1. CASE v \in NumbersAt(i)
    BY <1>1, <2>1 DEF NumbersAt, EndsBehind
  <2>2. CASE v \in StringsAt(i)
    <3>1. PICK s \in StringAt(i) : v = <<<<"string", s[1]>>, s[2]>>
      BY <2>2 DEF StringsAt
    <3> QED
      BY <3>1, StringEnds DEF EndsBehind
  <2> QED
    BY <1>2, <2>1, <2>2, LiteralEnds
<1> DEFINE T == {d \in Nat : AreReadings(Values[d])}
<1>3. 0 \in T
  <2>1. \A i \in Positions : \A v \in Values[0][i] : EndsBehind(v, i)
    BY <1>2, ValuesAre
  <2> QED
    BY <2>1 DEF AreReadings
<1>4. ASSUME NEW d \in Nat, d \in T PROVE d + 1 \in T
  <2>1. ASSUME NEW i \in Positions, NEW v \in Values[d + 1][i]
        PROVE  EndsBehind(v, i)
    <3>1. AreReadings(Values[d]) /\ d + 1 \in Nat /\ (d + 1) - 1 = d
      BY <1>4
    <3>2. \/ v \in NumbersAt(i) \/ v \in LiteralsAt(i) \/ v \in StringsAt(i)
          \/ \E kind \in {"list", "dict"} : v \in ContainerAt(Values[d], kind, i)
      BY <2>1, <3>1, ValuesAre
    <3> QED
      BY <1>2, <3>1, <3>2, ContainerEnds
  <2> QED
    BY <2>1 DEF AreReadings
<1>5. Nat \subseteq T
  <2> HIDE DEF T
  <2> QED
    BY <1>3, <1>4, SetInduction
<1> QED
  BY <1>5

-----------------------------------------------------------------------------
(* The grammar is of the input: no step changes what it reads.             *)

LEMMA SpaceUnfoldsNext == InputInv' => SpaceReads(Space)'
<1>1. InputInv => SpaceReads(Space)
  BY SpaceUnfolds
<1> QED
  BY <1>1, PTL

LEMMA CharsUnfoldNext == InputInv' => CharsRead(Chars)'
<1>1. InputInv => CharsRead(Chars)
  BY CharsUnfold
<1> QED
  BY <1>1, PTL

AllMembersRead ==
  \A values, kind : AreReadings(values) => MembersRead(values, kind, Members(values, kind))

LEMMA MembersUnfoldNext == InputInv' => AllMembersRead'
<1>1. InputInv => AllMembersRead
  BY MembersUnfold DEF AllMembersRead
<1> QED
  BY <1>1, PTL

AllValuesUnfold ==
  /\ Values = [d \in Nat |-> Values[d]]
  /\ \A d \in Nat : Values[d] = Level(Values[d - 1], d)

LEMMA ValuesUnfoldNext == AllValuesUnfold'
<1>1. AllValuesUnfold
  BY ValuesUnfold DEF AllValuesUnfold
<1> QED
  BY <1>1, PTL

Kept == UNCHANGED <<input, options>>

LEMMA CharactersStay ==
  ASSUME Kept
  PROVE  /\ Size' = Size /\ Positions' = Positions /\ (InputInv => input' = input)
         /\ \A option : Has(option)' = Has(option)
         /\ \A i, c : Is(i, c)' = Is(i, c)
         /\ \A i : QuoteAt(i)' = QuoteAt(i) /\ CommaAt(i)' = CommaAt(i)
                   /\ ColonAt(i)' = ColonAt(i)
         /\ \A i, c : Commented(i, c)' = Commented(i, c)
         /\ \A i : LineEnd(i)' = LineEnd(i) /\ BlockEnd(i)' = BlockEnd(i)
         /\ \A r, i : EndsBehind(r, i)' = EndsBehind(r, i)
<1>1. input' = input /\ options' = options
  BY DEF Kept
<1>2. Size' = Size
  BY <1>1 DEF Size
<1>3. \A i, c : Is(i, c)' = Is(i, c)
  BY <1>1, <1>2 DEF Is
<1>4. \A option : Has(option)' = Has(option)
  BY <1>1 DEF Has
<1>5. \A i : QuoteAt(i)' = QuoteAt(i) /\ CommaAt(i)' = CommaAt(i) /\ ColonAt(i)' = ColonAt(i)
  BY <1>3, Zenon DEF QuoteAt, CommaAt, ColonAt
<1>6. \A i, c : Commented(i, c)' = Commented(i, c)
  BY <1>3, <1>4 DEF Commented
<1>7. \A i : LineEnd(i)' = LineEnd(i)
  BY <1>1, <1>2 DEF LineEnd
<1>8. \A i : BlockEnd(i)' = BlockEnd(i)
  BY <1>2, <1>3 DEF BlockEnd
<1>9. \A r, i : EndsBehind(r, i)' = EndsBehind(r, i)
  BY <1>2 DEF EndsBehind
<1> QED
  BY <1>1, <1>2, <1>3, <1>4, <1>5, <1>6, <1>7, <1>8, <1>9 DEF Positions

LEMMA SpaceStays ==
  ASSUME InputInv, InputInv', Kept
  PROVE  Space' = Space
<1>1. PICK f : f = Space'
  OBVIOUS
<1>2. input' = input
  BY DEF Kept
<1>3. \A i : SpaceBody(f, i)' = SpaceBody(f, i)
  <2> SUFFICES ASSUME NEW i PROVE SpaceBody(f, i)' = SpaceBody(f, i)
    OBVIOUS
  <2> QED
    BY <1>2, CharactersStay, Zenon DEF SpaceBody
<1>4. SpaceReads(f)
  <2>1. /\ IsOnPositions(f)'
        /\ \A i \in Positions' : f[i] = SpaceBody(f, i)'
    BY <1>1, SpaceUnfoldsNext DEF SpaceReads
  <2> QED
    BY <1>3, <2>1, CharactersStay DEF SpaceReads, IsOnPositions
<1> QED
  BY <1>1, <1>4, SpaceUnfolds, SpaceIsUnique

LEMMA UnitsStay ==
  ASSUME Kept
  PROVE  \A i : IsUnit(i)' = IsUnit(i) /\ UnitAt(i)' = UnitAt(i)
<1>1. input' = input /\ \A i, c : Is(i, c)' = Is(i, c)
  BY CharactersStay DEF Kept
<1>2. \A i : UnitAt(i)' = UnitAt(i)
  BY <1>1 DEF UnitAt
<1>3. \A i : IsUnit(i)' = IsUnit(i)
  BY <1>1, CharactersStay, Zenon DEF IsUnit
<1> QED
  BY <1>2, <1>3

LEMMA UnicodeStays ==
  ASSUME Kept
  PROVE  \A i : UnicodeAt(i)' = UnicodeAt(i)
<1>1. /\ \A i, c : Is(i, c)' = Is(i, c)
      /\ \A option : Has(option)' = Has(option)
  BY CharactersStay
<1>2. \A k : ReplacedUpTo(k)' = ReplacedUpTo(k)
  BY <1>1 DEF ReplacedUpTo
<1>3. ASSUME NEW i
      PROVE  IsTrail(UnitAt(i))' = IsTrail(UnitAt(i))
             /\ IsLead(UnitAt(i))' = IsLead(UnitAt(i))
             /\ IsSurrogate(UnitAt(i))' = IsSurrogate(UnitAt(i))
  BY UnitsStay DEF IsTrail, IsLead, IsSurrogate
<1>4. \A i : LeadsAt(i)' = LeadsAt(i)
  BY <1>1, <1>3, Zenon DEF LeadsAt
<1>5. ASSUME NEW i PROVE SurrogatesAt(i)' = SurrogatesAt(i)
  <2>1. /\ IsUnit(i + 6)' = IsUnit(i + 6) /\ UnitAt(i + 6)' = UnitAt(i + 6)
        /\ UnitAt(i)' = UnitAt(i) /\ ReplacedUpTo(i + 12)' = ReplacedUpTo(i + 12)
        /\ IsTrail(UnitAt(i + 6))' = IsTrail(UnitAt(i + 6))
    BY <1>2, <1>3, UnitsStay
  <2> QED
    BY <2>1 DEF SurrogatesAt
<1>6. ASSUME NEW i PROVE UnicodeAt(i)' = UnicodeAt(i)
  <2>1. /\ IsUnit(i)' = IsUnit(i) /\ UnitAt(i)' = UnitAt(i)
        /\ ReplacedUpTo(i + 6)' = ReplacedUpTo(i + 6)
        /\ IsSurrogate(UnitAt(i))' = IsSurrogate(UnitAt(i))
        /\ LeadsAt(i)' = LeadsAt(i) /\ SurrogatesAt(i)' = SurrogatesAt(i)
    BY <1>2, <1>3, <1>4, <1>5, UnitsStay
  <2> QED
    BY <2>1 DEF UnicodeAt
<1> QED
  BY <1>6

LEMMA EscapesStay ==
  ASSUME Kept
  PROVE  \A i : EscapeAt(i)' = EscapeAt(i)
<1>1. /\ \A i, c : Is(i, c)' = Is(i, c)
      /\ \A option : Has(option)' = Has(option)
      /\ input' = input /\ Size' = Size
  BY CharactersStay DEF Kept
<1>2. Escaped' = Escaped
  BY <1>1, Zenon DEF Escaped
<1> QED
  BY <1>1, <1>2, UnicodeStays, Zenon DEF EscapeAt

LEMMA CharStays ==
  ASSUME Kept
  PROVE  \A i : CharAt(i)' = CharAt(i)
<1>1. /\ \A option : Has(option)' = Has(option)
      /\ input' = input
  BY CharactersStay DEF Kept
<1> QED
  BY <1>1, EscapesStay, Zenon DEF CharAt

LEMMA CharsStay ==
  ASSUME InputInv, InputInv', Kept
  PROVE  Chars' = Chars
<1>1. PICK f : f = Chars'
  OBVIOUS
<1>2. \A i : CharsBody(f, i)' = CharsBody(f, i)
  <2> SUFFICES ASSUME NEW i PROVE CharsBody(f, i)' = CharsBody(f, i)
    OBVIOUS
  <2> QED
    BY CharStays, CharactersStay, Zenon DEF CharsBody, Followed
<1>3. CharsRead(f)
  <2>1. /\ IsOnPositions(f)'
        /\ \A i \in Positions' : f[i] = CharsBody(f, i)'
    BY <1>1, CharsUnfoldNext DEF CharsRead
  <2> QED
    BY <1>2, <2>1, CharactersStay DEF CharsRead, IsOnPositions
<1> QED
  BY <1>1, <1>3, CharsUnfold, CharsAreUnique

LEMMA StringsStay ==
  ASSUME InputInv, InputInv', Kept
  PROVE  \A i : StringAt(i)' = StringAt(i)
BY CharsStay, CharactersStay, Zenon DEF StringAt

LEMMA MemberStays ==
  ASSUME InputInv, InputInv', Kept, NEW values
  PROVE  /\ \A i : SpacedAt(values, i)' = SpacedAt(values, i)
         /\ \A kind, i : MemberAt(values, kind, i)' = MemberAt(values, kind, i)
<1>1. \A i : SpacedAt(values, i)' = SpacedAt(values, i)
  BY SpaceStays, Zenon DEF SpacedAt
<1>2. \A i : ColonsAt(i)' = ColonsAt(i)
  BY SpaceStays, CharactersStay, Zenon DEF ColonsAt
<1>3. \A i : AssignedAt(values, i)' = AssignedAt(values, i)
  BY <1>1, <1>2, Zenon DEF AssignedAt
<1>4. \A i : PairsAt(values, i)' = PairsAt(values, i)
  <2>1. \A k : PairsOf(values, k)' = PairsOf(values, k)
    BY <1>3, Zenon DEF PairsOf
  <2> SUFFICES ASSUME NEW i PROVE PairsAt(values, i)' = PairsAt(values, i)
    OBVIOUS
  <2>2. StringAt(i)' = StringAt(i)
    BY StringsStay
  <2> QED
    BY <2>1, <2>2 DEF PairsAt
<1>5. \A kind, i : MemberAt(values, kind, i)' = MemberAt(values, kind, i)
  BY <1>4, Zenon DEF MemberAt
<1> QED
  BY <1>1, <1>5

LEMMA RestStays ==
  ASSUME InputInv, InputInv', Kept
  PROVE  /\ \A kind, i : ClosingAt(kind, i)' = ClosingAt(kind, i)
         /\ \A kind, i : Closings(kind, i)' = Closings(kind, i)
         /\ \A kind, more, i : RestAt(kind, more, i)' = RestAt(kind, more, i)
<1>1. \A kind, i : ClosingAt(kind, i)' = ClosingAt(kind, i)
  BY CharactersStay, Zenon DEF ClosingAt, Closer
<1>2. \A kind, i : Closings(kind, i)' = Closings(kind, i)
  BY SpaceStays, CharactersStay, Zenon DEF Closings, Closer
<1>3. \A kind, more, i : RestAt(kind, more, i)' = RestAt(kind, more, i)
  BY <1>1, <1>2, CharactersStay, Zenon DEF RestAt
<1> QED
  BY <1>1, <1>2, <1>3

LEMMA MembersStay ==
  ASSUME InputInv, InputInv', Kept, NEW values, AreReadings(values), NEW kind
  PROVE  Members(values, kind)' = Members(values, kind)
<1>1. PICK f : f = Members(values, kind)'
  OBVIOUS
<1>2. \A m : BehindMember(kind, f, m)' = BehindMember(kind, f, m)
  BY SpaceStays, RestStays, Zenon DEF BehindMember, Followed
<1>3. \A i : MembersAt(values, kind, f, i)' = MembersAt(values, kind, f, i)
  BY <1>2, MemberStays, Zenon DEF MembersAt
<1>4. \A i : MembersBody(values, kind, f, i)' = MembersBody(values, kind, f, i)
  BY <1>3, SpaceStays, Zenon DEF MembersBody
<1>5. AreReadings(values)'
  BY CharactersStay DEF AreReadings
<1>6. MembersRead(values, kind, f)'
  BY <1>1, <1>5, MembersUnfoldNext DEF AllMembersRead
<1>7. MembersRead(values, kind, f)
  <2>1. /\ IsOnPositions(f)'
        /\ \A i \in Positions' : f[i] = MembersBody(values, kind, f, i)'
    BY <1>6 DEF MembersRead
  <2> QED
    BY <1>4, <2>1, CharactersStay DEF MembersRead, IsOnPositions
<1> QED
  BY <1>1, <1>7, MembersUnfold, MembersAreUnique

LEMMA ScalarsStay ==
  ASSUME InputInv, InputInv', Kept
  PROVE  \A i : /\ NumbersAt(i)' = NumbersAt(i)
                /\ LiteralsAt(i)' = LiteralsAt(i)
                /\ StringsAt(i)' = StringsAt(i)
<1>1. input' = input /\ Size' = Size /\ \A i, c : Is(i, c)' = Is(i, c)
  BY CharactersStay DEF Kept
<1>2. \A i, k : IsNumber(i, k)' = IsNumber(i, k)
  BY <1>1 DEF IsNumber, IsWhole, IsFraction, IsExponent, IsFinite, AreDigits
<1>3. \A i : NumbersAt(i)' = NumbersAt(i)
  BY <1>1, <1>2 DEF NumbersAt
<1>4. \A i : LiteralsAt(i)' = LiteralsAt(i)
  BY <1>1 DEF LiteralsAt
<1>5. \A i : StringsAt(i)' = StringsAt(i)
  BY StringsStay DEF StringsAt
<1> QED
  BY <1>3, <1>4, <1>5

LEMMA ContainersStay ==
  ASSUME InputInv, InputInv', Kept, NEW values, AreReadings(values)
  PROVE  \A kind, i : ContainerAt(values, kind, i)' = ContainerAt(values, kind, i)
<1> SUFFICES ASSUME NEW kind, NEW i
             PROVE  ContainerAt(values, kind, i)' = ContainerAt(values, kind, i)
  OBVIOUS
<1>1. Members(values, kind)' = Members(values, kind)
  BY MembersStay
<1> QED
  BY <1>1, RestStays, CharactersStay, Zenon DEF ContainerAt, Opener

LEMMA ValuesStay ==
  ASSUME InputInv, InputInv', Kept
  PROVE  Values' = Values
<1>1. PICK f : f = Values'
  OBVIOUS
<1>2. /\ f = [d \in Nat |-> f[d]]
      /\ \A d \in Nat : f[d] = Level(f[d - 1], d)'
  BY <1>1, ValuesUnfoldNext DEF AllValuesUnfold
<1>3. ASSUME NEW v, NEW d \in Nat, d = 0 \/ AreReadings(v)
      PROVE  Level(v, d)' = Level(v, d)
  <2>1. \A i : LevelAt(v, d, i)' = LevelAt(v, d, i)
    <3> SUFFICES ASSUME NEW i PROVE LevelAt(v, d, i)' = LevelAt(v, d, i)
      OBVIOUS
    <3>1. d # 0 => /\ ContainerAt(v, "list", i)' = ContainerAt(v, "list", i)
                   /\ ContainerAt(v, "dict", i)' = ContainerAt(v, "dict", i)
      BY <1>3, ContainersStay
    <3>2. /\ NumbersAt(i)' = NumbersAt(i) /\ LiteralsAt(i)' = LiteralsAt(i)
          /\ StringsAt(i)' = StringsAt(i)
      BY ScalarsStay
    <3>3. CASE d = 0
      BY <3>2, <3>3 DEF LevelAt
    <3>4. CASE d # 0
      BY <3>1, <3>2, <3>4 DEF LevelAt
    <3> QED
      BY <3>3, <3>4
  <2>2. Level(v, d)' = [i \in Positions' |-> LevelAt(v, d, i)']
    BY DEF Level
  <2>3. Positions' = Positions
    BY CharactersStay
  <2> QED
    BY <2>1, <2>2, <2>3 DEF Level
<1> DEFINE T == {d \in Nat : f[d] = Values[d]}
<1>4. 0 \in T
  <2>1. f[0] = Level(f[0 - 1], 0)
    BY <1>2, <1>3
  <2> QED
    BY <2>1, ValuesUnfold, FirstLevel
<1>5. ASSUME NEW d \in Nat, d \in T PROVE d + 1 \in T
  <2>1. (d + 1) - 1 = d /\ d + 1 \in Nat /\ AreReadings(Values[d])
    BY ValuesAdvance
  <2>2. f[d + 1] = Level(f[d], d + 1)'
    BY <1>2, <2>1
  <2>3. f[d] = Values[d]
    BY <1>5
  <2>4. f[d + 1] = Level(f[d], d + 1)
    BY <1>3, <2>1, <2>2, <2>3
  <2>5. Values[d + 1] = Level(Values[d], d + 1)
    BY <2>1, ValuesUnfold
  <2> QED
    BY <2>3, <2>4, <2>5
<1>6. Nat \subseteq T
  <2> HIDE DEF T
  <2> QED
    BY <1>4, <1>5, SetInduction
<1> QED
  BY <1>1, <1>2, <1>6, ValuesUnfold

-----------------------------------------------------------------------------
(* Lists.                                                                  *)

IsList(s) == s \in Seq(Range(s))

LEMMA ListOf ==
  ASSUME NEW S, NEW s \in Seq(S)
  PROVE  IsList(s)
BY SeqOfItsRange DEF IsList

LEMMA EmptyList == IsList(<<>>)
<1>1. <<>> \in Seq({})
  BY EmptySeq
<1> QED
  BY <1>1, ListOf

LEMMA ListsJoin ==
  ASSUME NEW s, IsList(s), NEW x, NEW t, IsList(t)
  PROVE  /\ IsList(<<x>>) /\ IsList(Append(s, x)) /\ IsList(s \o t)
         /\ IsList(<<x>> \o t)
         /\ Append(s, x) \o t = s \o (<<x>> \o t)
         /\ s \o <<>> = s /\ <<>> \o s = s
         /\ Append(s, x) # <<>> /\ Len(Append(s, x)) = Len(s) + 1
<1> DEFINE S == Range(s) \cup Range(t) \cup {x}
<1>1. s \in Seq(S) /\ t \in Seq(S) /\ x \in S
  BY SeqMonotonic DEF IsList
<1> HIDE DEF S
<1>2. <<x>> \in Seq(S)
  BY <1>1
<1>3. Append(s, x) \in Seq(S) /\ s \o t \in Seq(S) /\ <<x>> \o t \in Seq(S)
  BY <1>1, <1>2
<1>4. Append(s, x) = s \o <<x>>
  BY <1>1, AppendIsConcat
<1>5. (s \o <<x>>) \o t = s \o (<<x>> \o t)
  BY <1>1, <1>2, ConcatAssociative
<1>6. s \o <<>> = s /\ <<>> \o s = s
  BY <1>1, ConcatEmptySeq
<1>7. Append(s, x) # <<>> /\ Len(Append(s, x)) = Len(s) + 1
  BY <1>1, AppendProperties
<1> QED
  BY <1>1, <1>2, <1>3, <1>4, <1>5, <1>6, <1>7, ListOf

(* An element at the end of s is one before t.                             *)
Before(s, x, t) == Append(s, x) \o t
Behind(s, x, t) == s \o (<<x>> \o t)

LEMMA ListsShift ==
  ASSUME NEW s, IsList(s), NEW x, NEW t, IsList(t)
  PROVE  Before(s, x, t) = Behind(s, x, t)
<1>1. PICK S : s \in Seq(S) /\ t \in Seq(S) /\ x \in S
  <2>1. /\ s \in Seq(Range(s) \cup Range(t) \cup {x})
        /\ t \in Seq(Range(s) \cup Range(t) \cup {x})
    BY SeqMonotonic DEF IsList
  <2> QED
    BY <2>1
<1>2. PICK y : y = <<x>> /\ y \in Seq(S)
  <2>1. <<x>> \in Seq(S)
    BY <1>1
  <2> QED
    BY <2>1
<1>3. PICK w : w = y \o t
  OBVIOUS
<1>4. PICK l : l = Before(s, x, t)
  OBVIOUS
<1>5. PICK r : r = Behind(s, x, t)
  OBVIOUS
<1>6. l = (s \o y) \o t
  <2>1. Append(s, x) = s \o y
    BY <1>1, <1>2, AppendIsConcat
  <2> QED
    BY <1>4, <2>1 DEF Before
<1>7. r = s \o w
  BY <1>2, <1>3, <1>5 DEF Behind
<1>8. (s \o y) \o t = s \o (y \o t)
  BY <1>1, <1>2, ConcatAssociative
<1>9. l = r
  BY <1>3, <1>6, <1>7, <1>8, Zenon
<1> QED
  BY <1>4, <1>5, <1>9

(* The containers below the innermost one.                                 *)
LEMMA TopOf ==
  ASSUME NEW s, AreContainers(s), s # <<>>
  PROVE  /\ Len(s) \in Nat \ {0} /\ Last(s) = s[Len(s)] /\ IsContainer(Last(s))
         /\ AreContainers(Front(s)) /\ Len(Front(s)) = Len(s) - 1
         /\ Front(s) = [i \in 1 .. Len(s) - 1 |-> s[i]]
<1>1. Len(s) \in Nat \ {0}
  BY EmptySeq DEF AreContainers
<1>2. Last(s) = s[Len(s)] /\ IsContainer(Last(s))
  BY <1>1 DEF Last, AreContainers
<1>3. AreContainers(Front(s)) /\ Len(Front(s)) = Len(s) - 1
  BY FrontContainers
<1>4. PICK n \in Nat : Len(s) = n + 1
  <2>1. Len(s) - 1 \in Nat /\ Len(s) = (Len(s) - 1) + 1
    BY <1>1
  <2> QED
    BY <2>1
<1>5. Front(s) = [i \in 1 .. n |-> s[i]]
  <2>1. Front(s) = SubSeq(s, 1, n)
    BY <1>4 DEF Front
  <2>2. \A i \in 1 .. n : s[i] \in Range(s)
    <3>1. \A i \in 1 .. n : i \in 1 .. Len(s)
      BY <1>4
    <3> QED
      BY <3>1, ElementOfSeq DEF AreContainers
  <2>3. Front(s) \in Seq(Range(s)) /\ Len(Front(s)) = n
        /\ \A i \in 1 .. n : Front(s)[i] = s[i]
    BY <1>4, <2>1, <2>2, SubSeqProperties
  <2>4. Front(s) \in [1 .. n -> Range(s)]
    BY <2>3, LenProperties
  <2> QED
    BY <2>3, <2>4
<1> QED
  BY <1>1, <1>2, <1>3, <1>4, <1>5

LEMMA Pushed ==
  ASSUME NEW s, AreContainers(s), NEW c, IsContainer(c)
  PROVE  LET t == Append(s, c)
         IN  /\ AreContainers(t) /\ t # <<>> /\ Len(t) = Len(s) + 1
             /\ Last(t) = c /\ Front(t) = s
<1>1. PICK t : t = Append(s, c)
  OBVIOUS
<1>2. AreContainers(t) /\ t # <<>> /\ Len(t) = Len(s) + 1 /\ Last(t) = c
  BY <1>1, AppendContainer
<1>3. Len(s) \in Nat /\ s = [i \in 1 .. Len(s) |-> s[i]]
  BY LenProperties DEF AreContainers
<1>4. \A i \in 1 .. Len(s) : t[i] = s[i]
  BY <1>1, <1>3, AppendProperties, SeqMonotonic DEF AreContainers
<1>5. Front(t) = [i \in 1 .. Len(t) - 1 |-> t[i]]
  BY <1>2, TopOf
<1>6. Len(t) - 1 = Len(s)
  BY <1>2, <1>3
<1>7. Front(t) = [i \in 1 .. Len(s) |-> s[i]]
  BY <1>4, <1>5, <1>6
<1> QED
  BY <1>1, <1>2, <1>3, <1>7

LEMMA Replaced ==
  ASSUME NEW s, AreContainers(s), s # <<>>, NEW c, IsContainer(c),
         c.kind = s[Len(s)].kind
  PROVE  LET t == [s EXCEPT ![Len(s)] = c]
         IN  /\ AreContainers(t) /\ t # <<>> /\ Len(t) = Len(s)
             /\ Last(t) = c /\ Front(t) = Front(s)
<1>1. PICK t : t = [s EXCEPT ![Len(s)] = c]
  OBVIOUS
<1>2. AreContainers(t) /\ t # <<>> /\ Len(t) = Len(s)
  BY <1>1, ChangeContainer
<1>3. PICK n \in Nat \ {0} : n = Len(s) /\ DOMAIN s = 1 .. n
  BY EmptySeq, LenProperties DEF AreContainers
<1>4. t[n] = c /\ \A i \in 1 .. n - 1 : t[i] = s[i]
  BY <1>1, <1>3
<1>5. Last(t) = c
  BY <1>2, <1>3, <1>4 DEF Last
<1>6. Front(t) = [i \in 1 .. n - 1 |-> t[i]] /\ Front(s) = [i \in 1 .. n - 1 |-> s[i]]
  BY <1>2, <1>3, TopOf
<1> QED
  BY <1>1, <1>2, <1>4, <1>5, <1>6

-----------------------------------------------------------------------------
(* What the rest of the input makes of a document that is half read.       *)

Deepest == IF MaxDepth = 0 THEN 0 ELSE MaxDepth - 1
Inside(s) == Values[Deepest - Len(s)]
More(n, kind) == Members(Values[Deepest - n], kind)

(* The containers s have a value v that ends before p; link n of the chain *)
(* is the value container n + 1 comes to, and its end.                     *)
IsLinked(c, n, inner, outer) ==
  \E e \in Space[inner[2]] : \E r \in RestAt(c.kind, More(n, c.kind), e) :
    outer = <<Contained(c.kind, Append(c.values, <<c.key, inner[1]>>) \o r[1]), r[2]>>

IsChain(chain, s, doc) ==
  /\ chain[0][1] = doc
  /\ Size + 1 \in Space[chain[0][2]]
  /\ \A n \in 1 .. Len(s) : IsLinked(s[n], n, chain[n], chain[n - 1])

LeadsTo(s, v, p, doc) ==
  \E chain : IsChain(chain, s, doc) /\ chain[Len(s)] = <<v, p>>

LEMMA LeadsOut ==
  ASSUME NEW v, NEW p, NEW doc
  PROVE  LeadsTo(<<>>, v, p, doc) <=> doc = v /\ Size + 1 \in Space[p]
<1>1. Len(<<>>) = 0 /\ 1 .. 0 = {}
  OBVIOUS
<1>2. ASSUME LeadsTo(<<>>, v, p, doc) PROVE doc = v /\ Size + 1 \in Space[p]
  BY <1>1, <1>2 DEF LeadsTo, IsChain
<1>3. ASSUME doc = v, Size + 1 \in Space[p] PROVE LeadsTo(<<>>, v, p, doc)
  <2>1. PICK chain : chain = [n \in {0} |-> <<v, p>>]
    OBVIOUS
  <2>2. IsChain(chain, <<>>, doc) /\ chain[Len(<<>>)] = <<v, p>>
    BY <1>1, <1>3, <2>1 DEF IsChain
  <2> QED
    BY <2>2 DEF LeadsTo
<1> QED
  BY <1>2, <1>3

LEMMA LeadsIn ==
  ASSUME NEW s, AreContainers(s), s # <<>>, NEW v, NEW p, NEW doc
  PROVE  LeadsTo(s, v, p, doc) <=>
           \E o : IsLinked(Last(s), Len(s), <<v, p>>, o)
                  /\ LeadsTo(Front(s), o[1], o[2], doc)
<1>1. PICK n \in Nat : Len(s) = n + 1 /\ Len(Front(s)) = n /\ Last(s) = s[n + 1]
                       /\ \A i \in 1 .. n : Front(s)[i] = s[i]
  <2>1. Len(s) \in Nat \ {0} /\ Len(Front(s)) = Len(s) - 1 /\ Last(s) = s[Len(s)]
        /\ Front(s) = [i \in 1 .. Len(s) - 1 |-> s[i]]
    BY TopOf
  <2>2. Len(s) - 1 \in Nat /\ Len(s) = (Len(s) - 1) + 1
    BY <2>1
  <2> QED
    BY <2>1, <2>2
<1>2. ASSUME LeadsTo(s, v, p, doc)
      PROVE  \E o : IsLinked(Last(s), Len(s), <<v, p>>, o)
                    /\ LeadsTo(Front(s), o[1], o[2], doc)
  <2>1. PICK chain : IsChain(chain, s, doc) /\ chain[n + 1] = <<v, p>>
    BY <1>1, <1>2 DEF LeadsTo
  <2>2. IsLinked(s[n + 1], n + 1, <<v, p>>, chain[n])
    <3>1. n + 1 \in 1 .. Len(s) /\ (n + 1) - 1 = n
      BY <1>1
    <3> QED
      BY <2>1, <3>1 DEF IsChain
  <2>3. chain[n] = <<chain[n][1], chain[n][2]>>
    BY <2>2 DEF IsLinked
  <2>4. IsChain(chain, Front(s), doc)
    <3>1. \A i \in 1 .. n : i \in 1 .. Len(s)
      BY <1>1
    <3> QED
      BY <1>1, <2>1, <3>1 DEF IsChain
  <2>5. LeadsTo(Front(s), chain[n][1], chain[n][2], doc)
    BY <1>1, <2>3, <2>4 DEF LeadsTo
  <2> QED
    BY <1>1, <2>2, <2>5
<1>3. ASSUME NEW o, IsLinked(Last(s), Len(s), <<v, p>>, o),
             LeadsTo(Front(s), o[1], o[2], doc)
      PROVE  LeadsTo(s, v, p, doc)
  <2>1. PICK chain : IsChain(chain, Front(s), doc) /\ chain[n] = <<o[1], o[2]>>
    BY <1>1, <1>3 DEF LeadsTo
  <2>2. o = <<o[1], o[2]>>
    BY <1>3 DEF IsLinked
  <2>3. PICK longer : longer = [i \in 0 .. n + 1 |-> IF i = n + 1 THEN <<v, p>> ELSE chain[i]]
    OBVIOUS
  <2>4. longer[n + 1] = <<v, p>> /\ \A i \in 0 .. n : longer[i] = chain[i]
    BY <2>3
  <2>5. ASSUME NEW i \in 1 .. n + 1 PROVE IsLinked(s[i], i, longer[i], longer[i - 1])
    <3>1. CASE i = n + 1
      <4>1. longer[i] = <<v, p>> /\ longer[i - 1] = o
        BY <2>1, <2>2, <2>4, <3>1
      <4> QED
        BY <1>1, <1>3, <3>1, <4>1
    <3>2. CASE i # n + 1
      <4>1. i \in 1 .. n /\ longer[i] = chain[i] /\ longer[i - 1] = chain[i - 1]
        BY <2>4, <3>2
      <4> QED
        BY <1>1, <2>1, <4>1 DEF IsChain
    <3> QED
      BY <3>1, <3>2
  <2>6. longer[0] = chain[0]
    BY <2>4
  <2>7. IsChain(longer, s, doc)
    BY <1>1, <2>1, <2>5, <2>6 DEF IsChain
  <2> QED
    BY <1>1, <2>4, <2>7 DEF LeadsTo
<1> QED
  BY <1>2, <1>3

(* r: the members that c is still to get, and its end; s: what c is in.    *)
CompletesTo(c, s, r, doc) == LeadsTo(s, Contained(c.kind, c.values \o r[1]), r[2], doc)

FirstsAt(s, i) ==
  MembersAt(Inside(s), Last(s).kind, More(Len(s), Last(s).kind), i)

RemainingAt(caller, s, i) ==
  CASE caller \in {"item", "key"} -> ClosingAt(Last(s).kind, i) \cup FirstsAt(s, i)
    [] caller = "next" ->
         (IF Has("JSON_ALLOW_TRAILING_COMMAS") THEN ClosingAt(Last(s).kind, i) ELSE {})
           \cup FirstsAt(s, i)
    [] OTHER -> RestAt(Last(s).kind, More(Len(s), Last(s).kind), i)

(* The caller of GetNextToken gets the token at position i.                *)
TokenAt(caller, s, i, value, doc) ==
  \/ caller = "value" /\ \E v \in Inside(s)[i] : LeadsTo(s, v[1], v[2], doc)
  \/ /\ caller \in {"item", "key", "next", "separator"}
     /\ \E r \in RemainingAt(caller, s, i) : CompletesTo(Last(s), Front(s), r, doc)
  \/ /\ caller = "colon" /\ ColonAt(i)
     /\ \E v \in SpacedAt(Inside(s), i + 1) : LeadsTo(s, v[1], v[2], doc)
  \/ caller = "end" /\ i = Size + 1 /\ doc = value

TokenIn(caller, s, i, value, doc) ==
  \E e \in Space[i] : TokenAt(caller, s, e, value, doc)

WithKey(s, text) == [s EXCEPT ![Len(s)].key = text]
WithValue(s, v) == [s EXCEPT ![Len(s)].values = Append(@, <<s[Len(s)].key, v>>)]

StringLeadsTo(s, text, is_key, i, doc) ==
  IF is_key THEN TokenIn("colon", WithKey(s, text), i, NoValue, doc)
            ELSE LeadsTo(s, <<"string", text>>, i, doc)

(* Where the end of a block comment is looked for.                         *)
CommentFrom(i, previous) == IF previous = "*" THEN i - 1 ELSE i

PendingAt(at, i, caller, previous, s, text, is_key, value, doc) ==
  \/ at = "eat" /\ TokenIn(caller, s, i, value, doc)
  \/ at = "token" /\ TokenAt(caller, s, i, value, doc)
  \/ at = "line_comment" /\ TokenIn(caller, s, LineEnd(i), value, doc)
  \/ /\ at = "block_comment"
     /\ TokenIn(caller, s, BlockEnd(CommentFrom(i, previous)), value, doc)
  \/ /\ at = "string"
     /\ \E q \in Chars[i] : StringLeadsTo(s, text \o q[1], is_key, q[2], doc)
  \/ at = "done" /\ value # NoValue /\ doc = value

Pending(doc) ==
  PendingAt(pc, index + 1, then, previous_char, stack, string, key, result, doc)

LEMMA DepthIsThere ==
  ASSUME NEW s, AreContainers(s), s = <<>> \/ Len(s) < MaxDepth
  PROVE  /\ Len(s) \in Nat /\ Deepest \in Nat /\ Deepest - Len(s) \in Nat
         /\ Len(s) + 1 >= MaxDepth <=> Deepest - Len(s) = 0
         /\ Deepest - Len(s) # 0 => Len(s) + 1 < MaxDepth
                                    /\ (Deepest - Len(s)) - 1 = Deepest - (Len(s) + 1)
<1>1. MaxDepth \in Nat /\ Len(s) \in Nat /\ Len(<<>>) = 0
  BY JsonAssumption, LenProperties, EmptySeq DEF AreContainers
<1> QED
  BY <1>1 DEF Deepest

LEMMA Returned ==
  ASSUME NEW s, AreContainers(s), NEW v, NEW p, NEW doc, NEW value
  PROVE  /\ s = <<>> => (LeadsTo(s, v, p, doc) <=> TokenIn("end", <<>>, p, v, doc))
         /\ s # <<>> => (LeadsTo(s, v, p, doc)
                           <=> TokenIn("separator", WithValue(s, v), p, value, doc))
<1>1. ASSUME s = <<>>
      PROVE  LeadsTo(s, v, p, doc) <=> TokenIn("end", <<>>, p, v, doc)
  <2>1. LeadsTo(s, v, p, doc) <=> doc = v /\ Size + 1 \in Space[p]
    BY <1>1, LeadsOut
  <2>2. \A e : TokenAt("end", <<>>, e, v, doc) <=> e = Size + 1 /\ doc = v
    BY DEF TokenAt
  <2> QED
    BY <2>1, <2>2 DEF TokenIn
<1>2. ASSUME s # <<>>
      PROVE  LeadsTo(s, v, p, doc) <=> TokenIn("separator", WithValue(s, v), p, value, doc)
  <2> DEFINE c == Last(s)
             d == [c EXCEPT !.values = Append(@, <<c.key, v>>)]
             t == WithValue(s, v)
  <2>1. Len(s) \in Nat \ {0} /\ c = s[Len(s)] /\ IsContainer(c)
    BY <1>2, TopOf
  <2>2. IsContainer(d) /\ d.kind = c.kind /\ d.values = Append(c.values, <<c.key, v>>)
    BY <2>1 DEF IsContainer
  <2>3. t = [s EXCEPT ![Len(s)] = d]
    BY <2>1 DEF WithValue
  <2> HIDE DEF d, c, t
  <2>4. Len(t) = Len(s) /\ Last(t) = d /\ Front(t) = Front(s)
    BY <1>2, <2>1, <2>2, <2>3, Replaced
  <2>5. \A e : TokenAt("separator", t, e, value, doc) <=>
          \E r \in RestAt(c.kind, More(Len(s), c.kind), e) :
            LeadsTo(Front(s), Contained(c.kind, Append(c.values, <<c.key, v>>) \o r[1]), r[2], doc)
    <3>1. \A e : RemainingAt("separator", t, e) = RestAt(c.kind, More(Len(s), c.kind), e)
      BY <2>2, <2>4 DEF RemainingAt
    <3>2. \A r : CompletesTo(Last(t), Front(t), r, doc) <=>
            LeadsTo(Front(s), Contained(c.kind, Append(c.values, <<c.key, v>>) \o r[1]), r[2], doc)
      BY <2>2, <2>4 DEF CompletesTo
    <3>3. \A e : TokenAt("separator", t, e, value, doc) <=>
            \E r \in RemainingAt("separator", t, e) : CompletesTo(Last(t), Front(t), r, doc)
      BY DEF TokenAt
    <3> QED
      BY <3>1, <3>2, <3>3
  <2>6. \A o : IsLinked(c, Len(s), <<v, p>>, o) <=>
          \E e \in Space[p] : \E r \in RestAt(c.kind, More(Len(s), c.kind), e) :
            o = <<Contained(c.kind, Append(c.values, <<c.key, v>>) \o r[1]), r[2]>>
    BY DEF IsLinked
  <2>7. LeadsTo(s, v, p, doc) <=>
          \E o : IsLinked(c, Len(s), <<v, p>>, o) /\ LeadsTo(Front(s), o[1], o[2], doc)
    BY <1>2, LeadsIn DEF c
  <2>8. ASSUME LeadsTo(s, v, p, doc) PROVE TokenIn("separator", t, p, value, doc)
    <3>1. PICK o : IsLinked(c, Len(s), <<v, p>>, o) /\ LeadsTo(Front(s), o[1], o[2], doc)
      BY <2>7, <2>8
    <3>2. PICK e \in Space[p] : \E r \in RestAt(c.kind, More(Len(s), c.kind), e) :
            o = <<Contained(c.kind, Append(c.values, <<c.key, v>>) \o r[1]), r[2]>>
      BY <2>6, <3>1
    <3>3. TokenAt("separator", t, e, value, doc)
      BY <2>5, <3>1, <3>2
    <3> QED
      BY <3>3 DEF TokenIn
  <2>9. ASSUME TokenIn("separator", t, p, value, doc) PROVE LeadsTo(s, v, p, doc)
    <3>1. PICK e \in Space[p] : TokenAt("separator", t, e, value, doc)
      BY <2>9 DEF TokenIn
    <3>2. PICK r \in RestAt(c.kind, More(Len(s), c.kind), e) :
            LeadsTo(Front(s), Contained(c.kind, Append(c.values, <<c.key, v>>) \o r[1]), r[2], doc)
      BY <2>5, <3>1
    <3>3. PICK o : o = <<Contained(c.kind, Append(c.values, <<c.key, v>>) \o r[1]), r[2]>>
      OBVIOUS
    <3>4. IsLinked(c, Len(s), <<v, p>>, o)
      BY <2>6, <3>3
    <3> QED
      BY <2>7, <3>2, <3>3, <3>4
  <2> QED
    BY <2>8, <2>9 DEF t
<1> QED
  BY <1>1, <1>2

-----------------------------------------------------------------------------
(* Nothing changes what the rest of the input makes of it.                 *)

LEMMA MoreStays ==
  ASSUME InputInv, InputInv', Kept, NEW n, Deepest - n \in Nat, NEW kind
  PROVE  More(n, kind)' = More(n, kind)
<1>1. AreReadings(Values[Deepest - n])
  BY ValuesAdvance
<1>2. PICK v : v = Values[Deepest - n]
  OBVIOUS
<1>3. Values[Deepest - n]' = v
  BY <1>2, ValuesStay DEF Deepest
<1>4. Members(v, kind)' = Members(v, kind)
  BY <1>1, <1>2, MembersStay
<1> QED
  BY <1>2, <1>3, <1>4, ValuesStay DEF More, Deepest

LEMMA InsideStays ==
  ASSUME InputInv, InputInv', Kept, NEW s
  PROVE  Inside(s)' = Inside(s)
BY ValuesStay DEF Inside, Deepest

LEMMA MembersAtStay ==
  ASSUME InputInv, InputInv', Kept, NEW values, NEW kind, NEW more, NEW i
  PROVE  MembersAt(values, kind, more, i)' = MembersAt(values, kind, more, i)
<1>1. \A m : BehindMember(kind, more, m)' = BehindMember(kind, more, m)
  BY SpaceStays, RestStays, Zenon DEF BehindMember, Followed
<1> QED
  BY <1>1, MemberStays, Zenon DEF MembersAt

LEMMA LinksStay ==
  ASSUME InputInv, InputInv', Kept, NEW n, Deepest - n \in Nat,
         NEW c, NEW inner, NEW outer
  PROVE  IsLinked(c, n, inner, outer)' <=> IsLinked(c, n, inner, outer)
<1>1. PICK more : more = More(n, c.kind)
  OBVIOUS
<1>2. More(n, c.kind)' = more
  BY <1>1, MoreStays
<1>3. \A e : RestAt(c.kind, more, e)' = RestAt(c.kind, more, e)
  BY RestStays
<1>4. Space' = Space
  BY SpaceStays
<1> QED
  BY <1>1, <1>2, <1>3, <1>4 DEF IsLinked

LEMMA LeadsStay ==
  ASSUME InputInv, InputInv', Kept,
         NEW s, AreContainers(s), s = <<>> \/ Len(s) < MaxDepth,
         NEW v, NEW p, NEW doc
  PROVE  LeadsTo(s, v, p, doc)' <=> LeadsTo(s, v, p, doc)
<1>1. ASSUME NEW n \in 1 .. Len(s) PROVE Deepest - n \in Nat
  BY <1>1, DepthIsThere
<1>2. \A n \in 1 .. Len(s) : \A inner, outer :
        IsLinked(s[n], n, inner, outer)' <=> IsLinked(s[n], n, inner, outer)
  BY <1>1, LinksStay
<1>3. Space' = Space /\ Size' = Size
  BY SpaceStays, CharactersStay
<1>4. \A chain : IsChain(chain, s, doc)' <=> IsChain(chain, s, doc)
  BY <1>2, <1>3 DEF IsChain
<1> QED
  BY <1>4 DEF LeadsTo

LEMMA RemainingStays ==
  ASSUME InputInv, InputInv', Kept,
         NEW s, AreContainers(s), s = <<>> \/ Len(s) < MaxDepth,
         NEW caller, NEW i
  PROVE  RemainingAt(caller, s, i)' = RemainingAt(caller, s, i)
<1>1. PICK kind : kind = Last(s).kind
  OBVIOUS
<1>2. PICK more : more = More(Len(s), kind)
  OBVIOUS
<1>3. More(Len(s), kind)' = more
  BY <1>2, DepthIsThere, MoreStays
<1>4. PICK values : values = Inside(s)
  OBVIOUS
<1>5. Inside(s)' = values
  BY <1>4, InsideStays
<1>6. FirstsAt(s, i)' = FirstsAt(s, i)
  BY <1>1, <1>2, <1>3, <1>4, <1>5, MembersAtStay DEF FirstsAt
<1>7. /\ RestAt(kind, more, i)' = RestAt(kind, more, i)
      /\ ClosingAt(kind, i)' = ClosingAt(kind, i)
      /\ Has("JSON_ALLOW_TRAILING_COMMAS")' = Has("JSON_ALLOW_TRAILING_COMMAS")
  BY RestStays, CharactersStay
<1>8. RestAt(kind, More(Len(s), kind), i)' = RestAt(kind, More(Len(s), kind), i)
  BY <1>2, <1>3, <1>7
<1> QED
  BY <1>1, <1>6, <1>7, <1>8 DEF RemainingAt

LEMMA TokensStay ==
  ASSUME InputInv, InputInv', Kept,
         NEW s, AreContainers(s), s = <<>> \/ Len(s) < MaxDepth,
         NEW caller, caller \in {"item", "key", "next", "separator"} => s # <<>>,
         NEW value, NEW doc
  PROVE  /\ \A i : TokenAt(caller, s, i, value, doc)' <=> TokenAt(caller, s, i, value, doc)
         /\ \A i : TokenIn(caller, s, i, value, doc)' <=> TokenIn(caller, s, i, value, doc)
<1>1. \A v, p : LeadsTo(s, v, p, doc)' <=> LeadsTo(s, v, p, doc)
  BY LeadsStay
<1>2. PICK values : values = Inside(s)
  OBVIOUS
<1>3. Inside(s)' = values
  BY <1>2, InsideStays
<1>4. \A i : SpacedAt(values, i)' = SpacedAt(values, i)
  BY MemberStays
<1>5. ASSUME caller \in {"item", "key", "next", "separator"}
      PROVE  \A r : CompletesTo(Last(s), Front(s), r, doc)'
                      <=> CompletesTo(Last(s), Front(s), r, doc)
  <2>1. s # <<>>
    BY <1>5
  <2>2. AreContainers(Front(s)) /\ Len(s) \in Nat /\ Len(Front(s)) = Len(s) - 1
    BY <2>1, TopOf
  <2>3. Front(s) = <<>> \/ Len(Front(s)) < MaxDepth
    BY <2>1, <2>2, JsonAssumption
  <2>4. \A v, p : LeadsTo(Front(s), v, p, doc)' <=> LeadsTo(Front(s), v, p, doc)
    BY <2>2, <2>3, LeadsStay
  <2> QED
    BY <2>4 DEF CompletesTo
<1>6. \A i : RemainingAt(caller, s, i)' = RemainingAt(caller, s, i)
  BY RemainingStays
<1>7. Size' = Size /\ Space' = Space /\ \A i : ColonAt(i)' = ColonAt(i)
  BY CharactersStay, SpaceStays
<1>8. ASSUME NEW i
      PROVE  TokenAt(caller, s, i, value, doc)' <=> TokenAt(caller, s, i, value, doc)
  <2>1. CASE caller = "value"
    BY <1>1, <1>2, <1>3, <2>1 DEF TokenAt
  <2>2. CASE caller \in {"item", "key", "next", "separator"}
    <3>1. \A r : CompletesTo(Last(s), Front(s), r, doc)'
                   <=> CompletesTo(Last(s), Front(s), r, doc)
      BY <1>5, <2>2
    <3>2. RemainingAt(caller, s, i)' = RemainingAt(caller, s, i)
      BY <1>6
    <3> QED
      BY <2>2, <3>1, <3>2 DEF TokenAt
  <2>3. CASE caller = "colon"
    BY <1>1, <1>2, <1>3, <1>4, <1>7, <2>3 DEF TokenAt
  <2>4. CASE caller = "end"
    BY <1>7, <2>4 DEF TokenAt
  <2>5. CASE caller \notin {"value", "item", "key", "next", "separator", "colon", "end"}
    BY <2>5 DEF TokenAt
  <2> QED
    BY <2>1, <2>2, <2>3, <2>4, <2>5
<1> QED
  BY <1>7, <1>8 DEF TokenIn

LEMMA KeyIsSet ==
  ASSUME NEW s, AreContainers(s), s # <<>>, NEW text
  PROVE  /\ AreContainers(WithKey(s, text)) /\ Len(WithKey(s, text)) = Len(s)
         /\ WithKey(s, text) # <<>> /\ Front(WithKey(s, text)) = Front(s)
         /\ Last(WithKey(s, text)).kind = Last(s).kind
         /\ Last(WithKey(s, text)).values = Last(s).values
         /\ Last(WithKey(s, text)).key = text
<1> DEFINE c == Last(s)
           d == [c EXCEPT !.key = text]
           t == WithKey(s, text)
<1>1. Len(s) \in Nat \ {0} /\ c = s[Len(s)] /\ IsContainer(c)
  BY TopOf
<1>2. IsContainer(d) /\ d.kind = c.kind /\ d.values = c.values /\ d.key = text
  BY <1>1 DEF IsContainer
<1>3. t = [s EXCEPT ![Len(s)] = d]
  BY <1>1 DEF WithKey
<1> HIDE DEF d, c, t
<1>4. /\ AreContainers(t) /\ t # <<>> /\ Len(t) = Len(s)
      /\ Last(t) = d /\ Front(t) = Front(s)
  BY <1>1, <1>2, <1>3, Replaced
<1> QED
  BY <1>2, <1>4 DEF t, c

LEMMA StringsLeadAlike ==
  ASSUME InputInv, InputInv', Kept,
         NEW s, AreContainers(s), s = <<>> \/ Len(s) < MaxDepth,
         NEW text, NEW is_key, is_key => s # <<>>, NEW i, NEW doc
  PROVE  StringLeadsTo(s, text, is_key, i, doc)' <=> StringLeadsTo(s, text, is_key, i, doc)
<1>1. CASE is_key
  <2>1. AreContainers(WithKey(s, text)) /\ Len(WithKey(s, text)) = Len(s)
    BY <1>1, KeyIsSet
  <2>2. Len(WithKey(s, text)) < MaxDepth
    BY <1>1, <2>1
  <2>3. TokenIn("colon", WithKey(s, text), i, NoValue, doc)'
          <=> TokenIn("colon", WithKey(s, text), i, NoValue, doc)
    BY <2>1, <2>2, TokensStay
  <2> QED
    BY <1>1, <2>3 DEF StringLeadsTo
<1>2. CASE ~is_key
  BY <1>2, LeadsStay DEF StringLeadsTo
<1> QED
  BY <1>1, <1>2

(* Pending in the next state, as what is read now makes of it.             *)
LEMMA PendingStays ==
  ASSUME IInv, IInv', Kept, NEW doc
  PROVE  Pending(doc)' <=> PendingAt(pc', index' + 1, then', previous_char', stack',
                                     string', key', result', doc)
<1>1. InputInv /\ InputInv' /\ StackInv' /\ (pc' # "done" => CallerInv' /\ ReadingInv')
  BY DEF IInv, RunningInv
<1>2. PICK at, s, text, is_key, caller, value, i, previous :
        /\ at = pc' /\ s = stack' /\ text = string' /\ is_key = key' /\ caller = then'
        /\ value = result' /\ i = index' + 1 /\ previous = previous_char'
  OBVIOUS
<1>3. AreContainers(s) /\ (s = <<>> \/ Len(s) < MaxDepth)
  <2>1. AreContainers(stack)' => AreContainers(s)
    BY <1>2 DEF AreContainers, Range, IsContainer
  <2> QED
    BY <1>1, <1>2, <2>1 DEF StackInv
<1>4. ASSUME pc' # "done", pc' # "string"
      PROVE  \A j : /\ TokenAt(caller, s, j, value, doc)' <=> TokenAt(caller, s, j, value, doc)
                    /\ TokenIn(caller, s, j, value, doc)' <=> TokenIn(caller, s, j, value, doc)
  <2>1. caller \in {"item", "key", "next", "separator"} => s # <<>>
    BY <1>1, <1>2, <1>4 DEF CallerInv
  <2> QED
    BY <1>1, <1>3, <2>1, TokensStay
<1>5. ASSUME pc' = "string"
      PROVE  \A t, j : StringLeadsTo(s, t, is_key, j, doc)' <=> StringLeadsTo(s, t, is_key, j, doc)
  <2>1. is_key => s # <<>>
    BY <1>1, <1>2, <1>5 DEF ReadingInv
  <2> QED
    BY <1>1, <1>3, <2>1, StringsLeadAlike
<1>6. /\ Chars' = Chars
      /\ \A j : LineEnd(j)' = LineEnd(j) /\ BlockEnd(j)' = BlockEnd(j)
  BY <1>1, CharsStay, CharactersStay
<1>7. Pending(doc)' <=> PendingAt(at, i, caller, previous, s, text, is_key, value, doc)'
  BY <1>2 DEF Pending
<1>8. PendingAt(at, i, caller, previous, s, text, is_key, value, doc)'
        <=> PendingAt(at, i, caller, previous, s, text, is_key, value, doc)
  <2>1. CASE at \notin {"done", "string"}
    <3>1. BlockEnd(CommentFrom(i, previous))' = BlockEnd(CommentFrom(i, previous))
      BY <1>6 DEF CommentFrom
    <3> QED
      BY <1>4, <1>2, <1>6, <2>1, <3>1 DEF PendingAt
  <2>2. CASE at = "string"
    BY <1>5, <1>2, <1>6, <2>2 DEF PendingAt
  <2>3. CASE at = "done"
    BY <2>3 DEF PendingAt
  <2> QED
    BY <2>1, <2>2, <2>3
<1> QED
  BY <1>2, <1>7, <1>8

LEMMA DocumentStays ==
  ASSUME InputInv, InputInv', Kept
  PROVE  Document' = Document
<1>1. PICK values : values = Values[Deepest]
  OBVIOUS
<1>2. Values[Deepest]' = values
  BY <1>1, ValuesStay DEF Deepest
<1>3. \A i : SpacedAt(values, i)' = SpacedAt(values, i)
  BY MemberStays
<1>4. /\ Space' = Space /\ Size' = Size
      /\ \A i, c : Is(i, c)' = Is(i, c)
  BY SpaceStays, CharactersStay
<1> QED
  BY <1>1, <1>2, <1>3, <1>4 DEF Document, Deepest

-----------------------------------------------------------------------------
(* The tokens.                                                             *)

LEMMA TokensOfChars ==
  ASSUME NEW c
  PROVE  /\ TokenOf(c) = "T_NUMBER" <=> c \in Digits \cup {"-"}
         /\ TokenOf(c) = "T_STRING" <=> c = "\""
         /\ TokenOf(c) = "T_OBJECT_BEGIN" <=> c = "{"
         /\ TokenOf(c) = "T_OBJECT_END" <=> c = "}"
         /\ TokenOf(c) = "T_ARRAY_BEGIN" <=> c = "["
         /\ TokenOf(c) = "T_ARRAY_END" <=> c = "]"
         /\ TokenOf(c) = "T_BOOL_TRUE" <=> c = "t"
         /\ TokenOf(c) = "T_BOOL_FALSE" <=> c = "f"
         /\ TokenOf(c) = "T_NULL" <=> c = "n"
         /\ TokenOf(c) = "T_LIST_SEPARATOR" <=> c = ","
         /\ TokenOf(c) = "T_OBJECT_PAIR_SEPARATOR" <=> c = ":"
         /\ TokenOf(c) = "T_END_OF_INPUT" <=> c = "end"
BY Zenon DEF TokenOf, Digits

TokenHere(i) == TokenOf(At(i))

LEMMA CharHere ==
  ASSUME InputInv, NEW i \in Positions
  PROVE  /\ \A c : c # "end" => (Is(i, c) <=> At(i) = c)
         /\ i = Size + 1 <=> At(i) = "end"
         /\ i <= Size => At(i) = input[i]
<1>1. Size \in Nat /\ Positions = 1 .. Size + 1 /\ Size = Len(input)
      /\ \A n \in 1 .. Size : input[n] # "end"
  BY SizeTyped DEF Size
<1>2. CASE i = Size + 1
  BY <1>1, <1>2 DEF At, Is
<1>3. CASE i # Size + 1
  <2>1. i \in 1 .. Size /\ i <= Size
    BY <1>1, <1>3
  <2> QED
    BY <1>1, <1>3, <2>1 DEF At, Is
<1> QED
  BY <1>2, <1>3

LEMMA TokensHere ==
  ASSUME InputInv, NEW i \in Positions
  PROVE  /\ QuoteAt(i) <=> TokenHere(i) = "T_STRING"
         /\ CommaAt(i) <=> TokenHere(i) = "T_LIST_SEPARATOR"
         /\ ColonAt(i) <=> TokenHere(i) = "T_OBJECT_PAIR_SEPARATOR"
         /\ Is(i, Opener("list")) <=> TokenHere(i) = "T_ARRAY_BEGIN"
         /\ Is(i, Opener("dict")) <=> TokenHere(i) = "T_OBJECT_BEGIN"
         /\ Is(i, Closer("list")) <=> TokenHere(i) = "T_ARRAY_END"
         /\ Is(i, Closer("dict")) <=> TokenHere(i) = "T_OBJECT_END"
         /\ i = Size + 1 <=> TokenHere(i) = "T_END_OF_INPUT"
<1>1. \A c : c # "end" => (Is(i, c) <=> At(i) = c)
  BY CharHere
<1>2. i = Size + 1 <=> At(i) = "end"
  BY CharHere
<1>3. "\"" # "end" /\ "," # "end" /\ ":" # "end" /\ "[" # "end" /\ "]" # "end"
      /\ "{" # "end" /\ "}" # "end"
  BY Zenon
<1>4. /\ QuoteAt(i) <=> At(i) = "\""
      /\ CommaAt(i) <=> At(i) = ","
      /\ ColonAt(i) <=> At(i) = ":"
  BY <1>1, <1>3, Zenon DEF QuoteAt, CommaAt, ColonAt
<1>5. "list" = "list" /\ "dict" # "list"
  OBVIOUS
<1>6. /\ Opener("list") = "[" /\ Opener("dict") = "{"
      /\ Closer("list") = "]" /\ Closer("dict") = "}"
  BY <1>5, Zenon DEF Opener, Closer
<1>7. /\ Is(i, Opener("list")) <=> At(i) = "["
      /\ Is(i, Opener("dict")) <=> At(i) = "{"
      /\ Is(i, Closer("list")) <=> At(i) = "]"
      /\ Is(i, Closer("dict")) <=> At(i) = "}"
  BY <1>1, <1>3, <1>6, Zenon
<1> QED
  BY <1>2, <1>4, <1>7, TokensOfChars, Zenon DEF TokenHere

LEMMA NumberStarts ==
  ASSUME InputInv, NEW i \in Positions, NEW v \in NumbersAt(i)
  PROVE  TokenHere(i) = "T_NUMBER"
<1>1. Size \in Nat /\ Positions = 1 .. Size + 1
  BY SizeTyped
<1>2. PICK e \in i + 1 .. Size + 1 : IsNumber(i, e - 1)
  BY DEF NumbersAt
<1>3. i <= Size
  BY <1>1, <1>2
<1>4. input[i] \in Digits \cup {"-"}
  <2>1. CASE input[i] = "-"
    BY <2>1
  <2>2. CASE input[i] # "-"
    <3>1. PICK p \in i .. e - 1 : IsWhole(i, p)
      BY <1>2, <2>2 DEF IsNumber
    <3>2. i \in i .. p
      BY <1>1, <3>1
    <3> QED
      BY <3>1, <3>2 DEF IsWhole, AreDigits
  <2> QED
    BY <2>1, <2>2
<1>5. At(i) = input[i]
  BY <1>3, CharHere
<1>6. TokenOf(At(i)) = "T_NUMBER" <=> At(i) \in Digits \cup {"-"}
  BY TokensOfChars, Zenon
<1> QED
  BY <1>4, <1>5, <1>6 DEF TokenHere

LiteralTokens == {"T_BOOL_TRUE", "T_BOOL_FALSE", "T_NULL"}

LEMMA LiteralStarts ==
  ASSUME InputInv, NEW i \in Positions, NEW v \in LiteralsAt(i)
  PROVE  TokenHere(i) \in LiteralTokens
<1>1. PICK l \in {<<"t", "r", "u", "e">>, <<"n", "u", "l", "l">>,
                  <<"f", "a", "l", "s", "e">>} :
        \A n \in 1 .. Len(l) : Is(i + n - 1, l[n])
  BY DEF LiteralsAt
<1>2. 1 \in 1 .. Len(l) /\ l[1] \in {"t", "n", "f"} /\ i + 1 - 1 = i
  <2>1. Len(l) \in 4 .. 5
    BY <1>1
  <2>2. l[1] \in {"t", "n", "f"}
    BY <1>1
  <2>3. i \in Int
    BY SizeTyped
  <2> QED
    BY <2>1, <2>2, <2>3
<1>3. At(i) \in {"t", "n", "f"}
  BY <1>1, <1>2, CharHere
<1> QED
  BY <1>3, TokensOfChars DEF TokenHere, LiteralTokens

LEMMA StringStarts ==
  ASSUME InputInv, NEW i \in Positions, NEW v \in StringsAt(i)
  PROVE  TokenHere(i) = "T_STRING"
<1>1. StringAt(i) # {}
  BY DEF StringsAt
<1>2. QuoteAt(i)
  BY <1>1 DEF StringAt
<1> QED
  BY <1>2, TokensHere

(* The token says what kind of value begins.                               *)
LEMMA ValueStarts ==
  ASSUME InputInv, NEW i \in Positions, NEW d \in Nat, NEW v
  PROVE  v \in Values[d][i] <=>
           \/ TokenHere(i) = "T_NUMBER" /\ v \in NumbersAt(i)
           \/ TokenHere(i) \in LiteralTokens /\ v \in LiteralsAt(i)
           \/ TokenHere(i) = "T_STRING" /\ v \in StringsAt(i)
           \/ /\ TokenHere(i) = "T_ARRAY_BEGIN" /\ d # 0
              /\ v \in ContainerAt(Values[d - 1], "list", i)
           \/ /\ TokenHere(i) = "T_OBJECT_BEGIN" /\ d # 0
              /\ v \in ContainerAt(Values[d - 1], "dict", i)
<1>1. /\ v \in ContainerAt(Values[d - 1], "list", i) => TokenHere(i) = "T_ARRAY_BEGIN"
      /\ v \in ContainerAt(Values[d - 1], "dict", i) => TokenHere(i) = "T_OBJECT_BEGIN"
  BY ContainerAtHas, TokensHere
<1> QED
  BY <1>1, ValuesAre, NumberStarts, LiteralStarts, StringStarts

ValueTokens ==
  {"T_NUMBER", "T_STRING", "T_ARRAY_BEGIN", "T_OBJECT_BEGIN"} \cup LiteralTokens

ClosingToken(kind) == IF kind = "list" THEN "T_ARRAY_END" ELSE "T_OBJECT_END"

LEMMA ClosingHere ==
  ASSUME InputInv, NEW i \in Positions, NEW kind \in {"list", "dict"}
  PROVE  /\ Is(i, Closer(kind)) <=> TokenHere(i) = ClosingToken(kind)
         /\ \A r : r \in ClosingAt(kind, i) <=>
                     TokenHere(i) = ClosingToken(kind) /\ r = <<<<>>, i + 1>>
<1>1. Is(i, Closer(kind)) <=> TokenHere(i) = ClosingToken(kind)
  BY TokensHere DEF ClosingToken
<1> QED
  BY <1>1, ClosingsHave

LEMMA FirstsStart ==
  ASSUME InputInv, NEW i \in Positions, NEW s, AreContainers(s), s # <<>>,
         Len(s) < MaxDepth, NEW r \in FirstsAt(s, i)
  PROVE  /\ Last(s).kind = "list" => TokenHere(i) \in ValueTokens
         /\ Last(s).kind # "list" => TokenHere(i) = "T_STRING"
<1>1. PICK m : m \in MemberAt(Inside(s), Last(s).kind, i)
  BY MembersAtHas DEF FirstsAt
<1>2. ASSUME Last(s).kind = "list" PROVE TokenHere(i) \in ValueTokens
  <2>1. PICK v : v \in Values[Deepest - Len(s)][i]
    BY <1>1, <1>2 DEF MemberAt, Inside
  <2>2. Deepest - Len(s) \in Nat
    BY DepthIsThere
  <2> QED
    BY <2>1, <2>2, ValueStarts DEF ValueTokens
<1>3. ASSUME Last(s).kind # "list" PROVE TokenHere(i) = "T_STRING"
  <2>1. m \in PairsAt(Inside(s), i)
    BY <1>1, <1>3 DEF MemberAt
  <2>2. StringAt(i) # {}
    BY <2>1, PairsAtHas
  <2>3. QuoteAt(i)
    BY <2>2 DEF StringAt
  <2> QED
    BY <2>3, TokensHere
<1> QED
  BY <1>2, <1>3

(* What the callers may get.                                               *)
ExpectedBy(caller, s) ==
  CASE caller = "value" -> ValueTokens
    [] caller \in {"item", "key", "next"} ->
         {ClosingToken(Last(s).kind)}
           \cup (IF Last(s).kind = "list" THEN ValueTokens ELSE {"T_STRING"})
    [] caller = "separator" -> {ClosingToken(Last(s).kind), "T_LIST_SEPARATOR"}
    [] caller = "colon" -> {"T_OBJECT_PAIR_SEPARATOR"}
    [] OTHER -> {"T_END_OF_INPUT"}

LEMMA TokenIsExpected ==
  ASSUME InputInv, NEW i \in Positions, NEW s, AreContainers(s),
         s = <<>> \/ Len(s) < MaxDepth,
         NEW caller, caller \in {"item", "key", "next", "separator"} => s # <<>>,
         NEW value, NEW doc, TokenAt(caller, s, i, value, doc)
  PROVE  TokenHere(i) \in ExpectedBy(caller, s)
<1>1. CASE caller = "value"
  <2>1. PICK v : v \in Values[Deepest - Len(s)][i]
    BY <1>1 DEF TokenAt, Inside
  <2>2. Deepest - Len(s) \in Nat
    BY DepthIsThere
  <2>3. TokenHere(i) \in ValueTokens
    BY <2>1, <2>2, ValueStarts DEF ValueTokens
  <2> QED
    BY <1>1, <2>3 DEF ExpectedBy
<1>2. CASE caller \in {"item", "key", "next"}
  <2>1. PICK r : r \in ClosingAt(Last(s).kind, i) \/ r \in FirstsAt(s, i)
    BY <1>2 DEF TokenAt, RemainingAt
  <2>2. Last(s).kind \in {"list", "dict"}
    BY <1>2, TopOf DEF IsContainer
  <2>3. \/ TokenHere(i) = ClosingToken(Last(s).kind)
        \/ TokenHere(i) \in (IF Last(s).kind = "list" THEN ValueTokens ELSE {"T_STRING"})
    BY <1>2, <2>1, <2>2, ClosingHere, FirstsStart
  <2> QED
    BY <1>2, <2>3 DEF ExpectedBy
<1>3. CASE caller = "separator"
  <2>1. PICK r : r \in RestAt(Last(s).kind, More(Len(s), Last(s).kind), i)
    BY <1>3 DEF TokenAt, RemainingAt
  <2>2. Last(s).kind \in {"list", "dict"}
    BY <1>3, TopOf DEF IsContainer
  <2>3. TokenHere(i) = ClosingToken(Last(s).kind) \/ TokenHere(i) = "T_LIST_SEPARATOR"
    BY <2>1, <2>2, ClosingHere, RestAtHas, TokensHere
  <2> QED
    BY <1>3, <2>3 DEF ExpectedBy
<1>4. CASE caller = "colon"
  BY <1>4, TokensHere DEF TokenAt, ExpectedBy
<1>5. CASE caller = "end"
  BY <1>5, TokensHere DEF TokenAt, ExpectedBy
<1> QED
  BY <1>1, <1>2, <1>3, <1>4, <1>5 DEF TokenAt

-----------------------------------------------------------------------------
(* White space, a step at a time.                                          *)

LEMMA LineEndSteps ==
  ASSUME InputInv, NEW i \in Positions
  PROVE  /\ i = Size + 1 => LineEnd(i) = i
         /\ i <= Size /\ input[i] \in LineBreaks => LineEnd(i) = i
         /\ i <= Size /\ input[i] \notin LineBreaks => LineEnd(i) = LineEnd(i + 1)
<1>1. Size \in Nat /\ Positions = 1 .. Size + 1 /\ i \in Nat
  BY SizeTyped
<1>2. LineEnd(i) \in Positions /\ i <= LineEnd(i)
      /\ \A k \in i .. LineEnd(i) - 1 : k <= Size /\ input[k] \notin LineBreaks
  BY LineEndIs
<1>3. PICK e \in Positions : e = LineEnd(i)
  BY <1>2
<1>4. i # e => i \in i .. e - 1
  BY <1>1, <1>2, <1>3
<1>5. ASSUME i <= Size, input[i] \notin LineBreaks PROVE LineEnd(i) = LineEnd(i + 1)
  <2>1. {k \in i .. Size : input[k] \in LineBreaks}
          = {k \in i + 1 .. Size : input[k] \in LineBreaks}
    BY <1>1, <1>5
  <2> QED
    BY <2>1 DEF LineEnd
<1>6. i <= Size /\ input[i] \in LineBreaks => e = i
  BY <1>2, <1>3, <1>4
<1>7. i = Size + 1 => e = i
  BY <1>1, <1>2, <1>3
<1> QED
  BY <1>3, <1>5, <1>6, <1>7

LEMMA BlockEndSteps ==
  ASSUME InputInv, NEW i \in Nat, i > 0
  PROVE  /\ i > Size => BlockEnd(i) = Size + 1
         /\ ClosedAt(i) => BlockEnd(i) = i + 2
         /\ ~ClosedAt(i) => BlockEnd(i) = BlockEnd(i + 1)
<1>1. Size \in Nat /\ Positions = 1 .. Size + 1
  BY SizeTyped
<1>2. PICK e \in Positions :
        /\ e = BlockEnd(i)
        /\ \/ e = Size + 1 /\ \A k \in i .. Size : ~ClosedAt(k)
           \/ /\ e >= i + 2 /\ ClosedAt(e - 2)
              /\ \A k \in i .. e - 3 : ~ClosedAt(k)
  BY BlockEndIs
<1>3. ASSUME ClosedAt(i) PROVE e = i + 2
  <2>1. i \in i .. Size
    BY <1>1, <1>3 DEF ClosedAt, Is
  <2>2. e >= i + 2 /\ ~(i \in i .. e - 3)
    BY <1>2, <1>3, <2>1
  <2> QED
    BY <1>1, <2>2
<1>4. ASSUME ~ClosedAt(i) PROVE BlockEnd(i) = BlockEnd(i + 1)
  <2>1. {k \in i .. Size : Is(k, "*") /\ Is(k + 1, "/")}
          = {k \in i + 1 .. Size : Is(k, "*") /\ Is(k + 1, "/")}
    BY <1>1, <1>4 DEF ClosedAt
  <2> QED
    BY <2>1 DEF BlockEnd
<1>5. i > Size => {k \in i .. Size : Is(k, "*") /\ Is(k + 1, "/")} = {}
  BY <1>1
<1> QED
  BY <1>2, <1>3, <1>4, <1>5 DEF BlockEnd

LEMMA NotBlank ==
  /\ "/" \notin Blanks \cup LineBreaks
  /\ "/" # "*" /\ "/" # "end" /\ "*" # "end"
BY Zenon DEF Blanks, LineBreaks

LEMMA SpaceSteps ==
  ASSUME InputInv, NEW i \in Positions
  PROVE  /\ i <= Size /\ input[i] \in Blanks \cup LineBreaks =>
              i + 1 \in Positions /\ Space[i] = {i} \cup Space[i + 1]
         /\ Commented(i, "/") =>
              LineEnd(i + 2) \in Positions /\ Space[i] = {i} \cup Space[LineEnd(i + 2)]
         /\ Commented(i, "*") =>
              BlockEnd(i + 2) \in Positions /\ Space[i] = {i} \cup Space[BlockEnd(i + 2)]
         /\ (i <= Size => input[i] \notin Blanks \cup LineBreaks)
            /\ ~Commented(i, "/") /\ ~Commented(i, "*") => Space[i] = {i}
<1>1. Size \in Nat /\ Positions = 1 .. Size + 1 /\ i \in Nat /\ i > 0
  BY SizeTyped
<1>2. Space[i] = SpaceBody(Space, i)
  BY SpaceUnfolds DEF SpaceReads
<1>3. \A c : Commented(i, c) => i <= Size /\ i + 1 <= Size /\ input[i] = "/" /\ input[i + 1] = c
  BY DEF Commented, Is
<1>4. ASSUME i <= Size, input[i] \in Blanks \cup LineBreaks
      PROVE  i + 1 \in Positions /\ Space[i] = {i} \cup Space[i + 1]
  <2>1. ~Commented(i, "/") /\ ~Commented(i, "*")
    BY <1>3, <1>4, NotBlank
  <2>2. Space[i] = {i} \cup Space[i + 1]
    BY <1>2, <1>4, <2>1 DEF SpaceBody
  <2> QED
    BY <1>1, <1>4, <2>2
<1>5. ASSUME Commented(i, "/")
      PROVE  LineEnd(i + 2) \in Positions /\ Space[i] = {i} \cup Space[LineEnd(i + 2)]
  <2>1. i <= Size /\ i + 1 <= Size /\ input[i] = "/" /\ input[i + 1] = "/"
    BY <1>3, <1>5
  <2>2. i + 1 \in Positions /\ i + 2 \in Positions /\ (i + 1) + 1 = i + 2
    BY <1>1, <2>1
  <2>3. LineEnd(i) = LineEnd(i + 1) /\ LineEnd(i + 1) = LineEnd(i + 2)
    <3>1. input[i] \notin LineBreaks /\ input[i + 1] \notin LineBreaks
      BY <2>1, NotBlank
    <3>2. LineEnd(i) = LineEnd(i + 1)
      BY <2>1, <3>1, LineEndSteps
    <3>3. LineEnd(i + 1) = LineEnd((i + 1) + 1)
      BY <2>1, <2>2, <3>1, LineEndSteps
    <3> QED
      BY <2>2, <3>2, <3>3
  <2>4. ~Commented(i, "*") /\ input[i] \notin Blanks \cup LineBreaks
    BY <1>3, <2>1, NotBlank
  <2>5. Space[i] = {i} \cup Space[LineEnd(i)]
    BY <1>2, <1>5, <2>4 DEF SpaceBody
  <2> QED
    BY <2>2, <2>3, <2>5, LineEndIs
<1>6. ASSUME Commented(i, "*")
      PROVE  BlockEnd(i + 2) \in Positions /\ Space[i] = {i} \cup Space[BlockEnd(i + 2)]
  <2>1. ~Commented(i, "/") /\ input[i] \notin Blanks \cup LineBreaks
    BY <1>3, <1>6, NotBlank
  <2>2. Space[i] = {i} \cup Space[BlockEnd(i + 2)]
    BY <1>2, <1>6, <2>1 DEF SpaceBody
  <2>3. i + 2 \in Nat /\ i + 2 > 0
    BY <1>1
  <2> QED
    BY <2>2, <2>3, BlockEndIs
<1>7. ASSUME i <= Size => input[i] \notin Blanks \cup LineBreaks,
             ~Commented(i, "/"), ~Commented(i, "*")
      PROVE  Space[i] = {i}
  <2>1. Space[i] = {i} \cup {} \cup {} \cup {}
    BY <1>2, <1>7 DEF SpaceBody
  <2> QED
    BY <2>1
<1> QED
  BY <1>4, <1>5, <1>6, <1>7

LEMMA NoToken ==
  ASSUME NEW c \in Blanks \cup LineBreaks \cup {"/"}
  PROVE  TokenOf(c) = "T_INVALID_TOKEN"
<1>1. CASE c = " "
  BY <1>1, Zenon DEF TokenOf, Digits
<1>2. CASE c = "\t"
  BY <1>2, Zenon DEF TokenOf, Digits
<1>3. CASE c = "\n"
  BY <1>3, Zenon DEF TokenOf, Digits
<1>4. CASE c = "\r"
  BY <1>4, Zenon DEF TokenOf, Digits
<1>5. CASE c = "/"
  BY <1>5, Zenon DEF TokenOf, Digits
<1> QED
  BY <1>1, <1>2, <1>3, <1>4, <1>5, Zenon DEF Blanks, LineBreaks

LEMMA NothingExpected ==
  ASSUME NEW caller, NEW s
  PROVE  "T_INVALID_TOKEN" \notin ExpectedBy(caller, s)
BY DEF ExpectedBy, ValueTokens, LiteralTokens, ClosingToken

(* A caller of GetNextToken, and the containers it is called in.           *)
IsCaller(caller, s) ==
  /\ AreContainers(s)
  /\ s = <<>> \/ Len(s) < MaxDepth
  /\ caller \in {"item", "key", "next", "separator"} => s # <<>>

(* No token begins with white space or a comment.                          *)
LEMMA DeadEnd ==
  ASSUME InputInv, NEW i \in Positions, NEW caller, NEW s, IsCaller(caller, s),
         TokenHere(i) \notin ExpectedBy(caller, s)
  PROVE  \A value, doc : ~TokenAt(caller, s, i, value, doc)
BY TokenIsExpected DEF IsCaller

LEMMA TokenBehind ==
  ASSUME InputInv, NEW i \in Positions, NEW k, Space[i] = {i} \cup Space[k],
         NEW caller, NEW s, IsCaller(caller, s), TokenHere(i) = "T_INVALID_TOKEN",
         NEW value, NEW doc
  PROVE  TokenIn(caller, s, i, value, doc) <=> TokenIn(caller, s, k, value, doc)
<1>1. ~TokenAt(caller, s, i, value, doc)
  BY NothingExpected, DeadEnd
<1> QED
  BY <1>1 DEF TokenIn

-----------------------------------------------------------------------------
(* What a token leaves to be read.                                         *)

(* A caller that is in a container.                                        *)
IsInside(s) ==
  /\ AreContainers(s)
  /\ s # <<>>
  /\ Len(s) < MaxDepth
  /\ IsList(Last(s).values)

LEMMA InsideIsThere ==
  ASSUME InputInv, NEW s, IsInside(s)
  PROVE  /\ Len(s) \in Nat \ {0} /\ Deepest - Len(s) \in Nat
         /\ Last(s).kind \in {"list", "dict"}
         /\ AreReadings(Inside(s))
<1>1. Len(s) \in Nat \ {0} /\ IsContainer(Last(s))
  BY TopOf DEF IsInside
<1>2. Deepest - Len(s) \in Nat
  BY DepthIsThere DEF IsInside
<1> QED
  BY <1>1, <1>2, ValuesAdvance DEF IsContainer, Inside

LEMMA TextGoesOn ==
  ASSUME InputInv, NEW i \in Positions, QuoteAt(i) \/ CommaAt(i) \/ ColonAt(i)
  PROVE  i <= Size /\ i + 1 \in Positions
<1>1. i <= Size
  BY Zenon DEF QuoteAt, CommaAt, ColonAt, Is
<1> QED
  BY <1>1, SizeTyped

LEMMA RestIsList ==
  ASSUME InputInv, NEW s, IsInside(s), NEW i \in Positions,
         NEW r \in RestAt(Last(s).kind, More(Len(s), Last(s).kind), i)
  PROVE  IsList(r[1])
<1>1. AreReadings(Inside(s))
  BY InsideIsThere
<1>2. CASE r \in ClosingAt(Last(s).kind, i)
  BY <1>2, ClosingsHave, EmptyList
<1>3. CASE CommaAt(i) /\ r \in Closings(Last(s).kind, i + 1)
  BY <1>3, ClosingsHave, EmptyList
<1>4. CASE CommaAt(i) /\ r \in More(Len(s), Last(s).kind)[i + 1]
  <2>1. i + 1 \in Positions
    BY <1>4, TextGoesOn
  <2>2. r[1] \in Seq(MembersOf(Inside(s)))
    BY <1>1, <1>4, <2>1, MembersAdvance DEF More, Inside
  <2> QED
    BY <2>2, ListOf
<1> QED
  BY <1>2, <1>3, <1>4, RestAtHas

(* t is s, but for the key of a member to come.                            *)
IsAlike(t, s) ==
  /\ AreContainers(t)
  /\ t # <<>>
  /\ Len(t) = Len(s)
  /\ Front(t) = Front(s)
  /\ Last(t).kind = Last(s).kind
  /\ Last(t).values = Last(s).values

(* A value in a container is a member of it.                               *)
LEMMA MemberLeads ==
  ASSUME InputInv, NEW s, IsInside(s), NEW t, IsAlike(t, s),
         NEW v, NEW p \in Positions, NEW doc
  PROVE  LeadsTo(t, v, p, doc) <=>
           \E e \in Space[p] :
             \E r \in Followed(<<<<Last(t).key, v>>, p>>,
                               RestAt(Last(s).kind, More(Len(s), Last(s).kind), e)) :
               CompletesTo(Last(s), Front(s), r, doc)
<1> DEFINE c == Last(s)
           Rest(e) == RestAt(c.kind, More(Len(s), c.kind), e)
           member == <<Last(t).key, v>>
           Joined(q) == <<Contained(c.kind, Append(c.values, member) \o q[1]), q[2]>>
<1>1. LeadsTo(t, v, p, doc) <=>
        \E o : IsLinked(Last(t), Len(t), <<v, p>>, o) /\ LeadsTo(Front(t), o[1], o[2], doc)
  BY LeadsIn DEF IsAlike
<1>2. \A o : IsLinked(Last(t), Len(t), <<v, p>>, o) <=>
               \E e \in Space[p] : \E q \in Rest(e) : o = Joined(q)
  BY DEF IsLinked, IsAlike
<1>3. LeadsTo(t, v, p, doc) <=>
        \E e \in Space[p] : \E q \in Rest(e) :
          LeadsTo(Front(s), Joined(q)[1], Joined(q)[2], doc)
  <2> HIDE DEF Rest, Joined, c
  <2>1. Front(t) = Front(s)
    BY DEF IsAlike
  <2>2. LeadsTo(t, v, p, doc) <=>
          \E o : (\E e \in Space[p] : \E q \in Rest(e) : o = Joined(q))
                 /\ LeadsTo(Front(s), o[1], o[2], doc)
    BY <1>1, <1>2, <2>1
  <2> QED
    BY <2>2
<1>4. ASSUME NEW e \in Space[p], NEW q \in Rest(e)
      PROVE  LeadsTo(Front(s), Joined(q)[1], Joined(q)[2], doc) <=>
               CompletesTo(c, Front(s), <<<<member>> \o q[1], q[2]>>, doc)
  <2>1. e \in Positions
    BY SpaceAdvances, SizeTyped
  <2>2. IsList(q[1]) /\ IsList(c.values)
    BY <2>1, RestIsList DEF IsInside
  <2>3. Contained(c.kind, Append(c.values, member) \o q[1])
          = Contained(c.kind, c.values \o (<<member>> \o q[1]))
    <3> HIDE DEF member, c
    <3>1. Contained(c.kind, Before(c.values, member, q[1]))
            = Contained(c.kind, Behind(c.values, member, q[1]))
      BY <2>2, ListsShift
    <3> QED
      BY <3>1 DEF Before, Behind
  <2> QED
    BY <2>3 DEF CompletesTo
<1>5. \A e : \A r : r \in Followed(<<member, p>>, Rest(e)) <=>
               \E q \in Rest(e) : r = <<<<member>> \o q[1], q[2]>>
  BY DEF Followed
<1> HIDE DEF Rest, Joined, c, member
<1>6. (\E e \in Space[p] : \E q \in Rest(e) :
          LeadsTo(Front(s), Joined(q)[1], Joined(q)[2], doc))
        <=> \E e \in Space[p] : \E r \in Followed(<<member, p>>, Rest(e)) :
              CompletesTo(c, Front(s), r, doc)
  <2>1. ASSUME NEW e \in Space[p], NEW q \in Rest(e),
               LeadsTo(Front(s), Joined(q)[1], Joined(q)[2], doc)
        PROVE  \E r \in Followed(<<member, p>>, Rest(e)) : CompletesTo(c, Front(s), r, doc)
    BY <1>4, <1>5, <2>1
  <2>2. ASSUME NEW e \in Space[p], NEW r \in Followed(<<member, p>>, Rest(e)),
               CompletesTo(c, Front(s), r, doc)
        PROVE  \E q \in Rest(e) : LeadsTo(Front(s), Joined(q)[1], Joined(q)[2], doc)
    <3>1. PICK q \in Rest(e) : r = <<<<member>> \o q[1], q[2]>>
      BY <1>5
    <3> QED
      BY <1>4, <2>2, <3>1
  <2> QED
    BY <2>1, <2>2
<1> QED
  BY <1>3, <1>6 DEF Rest, c, member

(* The first member there is.                                              *)
LEMMA FirstsLead ==
  ASSUME InputInv, NEW s, IsInside(s), NEW i \in Positions, NEW doc
  PROVE  (\E r \in FirstsAt(s, i) : CompletesTo(Last(s), Front(s), r, doc)) <=>
           \E m \in MemberAt(Inside(s), Last(s).kind, i) : \E e \in Space[m[2]] :
             \E r \in Followed(m, RestAt(Last(s).kind, More(Len(s), Last(s).kind), e)) :
               CompletesTo(Last(s), Front(s), r, doc)
<1>1. \A r : r \in FirstsAt(s, i) <=>
        \E m \in MemberAt(Inside(s), Last(s).kind, i) : \E e \in Space[m[2]] :
          r \in Followed(m, RestAt(Last(s).kind, More(Len(s), Last(s).kind), e))
  BY MembersAtHas DEF FirstsAt
<1> QED
  BY <1>1

LEMMA NoCloser ==
  ASSUME InputInv, NEW s, IsInside(s), NEW i \in Positions,
         NEW caller \in {"item", "key", "next"},
         TokenHere(i) # ClosingToken(Last(s).kind), NEW value, NEW doc
  PROVE  TokenAt(caller, s, i, value, doc) <=>
           \E r \in FirstsAt(s, i) : CompletesTo(Last(s), Front(s), r, doc)
<1>1. \A r : r \notin ClosingAt(Last(s).kind, i)
  BY InsideIsThere, ClosingHere
<1>2. RemainingAt(caller, s, i) = FirstsAt(s, i)
  BY <1>1 DEF RemainingAt
<1> QED
  BY <1>2 DEF TokenAt

(* A value in a list.                                                      *)
LEMMA ItemLeads ==
  ASSUME InputInv, NEW s, IsInside(s), Last(s).kind = "list", Last(s).key = <<>>,
         NEW i \in Positions, NEW caller \in {"item", "next"},
         TokenHere(i) # "T_ARRAY_END", NEW value, NEW doc
  PROVE  TokenAt(caller, s, i, value, doc) <=>
           \E v \in Inside(s)[i] : LeadsTo(s, v[1], v[2], doc)
<1> DEFINE Rest(e) == RestAt(Last(s).kind, More(Len(s), Last(s).kind), e)
           Goes(m) == \E e \in Space[m[2]] : \E r \in Followed(m, Rest(e)) :
                        CompletesTo(Last(s), Front(s), r, doc)
<1>1. TokenAt(caller, s, i, value, doc) <=>
        \E m \in MemberAt(Inside(s), Last(s).kind, i) : Goes(m)
  <2>1. TokenHere(i) # ClosingToken(Last(s).kind)
    BY DEF ClosingToken
  <2> QED
    BY <2>1, NoCloser, FirstsLead
<1>2. \A m : m \in MemberAt(Inside(s), Last(s).kind, i) <=>
               \E v \in Inside(s)[i] : m = <<<<<<>>, v[1]>>, v[2]>>
  BY DEF MemberAt
<1>3. ASSUME NEW v \in Inside(s)[i]
      PROVE  Goes(<<<<<<>>, v[1]>>, v[2]>>) <=> LeadsTo(s, v[1], v[2], doc)
  <2>1. EndsBehind(v, i)
    BY InsideIsThere DEF AreReadings
  <2>2. v[2] \in Positions
    BY <2>1, SizeTyped DEF EndsBehind
  <2>3. IsAlike(s, s)
    BY DEF IsAlike, IsInside
  <2>4. LeadsTo(s, v[1], v[2], doc) <=>
          \E e \in Space[v[2]] : \E r \in Followed(<<<<Last(s).key, v[1]>>, v[2]>>, Rest(e)) :
            CompletesTo(Last(s), Front(s), r, doc)
    BY <2>2, <2>3, MemberLeads
  <2>5. <<<<<<>>, v[1]>>, v[2]>>[2] = v[2]
    OBVIOUS
  <2> HIDE DEF Rest
  <2> QED
    BY <2>4, <2>5
<1> HIDE DEF Goes
<1> QED
  BY <1>1, <1>2, <1>3

LEMMA KeyIsAlike ==
  ASSUME NEW s, IsInside(s), NEW text
  PROVE  /\ IsAlike(WithKey(s, text), s) /\ Last(WithKey(s, text)).key = text
         /\ IsInside(WithKey(s, text)) /\ Inside(WithKey(s, text)) = Inside(s)
BY KeyIsSet DEF IsInside, IsAlike, Inside

(* A key in an object.                                                     *)
LEMMA KeyLeads ==
  ASSUME InputInv, NEW s, IsInside(s), Last(s).kind # "list",
         NEW i \in Positions, NEW caller \in {"key", "next"},
         TokenHere(i) = "T_STRING", NEW value, NEW doc
  PROVE  TokenAt(caller, s, i, value, doc) <=>
           \E q \in Chars[i + 1] : TokenIn("colon", WithKey(s, q[1]), q[2], NoValue, doc)
<1> DEFINE Rest(e) == RestAt(Last(s).kind, More(Len(s), Last(s).kind), e)
           Goes(m) == \E e \in Space[m[2]] : \E r \in Followed(m, Rest(e)) :
                        CompletesTo(Last(s), Front(s), r, doc)
<1>1. TokenAt(caller, s, i, value, doc) <=> \E m \in PairsAt(Inside(s), i) : Goes(m)
  <2>1. TokenHere(i) # ClosingToken(Last(s).kind)
    BY DEF ClosingToken
  <2>2. MemberAt(Inside(s), Last(s).kind, i) = PairsAt(Inside(s), i)
    BY DEF MemberAt
  <2> QED
    BY <2>1, <2>2, NoCloser, FirstsLead
<1>2. StringAt(i) = Chars[i + 1]
  BY TokensHere DEF StringAt
<1>3. ASSUME NEW k \in StringAt(i), NEW c \in Space[k[2]], ColonAt(c),
             NEW start \in Space[c + 1], NEW v \in Inside(s)[start]
      PROVE  Goes(<<<<k[1], v[1]>>, v[2]>>)
               <=> LeadsTo(WithKey(s, k[1]), v[1], v[2], doc)
  <2>1. v[2] \in Positions
    <3>1. k[2] \in Positions
      BY StringEnds, SizeTyped DEF EndsBehind
    <3>2. c \in Positions
      BY <3>1, SpaceAdvances, SizeTyped
    <3>3. c + 1 \in Positions
      BY <1>3, <3>2, TextGoesOn
    <3>4. start \in Positions
      BY <3>3, SpaceAdvances, SizeTyped
    <3> QED
      BY <3>4, InsideIsThere, SizeTyped DEF AreReadings, EndsBehind
  <2>2. IsAlike(WithKey(s, k[1]), s) /\ Last(WithKey(s, k[1])).key = k[1]
    BY KeyIsAlike
  <2>3. LeadsTo(WithKey(s, k[1]), v[1], v[2], doc) <=>
          \E e \in Space[v[2]] : \E r \in Followed(<<<<k[1], v[1]>>, v[2]>>, Rest(e)) :
            CompletesTo(Last(s), Front(s), r, doc)
    BY <2>1, <2>2, MemberLeads
  <2>4. <<<<k[1], v[1]>>, v[2]>>[2] = v[2]
    OBVIOUS
  <2> HIDE DEF Rest
  <2> QED
    BY <2>3, <2>4
<1>4. \A m : m \in PairsAt(Inside(s), i) <=>
        \E k \in StringAt(i) : \E c \in Space[k[2]] :
          /\ ColonAt(c)
          /\ \E start \in Space[c + 1] : \E v \in Inside(s)[start] :
               m = <<<<k[1], v[1]>>, v[2]>>
  BY PairsAtHas
<1> HIDE DEF Goes
<1>5. TokenAt(caller, s, i, value, doc) <=>
        \E k \in StringAt(i) : \E c \in Space[k[2]] :
          /\ ColonAt(c)
          /\ \E start \in Space[c + 1] : \E v \in Inside(s)[start] :
               Goes(<<<<k[1], v[1]>>, v[2]>>)
  <2>1. ASSUME NEW k \in StringAt(i), NEW c \in Space[k[2]], ColonAt(c),
               NEW start \in Space[c + 1], NEW v \in Inside(s)[start],
               Goes(<<<<k[1], v[1]>>, v[2]>>)
        PROVE  TokenAt(caller, s, i, value, doc)
    BY <1>1, <1>4, <2>1
  <2>2. ASSUME TokenAt(caller, s, i, value, doc)
        PROVE  \E k \in StringAt(i) : \E c \in Space[k[2]] :
                 /\ ColonAt(c)
                 /\ \E start \in Space[c + 1] : \E v \in Inside(s)[start] :
                      Goes(<<<<k[1], v[1]>>, v[2]>>)
    <3>1. PICK m \in PairsAt(Inside(s), i) : Goes(m)
      BY <1>1, <2>2
    <3>2. PICK k \in StringAt(i) : \E c \in Space[k[2]] :
            /\ ColonAt(c)
            /\ \E start \in Space[c + 1] : \E v \in Inside(s)[start] :
                 m = <<<<k[1], v[1]>>, v[2]>>
      BY <1>4
    <3> QED
      BY <3>1, <3>2
  <2> QED
    BY <2>1, <2>2
<1>6. ASSUME NEW k
      PROVE  TokenIn("colon", WithKey(s, k[1]), k[2], NoValue, doc) <=>
               \E c \in Space[k[2]] :
                 /\ ColonAt(c)
                 /\ \E start \in Space[c + 1] : \E v \in Inside(s)[start] :
                      LeadsTo(WithKey(s, k[1]), v[1], v[2], doc)
  <2>1. Inside(WithKey(s, k[1])) = Inside(s)
    BY KeyIsAlike
  <2>2. ASSUME NEW c
        PROVE  TokenAt("colon", WithKey(s, k[1]), c, NoValue, doc) <=>
                 /\ ColonAt(c)
                 /\ \E start \in Space[c + 1] : \E v \in Inside(s)[start] :
                      LeadsTo(WithKey(s, k[1]), v[1], v[2], doc)
    <3>1. \A v : v \in SpacedAt(Inside(s), c + 1) <=>
                   \E start \in Space[c + 1] : v \in Inside(s)[start]
      BY Zenon DEF SpacedAt
    <3> QED
      BY <2>1, <3>1 DEF TokenAt
  <2> QED
    BY <2>2 DEF TokenIn
<1>7. ASSUME NEW k \in StringAt(i)
      PROVE  TokenIn("colon", WithKey(s, k[1]), k[2], NoValue, doc) <=>
               \E c \in Space[k[2]] :
                 /\ ColonAt(c)
                 /\ \E start \in Space[c + 1] : \E v \in Inside(s)[start] :
                      Goes(<<<<k[1], v[1]>>, v[2]>>)
  <2>1. \A c \in Space[k[2]] : ColonAt(c) =>
          \A start \in Space[c + 1] : \A v \in Inside(s)[start] :
            Goes(<<<<k[1], v[1]>>, v[2]>>) <=> LeadsTo(WithKey(s, k[1]), v[1], v[2], doc)
    BY <1>3
  <2> QED
    BY <1>6, <2>1, Zenon
<1> QED
  BY <1>2, <1>5, <1>7, Zenon

(* The end of a container.                                                 *)
LEMMA CloserLeads ==
  ASSUME InputInv, NEW s, IsInside(s), NEW i \in Positions,
         NEW caller \in {"item", "key", "next", "separator"},
         TokenHere(i) = ClosingToken(Last(s).kind), NEW value, NEW doc
  PROVE  TokenAt(caller, s, i, value, doc) <=>
           /\ caller = "next" => Has("JSON_ALLOW_TRAILING_COMMAS")
           /\ LeadsTo(Front(s), Contained(Last(s).kind, Last(s).values), i + 1, doc)
<1> DEFINE kind == Last(s).kind
<1>1. kind \in {"list", "dict"}
  BY InsideIsThere
<1>2. \A r : r \in ClosingAt(kind, i) <=> r = <<<<>>, i + 1>>
  BY <1>1, ClosingHere
<1>3. TokenHere(i) \in {"T_ARRAY_END", "T_OBJECT_END"}
  BY DEF ClosingToken
<1>4. FirstsAt(s, i) = {}
  BY <1>3, FirstsStart DEF IsInside, ValueTokens, LiteralTokens
<1>5. \A r : r \in RestAt(kind, More(Len(s), kind), i) <=> r = <<<<>>, i + 1>>
  BY <1>2, <1>3, RestAtHas, TokensHere
<1>6. CompletesTo(Last(s), Front(s), <<<<>>, i + 1>>, doc) <=>
        LeadsTo(Front(s), Contained(kind, Last(s).values), i + 1, doc)
  BY ListsJoin, EmptyList DEF CompletesTo, IsInside
<1>7. \A r : r \in RemainingAt(caller, s, i) <=>
        /\ caller = "next" => Has("JSON_ALLOW_TRAILING_COMMAS")
        /\ r = <<<<>>, i + 1>>
  BY <1>2, <1>4, <1>5 DEF RemainingAt
<1>8. TokenAt(caller, s, i, value, doc) <=>
        \E r \in RemainingAt(caller, s, i) : CompletesTo(Last(s), Front(s), r, doc)
  BY DEF TokenAt
<1> QED
  BY <1>6, <1>7, <1>8

(* A comma, and a colon.                                                   *)
LEMMA CommaLeads ==
  ASSUME InputInv, NEW s, IsInside(s), NEW i \in Positions,
         TokenHere(i) = "T_LIST_SEPARATOR", NEW value, NEW doc
  PROVE  TokenAt("separator", s, i, value, doc) <=> TokenIn("next", s, i + 1, value, doc)
<1> DEFINE kind == Last(s).kind
           more == More(Len(s), kind)
<1>1. kind \in {"list", "dict"} /\ AreReadings(Inside(s))
  BY InsideIsThere
<1>2. i + 1 \in Positions /\ CommaAt(i)
  BY TokensHere, TextGoesOn
<1>3. \A r : r \notin ClosingAt(kind, i)
  BY <1>1, ClosingHere DEF ClosingToken
<1>4. \A r : r \in more[i + 1] <=> \E e \in Space[i + 1] : r \in FirstsAt(s, e)
  <2>1. PICK values : values = Inside(s)
    OBVIOUS
  <2>2. more = Members(values, kind)
    BY <2>1 DEF More, Inside
  <2>3. more[i + 1] = MembersBody(values, kind, more, i + 1)
    BY <1>1, <1>2, <2>1, <2>2, MembersUnfold DEF MembersRead
  <2> HIDE DEF more
  <2>4. \A r : r \in more[i + 1] <=>
          \E e \in Space[i + 1] : r \in MembersAt(values, kind, more, e)
    BY <2>3, MembersBodyHas
  <2> QED
    BY <2>1, <2>4 DEF FirstsAt, more
<1>5. \A r : r \in RestAt(kind, more, i) <=>
               \E e \in Space[i + 1] : r \in RemainingAt("next", s, e)
  <2>1. \A r : \A e : r \in RemainingAt("next", s, e) <=>
          \/ Has("JSON_ALLOW_TRAILING_COMMAS") /\ r \in ClosingAt(kind, e)
          \/ r \in FirstsAt(s, e)
    BY DEF RemainingAt
  <2>2. \A r : r \in RestAt(kind, more, i) <=>
          \/ r \in more[i + 1]
          \/ Has("JSON_ALLOW_TRAILING_COMMAS")
             /\ \E e \in Space[i + 1] : r \in ClosingAt(kind, e)
    BY <1>2, <1>3, RestAtHas, ClosingsHave
  <2> HIDE DEF more, kind
  <2> QED
    BY <1>4, <2>1, <2>2
<1>6. TokenAt("separator", s, i, value, doc) <=>
        \E r \in RestAt(kind, more, i) : CompletesTo(Last(s), Front(s), r, doc)
  BY DEF TokenAt, RemainingAt
<1>7. \A e : TokenAt("next", s, e, value, doc) <=>
        \E r \in RemainingAt("next", s, e) : CompletesTo(Last(s), Front(s), r, doc)
  BY DEF TokenAt
<1> HIDE DEF more, kind
<1> QED
  BY <1>5, <1>6, <1>7 DEF TokenIn

LEMMA ColonLeads ==
  ASSUME InputInv, NEW s, NEW i \in Positions,
         TokenHere(i) = "T_OBJECT_PAIR_SEPARATOR", NEW value, NEW doc
  PROVE  TokenAt("colon", s, i, value, doc) <=> TokenIn("value", s, i + 1, value, doc)
<1>1. ColonAt(i)
  BY TokensHere
<1>2. \A v : v \in SpacedAt(Inside(s), i + 1) <=>
               \E start \in Space[i + 1] : v \in Inside(s)[start]
  BY Zenon DEF SpacedAt
<1>3. TokenAt("colon", s, i, value, doc) <=>
        \E v \in SpacedAt(Inside(s), i + 1) : LeadsTo(s, v[1], v[2], doc)
  BY <1>1 DEF TokenAt
<1>4. \A e : TokenAt("value", s, e, value, doc) <=>
        \E v \in Inside(s)[e] : LeadsTo(s, v[1], v[2], doc)
  BY DEF TokenAt
<1> QED
  BY <1>2, <1>3, <1>4 DEF TokenIn

(* The beginning of a container.                                           *)
Opened(kind) == [kind |-> kind, key |-> <<>>, values |-> <<>>]

LEMMA OpenerLeads ==
  ASSUME InputInv, NEW s, AreContainers(s), s = <<>> \/ Len(s) < MaxDepth,
         NEW i \in Positions, NEW kind \in {"list", "dict"},
         TokenHere(i) = IF kind = "list" THEN "T_ARRAY_BEGIN" ELSE "T_OBJECT_BEGIN",
         NEW value, NEW doc
  PROVE  (\E v \in Inside(s)[i] : LeadsTo(s, v[1], v[2], doc)) <=>
           /\ Len(s) + 1 < MaxDepth
           /\ TokenIn(IF kind = "list" THEN "item" ELSE "key",
                      Append(s, Opened(kind)), i + 1, value, doc)
<1>1. PICK d \in Nat : d = Deepest - Len(s) /\ Inside(s) = Values[d]
                       /\ (Len(s) + 1 >= MaxDepth <=> d = 0)
                       /\ (d # 0 => Len(s) + 1 < MaxDepth /\ d - 1 = Deepest - (Len(s) + 1))
  BY DepthIsThere DEF Inside
<1>2. \A v : v \in Values[d][i] <=> d # 0 /\ v \in ContainerAt(Values[d - 1], kind, i)
  BY ValueStarts DEF LiteralTokens
<1>3. CASE d = 0
  <2>1. ~(Len(s) + 1 < MaxDepth)
    BY <1>1, <1>3, DepthIsThere, JsonAssumption
  <2> QED
    BY <1>1, <1>2, <1>3, <2>1
<1>4. CASE d # 0
  <2>1. PICK t : t = Append(s, Opened(kind))
    OBVIOUS
  <2>2. /\ AreContainers(t) /\ t # <<>> /\ Len(t) = Len(s) + 1
        /\ Last(t) = Opened(kind) /\ Front(t) = s
    <3>1. IsContainer(Opened(kind))
      BY DEF IsContainer, Opened
    <3> QED
      BY <2>1, <3>1, Pushed
  <2>3. IsInside(t)
    BY <1>1, <1>4, <2>2, EmptyList DEF IsInside, Opened
  <2>4. i + 1 \in Positions /\ Is(i, Opener(kind))
    <3>1. Is(i, Opener(kind))
      BY TokensHere
    <3> QED
      BY <3>1, SizeTyped DEF Is
  <2>5. PICK values, more : values = Values[d - 1] /\ more = Members(values, kind)
    OBVIOUS
  <2>6. Inside(t) = values /\ More(Len(t), kind) = more /\ AreReadings(values)
    BY <1>1, <1>4, <2>2, <2>3, <2>5, InsideIsThere DEF Inside, More
  <2>7. \A v : v \in ContainerAt(values, kind, i) <=>
          \E r : /\ r \in more[i + 1] \/ r \in Closings(kind, i + 1)
                 /\ v = <<Contained(kind, r[1]), r[2]>>
    BY <2>4, <2>5, ContainerAtHas
  <2>8. \A r : r \in more[i + 1] <=> \E e \in Space[i + 1] : r \in FirstsAt(t, e)
    <3>1. more[i + 1] = MembersBody(values, kind, more, i + 1)
      BY <2>4, <2>5, <2>6, MembersUnfold DEF MembersRead
    <3>2. \A r : r \in more[i + 1] <=>
            \E e \in Space[i + 1] : r \in MembersAt(values, kind, more, e)
      BY <3>1, MembersBodyHas
    <3>3. Last(t).kind = kind
      BY <2>2 DEF Opened
    <3> QED
      BY <2>6, <3>2, <3>3 DEF FirstsAt
  <2> DEFINE caller == IF kind = "list" THEN "item" ELSE "key"
  <2>9. \A r, e : r \in RemainingAt(caller, t, e) <=>
                    r \in ClosingAt(kind, e) \/ r \in FirstsAt(t, e)
    BY <2>2 DEF RemainingAt, Opened
  <2>10. \A r : r \in more[i + 1] \/ r \in Closings(kind, i + 1) <=>
           \E e \in Space[i + 1] : r \in RemainingAt(caller, t, e)
    BY <2>8, <2>9, ClosingsHave
  <2>11. \A e : TokenAt(caller, t, e, value, doc) <=>
           \E r \in RemainingAt(caller, t, e) : CompletesTo(Last(t), Front(t), r, doc)
    BY DEF TokenAt
  <2> HIDE DEF caller
  <2>12. TokenIn(caller, t, i + 1, value, doc) <=>
           \E r : /\ r \in more[i + 1] \/ r \in Closings(kind, i + 1)
                  /\ CompletesTo(Last(t), Front(t), r, doc)
    BY <2>10, <2>11 DEF TokenIn
  <2>13. ASSUME NEW r, r \in more[i + 1] \/ r \in Closings(kind, i + 1)
         PROVE  CompletesTo(Last(t), Front(t), r, doc)
                  <=> LeadsTo(s, Contained(kind, r[1]), r[2], doc)
    <3>1. IsList(r[1])
      <4>1. CASE r \in more[i + 1]
        <5>1. r[1] \in Seq(MembersOf(values))
          BY <2>4, <2>5, <2>6, <4>1, MembersAdvance
        <5> QED
          BY <5>1, ListOf
      <4>2. CASE r \in Closings(kind, i + 1)
        BY <4>2, ClosingsHave, EmptyList
      <4> QED
        BY <2>13, <4>1, <4>2
    <3>2. <<>> \o r[1] = r[1]
      BY <3>1, ListsJoin
    <3> QED
      BY <2>2, <3>2 DEF CompletesTo, Opened
  <2>14. (\E v \in Inside(s)[i] : LeadsTo(s, v[1], v[2], doc)) <=>
           \E r : /\ r \in more[i + 1] \/ r \in Closings(kind, i + 1)
                  /\ LeadsTo(s, Contained(kind, r[1]), r[2], doc)
    <3>1. \A v : v \in Inside(s)[i] <=> v \in ContainerAt(values, kind, i)
      BY <1>1, <1>2, <1>4, <2>5
    <3>2. ASSUME NEW v \in Inside(s)[i], LeadsTo(s, v[1], v[2], doc)
          PROVE  \E r : /\ r \in more[i + 1] \/ r \in Closings(kind, i + 1)
                        /\ LeadsTo(s, Contained(kind, r[1]), r[2], doc)
      <4>1. PICK r : /\ r \in more[i + 1] \/ r \in Closings(kind, i + 1)
                     /\ v = <<Contained(kind, r[1]), r[2]>>
        BY <2>7, <3>1
      <4> QED
        BY <3>2, <4>1
    <3>3. ASSUME NEW r, r \in more[i + 1] \/ r \in Closings(kind, i + 1),
                 LeadsTo(s, Contained(kind, r[1]), r[2], doc)
          PROVE  \E v \in Inside(s)[i] : LeadsTo(s, v[1], v[2], doc)
      <4>1. PICK v : v = <<Contained(kind, r[1]), r[2]>>
        OBVIOUS
      <4>2. v \in Inside(s)[i]
        BY <2>7, <3>1, <3>3, <4>1
      <4> QED
        BY <3>3, <4>1, <4>2
    <3> QED
      BY <3>2, <3>3
  <2> QED
    BY <1>1, <1>4, <2>1, <2>12, <2>13, <2>14 DEF caller
<1> QED
  BY <1>3, <1>4

-----------------------------------------------------------------------------
(* A step reads what the grammar reads.                                    *)

AreTexts(s) ==
  \A n \in 1 .. Len(s) :
    IsList(s[n].values) /\ (s[n].kind = "list" => s[n].key = <<>>)

TextInv ==
  /\ IsList(string)
  /\ AreTexts(stack)
  /\ pc = "block_comment" /\ previous_char = "*" =>
       index \in 1 .. Len(input) /\ input[index] = "*"

(* The documents that the rest of the input makes are those of the input.  *)
GrammarInv == \A doc : doc \in Document <=> Pending(doc)

(* A step leaves the documents that are pending.                           *)
ReadsOn ==
  \A doc : Pending(doc) <=>
             PendingAt(pc', index' + 1, then', previous_char', stack', string',
                       key', result', doc)

LEMMA TextStays ==
  ASSUME TextInv, UNCHANGED stack, IsList(string'),
         pc' = "block_comment" /\ previous_char' = "*" =>
           index' \in 1 .. Len(input') /\ input'[index'] = "*"
  PROVE  TextInv'
<1>1. IsList(string)'
  BY DEF IsList, Range
<1>2. AreTexts(stack)'
  BY DEF TextInv, AreTexts, IsList, Range
<1> QED
  BY <1>1, <1>2 DEF TextInv

LEMMA ReadsHere ==
  ASSUME IInv, pc # "done"
  PROVE  /\ InputInv /\ index \in Nat /\ index + 1 \in Positions /\ (index + 1) - 1 = index
         /\ IsCaller(then, stack) /\ AreContainers(stack)
         /\ (stack = <<>> \/ Len(stack) < MaxDepth)
         /\ PeekChar = At(index + 1)
         /\ PeekChar = "end" <=> index + 1 = Size + 1
         /\ PeekChar # "end" => index + 1 <= Size /\ index + 2 \in Positions
                                /\ input[index + 1] = PeekChar
         /\ pc = "token" => token = TokenHere(index + 1)
<1>1. InputInv /\ index \in 0 .. Len(input) /\ StackInv /\ CallerInv /\ ReadingInv
  BY DEF IInv, RunningInv, PositionInv
<1>2. Size \in Nat /\ Size = Len(input) /\ Positions = 1 .. Size + 1
  BY <1>1, SizeTyped DEF Size
<1>3. index \in Nat /\ index + 1 \in Positions /\ (index + 1) - 1 = index
  BY <1>1, <1>2
<1>4. PeekChar = At(index + 1)
  BY <1>1, <1>2 DEF PeekChar, At
<1>5. /\ PeekChar = "end" <=> index + 1 = Size + 1
      /\ PeekChar # "end" => index + 1 <= Size /\ index + 2 \in Positions
                             /\ input[index + 1] = PeekChar
  BY <1>1, <1>2, <1>3, <1>4, CharHere
<1>6. IsCaller(then, stack) /\ AreContainers(stack) /\ (stack = <<>> \/ Len(stack) < MaxDepth)
  BY <1>1 DEF StackInv, CallerInv, IsCaller
<1>7. pc = "token" => token = TokenHere(index + 1)
  BY <1>1, <1>4 DEF ReadingInv, TokenHere
<1> QED
  BY <1>1, <1>3, <1>4, <1>5, <1>6, <1>7

LEMMA CommentStarts ==
  ASSUME InputInv, index \in Nat
  PROVE  /\ PeekChars(2) = <<"/", "/">> <=> Is(index + 1, "/") /\ Is(index + 2, "/")
         /\ PeekChars(2) = <<"/", "*">> <=> Is(index + 1, "/") /\ Is(index + 2, "*")
<1>1. Size \in Nat /\ Size = Len(input) /\ \A n \in 1 .. Size : input[n] \in STRING
  BY SizeTyped DEF Size
<1>2. CASE index + 2 <= Size
  <2>1. PICK a, b : a = input[index + 1] /\ b = input[index + 2]
    OBVIOUS
  <2>2. PeekChars(2) = SubSeq(input, index + 1, index + 2)
    BY <1>1, <1>2 DEF PeekChars
  <2>3. /\ Len(SubSeq(input, index + 1, index + 2)) = 2
        /\ SubSeq(input, index + 1, index + 2) \in Seq(STRING)
        /\ \A n \in 1 .. 2 : SubSeq(input, index + 1, index + 2)[n] = input[index + n]
    <3>1. PICK i \in Nat, j \in Nat : i = index + 1 /\ j = index + 2
      OBVIOUS
    <3>2. \A n \in i .. j : input[n] \in STRING
      BY <1>1, <1>2, <3>1
    <3>3. /\ SubSeq(input, i, j) \in Seq(STRING)
          /\ Len(SubSeq(input, i, j)) = IF i <= j THEN j - i + 1 ELSE 0
          /\ \A n \in 1 .. j - i + 1 : SubSeq(input, i, j)[n] = input[i + n - 1]
      BY <3>2, SubSeqProperties
    <3> QED
      BY <3>1, <3>3
  <2>4. PICK t \in Seq(STRING) : t = PeekChars(2) /\ Len(t) = 2 /\ t[1] = a /\ t[2] = b
    <3>1. PICK t \in Seq(STRING) :
            t = PeekChars(2) /\ Len(t) = 2 /\ \A n \in 1 .. 2 : t[n] = input[index + n]
      BY <2>2, <2>3
    <3>2. 1 \in 1 .. 2 /\ 2 \in 1 .. 2
      OBVIOUS
    <3>3. t[1] = a /\ t[2] = b
      BY <2>1, <3>1, <3>2
    <3> QED
      BY <3>1, <3>3
  <2>5. \A c : t = <<"/", c>> <=> a = "/" /\ b = c
    <3>1. t = <<a, b>>
      BY <2>4
    <3> QED
      BY <3>1
  <2> QED
    BY <1>1, <1>2, <2>1, <2>4, <2>5 DEF Is
<1>3. CASE ~(index + 2 <= Size)
  BY <1>1, <1>3 DEF PeekChars, Is
<1> QED
  BY <1>2, <1>3

LEMMA EatWhitespaceReads ==
  ASSUME IInv, TextInv, EatWhitespace
  PROVE  TextInv' /\ ReadsOn
<1>1. /\ pc = "eat" /\ pc' = "eat" /\ index' = index + 1
      /\ PeekChar \in Blanks \cup LineBreaks /\ PeekChar # "end"
      /\ UNCHANGED <<then, stack, string, key, result>>
  BY DEF EatWhitespace, ConsumeChars, ConsumeLineBreak, Blanks, LineBreaks
<1>2. PICK i : i = index + 1
  OBVIOUS
<1>3. /\ InputInv /\ i \in Positions /\ i <= Size /\ index' + 1 = i + 1
      /\ input[i] \in Blanks \cup LineBreaks /\ TokenHere(i) = TokenOf(PeekChar)
      /\ IsCaller(then, stack)
  BY <1>1, <1>2, ReadsHere DEF TokenHere
<1>4. Space[i] = {i} \cup Space[i + 1] /\ TokenHere(i) = "T_INVALID_TOKEN"
  BY <1>1, <1>3, SpaceSteps, NoToken
<1>5. ReadsOn
  BY <1>1, <1>2, <1>3, <1>4, TokenBehind DEF ReadsOn, Pending, PendingAt
<1>6. TextInv'
  BY <1>1, TextStays DEF TextInv
<1> QED
  BY <1>5, <1>6

(* Where neither white space nor a comment begins.                         *)
LEMMA TakeTokenReads ==
  ASSUME IInv, TextInv, pc = "eat", Space[index + 1] = {index + 1}, TakeToken
  PROVE  TextInv' /\ ReadsOn
<1>1. pc' = "token" /\ UNCHANGED <<index, then, stack, string, key, result>>
  BY DEF TakeToken, position
<1>2. TextInv'
  BY <1>1, TextStays DEF TextInv
<1>3. ReadsOn
  BY <1>1 DEF ReadsOn, Pending, PendingAt, TokenIn
<1> QED
  BY <1>2, <1>3

LEMMA SeeTokenReads ==
  ASSUME IInv, TextInv, SeeToken \/ ForbiddenComment
  PROVE  TextInv' /\ ReadsOn
<1>1. pc = "eat" /\ TakeToken
  BY DEF SeeToken, ForbiddenComment
<1>2. PICK i : i = index + 1
  OBVIOUS
<1>3. /\ InputInv /\ index \in Nat /\ i \in Positions /\ i + 1 = index + 2
      /\ i <= Size => input[i] = PeekChar
  <2>1. InputInv /\ index \in Nat /\ index + 1 \in Positions
    BY <1>1, ReadsHere
  <2>2. i <= Size => i # Size + 1
    BY <1>2, <2>1, SizeTyped
  <2> QED
    BY <1>1, <1>2, <2>1, <2>2, ReadsHere
<1>4. ~Commented(i, "/") /\ ~Commented(i, "*")
  BY <1>2, <1>3, CommentStarts DEF SeeToken, ForbiddenComment, StartsComment, Commented, Has
<1>5. i <= Size => input[i] \notin Blanks \cup LineBreaks
  <2>1. CASE ForbiddenComment
    BY <1>1, <1>3, <2>1, PeekedPair, NotBlank DEF ForbiddenComment, IInv
  <2>2. CASE SeeToken
    BY <1>3, <2>2 DEF SeeToken
  <2> QED
    BY <2>1, <2>2
<1>6. Space[i] = {i}
  BY <1>3, <1>4, <1>5, SpaceSteps
<1> QED
  BY <1>1, <1>2, <1>6, TakeTokenReads

LEMMA BeginCommentReads ==
  ASSUME IInv, TextInv, BeginComment
  PROVE  TextInv' /\ ReadsOn
<1>1. /\ pc = "eat" /\ index' = index + 2 /\ Has("JSON_ALLOW_COMMENTS")
      /\ pc' = IF PeekChars(2) = <<"/", "/">> THEN "line_comment" ELSE "block_comment"
      /\ StartsComment /\ previous_char' = ""
      /\ UNCHANGED <<then, stack, string, key, result>>
  BY DEF BeginComment, ConsumeChars, Has
<1>2. PICK i : i = index + 1
  OBVIOUS
<1>3. /\ InputInv /\ index \in Nat /\ i \in Positions /\ i + 1 = index + 2
      /\ index' + 1 = i + 2 /\ PeekChar = At(i) /\ IsCaller(then, stack)
  <2>1. pc # "done" /\ index' = index + 2
    BY <1>1
  <2>2. /\ InputInv /\ index \in Nat /\ index + 1 \in Positions
        /\ PeekChar = At(index + 1) /\ IsCaller(then, stack)
    BY <2>1, ReadsHere
  <2> QED
    BY <1>2, <2>1, <2>2
<1>4. TokenHere(i) = "T_INVALID_TOKEN"
  <2>1. PeekChar = "/"
    BY <1>1, PeekedPair DEF IInv
  <2> QED
    BY <1>3, <2>1, NoToken DEF TokenHere
<1>5. TextInv'
  BY <1>1, TextStays DEF TextInv
<1>6. CASE PeekChars(2) = <<"/", "/">>
  <2>1. Commented(i, "/")
    BY <1>1, <1>2, <1>3, <1>6, CommentStarts DEF Commented
  <2>2. Space[i] = {i} \cup Space[LineEnd(i + 2)]
    BY <1>3, <2>1, SpaceSteps
  <2>3. \A doc : TokenIn(then, stack, i, result, doc)
                   <=> TokenIn(then, stack, LineEnd(i + 2), result, doc)
    BY <1>3, <1>4, <2>2, TokenBehind
  <2>4. pc' = "line_comment"
    BY <1>1, <1>6
  <2>5. ReadsOn
    BY <1>1, <1>2, <1>3, <2>3, <2>4 DEF ReadsOn, Pending, PendingAt
  <2> QED
    BY <1>5, <2>5
<1>7. CASE PeekChars(2) # <<"/", "/">>
  <2>1. Commented(i, "*")
    BY <1>1, <1>2, <1>3, <1>7, CommentStarts DEF Commented, StartsComment
  <2>2. Space[i] = {i} \cup Space[BlockEnd(i + 2)]
    BY <1>3, <2>1, SpaceSteps
  <2>3. CommentFrom(i + 2, "") = i + 2
    BY DEF CommentFrom
  <2>4. \A doc : TokenIn(then, stack, i, result, doc)
                   <=> TokenIn(then, stack, BlockEnd(i + 2), result, doc)
    BY <1>3, <1>4, <2>2, TokenBehind
  <2>5. pc' = "block_comment"
    BY <1>1, <1>7
  <2>6. ReadsOn
    BY <1>1, <1>2, <1>3, <2>3, <2>4, <2>5 DEF ReadsOn, Pending, PendingAt
  <2> QED
    BY <1>5, <2>6
<1> QED
  BY <1>6, <1>7

LEMMA LineCommentReads ==
  ASSUME IInv, TextInv, LineComment
  PROVE  TextInv' /\ ReadsOn
<1>1. /\ pc = "line_comment" /\ PeekChar # "end"
      /\ PeekChar \in LineBreaks => pc' = "eat" /\ index' = index
      /\ PeekChar \notin LineBreaks => pc' = "line_comment" /\ index' = index + 1
      /\ UNCHANGED <<then, stack, string, key, result>>
  BY DEF LineComment, ConsumeChars, position
<1>2. PICK i : i = index + 1
  OBVIOUS
<1>3. InputInv /\ index \in Nat /\ i \in Positions /\ i <= Size /\ input[i] = PeekChar
  BY <1>1, <1>2, ReadsHere
<1>4. /\ PeekChar \in LineBreaks => LineEnd(i) = i
      /\ PeekChar \notin LineBreaks => LineEnd(i) = LineEnd(i + 1)
  BY <1>3, LineEndSteps
<1>5. TextInv'
  BY <1>1, TextStays DEF TextInv
<1>6. CASE PeekChar \in LineBreaks
  BY <1>1, <1>2, <1>4, <1>5, <1>6 DEF ReadsOn, Pending, PendingAt
<1>7. CASE PeekChar \notin LineBreaks
  BY <1>1, <1>2, <1>4, <1>5, <1>7 DEF ReadsOn, Pending, PendingAt
<1> QED
  BY <1>6, <1>7

LEMMA BlockCommentReads ==
  ASSUME IInv, TextInv, BlockComment
  PROVE  TextInv' /\ ReadsOn
<1>1. /\ pc = "block_comment" /\ PeekChar # "end" /\ index' = index + 1
      /\ previous_char = "*" /\ PeekChar = "/" => pc' = "eat"
      /\ ~(previous_char = "*" /\ PeekChar = "/") =>
           pc' = "block_comment" /\ previous_char' = PeekChar
      /\ UNCHANGED <<input, then, stack, string, key, result>>
  BY DEF BlockComment, ConsumeChars
<1>2. PICK i : i = index + 1
  OBVIOUS
<1>3. /\ InputInv /\ index \in Nat /\ i \in Positions /\ i <= Size /\ input[i] = PeekChar
      /\ i \in Nat /\ i > 0 /\ index = i - 1 /\ i - 1 + 1 = i /\ i - 1 + 2 = i + 1
      /\ Size = Len(input) /\ Size \in Nat
  BY <1>1, <1>2, ReadsHere, SizeTyped DEF Size
<1>4. previous_char = "*" => i - 1 \in Nat /\ i - 1 > 0 /\ Is(i - 1, "*")
  BY <1>1, <1>3 DEF TextInv, Is
<1>5. TextInv'
  BY <1>1, <1>2, <1>3, TextStays DEF TextInv
<1>6. CASE previous_char = "*" /\ PeekChar = "/"
  <2>1. ClosedAt(i - 1)
    BY <1>3, <1>4, <1>6 DEF ClosedAt, Is
  <2>2. BlockEnd(CommentFrom(i, previous_char)) = i + 1
    BY <1>3, <1>4, <1>6, <2>1, BlockEndSteps DEF CommentFrom
  <2> QED
    BY <1>1, <1>2, <1>5, <1>6, <2>2 DEF ReadsOn, Pending, PendingAt
<1>7. CASE ~(previous_char = "*" /\ PeekChar = "/")
  <2>1. BlockEnd(CommentFrom(i, previous_char)) = BlockEnd(i)
    <3>1. CASE previous_char = "*"
      <4>1. ~ClosedAt(i - 1)
        BY <1>3, <1>7, <3>1 DEF ClosedAt, Is
      <4> QED
        BY <1>3, <1>4, <3>1, <4>1, BlockEndSteps DEF CommentFrom
    <3>2. CASE previous_char # "*"
      BY <3>2 DEF CommentFrom
    <3> QED
      BY <3>1, <3>2
  <2>2. BlockEnd(CommentFrom(i + 1, PeekChar)) = BlockEnd(i)
    <3>1. CASE PeekChar = "*"
      <4>1. (i + 1) - 1 = i
        BY <1>3
      <4> QED
        BY <3>1, <4>1 DEF CommentFrom
    <3>2. CASE PeekChar # "*"
      <4>1. ~ClosedAt(i)
        BY <1>3, <3>2 DEF ClosedAt, Is
      <4> QED
        BY <1>3, <3>2, <4>1, BlockEndSteps DEF CommentFrom
    <3> QED
      BY <3>1, <3>2
  <2> QED
    BY <1>1, <1>2, <1>5, <1>7, <2>1, <2>2 DEF ReadsOn, Pending, PendingAt
<1> QED
  BY <1>6, <1>7

LEMMA CommentUnterminatedReads ==
  ASSUME IInv, TextInv, CommentUnterminated
  PROVE  TextInv' /\ ReadsOn
<1>1. /\ pc \in {"line_comment", "block_comment"} /\ PeekChar = "end" /\ pc' = "token"
      /\ UNCHANGED <<index, then, stack, string, key, result>>
  BY DEF CommentUnterminated, TakeToken, position
<1>2. PICK i : i = index + 1
  OBVIOUS
<1>3. /\ InputInv /\ index \in Nat /\ i \in Positions /\ i = Size + 1
      /\ i \in Nat /\ i > 0 /\ index = i - 1 /\ i - 1 + 1 = i
      /\ Size = Len(input) /\ Size \in Nat /\ i > Size
  BY <1>1, <1>2, ReadsHere, SizeTyped DEF Size
<1>4. Space[i] = {i}
  <2>1. ~Commented(i, "/") /\ ~Commented(i, "*")
    BY <1>3 DEF Commented, Is
  <2> QED
    BY <1>3, <2>1, SpaceSteps
<1>5. LineEnd(i) = i
  BY <1>3, LineEndSteps
<1>6. pc = "block_comment" => BlockEnd(CommentFrom(i, previous_char)) = i
  <2>1. CASE previous_char = "*" /\ pc = "block_comment"
    <3>1. i - 1 \in Nat /\ i - 1 > 0
      BY <1>3, <2>1 DEF TextInv
    <3>2. ~ClosedAt(i - 1)
      BY <1>3 DEF ClosedAt, Is
    <3>3. BlockEnd(i - 1) = BlockEnd(i) /\ BlockEnd(i) = i
      BY <1>3, <3>1, <3>2, BlockEndSteps
    <3> QED
      BY <2>1, <3>3 DEF CommentFrom
  <2>2. CASE previous_char # "*"
    BY <1>3, <2>2, BlockEndSteps DEF CommentFrom
  <2> QED
    BY <2>1, <2>2
<1>7. TextInv'
  BY <1>1, TextStays DEF TextInv
<1>8. ReadsOn
  BY <1>1, <1>2, <1>4, <1>5, <1>6 DEF ReadsOn, Pending, PendingAt, TokenIn
<1> QED
  BY <1>7, <1>8

-----------------------------------------------------------------------------
(* A value is read.                                                        *)

(* The first of the reversed pairs with a key is the last of the pairs.    *)
FirstOf(reversed, n, k) == Min({i \in 1 .. n : reversed[i][1] = k})
PlaceOf(pairs, n, k) ==
  CHOOSE i \in 1 .. n : pairs[i][1] = k /\ \A l \in i + 1 .. n : pairs[l][1] # k
IsReversed(reversed, pairs, n) == \A i \in 1 .. n : reversed[i] = pairs[(n - i) + 1]
KeysOf(pairs, n) == {pairs[i][1] : i \in 1 .. n}

LEMMA LastOfAKey ==
  ASSUME NEW pairs, NEW n \in Nat, NEW reversed, IsReversed(reversed, pairs, n),
         NEW k \in KeysOf(reversed, n)
  PROVE  reversed[FirstOf(reversed, n, k)] = pairs[PlaceOf(pairs, n, k)]
<1> DEFINE T == {i \in 1 .. n : reversed[i][1] = k}
           IsLast(i) == pairs[i][1] = k /\ \A l \in i + 1 .. n : pairs[l][1] # k
<1>0. PICK first \in 1 .. n : reversed[first][1] = k
  BY DEF KeysOf
<1>1. PICK m : m = Min(T)
  OBVIOUS
<1>2. m \in T /\ \A y \in T : m <= y
  <2>1. T \subseteq Nat /\ first \in T
    BY <1>0
  <2> HIDE DEF T
  <2> QED
    BY <1>1, <2>1, LeastIs
<1>3. m \in 1 .. n /\ (n - m) + 1 \in 1 .. n
  BY <1>2
<1>4. IsLast((n - m) + 1)
  <2>1. pairs[(n - m) + 1][1] = k
    BY <1>2, <1>3 DEF IsReversed
  <2>2. ASSUME NEW l \in ((n - m) + 1) + 1 .. n, pairs[l][1] = k PROVE FALSE
    <3>1. (n - l) + 1 \in 1 .. n /\ (n - ((n - l) + 1)) + 1 = l /\ (n - l) + 1 < m
      BY <1>3
    <3>2. (n - l) + 1 \in T
      BY <2>2, <3>1 DEF IsReversed
    <3> QED
      BY <1>2, <1>3, <3>1, <3>2
  <2> QED
    BY <2>1, <2>2
<1>5. ASSUME NEW i \in 1 .. n, NEW j \in 1 .. n, IsLast(i), IsLast(j)
      PROVE  i = j
  <2>1. ~(j \in i + 1 .. n) /\ ~(i \in j + 1 .. n)
    BY <1>5
  <2> QED
    BY <2>1
<1>6. PICK c : c = CHOOSE i \in 1 .. n : IsLast(i)
  OBVIOUS
<1>7. c \in 1 .. n /\ IsLast(c)
  <2> HIDE DEF IsLast
  <2> QED
    BY <1>3, <1>4, <1>6
<1>8. c = (n - m) + 1
  <2> HIDE DEF IsLast
  <2> QED
    BY <1>3, <1>4, <1>5, <1>7
<1>9. reversed[m] = pairs[c]
  BY <1>3, <1>8 DEF IsReversed
<1> QED
  BY <1>1, <1>6, <1>9 DEF FirstOf, PlaceOf

LEMMA DictIsContained ==
  ASSUME NEW pairs, IsList(pairs)
  PROVE  <<"dict", DictOf(pairs)>> = Contained("dict", pairs)
<1>1. PICK n \in Nat : n = Len(pairs) /\ DOMAIN pairs = 1 .. n
  BY LenProperties DEF IsList
<1>2. PICK reversed : reversed = [i \in 1 .. n |-> pairs[(n - i) + 1]]
  OBVIOUS
<1>3. Reverse(pairs) = reversed /\ DOMAIN reversed = 1 .. n
  BY <1>1, <1>2 DEF Reverse
<1>4. IsReversed(reversed, pairs, n) /\ KeysOf(reversed, n) = KeysOf(pairs, n)
  <2>1. \A i \in 1 .. n : (n - i) + 1 \in 1 .. n /\ (n - ((n - i) + 1)) + 1 = i
    OBVIOUS
  <2>2. \A i \in 1 .. n : reversed[i] = pairs[(n - i) + 1]
    BY <1>2
  <2>3. \A i \in 1 .. n : pairs[i] = reversed[(n - i) + 1]
    BY <2>1, <2>2
  <2> QED
    BY <2>1, <2>2, <2>3 DEF IsReversed, KeysOf
<1>5. ASSUME NEW k \in KeysOf(pairs, n)
      PROVE  reversed[FirstOf(reversed, n, k)] = pairs[PlaceOf(pairs, n, k)]
  BY <1>4, LastOfAKey
<1>6. DictOf(pairs) = [k \in KeysOf(pairs, n) |-> reversed[FirstOf(reversed, n, k)][2]]
  <2>1. DictOf(pairs) = [k \in KeysOf(reversed, n) |-> reversed[FirstOf(reversed, n, k)][2]]
    BY <1>3 DEF DictOf, FirstOf, KeysOf
  <2> QED
    BY <1>4, <2>1
<1>7. Contained("dict", pairs)
        = <<"dict", [k \in KeysOf(pairs, n) |-> pairs[PlaceOf(pairs, n, k)][2]]>>
  <2>1. "dict" # "list"
    OBVIOUS
  <2> QED
    BY <1>1, <2>1 DEF Contained, PlaceOf, KeysOf
<1>8. [k \in KeysOf(pairs, n) |-> reversed[FirstOf(reversed, n, k)][2]]
        = [k \in KeysOf(pairs, n) |-> pairs[PlaceOf(pairs, n, k)][2]]
  BY <1>5
<1> QED
  BY <1>6, <1>7, <1>8

LEMMA ContainerIsContained ==
  ASSUME NEW c, IsContainer(c), IsList(c.values)
  PROVE  ContainerValue(c) = Contained(c.kind, c.values)
<1>1. CASE c.kind = "list"
  BY <1>1 DEF ContainerValue, Contained
<1>2. CASE c.kind = "dict"
  <2>1. ContainerValue(c) = <<"dict", DictOf(c.values)>>
    BY <1>2 DEF ContainerValue
  <2>2. Contained(c.kind, c.values) = Contained("dict", c.values)
    BY <1>2
  <2> QED
    BY <2>1, <2>2, DictIsContained
<1> QED
  BY <1>1, <1>2 DEF IsContainer

LEMMA EmptyIsText == AreTexts(<<>>)
<1>1. Len(<<>>) = 0
  OBVIOUS
<1> QED
  BY <1>1 DEF AreTexts

LEMMA ValueIsText ==
  ASSUME NEW s, AreContainers(s), s # <<>>, AreTexts(s), NEW v
  PROVE  AreTexts(WithValue(s, v))
<1> DEFINE c == Last(s)
           d == [c EXCEPT !.values = Append(@, <<c.key, v>>)]
           t == WithValue(s, v)
<1>1. Len(s) \in Nat \ {0} /\ c = s[Len(s)] /\ IsContainer(c)
  BY TopOf
<1>2. IsContainer(d) /\ d.kind = c.kind /\ d.values = Append(c.values, <<c.key, v>>)
      /\ d.key = c.key
  BY <1>1 DEF IsContainer
<1>3. t = [s EXCEPT ![Len(s)] = d]
  BY <1>1 DEF WithValue
<1>4. IsList(d.values) /\ (d.kind = "list" => d.key = <<>>)
  <2>1. IsList(c.values) /\ (c.kind = "list" => c.key = <<>>)
    BY <1>1 DEF AreTexts
  <2> HIDE DEF c, d
  <2>2. IsList(Append(c.values, <<c.key, v>>))
    BY <2>1, EmptyList, ListsJoin
  <2> QED
    BY <1>2, <2>1, <2>2
<1> HIDE DEF d, c, t
<1>5. AreContainers(t) /\ Len(t) = Len(s) /\ t # <<>> /\ Last(t) = d
  BY <1>1, <1>2, <1>3, Replaced
<1>6. ASSUME NEW n \in 1 .. Len(t)
      PROVE  IsList(t[n].values) /\ (t[n].kind = "list" => t[n].key = <<>>)
  <2>1. CASE n = Len(s)
    <3>1. t[n] = d
      BY <1>5, <2>1, TopOf
    <3> QED
      BY <1>4, <3>1
  <2>2. CASE n # Len(s)
    <3>1. n \in DOMAIN s
      BY <1>5, LenProperties DEF AreContainers
    <3>2. t[n] = s[n]
      BY <1>3, <2>2, <3>1
    <3> QED
      BY <1>5, <3>2 DEF AreTexts
  <2> QED
    BY <2>1, <2>2
<1> QED
  BY <1>6 DEF AreTexts, t

(* A value that is returned leads to the documents that are pending then.  *)
LEMMA ReturnReads ==
  ASSUME NEW s, AreContainers(s), AreTexts(s), NEW v, v # NoValue,
         Return(v, s), IsList(string')
  PROVE  /\ TextInv'
         /\ \A doc : LeadsTo(s, v, index' + 1, doc) <=>
                       PendingAt(pc', index' + 1, then', previous_char', stack', string',
                                 key', result', doc)
<1>1. IsList(string)'
  BY DEF IsList, Range
<1>2. CASE s = <<>>
  <2>1. pc' = "eat" /\ then' = "end" /\ stack' = <<>> /\ result' = v
    BY <1>2 DEF Return, NextTokenFor
  <2>2. \A doc : LeadsTo(s, v, index' + 1, doc) <=>
                   TokenIn(then', stack', index' + 1, result', doc)
    BY <1>2, <2>1, Returned
  <2>3. AreTexts(stack)'
    <3>1. Len(stack') = 0
      BY <2>1
    <3> QED
      BY <3>1 DEF AreTexts
  <2> QED
    BY <1>1, <2>1, <2>2, <2>3 DEF PendingAt, TextInv
<1>3. CASE s # <<>>
  <2>1. pc' = "eat" /\ then' = "separator" /\ stack' = WithValue(s, v)
    BY <1>3 DEF Return, NextTokenFor, WithValue
  <2>2. \A doc : LeadsTo(s, v, index' + 1, doc) <=>
                   TokenIn(then', stack', index' + 1, result', doc)
    BY <1>3, <2>1, Returned
  <2>3. AreTexts(stack)'
    <3>1. PICK t : t = WithValue(s, v) /\ AreTexts(t)
      BY <1>3, ValueIsText
    <3> QED
      BY <2>1, <3>1 DEF AreTexts, IsList
  <2> QED
    BY <1>1, <2>1, <2>2, <2>3 DEF PendingAt, TextInv
<1> QED
  BY <1>2, <1>3

-----------------------------------------------------------------------------
(* The callers of GetNextToken read what the grammar reads.                *)

LEMMA FailsReads ==
  ASSUME TextInv, NEW code, NEW column_adjust, NEW consumed,
         ParseError(code, column_adjust, consumed), \A doc : ~Pending(doc)
  PROVE  TextInv' /\ ReadsOn
<1>1. pc' = "done" /\ result' = NoValue /\ stack' = <<>> /\ string' = string
  BY DEF ParseError
<1>2. AreTexts(stack)'
  <2>1. Len(stack') = 0
    BY <1>1
  <2> QED
    BY <2>1 DEF AreTexts
<1>3. IsList(string)'
  BY <1>1 DEF TextInv, IsList, Range
<1>4. TextInv'
  BY <1>1, <1>2, <1>3 DEF TextInv
<1>5. ReadsOn
  BY <1>1 DEF ReadsOn, PendingAt
<1> QED
  BY <1>4, <1>5

LEMMA TokenIsPending ==
  ASSUME pc = "token"
  PROVE  \A doc : Pending(doc) <=> TokenAt(then, stack, index + 1, result, doc)
BY DEF Pending, PendingAt

LEMMA WrongToken ==
  ASSUME IInv, pc = "token", token \notin ExpectedBy(then, stack)
  PROVE  \A doc : ~Pending(doc)
BY ReadsHere, TokenIsPending, DeadEnd

LEMMA StackIsInside ==
  ASSUME IInv, TextInv, pc # "done", stack # <<>>
  PROVE  /\ IsInside(stack) /\ IsContainer(Last(stack)) /\ AreContainers(Front(stack))
         /\ Last(stack).kind \in {"list", "dict"}
         /\ InList <=> Last(stack).kind = "list"
         /\ Last(stack).kind = "list" => Last(stack).key = <<>>
         /\ AreTexts(Front(stack))
<1>1. AreContainers(stack) /\ Len(stack) < MaxDepth
  BY ReadsHere
<1>2. /\ Len(stack) \in Nat \ {0} /\ Last(stack) = stack[Len(stack)]
      /\ IsContainer(Last(stack)) /\ AreContainers(Front(stack))
      /\ Len(Front(stack)) = Len(stack) - 1
      /\ Front(stack) = [i \in 1 .. Len(stack) - 1 |-> stack[i]]
  BY <1>1, TopOf
<1>3. IsList(Last(stack).values) /\ (Last(stack).kind = "list" => Last(stack).key = <<>>)
  BY <1>2 DEF TextInv, AreTexts
<1>4. AreTexts(Front(stack))
  <2>1. PICK n \in Nat : n = Len(stack) - 1
    BY <1>2
  <2>2. Len(Front(stack)) = n /\ \A i \in 1 .. n : Front(stack)[i] = stack[i] /\ i \in 1 .. Len(stack)
    BY <1>2, <2>1
  <2> QED
    BY <2>2 DEF TextInv, AreTexts
<1> QED
  BY <1>1, <1>2, <1>3, <1>4 DEF IsInside, IsContainer, InList

LEMMA StackHolds ==
  ASSUME IInv, pc = "token", then \in {"item", "key", "next", "separator", "colon"}
  PROVE  stack # <<>> /\ (then = "item" => InList) /\ (then \in {"key", "colon"} => ~InList)
BY AtToken DEF CallerInv

(* ParseToken is called: one of the values here is to be read.             *)
LEMMA ValueIsPending ==
  ASSUME IInv, TextInv, ParsesToken
  PROVE  \A doc : Pending(doc) <=>
           \E v \in Inside(stack)[index + 1] : LeadsTo(stack, v[1], v[2], doc)
<1>1. pc = "token" /\ then \in {"value", "item", "next"}
  BY ParsesTokenFacts
<1>2. InputInv /\ index + 1 \in Positions /\ token = TokenHere(index + 1)
  BY <1>1, ReadsHere
<1>3. CASE then = "value"
  BY <1>1, <1>3, TokenIsPending DEF TokenAt
<1>4. CASE then \in {"item", "next"}
  <2>1. stack # <<>> /\ InList /\ token # "T_ARRAY_END"
    BY <1>1, <1>4, StackHolds DEF ParsesToken, For
  <2>2. IsInside(stack) /\ Last(stack).kind = "list" /\ Last(stack).key = <<>>
    BY <1>1, <2>1, StackIsInside
  <2> QED
    BY <1>1, <1>2, <1>4, <2>1, <2>2, ItemLeads, TokenIsPending
<1> QED
  BY <1>1, <1>3, <1>4

LEMMA OpenedIsText ==
  ASSUME IInv, TextInv, pc # "done", NEW kind, IsList(string'),
         stack' = Append(stack, Opened(kind)), pc' = "eat"
  PROVE  TextInv'
<1>1. Len(stack) \in Nat /\ stack \in Seq(Range(stack))
  BY ReadsHere, LenProperties DEF AreContainers
<1>2. PICK t, c : t = Append(stack, c) /\ c = Opened(kind)
  OBVIOUS
<1>3. /\ Len(t) = Len(stack) + 1 /\ t[Len(stack) + 1] = c
      /\ \A n \in 1 .. Len(stack) : t[n] = stack[n]
  BY <1>1, <1>2, AppendProperties, SeqMonotonic
<1>4. IsList(c.values) /\ c.key = <<>>
  BY <1>2, EmptyList DEF Opened
<1>5. ASSUME NEW n \in 1 .. Len(t)
      PROVE  IsList(t[n].values) /\ (t[n].kind = "list" => t[n].key = <<>>)
  <2>1. CASE n = Len(stack) + 1
    BY <1>3, <1>4, <2>1
  <2>2. CASE n # Len(stack) + 1
    <3>1. n \in 1 .. Len(stack)
      BY <1>1, <1>3, <2>2
    <3> QED
      BY <1>3, <3>1 DEF TextInv, AreTexts
  <2> QED
    BY <2>1, <2>2
<1>6. AreTexts(t) /\ stack' = t
  BY <1>2, <1>5 DEF AreTexts
<1>7. AreTexts(stack)'
  BY <1>6 DEF AreTexts, IsList
<1>8. IsList(string)'
  BY DEF IsList, Range
<1> QED
  BY <1>7, <1>8 DEF TextInv

LEMMA OpenContainerReads ==
  ASSUME IInv, TextInv, OpenContainer
  PROVE  TextInv' /\ ReadsOn
<1>1. pc = "token" /\ pc # "done" /\ ParsesToken /\ token \in {"T_OBJECT_BEGIN", "T_ARRAY_BEGIN"}
  BY ParsesTokenFacts DEF OpenContainer
<1>2. PICK kind \in {"list", "dict"} :
        token = IF kind = "list" THEN "T_ARRAY_BEGIN" ELSE "T_OBJECT_BEGIN"
  BY <1>1
<1>3. /\ InputInv /\ index + 1 \in Positions /\ token = TokenHere(index + 1)
      /\ AreContainers(stack) /\ (stack = <<>> \/ Len(stack) < MaxDepth)
      /\ Len(stack) \in Nat /\ MaxDepth \in Nat
  BY <1>1, ReadsHere, DepthIsThere, JsonAssumption
<1> DEFINE caller == IF kind = "list" THEN "item" ELSE "key"
<1>4. \A doc : Pending(doc) <=>
        /\ Len(stack) + 1 < MaxDepth
        /\ TokenIn(caller, Append(stack, Opened(kind)), index + 1 + 1, result, doc)
  BY <1>1, <1>2, <1>3, ValueIsPending, OpenerLeads
<1>5. CASE IsTooDeep
  <2>1. \A doc : ~Pending(doc)
    BY <1>3, <1>4, <1>5 DEF IsTooDeep
  <2>2. ParseError("JSON_TOO_MUCH_NESTING", -1, 1)
    BY <1>5 DEF OpenContainer
  <2> QED
    BY <2>1, <2>2, FailsReads
<1>6. CASE ~IsTooDeep
  <2>1. /\ index' = index + 1 /\ pc' = "eat" /\ UNCHANGED <<string, key, result>>
        /\ then' = caller /\ stack' = Append(stack, Opened(kind))
    BY <1>1, <1>2, <1>6 DEF OpenContainer, ConsumeChars, NextTokenFor, Opened
  <2>2. Len(stack) + 1 < MaxDepth
    BY <1>3, <1>6 DEF IsTooDeep
  <2> HIDE DEF caller
  <2>3. ReadsOn
    BY <1>4, <2>1, <2>2 DEF ReadsOn, PendingAt
  <2>4. TextInv'
    BY <1>1, <2>1, OpenedIsText DEF TextInv
  <2> QED
    BY <2>3, <2>4
<1> QED
  BY <1>5, <1>6

LEMMA NoSuchValueReads ==
  ASSUME IInv, TextInv, NoSuchValue
  PROVE  TextInv' /\ ReadsOn
<1>1. /\ pc = "token" /\ then \in {"value", "item", "next"} /\ ParsesToken
      /\ ParseError("JSON_UNEXPECTED_TOKEN", 0, 0)
      /\ token \notin ValueTokens
  BY ParsesTokenFacts DEF NoSuchValue, ValueTokens, LiteralTokens
<1>2. token \notin ExpectedBy(then, stack)
  <2>1. CASE then = "value"
    BY <1>1, <2>1 DEF ExpectedBy
  <2>2. CASE then \in {"item", "next"}
    <3>1. stack # <<>> /\ InList /\ token # "T_ARRAY_END"
      BY <1>1, <2>2, StackHolds DEF ParsesToken, For
    <3>2. Last(stack).kind = "list"
      BY <3>1 DEF InList
    <3> QED
      BY <1>1, <2>2, <3>1, <3>2 DEF ExpectedBy, ClosingToken
  <2> QED
    BY <1>1, <2>1, <2>2
<1> QED
  BY <1>1, <1>2, WrongToken, FailsReads

(* A string is read from its beginning on.                                 *)
LEMMA StringsFollow ==
  ASSUME InputInv, NEW i \in Positions, NEW q \in Chars[i]
  PROVE  <<>> \o q[1] = q[1] /\ IsList(q[1]) /\ q = <<q[1], q[2]>> /\ q[2] \in Positions
<1>1. q[1] \in Texts /\ EndsBehind(q, i)
  BY CharsAdvance
<1>2. IsList(q[1])
  BY <1>1, ListOf DEF Texts
<1> QED
  BY <1>1, <1>2, ListsJoin, SizeTyped DEF EndsBehind

LEMMA StringValueReads ==
  ASSUME IInv, TextInv, StringValue
  PROVE  TextInv' /\ ReadsOn
<1>1. /\ pc = "token" /\ pc # "done" /\ ParsesToken /\ token = "T_STRING"
      /\ pc' = "string" /\ index' = index + 1 /\ string' = <<>> /\ key' = FALSE
      /\ UNCHANGED <<stack, then, result>>
  BY ParsesTokenFacts DEF StringValue, BeginString, ConsumeChars
<1>2. PICK i : i = index + 1
  OBVIOUS
<1>3. /\ InputInv /\ i \in Positions /\ TokenHere(i) = "T_STRING" /\ index' + 1 = i + 1
      /\ AreContainers(stack) /\ (stack = <<>> \/ Len(stack) < MaxDepth)
  BY <1>1, <1>2, ReadsHere
<1>4. i + 1 \in Positions /\ StringAt(i) = Chars[i + 1]
  BY <1>3, TokensHere, TextGoesOn DEF StringAt
<1>5. \A v : v \in Inside(stack)[i] <=>
               \E q \in Chars[i + 1] : v = <<<<"string", q[1]>>, q[2]>>
  <2>1. Deepest - Len(stack) \in Nat
    BY <1>3, DepthIsThere
  <2>2. \A v : v \in Inside(stack)[i] <=> v \in StringsAt(i)
    BY <1>3, <2>1, ValueStarts DEF Inside, LiteralTokens
  <2> QED
    BY <1>4, <2>2 DEF StringsAt
<1>6. \A doc : Pending(doc) <=>
        \E q \in Chars[i + 1] : LeadsTo(stack, <<"string", q[1]>>, q[2], doc)
  <2>1. ASSUME NEW doc, NEW v \in Inside(stack)[i], LeadsTo(stack, v[1], v[2], doc)
        PROVE  \E q \in Chars[i + 1] : LeadsTo(stack, <<"string", q[1]>>, q[2], doc)
    <3>1. PICK q \in Chars[i + 1] : v = <<<<"string", q[1]>>, q[2]>>
      BY <1>5
    <3> QED
      BY <2>1, <3>1
  <2>2. ASSUME NEW doc, NEW q \in Chars[i + 1], LeadsTo(stack, <<"string", q[1]>>, q[2], doc)
        PROVE  \E v \in Inside(stack)[i] : LeadsTo(stack, v[1], v[2], doc)
    <3>1. PICK v : v = <<<<"string", q[1]>>, q[2]>>
      OBVIOUS
    <3>2. v \in Inside(stack)[i]
      BY <1>5, <3>1
    <3> QED
      BY <2>2, <3>1, <3>2
  <2> QED
    BY <1>1, <1>2, <2>1, <2>2, ValueIsPending
<1>7. \A q \in Chars[i + 1] : <<>> \o q[1] = q[1]
  BY <1>3, <1>4, StringsFollow
<1>8. ReadsOn
  <2>1. \A doc : PendingAt(pc', index' + 1, then', previous_char', stack', string',
                           key', result', doc)
          <=> \E q \in Chars[i + 1] : LeadsTo(stack, <<"string", q[1]>>, q[2], doc)
    BY <1>1, <1>3, <1>7 DEF PendingAt, StringLeadsTo
  <2> QED
    BY <1>6, <2>1 DEF ReadsOn
<1>9. TextInv'
  <2>1. IsList(string')
    BY <1>1, EmptyList
  <2> QED
    BY <1>1, <2>1, TextStays
<1> QED
  BY <1>8, <1>9

LEMMA KeyReads ==
  ASSUME IInv, TextInv, Key
  PROVE  TextInv' /\ ReadsOn
<1>1. pc = "token" /\ pc # "done" /\ then \in {"key", "next"} /\ ~InList /\ token # "T_OBJECT_END"
  BY DEF Key, For
<1>2. stack # <<>>
  BY <1>1, StackHolds
<1>3. IsInside(stack) /\ Last(stack).kind # "list"
  BY <1>1, <1>2, StackIsInside
<1>4. CASE token = "T_STRING"
  <2>1. /\ pc' = "string" /\ index' = index + 1 /\ string' = <<>> /\ key' = TRUE
        /\ UNCHANGED <<stack, then, result>>
    BY <1>4 DEF Key, BeginString, ConsumeChars
  <2>2. PICK i : i = index + 1
    OBVIOUS
  <2>3. InputInv /\ i \in Positions /\ TokenHere(i) = "T_STRING" /\ index' + 1 = i + 1
    BY <1>1, <1>4, <2>1, <2>2, ReadsHere
  <2>4. i + 1 \in Positions
    BY <2>3, TokensHere, TextGoesOn
  <2>5. \A doc : Pending(doc) <=>
          \E q \in Chars[i + 1] : TokenIn("colon", WithKey(stack, q[1]), q[2], NoValue, doc)
    BY <1>1, <1>3, <2>2, <2>3, KeyLeads, TokenIsPending
  <2>6. \A q \in Chars[i + 1] : <<>> \o q[1] = q[1]
    BY <2>3, <2>4, StringsFollow
  <2>7. ReadsOn
    <3>1. \A doc : PendingAt(pc', index' + 1, then', previous_char', stack', string',
                             key', result', doc)
            <=> \E q \in Chars[i + 1] : TokenIn("colon", WithKey(stack, q[1]), q[2], NoValue, doc)
      BY <2>1, <2>3, <2>6 DEF PendingAt, StringLeadsTo
    <3> QED
      BY <2>5, <3>1 DEF ReadsOn
  <2>8. TextInv'
    <3>1. IsList(string')
      BY <2>1, EmptyList
    <3> QED
      BY <2>1, <3>1, TextStays
  <2> QED
    BY <2>7, <2>8
<1>5. CASE token # "T_STRING"
  <2>1. ParseError("JSON_UNQUOTED_DICTIONARY_KEY", 0, 0)
    BY <1>5 DEF Key
  <2>2. token \notin ExpectedBy(then, stack)
    BY <1>1, <1>3, <1>5 DEF ExpectedBy, ClosingToken
  <2> QED
    BY <1>1, <2>1, <2>2, WrongToken, FailsReads
<1> QED
  BY <1>4, <1>5

LEMMA ClosersFacts ==
  ASSUME IInv, TextInv, ClosesContainer
  PROVE  /\ pc = "token" /\ pc # "done" /\ stack # <<>> /\ IsInside(stack)
         /\ then \in {"item", "key", "next", "separator"}
         /\ \A doc : Pending(doc) <=>
              /\ then = "next" => Has("JSON_ALLOW_TRAILING_COMMAS")
              /\ LeadsTo(Front(stack), ContainerValue(Last(stack)), index + 1 + 1, doc)
<1>1. pc = "token" /\ pc # "done" /\ then \in {"item", "key", "next", "separator"}
  BY DEF ClosesContainer, For
<1>2. stack # <<>>
  BY <1>1, StackHolds
<1>3. IsInside(stack) /\ IsContainer(Last(stack)) /\ (InList <=> Last(stack).kind = "list")
  BY <1>1, <1>2, StackIsInside
<1>4. InputInv /\ index + 1 \in Positions /\ TokenHere(index + 1) = ClosingToken(Last(stack).kind)
  BY <1>1, <1>3, ReadsHere DEF ClosesContainer, ClosingToken
<1>5. ContainerValue(Last(stack)) = Contained(Last(stack).kind, Last(stack).values)
  BY <1>3, ContainerIsContained DEF IsInside
<1> QED
  BY <1>1, <1>2, <1>3, <1>4, <1>5, CloserLeads, TokenIsPending

LEMMA CloseContainerReads ==
  ASSUME IInv, TextInv, CloseContainer
  PROVE  TextInv' /\ ReadsOn
<1>1. /\ ClosesContainer /\ ~Trailing /\ index' = index + 1
      /\ Return(ContainerValue(Last(stack)), Front(stack)) /\ string' = string
  BY DEF CloseContainer, ConsumeChars
<1>2. /\ pc = "token" /\ pc # "done" /\ stack # <<>>
      /\ then = "next" => Has("JSON_ALLOW_TRAILING_COMMAS")
      /\ \A doc : Pending(doc) <=>
           /\ then = "next" => Has("JSON_ALLOW_TRAILING_COMMAS")
           /\ LeadsTo(Front(stack), ContainerValue(Last(stack)), index' + 1, doc)
  BY <1>1, ClosersFacts DEF Trailing, Has
<1>3. ContainerValue(Last(stack)) # NoValue
  BY DEF ContainerValue, NoValue
<1>4. AreContainers(Front(stack)) /\ AreTexts(Front(stack))
  BY <1>2, StackIsInside
<1>5. IsList(string')
  BY <1>1 DEF TextInv
<1> QED
  BY <1>1, <1>2, <1>3, <1>4, <1>5, ReturnReads DEF ReadsOn

LEMMA TrailingCommaReads ==
  ASSUME IInv, TextInv, TrailingComma
  PROVE  TextInv' /\ ReadsOn
<1>1. ClosesContainer /\ Trailing /\ ParseError("JSON_TRAILING_COMMA", 0, 0)
  BY DEF TrailingComma
<1>2. \A doc : ~Pending(doc)
  BY <1>1, ClosersFacts DEF Trailing, Has
<1> QED
  BY <1>1, <1>2, FailsReads

(* A separator is read, and the next token is for the caller.              *)
LEMMA NextTokenReads ==
  ASSUME IInv, TextInv, pc = "token", NEW caller,
         ConsumeChars(1), NextTokenFor(caller), UNCHANGED <<stack, string, key, result>>,
         \A doc : Pending(doc) <=> TokenIn(caller, stack, index + 1 + 1, result, doc)
  PROVE  TextInv' /\ ReadsOn
<1>1. /\ index' = index + 1 /\ pc' = "eat" /\ then' = caller
      /\ UNCHANGED <<stack, string, key, result>>
  BY DEF ConsumeChars, NextTokenFor
<1>2. TextInv'
  BY <1>1, TextStays DEF TextInv
<1>3. ReadsOn
  BY <1>1 DEF ReadsOn, PendingAt
<1> QED
  BY <1>2, <1>3

LEMMA SeparatorReads ==
  ASSUME IInv, TextInv, Separator
  PROVE  TextInv' /\ ReadsOn
<1>1. pc = "token" /\ pc # "done" /\ then = "separator" /\ ~ClosesContainer
  BY DEF Separator, For
<1>2. stack # <<>>
  BY <1>1, StackHolds
<1>3. IsInside(stack) /\ (InList <=> Last(stack).kind = "list")
  BY <1>1, <1>2, StackIsInside
<1>4. InputInv /\ index + 1 \in Positions /\ token = TokenHere(index + 1)
  BY <1>1, ReadsHere
<1>5. CASE token = "T_LIST_SEPARATOR"
  <2>1. \A doc : Pending(doc) <=> TokenIn("next", stack, index + 1 + 1, result, doc)
    BY <1>1, <1>3, <1>4, <1>5, CommaLeads, TokenIsPending
  <2> QED
    BY <1>1, <1>5, <2>1, NextTokenReads DEF Separator
<1>6. CASE token # "T_LIST_SEPARATOR"
  <2>1. ParseError("JSON_SYNTAX_ERROR", 0, 0)
    BY <1>6 DEF Separator
  <2>2. token # ClosingToken(Last(stack).kind)
    BY <1>1, <1>3 DEF ClosesContainer, For, ClosingToken
  <2>3. token \notin ExpectedBy(then, stack)
    BY <1>1, <1>6, <2>2 DEF ExpectedBy
  <2> QED
    BY <1>1, <2>1, <2>3, WrongToken, FailsReads
<1> QED
  BY <1>5, <1>6

LEMMA ColonReads ==
  ASSUME IInv, TextInv, Colon
  PROVE  TextInv' /\ ReadsOn
<1>1. pc = "token" /\ pc # "done" /\ then = "colon"
  BY DEF Colon, For
<1>2. InputInv /\ index + 1 \in Positions /\ token = TokenHere(index + 1)
  BY <1>1, ReadsHere
<1>3. CASE token = "T_OBJECT_PAIR_SEPARATOR"
  <2>1. \A doc : Pending(doc) <=> TokenIn("value", stack, index + 1 + 1, result, doc)
    BY <1>1, <1>2, <1>3, ColonLeads, TokenIsPending
  <2> QED
    BY <1>1, <1>3, <2>1, NextTokenReads DEF Colon
<1>4. CASE token # "T_OBJECT_PAIR_SEPARATOR"
  <2>1. ParseError("JSON_SYNTAX_ERROR", 0, 0)
    BY <1>4 DEF Colon
  <2>2. token \notin ExpectedBy(then, stack)
    BY <1>1, <1>4 DEF ExpectedBy
  <2> QED
    BY <1>1, <2>1, <2>2, WrongToken, FailsReads
<1> QED
  BY <1>3, <1>4

LEMMA EndOfInputReads ==
  ASSUME IInv, TextInv, EndOfInput
  PROVE  TextInv' /\ ReadsOn
<1>1. pc = "token" /\ pc # "done" /\ then = "end"
  BY DEF EndOfInput, For
<1>2. InputInv /\ index + 1 \in Positions /\ token = TokenHere(index + 1)
  BY <1>1, ReadsHere
<1>3. CASE token = "T_END_OF_INPUT"
  <2>1. pc' = "done" /\ UNCHANGED <<index, stack, string, result>>
    BY <1>3 DEF EndOfInput, position
  <2>2. result # NoValue
    BY <1>1, AtToken DEF CallerInv
  <2>3. index + 1 = Size + 1
    BY <1>2, <1>3, TokensHere
  <2>4. \A doc : Pending(doc) <=> doc = result
    BY <1>1, <2>3, TokenIsPending DEF TokenAt
  <2>5. ReadsOn
    BY <2>1, <2>2, <2>4 DEF ReadsOn, PendingAt
  <2>6. TextInv'
    BY <2>1, TextStays DEF TextInv
  <2> QED
    BY <2>5, <2>6
<1>4. CASE token # "T_END_OF_INPUT"
  <2>1. ParseError("JSON_UNEXPECTED_DATA_AFTER_ROOT", 0, 0)
    BY <1>4 DEF EndOfInput
  <2>2. token \notin ExpectedBy(then, stack)
    BY <1>1, <1>4 DEF ExpectedBy
  <2> QED
    BY <1>1, <2>1, <2>2, WrongToken, FailsReads
<1> QED
  BY <1>3, <1>4

-----------------------------------------------------------------------------
(* A string reads what the grammar reads.                                  *)

LEMMA StringIsPending ==
  ASSUME IInv, TextInv, InString
  PROVE  /\ pc = "string" /\ pc # "done" /\ InputInv /\ IsList(string)
         /\ index \in Nat /\ index + 1 \in Positions
         /\ Size \in Nat /\ Size = Len(input) /\ Positions = 1 .. Size + 1
         /\ PeekChar # "end" => index + 1 <= Size /\ input[index + 1] = PeekChar
         /\ PeekChar = "end" => index + 1 > Size
         /\ QuoteAt(index + 1) <=> PeekChar = "\""
         /\ \A doc : Pending(doc) <=>
              \E q \in Chars[index + 1] : StringLeadsTo(stack, string \o q[1], key, q[2], doc)
         /\ \A r : r \in Chars[index + 1] <=>
              /\ index + 1 <= Size
              /\ \/ QuoteAt(index + 1) /\ r = <<<<>>, (index + 1) + 1>>
                 \/ /\ ~QuoteAt(index + 1)
                    /\ \E c \in CharAt(index + 1) : r \in Followed(c, Chars[c[2]])
<1>1. pc = "string" /\ pc # "done"
  BY DEF InString
<1>2. /\ InputInv /\ index \in Nat /\ index + 1 \in Positions
      /\ PeekChar = At(index + 1)
      /\ PeekChar = "end" <=> index + 1 = Size + 1
      /\ PeekChar # "end" => index + 1 <= Size /\ input[index + 1] = PeekChar
  BY <1>1, ReadsHere
<1>3. PICK i : i = index + 1
  OBVIOUS
<1>4. Size \in Nat /\ Size = Len(input) /\ Positions = 1 .. Size + 1
  BY <1>2, SizeTyped DEF Size
<1>5. QuoteAt(i) <=> PeekChar = "\""
  <2>1. "\"" # "end"
    BY Zenon
  <2>2. \A c : c # "end" => (Is(i, c) <=> At(i) = c)
    BY <1>2, <1>3, CharHere
  <2>3. PeekChar = At(i)
    BY <1>2, <1>3
  <2> QED
    BY <2>1, <2>2, <2>3, Zenon DEF QuoteAt
<1>6. \A doc : Pending(doc) <=>
        \E q \in Chars[i] : StringLeadsTo(stack, string \o q[1], key, q[2], doc)
  BY <1>1, <1>3 DEF Pending, PendingAt
<1>7. \A r : r \in Chars[i] <=>
        /\ ~(i > Size)
        /\ \/ QuoteAt(i) /\ r = <<<<>>, i + 1>>
           \/ ~QuoteAt(i) /\ \E c \in CharAt(i) : r \in Followed(c, Chars[c[2]])
  <2>1. Chars[i] = CharsBody(Chars, i)
    BY <1>2, <1>3, CharsUnfold DEF CharsRead
  <2> QED
    BY <2>1, CharsBodyHas
<1>8. ~(i > Size) <=> i <= Size
  BY <1>2, <1>3, <1>4
<1>9. PeekChar = "end" => index + 1 > Size
  BY <1>2, <1>4
<1>10. IsList(string)
  BY DEF TextInv
<1> QED
  BY <1>1, <1>2, <1>3, <1>4, <1>5, <1>6, <1>7, <1>8, <1>9, <1>10

(* The grammar reads no character where the parser fails.                  *)
LEMMA NoCharacter ==
  ASSUME IInv, TextInv, InString,
         \/ PeekChar = "end"
         \/ ~QuoteAt(index + 1) /\ CharAt(index + 1) = {}
  PROVE  \A doc : ~Pending(doc)
<1>1. \A r : r \notin Chars[index + 1]
  <2>1. CASE PeekChar = "end"
    BY <2>1, StringIsPending
  <2>2. CASE ~QuoteAt(index + 1) /\ CharAt(index + 1) = {}
    BY <2>2, StringIsPending
  <2> QED
    BY <2>1, <2>2
<1> QED
  BY <1>1, StringIsPending

(* A piece of the string goes to the string.                               *)
LEMMA TextLeads ==
  ASSUME IsList(string), NEW c, NEW q, IsList(q), NEW p, NEW doc
  PROVE  StringLeadsTo(stack, Append(string, c) \o q, key, p, doc)
           <=> StringLeadsTo(stack, string \o (<<c>> \o q), key, p, doc)
<1>1. Before(string, c, q) = Behind(string, c, q)
  BY ListsShift
<1>2. StringLeadsTo(stack, Before(string, c, q), key, p, doc)
        <=> StringLeadsTo(stack, Behind(string, c, q), key, p, doc)
  BY <1>1
<1> QED
  BY <1>2 DEF Before, Behind

(* The n characters from here on are the piece c of the string.            *)
IsPiece(c, n) ==
  /\ PeekChar # "end"
  /\ ~QuoteAt(index + 1)
  /\ CharAt(index + 1) = {<<c, (index + 1) + n>>}
Appended(c) == string' = Append(string, c)

LEMMA PieceReads ==
  ASSUME IInv, TextInv, InString, NEW c, NEW n \in Nat, IsPiece(c, n),
         pc' = pc, index' = index + n, Appended(c), UNCHANGED <<stack, key>>
  PROVE  TextInv' /\ ReadsOn
<1>1. PICK i, j : i = index + 1 /\ j = i + n
  OBVIOUS
<1>2. /\ pc = "string" /\ InputInv /\ IsList(string)
      /\ i \in 1 .. Size /\ ~QuoteAt(i) /\ CharAt(i) = {<<c, j>>}
      /\ index' + 1 = j
  <2>1. /\ pc = "string" /\ InputInv /\ IsList(string) /\ index \in Nat
        /\ index + 1 <= Size /\ ~QuoteAt(index + 1) /\ Size \in Nat
        /\ CharAt(index + 1) = {<<c, (index + 1) + n>>}
    BY StringIsPending DEF IsPiece
  <2> QED
    BY <1>1, <2>1
<1>3. j \in Positions
  <2>1. PICK d \in CharAt(i) : d = <<c, j>>
    BY <1>2
  <2>2. j \in i + 1 .. Size + 1
    BY <1>2, <2>1, CharIsRead
  <2> QED
    BY <1>2, <2>2, SizeTyped
<1>4. \A r : r \in Chars[i] <=> \E q \in Chars[j] : r = <<<<c>> \o q[1], q[2]>>
  <2>1. \A r : r \in Chars[i] <=> \E d \in CharAt(i) : r \in Followed(d, Chars[d[2]])
    <3>1. \A r : r \in Chars[i] <=>
            /\ i <= Size
            /\ \/ QuoteAt(i) /\ r = <<<<>>, i + 1>>
               \/ ~QuoteAt(i) /\ \E d \in CharAt(i) : r \in Followed(d, Chars[d[2]])
      BY <1>1, StringIsPending, Zenon
    <3>2. i <= Size /\ ~QuoteAt(i)
      BY <1>2
    <3> QED
      BY <3>1, <3>2, Zenon
  <2>2. PICK d : d = <<c, j>>
    OBVIOUS
  <2>3. d[2] = j /\ d[1] = c /\ \A x : x \in CharAt(i) <=> x = d
    BY <1>2, <2>2
  <2>4. \A r : r \in Chars[i] <=> r \in Followed(d, Chars[j])
    BY <2>1, <2>3
  <2>5. \A r : r \in Followed(d, Chars[j]) <=> \E q \in Chars[j] : r = <<<<c>> \o q[1], q[2]>>
    BY <2>3 DEF Followed
  <2> QED
    BY <2>4, <2>5
<1>5. \A q \in Chars[j] : IsList(q[1])
  BY <1>2, <1>3, StringsFollow
<1>6. \A doc : Pending(doc) <=>
        \E q \in Chars[j] : StringLeadsTo(stack, string \o (<<c>> \o q[1]), key, q[2], doc)
  <2>1. ASSUME NEW doc, Pending(doc)
        PROVE  \E q \in Chars[j] : StringLeadsTo(stack, string \o (<<c>> \o q[1]), key, q[2], doc)
    <3>1. PICK r \in Chars[i] : StringLeadsTo(stack, string \o r[1], key, r[2], doc)
      BY <1>1, <2>1, StringIsPending
    <3>2. PICK q \in Chars[j] : r = <<<<c>> \o q[1], q[2]>>
      BY <1>4
    <3>3. r[1] = <<c>> \o q[1] /\ r[2] = q[2]
      BY <3>2
    <3> QED
      BY <3>1, <3>3, Zenon
  <2>2. ASSUME NEW doc, NEW q \in Chars[j],
               StringLeadsTo(stack, string \o (<<c>> \o q[1]), key, q[2], doc)
        PROVE  Pending(doc)
    <3>1. PICK r : r = <<<<c>> \o q[1], q[2]>>
      OBVIOUS
    <3>2. r \in Chars[i]
      BY <1>4, <3>1
    <3>3. r[1] = <<c>> \o q[1] /\ r[2] = q[2]
      BY <3>1
    <3>4. StringLeadsTo(stack, string \o r[1], key, r[2], doc)
      BY <2>2, <3>3, Zenon
    <3> QED
      BY <1>1, <3>2, <3>4, StringIsPending
  <2> QED
    BY <2>1, <2>2
<1>7. \A doc : PendingAt(pc', index' + 1, then', previous_char', stack', string',
                         key', result', doc)
        <=> \E q \in Chars[j] : StringLeadsTo(stack, Append(string, c) \o q[1], key, q[2], doc)
  <2>1. PICK t : t = Append(string, c) /\ string' = t
    BY Zenon DEF Appended
  <2>2. pc' = "string" /\ stack' = stack /\ key' = key
    BY <1>2
  <2>3. \A doc : PendingAt(pc', index' + 1, then', previous_char', stack', string',
                           key', result', doc)
          <=> \E q \in Chars[j] : StringLeadsTo(stack, t \o q[1], key, q[2], doc)
    BY <1>2, <2>1, <2>2 DEF PendingAt
  <2> QED
    BY <2>1, <2>3, Zenon
<1>8. ReadsOn
  <2>1. ASSUME NEW doc, NEW q \in Chars[j]
        PROVE  StringLeadsTo(stack, Append(string, c) \o q[1], key, q[2], doc)
                 <=> StringLeadsTo(stack, string \o (<<c>> \o q[1]), key, q[2], doc)
    BY <1>2, <1>5, TextLeads
  <2> QED
    BY <1>6, <1>7, <2>1, Zenon DEF ReadsOn
<1>9. TextInv'
  <2>1. IsList(Append(string, c))
    BY <1>2, EmptyList, ListsJoin
  <2>2. IsList(string')
    BY <2>1, Zenon DEF Appended
  <2>3. pc' # "block_comment"
    BY <1>2
  <2> QED
    BY <2>2, <2>3, TextStays
<1> QED
  BY <1>8, <1>9

LEMMA WriteReads ==
  ASSUME IInv, TextInv, InString, NEW c, NEW n \in Nat, IsPiece(c, n), Write(c, n)
  PROVE  TextInv' /\ ReadsOn
<1>1. pc' = pc /\ index' = index + n /\ UNCHANGED <<stack, key>>
  BY DEF Write, ConsumeChars
<1>2. Appended(c)
  BY Zenon DEF Write, Appended
<1> QED
  BY <1>1, <1>2, PieceReads

LEMMA CharIs ==
  ASSUME NEW i
  PROVE  /\ input[i] \in Controls => CharAt(i) = {}
         /\ input[i] = "\\" => CharAt(i) = EscapeAt(i)
         /\ input[i] \in LineBreaks =>
              CharAt(i) = IF Has("JSON_ALLOW_NEWLINES_IN_STRINGS")
                            THEN {<<<<input[i]>>, i + 1>>} ELSE {}
         /\ input[i] = "bad" =>
              CharAt(i) = IF Has("JSON_REPLACE_INVALID_CHARACTERS")
                            THEN {<<Replacement, i + 1>>} ELSE {}
         /\ input[i] \notin {"end", "\"", "\\", "bad"} \cup Controls \cup LineBreaks =>
              CharAt(i) = {<<<<input[i]>>, i + 1>>}
<1>1. input[i] \in Controls => CharAt(i) = {}
  BY Zenon DEF CharAt, Controls, LineBreaks
<1>2. input[i] = "\\" => CharAt(i) = EscapeAt(i)
  BY Zenon DEF CharAt, Controls, LineBreaks
<1>3. input[i] \in LineBreaks =>
        CharAt(i) = IF Has("JSON_ALLOW_NEWLINES_IN_STRINGS")
                      THEN {<<<<input[i]>>, i + 1>>} ELSE {}
  BY Zenon DEF CharAt, Controls, LineBreaks
<1>4. input[i] = "bad" =>
        CharAt(i) = IF Has("JSON_REPLACE_INVALID_CHARACTERS")
                      THEN {<<Replacement, i + 1>>} ELSE {}
  BY Zenon DEF CharAt, Controls, LineBreaks
<1>5. input[i] \notin {"end", "\"", "\\", "bad"} \cup Controls \cup LineBreaks =>
        CharAt(i) = {<<<<input[i]>>, i + 1>>}
  BY Zenon DEF CharAt, Controls, LineBreaks
<1> QED
  BY <1>1, <1>2, <1>3, <1>4, <1>5

LEMMA CharacterIsThere ==
  ASSUME IInv, TextInv, InString, PeekChar \notin {"end", "\""}
  PROVE  /\ ~QuoteAt(index + 1) /\ PeekChar # "end"
         /\ input[index + 1] = PeekChar
BY StringIsPending, Zenon

LEMMA CopyCharacterReads ==
  ASSUME IInv, TextInv, CopyCharacter
  PROVE  TextInv' /\ ReadsOn
<1>1. InString /\ Write(<<PeekChar>>, 1)
  BY Zenon DEF CopyCharacter
<1>2. /\ ~QuoteAt(index + 1) /\ PeekChar # "end"
      /\ CharAt(index + 1) = {<<<<PeekChar>>, (index + 1) + 1>>}
  <2>1. InString /\ PeekChar \notin {"end", "\""}
    BY Zenon DEF CopyCharacter
  <2>2. PeekChar \notin {"end", "\"", "\\", "bad"} \cup Controls \cup LineBreaks
    BY Zenon DEF CopyCharacter
  <2> QED
    BY <2>1, <2>2, CharacterIsThere, CharIs, Zenon
<1>3. IsPiece(<<PeekChar>>, 1)
  BY <1>2 DEF IsPiece
<1> QED
  BY <1>1, <1>3, WriteReads

LEMMA InvalidCharacterReads ==
  ASSUME IInv, TextInv, InvalidCharacter
  PROVE  TextInv' /\ ReadsOn
<1>1. /\ InString /\ ~QuoteAt(index + 1) /\ PeekChar # "end"
      /\ CharAt(index + 1) = IF ReplacesInvalid THEN {<<Replacement, (index + 1) + 1>>} ELSE {}
  <2>1. InString /\ PeekChar \notin {"end", "\""} /\ PeekChar = "bad"
    BY Zenon DEF InvalidCharacter
  <2> QED
    BY <2>1, CharacterIsThere, CharIs, Zenon DEF Has, ReplacesInvalid
<1>2. CASE ReplacesInvalid
  <2>1. IsPiece(Replacement, 1) /\ Write(Replacement, 1)
    BY <1>1, <1>2 DEF IsPiece, InvalidCharacter
  <2> QED
    BY <1>1, <2>1, WriteReads
<1>3. CASE ~ReplacesInvalid
  <2>1. ParseError("JSON_UNSUPPORTED_ENCODING", 0, 0)
    BY <1>3 DEF InvalidCharacter
  <2> QED
    BY <1>1, <1>3, <2>1, NoCharacter, FailsReads
<1> QED
  BY <1>2, <1>3

LEMMA LineBreakInStringReads ==
  ASSUME IInv, TextInv, LineBreakInString
  PROVE  TextInv' /\ ReadsOn
<1>1. /\ InString /\ ~QuoteAt(index + 1) /\ PeekChar # "end"
      /\ CharAt(index + 1) = IF Has("JSON_ALLOW_NEWLINES_IN_STRINGS")
                               THEN {<<<<PeekChar>>, (index + 1) + 1>>} ELSE {}
  <2>1. InString /\ PeekChar \notin {"end", "\""} /\ PeekChar \in LineBreaks
    BY Zenon DEF LineBreakInString, LineBreaks
  <2> QED
    BY <2>1, CharacterIsThere, CharIs, Zenon
<1>2. CASE Has("JSON_ALLOW_NEWLINES_IN_STRINGS")
  <2>1. IsPiece(<<PeekChar>>, 1)
    BY <1>1, <1>2 DEF IsPiece
  <2>2. index' = index + 1 /\ UNCHANGED <<pc, stack, key>> /\ Appended(<<PeekChar>>)
    BY <1>2, Zenon DEF LineBreakInString, Has, Appended, ConsumeLineBreak
  <2> QED
    BY <1>1, <2>1, <2>2, PieceReads
<1>3. CASE ~Has("JSON_ALLOW_NEWLINES_IN_STRINGS")
  <2>1. ParseError("JSON_UNSUPPORTED_ENCODING", -1, 0)
    BY <1>3 DEF LineBreakInString, Has
  <2> QED
    BY <1>1, <1>3, <2>1, NoCharacter, FailsReads
<1> QED
  BY <1>2, <1>3

LEMMA ControlCharacterReads ==
  ASSUME IInv, TextInv, ControlCharacter
  PROVE  TextInv' /\ ReadsOn
<1>1. InString /\ ~QuoteAt(index + 1) /\ CharAt(index + 1) = {}
  <2>1. InString /\ PeekChar \notin {"end", "\""} /\ PeekChar \in Controls
    BY Zenon DEF ControlCharacter, Controls
  <2> QED
    BY <2>1, CharacterIsThere, CharIs, Zenon
<1>2. ParseError("JSON_UNSUPPORTED_ENCODING", -1, 0)
  BY DEF ControlCharacter
<1> QED
  BY <1>1, <1>2, NoCharacter, FailsReads

LEMMA UnterminatedStringReads ==
  ASSUME IInv, TextInv, UnterminatedString
  PROVE  TextInv' /\ ReadsOn
BY NoCharacter, FailsReads DEF UnterminatedString

-----------------------------------------------------------------------------
(* Escapes.                                                                *)

LEMMA EscapeHas ==
  ASSUME NEW i, NEW r
  PROVE  r \in EscapeAt(i) <=>
           \/ \E e \in Escaped : Is(i + 1, e[1]) /\ r = <<<<e[2]>>, i + 2>>
           \/ /\ Has("JSON_ALLOW_X_ESCAPES") /\ Is(i + 1, "x") /\ i + 3 <= Size
              /\ input[i + 2] \in HexDigits /\ input[i + 3] \in HexDigits
              /\ r = <<SubSeq(input, i + 2, i + 3), i + 4>>
           \/ r \in UnicodeAt(i)
BY Zenon DEF EscapeAt

LEMMA SimpleEscapesAre ==
  /\ DOMAIN SimpleEscapes = {"\"", "\\", "/", "b", "f", "n", "r", "t"}
  /\ SimpleEscapes["\""] = "\"" /\ SimpleEscapes["\\"] = "\\" /\ SimpleEscapes["/"] = "/"
  /\ SimpleEscapes["b"] = "backspace" /\ SimpleEscapes["f"] = "form feed"
  /\ SimpleEscapes["n"] = "\n" /\ SimpleEscapes["r"] = "\r" /\ SimpleEscapes["t"] = "\t"
BY Zenon DEF SimpleEscapes

(* The escape c stands for s.                                              *)
IsEscaped(c, s) ==
  \/ c \in DOMAIN SimpleEscapes /\ s = SimpleEscapes[c]
  \/ Has("JSON_ALLOW_VERT_TAB") /\ c = "v" /\ s = "vertical tab"

LEMMA EscapedAre ==
  /\ \A e \in Escaped : IsEscaped(e[1], e[2])
  /\ \A c, s : IsEscaped(c, s) => <<c, s>> \in Escaped
<1> DEFINE Pairs ==
      {<<"\"", "\"">>, <<"\\", "\\">>, <<"/", "/">>, <<"b", "backspace">>,
       <<"f", "form feed">>, <<"n", "\n">>, <<"r", "\r">>, <<"t", "\t">>}
<1>1. \A e : e \in Escaped <=>
        \/ e \in Pairs
        \/ Has("JSON_ALLOW_VERT_TAB") /\ e = <<"v", "vertical tab">>
  BY Zenon DEF Escaped
<1>2. PICK q, b, s, n, r, t :
        q = "\"" /\ b = "\\" /\ s = "/" /\ n = "\n" /\ r = "\r" /\ t = "\t"
  BY Zenon
<1>3. Pairs = {<<q, q>>, <<b, b>>, <<s, s>>, <<"b", "backspace">>,
               <<"f", "form feed">>, <<"n", n>>, <<"r", r>>, <<"t", t>>}
  BY <1>2, Zenon
<1>4. /\ DOMAIN SimpleEscapes = {q, b, s, "b", "f", "n", "r", "t"}
      /\ SimpleEscapes[q] = q /\ SimpleEscapes[b] = b /\ SimpleEscapes[s] = s
      /\ SimpleEscapes["b"] = "backspace" /\ SimpleEscapes["f"] = "form feed"
      /\ SimpleEscapes["n"] = n /\ SimpleEscapes["r"] = r /\ SimpleEscapes["t"] = t
  BY <1>2, SimpleEscapesAre, Zenon
<1> HIDE DEF Pairs
<1>5. ASSUME NEW e \in Pairs
      PROVE  e[1] \in DOMAIN SimpleEscapes /\ e[2] = SimpleEscapes[e[1]]
  <2>1. PICK x, z :
          /\ e = <<x, z>>
          /\ \/ x \in {q, b, s} /\ z = x
             \/ x = "b" /\ z = "backspace"
             \/ x = "f" /\ z = "form feed"
             \/ x = "n" /\ z = n
             \/ x = "r" /\ z = r
             \/ x = "t" /\ z = t
    BY <1>3
  <2>2. e[1] = x /\ e[2] = z
    BY <2>1
  <2>3. x \in DOMAIN SimpleEscapes /\ z = SimpleEscapes[x]
    BY <1>4, <2>1, Zenon
  <2> QED
    BY <2>2, <2>3
<1>6. ASSUME NEW c \in DOMAIN SimpleEscapes PROVE <<c, SimpleEscapes[c]>> \in Pairs
  BY <1>3, <1>4
<1>7. ASSUME NEW e \in Escaped PROVE IsEscaped(e[1], e[2])
  <2>1. CASE e \in Pairs
    BY <1>5, <2>1 DEF IsEscaped
  <2>2. CASE Has("JSON_ALLOW_VERT_TAB") /\ e = <<"v", "vertical tab">>
    BY <2>2 DEF IsEscaped
  <2> QED
    BY <1>1, <2>1, <2>2
<1>8. ASSUME NEW c, NEW z, IsEscaped(c, z) PROVE <<c, z>> \in Escaped
  <2>1. CASE c \in DOMAIN SimpleEscapes /\ z = SimpleEscapes[c]
    BY <1>1, <1>6, <2>1
  <2>2. CASE Has("JSON_ALLOW_VERT_TAB") /\ c = "v" /\ z = "vertical tab"
    BY <1>1, <2>2
  <2> QED
    BY <1>8, <2>1, <2>2 DEF IsEscaped
<1> QED
  BY <1>7, <1>8

LEMMA EscapeIsThere ==
  ASSUME IInv, TextInv, Escape
  PROVE  /\ InString /\ InputInv /\ ~QuoteAt(index + 1) /\ PeekChar # "end"
         /\ index \in Nat /\ Size \in Nat /\ Size = Len(input)
         /\ Is(index + 1, "\\")
         /\ CharAt(index + 1) = EscapeAt(index + 1)
         /\ \A c : c # "end" => (Is((index + 1) + 1, c) <=> EscapeChar = c)
<1>1. InString /\ PeekChar \notin {"end", "\""} /\ PeekChar = "\\"
  BY Zenon DEF Escape
<1>2. ~QuoteAt(index + 1) /\ PeekChar # "end" /\ input[index + 1] = PeekChar
  BY <1>1, CharacterIsThere, Zenon
<1>3. CharAt(index + 1) = EscapeAt(index + 1)
  BY <1>1, <1>2, CharIs, Zenon
<1>4. /\ InputInv /\ index \in Nat /\ Size \in Nat /\ Size = Len(input)
      /\ index + 1 <= Size /\ Positions = 1 .. Size + 1
  <2> HIDE DEF Escape
  <2>1. InString /\ PeekChar # "end"
    BY <1>1, <1>2, Zenon
  <2> QED
    BY <2>1, StringIsPending
<1>5. Is(index + 1, "\\")
  BY <1>1, <1>2, <1>4, Zenon DEF Is
<1>6. \A c : c # "end" => (Is((index + 1) + 1, c) <=> EscapeChar = c)
  <2>1. PICK j : j = index + 2
    OBVIOUS
  <2>2. j \in Positions /\ (index + 1) + 1 = j /\ EscapeChar = At(j)
    BY <1>4, <2>1 DEF EscapeChar
  <2>3. \A c : c # "end" => (Is(j, c) <=> At(j) = c)
    BY <1>4, <2>2, CharHere
  <2> QED
    BY <2>2, <2>3
<1> QED
  BY <1>1, <1>2, <1>3, <1>4, <1>5, <1>6, Zenon

LEMMA EscapeReads ==
  ASSUME IInv, TextInv, Escape, NEW c, NEW n \in Nat,
         EscapeAt(index + 1) = {<<c, (index + 1) + n>>}, Write(c, n)
  PROVE  TextInv' /\ ReadsOn
<1>1. InString /\ IsPiece(c, n)
  BY EscapeIsThere, Zenon DEF IsPiece
<1> QED
  BY <1>1, WriteReads

LEMMA NoEscapeReads ==
  ASSUME IInv, TextInv, Escape, EscapeAt(index + 1) = {},
         NEW code, NEW column_adjust, NEW n, ParseError(code, column_adjust, n)
  PROVE  TextInv' /\ ReadsOn
<1>1. InString /\ ~QuoteAt(index + 1) /\ CharAt(index + 1) = {}
  BY EscapeIsThere, Zenon
<1> QED
  BY <1>1, NoCharacter, FailsReads

LEMMA EscapeCharsApart ==
  /\ \A c \in {"x", "u", "v", "end"} : c \notin DOMAIN SimpleEscapes
  /\ "x" # "u" /\ "x" # "v" /\ "u" # "v" /\ "x" # "end" /\ "u" # "end" /\ "v" # "end"
  /\ \A c, s : IsEscaped(c, s) => c \notin {"x", "u", "end"}
<1>1. \A c \in {"x", "u", "v", "end"} : c \notin DOMAIN SimpleEscapes
  BY SimpleEscapesAre, Zenon
<1> QED
  BY <1>1 DEF IsEscaped

(* Hex digits from j on.                                                   *)
LEMMA HexHere ==
  ASSUME InputInv, NEW j \in Nat \ {0}, NEW n \in Nat
  PROVE  IsHex(j, n) <=> j + n - 1 <= Size /\ \A k \in j .. j + n - 1 : input[k] \in HexDigits
<1>1. Size \in Nat /\ Size = Len(input)
  BY SizeTyped DEF Size
<1>2. j + n - 1 <= Size => \A k \in j .. j + n - 1 : At(k) = input[k]
  BY <1>1 DEF At
<1> QED
  BY <1>1, <1>2 DEF IsHex, Arrived

LEMMA EscapesAre ==
  ASSUME IInv, TextInv, Escape, NEW i, i = index + 1, NEW r
  PROVE  r \in EscapeAt(i) <=>
           \/ \E z : IsEscaped(EscapeChar, z) /\ r = <<<<z>>, i + 2>>
           \/ /\ EscapeChar = "x" /\ Has("JSON_ALLOW_X_ESCAPES") /\ IsHex(index + 3, 2)
              /\ r = <<Unit(index + 3, 2), i + 4>>
           \/ EscapeChar = "u" /\ r \in UnicodeAt(i)
<1>1. /\ InputInv /\ index \in Nat /\ Size \in Nat
      /\ \A c : c # "end" => (Is(i + 1, c) <=> EscapeChar = c)
  <2>1. /\ InputInv /\ index \in Nat /\ Size \in Nat
        /\ \A c : c # "end" => (Is((index + 1) + 1, c) <=> EscapeChar = c)
    BY EscapeIsThere, Zenon
  <2> QED
    BY <2>1
<1>2. (\E e \in Escaped : Is(i + 1, e[1]) /\ r = <<<<e[2]>>, i + 2>>)
        <=> \E z : IsEscaped(EscapeChar, z) /\ r = <<<<z>>, i + 2>>
  <2>1. ASSUME NEW e \in Escaped, Is(i + 1, e[1]), r = <<<<e[2]>>, i + 2>>
        PROVE  \E z : IsEscaped(EscapeChar, z) /\ r = <<<<z>>, i + 2>>
    <3>1. IsEscaped(e[1], e[2])
      BY EscapedAre
    <3>2. EscapeChar = e[1]
      BY <1>1, <2>1, <3>1, EscapeCharsApart
    <3> QED
      BY <2>1, <3>1, <3>2
  <2>2. ASSUME NEW z, IsEscaped(EscapeChar, z), r = <<<<z>>, i + 2>>
        PROVE  \E e \in Escaped : Is(i + 1, e[1]) /\ r = <<<<e[2]>>, i + 2>>
    <3>1. PICK e \in Escaped : e = <<EscapeChar, z>>
      BY <2>2, EscapedAre
    <3>2. e[1] = EscapeChar /\ e[2] = z
      BY <3>1
    <3>3. Is(i + 1, EscapeChar)
      BY <1>1, <2>2, EscapeCharsApart
    <3> QED
      BY <2>2, <3>2, <3>3
  <2> QED
    BY <2>1, <2>2
<1>3. /\ Is(i + 1, "x") /\ i + 3 <= Size
      /\ input[i + 2] \in HexDigits /\ input[i + 3] \in HexDigits
      <=> EscapeChar = "x" /\ IsHex(index + 3, 2)
  <2>1. PICK j \in Nat \ {0} : j = index + 3
    BY <1>1
  <2>2. j + 2 - 1 = i + 3 /\ \A k : k \in j .. j + 2 - 1 <=> k = i + 2 \/ k = i + 3
    BY <1>1, <2>1
  <2>3. IsHex(j, 2) <=> i + 3 <= Size /\ input[i + 2] \in HexDigits /\ input[i + 3] \in HexDigits
    BY <1>1, <2>2, HexHere
  <2> QED
    BY <1>1, <2>1, <2>3, EscapeCharsApart
<1>4. SubSeq(input, i + 2, i + 3) = Unit(index + 3, 2)
  <2>1. i + 2 = index + 3 /\ i + 3 = (index + 3) + 2 - 1
    BY <1>1
  <2> QED
    BY <2>1 DEF Unit
<1>5. r \in UnicodeAt(i) => EscapeChar = "u"
  <2>1. r \in UnicodeAt(i) => IsUnit(i)
    BY Zenon DEF UnicodeAt
  <2>2. IsUnit(i) => Is(i + 1, "u")
    BY Zenon DEF IsUnit
  <2> QED
    BY <1>1, <2>1, <2>2, EscapeCharsApart
<1> QED
  BY <1>2, <1>3, <1>4, <1>5, EscapeHas

LEMMA SimpleEscapeReads ==
  ASSUME IInv, TextInv, SimpleEscape
  PROVE  TextInv' /\ ReadsOn
<1>1. Escape
  BY DEF SimpleEscape
<1>2. PICK z : IsEscaped(EscapeChar, z) /\ Write(<<z>>, 2)
  <2>1. CASE EscapeChar \in DOMAIN SimpleEscapes /\ Write(<<SimpleEscapes[EscapeChar]>>, 2)
    BY <2>1, Zenon DEF IsEscaped
  <2>2. CASE EscapeChar = "v" /\ Write(<<"vertical tab">>, 2)
    <3>1. Allowed("v")
      BY <2>2, Zenon DEF SimpleEscape
    <3>2. "v" \notin DOMAIN SimpleEscapes /\ "v" # "u" /\ "v" # "x"
      BY EscapeCharsApart
    <3>3. Has("JSON_ALLOW_VERT_TAB")
      BY <3>1, <3>2, Zenon DEF Allowed, Has
    <3> QED
      BY <2>2, <3>3, Zenon DEF IsEscaped
  <2> QED
    BY <2>1, <2>2, Zenon DEF SimpleEscape
<1>3. \A y : IsEscaped(EscapeChar, y) => y = z
  <2>1. "v" \notin DOMAIN SimpleEscapes
    BY EscapeCharsApart
  <2>2. IsEscaped(EscapeChar, z)
    BY <1>2
  <2>3. PICK c : c = EscapeChar
    OBVIOUS
  <2>4. ASSUME NEW y, IsEscaped(c, y) PROVE y = z
    <3>1. CASE c = "v"
      BY <2>1, <2>2, <2>3, <2>4, <3>1 DEF IsEscaped
    <3>2. CASE c # "v"
      BY <2>2, <2>3, <2>4, <3>2 DEF IsEscaped
    <3> QED
      BY <3>1, <3>2
  <2> QED
    BY <2>3, <2>4
<1>4. EscapeChar \notin {"x", "u"}
  BY <1>2, EscapeCharsApart
<1>5. \A r : r \in EscapeAt(index + 1) <=> r = <<<<z>>, (index + 1) + 2>>
  BY <1>1, <1>2, <1>3, <1>4, EscapesAre
<1>6. EscapeAt(index + 1) = {<<<<z>>, (index + 1) + 2>>}
  BY <1>5, Zenon
<1> QED
  BY <1>1, <1>2, <1>6, EscapeReads

LEMMA UnknownEscapeReads ==
  ASSUME IInv, TextInv, UnknownEscape
  PROVE  TextInv' /\ ReadsOn
<1>1. Escape /\ ~Allowed(EscapeChar)
  BY DEF UnknownEscape
<1>2. /\ EscapeChar # "u"
      /\ EscapeChar = "x" => ~Has("JSON_ALLOW_X_ESCAPES")
      /\ \A z : ~IsEscaped(EscapeChar, z)
  BY <1>1, Zenon DEF Allowed, IsEscaped, Has
<1>3. \A r : r \notin EscapeAt(index + 1)
  BY <1>1, <1>2, EscapesAre
<1>4. EscapeAt(index + 1) = {}
  BY <1>3
<1>5. \E n : ParseError("JSON_INVALID_ESCAPE", -1, n)
  BY Zenon DEF UnknownEscape
<1> QED
  BY <1>1, <1>4, <1>5, NoEscapeReads

LEMMA HexEscapeReads ==
  ASSUME IInv, TextInv, HexEscape
  PROVE  TextInv' /\ ReadsOn
<1>1. Escape /\ EscapeChar = "x" /\ Allowed("x")
  BY DEF HexEscape
<1>2. "x" \notin DOMAIN SimpleEscapes /\ "x" # "u" /\ "x" # "v"
      /\ \A z : ~IsEscaped(EscapeChar, z)
  BY <1>1, EscapeCharsApart
<1>3. Has("JSON_ALLOW_X_ESCAPES")
  BY <1>1, <1>2, Zenon DEF Allowed, Has
<1>4. \A r : r \in EscapeAt(index + 1) <=>
        IsHex(index + 3, 2) /\ r = <<Unit(index + 3, 2), (index + 1) + 4>>
  BY <1>1, <1>2, <1>3, EscapesAre
<1>5. CASE IsHex(index + 3, 2)
  <2>1. EscapeAt(index + 1) = {<<Unit(index + 3, 2), (index + 1) + 4>>}
    BY <1>4, <1>5, Zenon
  <2>2. Write(Unit(index + 3, 2), 4)
    BY <1>5, Zenon DEF HexEscape
  <2> QED
    BY <1>1, <2>1, <2>2, EscapeReads
<1>6. CASE ~IsHex(index + 3, 2)
  <2>1. EscapeAt(index + 1) = {}
    BY <1>4, <1>6
  <2>2. \E n : ParseError("JSON_INVALID_ESCAPE", -3, n)
    BY <1>6, Zenon DEF HexEscape
  <2> QED
    BY <1>1, <2>1, <2>2, NoEscapeReads
<1> QED
  BY <1>5, <1>6

(* A \u escape begins at j.                                                *)
UnitBegins(j) == Is(j, "\\") /\ Is(j + 1, "u")

LEMMA UnitHere ==
  ASSUME InputInv, NEW j \in Nat \ {0}, NEW k, k = j + 2
  PROVE  /\ IsUnit(j) <=> UnitBegins(j) /\ IsHex(k, 4)
         /\ UnitAt(j) = Unit(k, 4)
         /\ IsHex(k, 4) => Unit(k, 4) \in Seq(STRING) /\ Len(Unit(k, 4)) = 4
<1>1. Size \in Nat /\ Size = Len(input) /\ \A n \in 1 .. Size : input[n] \in STRING
  BY SizeTyped DEF Size
<1>2. k \in Nat \ {0} /\ k + 4 - 1 = j + 5
  OBVIOUS
<1>3. IsHex(k, 4) <=> j + 5 <= Size /\ \A n \in j + 2 .. j + 5 : input[n] \in HexDigits
  BY <1>2, HexHere
<1>4. IsUnit(j) <=> UnitBegins(j) /\ IsHex(k, 4)
  BY <1>3, Zenon DEF IsUnit, UnitBegins
<1>5. UnitAt(j) = Unit(k, 4)
  BY <1>2 DEF UnitAt, Unit
<1>6. ASSUME IsHex(k, 4)
      PROVE  Unit(k, 4) \in Seq(STRING) /\ Len(Unit(k, 4)) = 4
  <2>1. PICK e \in Nat : e = k + 4 - 1
    BY <1>2
  <2>2. \A n \in k .. e : input[n] \in STRING
    <3>1. k = j + 2 /\ e = j + 5 /\ e <= Size
      BY <1>2, <1>3, <1>6, <2>1
    <3>2. \A n \in k .. e : n \in 1 .. Size
      BY <1>1, <1>2, <3>1
    <3> QED
      BY <1>1, <3>2
  <2>3. SubSeq(input, k, e) \in Seq(STRING)
        /\ Len(SubSeq(input, k, e)) = IF k <= e THEN e - k + 1 ELSE 0
    BY <1>2, <2>1, <2>2, SubSeqProperties
  <2> QED
    BY <1>2, <2>1, <2>3 DEF Unit
<1> QED
  BY <1>4, <1>5, <1>6

(* DecodeUTF16 yields what the grammar reads.                              *)
Decodes(units, n, i) ==
  IF units = <<>> THEN UnicodeAt(i) = {} ELSE UnicodeAt(i) = {<<units, i + n>>}

LEMMA JoinedUnits ==
  ASSUME NEW a \in Seq(STRING), NEW b \in Seq(STRING), Len(a) = 4, Len(b) = 4
  PROVE  a # <<>> /\ a \o b # <<>>
<1>1. Len(a \o b) = 8
  <2>1. Len(a \o b) = Len(a) + Len(b)
    BY ConcatProperties, Zenon
  <2> QED
    BY <2>1
<1>2. \A s : s = <<>> => Len(s) = 0
  OBVIOUS
<1> QED
  BY <1>1, <1>2

LEMMA DecodedIsRead ==
  ASSUME IInv, TextInv, Escape, EscapeChar = "u"
  PROVE  Decodes(DecodeUTF16.units, DecodeUTF16.consumed, index + 1)
<1> DEFINE high == Unit(index + 3, 4)
           low == Unit(index + 9, 4)
           Decoded(units, consumed) == [units |-> units, consumed |-> consumed]
           Invalid(consumed) ==
             Decoded(IF ReplacesInvalid THEN Replacement ELSE <<>>, consumed)
           pair == At(index + 7) = "\\" /\ At(index + 8) = "u"
<1>1. PICK i : i = index + 1
  OBVIOUS
<1>2. /\ InputInv /\ index \in Nat /\ Size \in Nat /\ Size = Len(input)
      /\ i \in Nat \ {0} /\ i + 6 \in Nat \ {0}
      /\ index + 3 = i + 2 /\ index + 9 = (i + 6) + 2
      /\ index + 7 = i + 6 /\ index + 8 = i + 7 /\ (i + 6) + 1 = i + 7 /\ (i + 6) + 6 = i + 12
  <2>1. InputInv /\ index \in Nat /\ Size \in Nat /\ Size = Len(input)
    BY EscapeIsThere, Zenon
  <2> QED
    BY <1>1, <2>1
<1>3. UnitBegins(i)
  <2>1. Is(index + 1, "\\") /\ Is((index + 1) + 1, "u")
    BY EscapeIsThere, EscapeCharsApart, Zenon
  <2> QED
    BY <1>1, <2>1, Zenon DEF UnitBegins
<1>4. pair <=> UnitBegins(i + 6)
  <2>1. \A j \in Nat \ {0} : \A c : c # "end" => (Is(j, c) <=> At(j) = c)
    BY <1>2 DEF Is, At
  <2>2. i + 6 \in Nat \ {0} /\ i + 7 \in Nat \ {0} /\ "\\" # "end" /\ "u" # "end"
    <3>1. "\\" # "end" /\ "u" # "end"
      BY Zenon
    <3>2. i + 6 \in Nat \ {0} /\ i + 7 \in Nat \ {0}
      BY <1>2
    <3> QED
      BY <3>1, <3>2, Zenon
  <2>3. /\ Is(i + 6, "\\") <=> At(index + 7) = "\\"
        /\ Is(i + 7, "u") <=> At(index + 8) = "u"
    BY <1>2, <2>1, <2>2, Zenon
  <2> QED
    BY <1>2, <2>3, Zenon DEF UnitBegins
<1>5. LeadsAt(i) <=> IsLead(high) /\ pair
  <2>1. LeadsAt(i) <=> IsLead(UnitAt(i)) /\ UnitBegins(i + 6)
    BY <1>2, Zenon DEF LeadsAt, UnitBegins
  <2>2. UnitAt(i) = high
    BY <1>2, UnitHere
  <2> HIDE DEF pair, high
  <2> QED
    BY <1>4, <2>1, <2>2
<1> HIDE DEF pair
<1>6. /\ IsUnit(i) <=> IsHex(index + 3, 4)
      /\ UnitAt(i) = high
      /\ IsHex(index + 3, 4) => high \in Seq(STRING) /\ Len(high) = 4
  BY <1>2, <1>3, UnitHere
<1>7. /\ pair => (IsUnit(i + 6) <=> IsHex(index + 9, 4))
      /\ UnitAt(i + 6) = low
      /\ IsHex(index + 9, 4) => low \in Seq(STRING) /\ Len(low) = 4
  BY <1>2, <1>4, UnitHere
<1>8. IsHex(index + 3, 4) => Arrived(index + 3, 4)
  BY DEF IsHex
<1>9. IsHex(index + 9, 4) => Arrived(index + 9, 4)
  BY DEF IsHex
<1>10. IsLead(high) => IsSurrogate(high)
  BY DEF IsLead, IsSurrogate
<1>11. ASSUME NEW u, NEW n, DecodeUTF16 = Decoded(u, n),
              IF u = <<>> THEN UnicodeAt(i) = {} ELSE UnicodeAt(i) = {<<u, i + n>>}
       PROVE  Decodes(DecodeUTF16.units, DecodeUTF16.consumed, index + 1)
  <2>1. DecodeUTF16.units = u /\ DecodeUTF16.consumed = n
    BY <1>11
  <2> QED
    BY <1>1, <1>11, <2>1, Zenon DEF Decodes
<1>12. ASSUME NEW n, DecodeUTF16 = Invalid(n), UnicodeAt(i) = ReplacedUpTo(i + n)
       PROVE  Decodes(DecodeUTF16.units, DecodeUTF16.consumed, index + 1)
  <2>1. CASE ReplacesInvalid
    <3>1. DecodeUTF16 = Decoded(Replacement, n) /\ Replacement # <<>>
      BY <1>12, <2>1 DEF Replacement
    <3>2. UnicodeAt(i) = {<<Replacement, i + n>>}
      BY <1>12, <2>1 DEF ReplacedUpTo, ReplacesInvalid, Has
    <3> QED
      BY <1>11, <3>1, <3>2
  <2>2. CASE ~ReplacesInvalid
    <3>1. DecodeUTF16 = Decoded(<<>>, n)
      BY <1>12, <2>2
    <3>2. UnicodeAt(i) = {}
      BY <1>12, <2>2 DEF ReplacedUpTo, ReplacesInvalid, Has
    <3> QED
      BY <1>11, <3>1, <3>2
  <2> QED
    BY <2>1, <2>2
<1>13. CASE ~IsHex(index + 3, 4)
  <2>1. UnicodeAt(i) = {}
    BY <1>6, <1>13 DEF UnicodeAt
  <2>2. \E n : DecodeUTF16 = Decoded(<<>>, n)
    <3>1. CASE ~Arrived(index + 3, 4)
      <4>1. DecodeUTF16 = Decoded(<<>>, 2)
        BY <3>1, <1>8 DEF DecodeUTF16
      <4> QED
        BY <4>1
    <3>2. CASE Arrived(index + 3, 4)
      <4>1. DecodeUTF16 = Decoded(<<>>, 6)
        BY <3>2, <1>13 DEF DecodeUTF16
      <4> QED
        BY <4>1
    <3> QED
      BY <3>1, <3>2
  <2> QED
    BY <1>11, <2>1, <2>2
<1>14. CASE IsHex(index + 3, 4) /\ ~IsSurrogate(high)
  <2>1. DecodeUTF16 = Decoded(high, 6)
    BY <1>8, <1>14 DEF DecodeUTF16
  <2>2. high \in Seq(STRING) /\ Len(high) = 4 /\ high # <<>>
    BY <1>6, <1>14, JoinedUnits
  <2>3. UnicodeAt(i) = {<<high, i + 6>>}
    <3> HIDE DEF high
    <3>1. IsUnit(i) /\ ~IsSurrogate(UnitAt(i)) /\ ~LeadsAt(i) /\ UnitAt(i) = high
      BY <1>5, <1>6, <1>10, <1>14
    <3> QED
      BY <3>1, Zenon DEF UnicodeAt
  <2> HIDE DEF high
  <2> QED
    BY <1>11, <2>1, <2>2, <2>3, Zenon
<1>15. CASE IsHex(index + 3, 4) /\ IsSurrogate(high) /\ ~(IsLead(high) /\ pair)
  <2>1. DecodeUTF16 = Invalid(6)
    BY <1>8, <1>15 DEF DecodeUTF16, pair
  <2>2. UnicodeAt(i) = ReplacedUpTo(i + 6)
    <3> HIDE DEF high
    <3>1. IsUnit(i) /\ IsSurrogate(UnitAt(i)) /\ ~LeadsAt(i)
      BY <1>5, <1>6, <1>15
    <3> QED
      BY <3>1, Zenon DEF UnicodeAt
  <2> HIDE DEF Invalid
  <2> QED
    BY <1>12, <2>1, <2>2
<1>16. CASE IsHex(index + 3, 4) /\ IsSurrogate(high) /\ IsLead(high) /\ pair
  <2>1. UnicodeAt(i) = SurrogatesAt(i)
    <3> HIDE DEF high
    <3>1. IsUnit(i) /\ IsSurrogate(UnitAt(i)) /\ LeadsAt(i)
      BY <1>5, <1>6, <1>16
    <3> QED
      BY <3>1, Zenon DEF UnicodeAt
  <2>2. CASE ~IsHex(index + 9, 4)
    <3>1. UnicodeAt(i) = {}
      BY <1>7, <1>16, <2>1, <2>2 DEF SurrogatesAt
    <3>2. \E n : DecodeUTF16 = Decoded(<<>>, n)
      <4>1. CASE ~Arrived(index + 9, 4)
        <5>1. DecodeUTF16 = Decoded(<<>>, 8)
          BY <1>16, <4>1, <1>8, <1>9 DEF DecodeUTF16, pair
        <5> QED
          BY <5>1
      <4>2. CASE Arrived(index + 9, 4)
        <5>1. DecodeUTF16 = Decoded(<<>>, 12)
          BY <1>16, <2>2, <4>2, <1>8 DEF DecodeUTF16, pair
        <5> QED
          BY <5>1
      <4> QED
        BY <4>1, <4>2
    <3> QED
      BY <1>11, <3>1, <3>2
  <2>3. CASE IsHex(index + 9, 4) /\ ~IsTrail(low)
    <3>1. DecodeUTF16 = Invalid(12)
      BY <1>16, <2>3, <1>8, <1>9 DEF DecodeUTF16, pair
    <3>2. UnicodeAt(i) = ReplacedUpTo(i + 12)
      <4> HIDE DEF high, low
      <4>1. IsUnit(i + 6) /\ ~IsTrail(UnitAt(i + 6))
        BY <1>7, <1>16, <2>3
      <4>2. SurrogatesAt(i) = ReplacedUpTo(i + 12)
        BY <4>1, Zenon DEF SurrogatesAt
      <4> QED
        BY <2>1, <4>2
    <3> HIDE DEF Invalid
    <3> QED
      BY <1>12, <3>1, <3>2
  <2>4. CASE IsHex(index + 9, 4) /\ IsTrail(low)
    <3>1. DecodeUTF16 = Decoded(high \o low, 12)
      BY <1>16, <2>4, <1>8, <1>9 DEF DecodeUTF16, pair
    <3>2. high \o low # <<>>
      BY <1>6, <1>7, <1>16, <2>4, JoinedUnits
    <3>3. UnicodeAt(i) = {<<high \o low, i + 12>>}
      <4> HIDE DEF high, low
      <4>1. IsUnit(i + 6) /\ IsTrail(UnitAt(i + 6)) /\ UnitAt(i + 6) = low /\ UnitAt(i) = high
        BY <1>6, <1>7, <1>16, <2>4
      <4>2. SurrogatesAt(i) = {<<high \o low, i + 12>>}
        BY <4>1, Zenon DEF SurrogatesAt
      <4> QED
        BY <2>1, <4>2, Zenon
    <3> HIDE DEF high, low
    <3> QED
      BY <1>11, <3>1, <3>2, <3>3, Zenon
  <2> QED
    BY <2>2, <2>3, <2>4
<1> QED
  BY <1>13, <1>14, <1>15, <1>16

LEMMA UnicodeEscapeReads ==
  ASSUME IInv, TextInv, UnicodeEscape
  PROVE  TextInv' /\ ReadsOn
<1>1. Escape /\ EscapeChar = "u"
  BY DEF UnicodeEscape
<1>2. PICK units, n : units = DecodeUTF16.units /\ n = DecodeUTF16.consumed
  OBVIOUS
<1>3. Decodes(units, n, index + 1) /\ n \in Nat
  BY <1>1, <1>2, DecodedIsRead, DecodeFacts
<1>4. EscapeAt(index + 1) = UnicodeAt(index + 1)
  <2>1. "u" # "x" /\ \A z : ~IsEscaped("u", z)
    BY EscapeCharsApart
  <2>2. \A r : r \in EscapeAt(index + 1) <=> r \in UnicodeAt(index + 1)
    BY <1>1, <2>1, EscapesAre
  <2> QED
    BY <2>2
<1>5. IF units = <<>> THEN ParseError("JSON_INVALID_ESCAPE", -1, n) ELSE Write(units, n)
  BY <1>2 DEF UnicodeEscape
<1>6. CASE units = <<>>
  <2>1. EscapeAt(index + 1) = {}
    BY <1>3, <1>4, <1>6 DEF Decodes
  <2> QED
    BY <1>1, <1>5, <1>6, <2>1, NoEscapeReads
<1>7. CASE units # <<>>
  <2>1. EscapeAt(index + 1) = {<<units, (index + 1) + n>>}
    BY <1>3, <1>4, <1>7, Zenon DEF Decodes
  <2>2. Write(units, n)
    BY <1>5, <1>7, Zenon
  <2> QED
    BY <1>1, <1>3, <2>1, <2>2, EscapeReads
<1> QED
  BY <1>6, <1>7

-----------------------------------------------------------------------------
(* The end of a string.                                                    *)

LEMMA KeyIsText ==
  ASSUME NEW s, AreContainers(s), s # <<>>, AreTexts(s), Last(s).kind # "list", NEW text
  PROVE  AreTexts(WithKey(s, text))
<1> DEFINE c == Last(s)
           d == [c EXCEPT !.key = text]
           t == WithKey(s, text)
<1>1. Len(s) \in Nat \ {0} /\ c = s[Len(s)] /\ IsContainer(c)
  BY TopOf
<1>2. IsContainer(d) /\ d.kind = c.kind /\ d.values = c.values
  BY <1>1 DEF IsContainer
<1>3. t = [s EXCEPT ![Len(s)] = d]
  BY <1>1 DEF WithKey
<1>4. IsList(d.values) /\ d.kind # "list"
  <2>1. IsList(c.values)
    BY <1>1 DEF AreTexts
  <2> HIDE DEF d
  <2> QED
    BY <1>2, <2>1
<1> HIDE DEF d, c, t
<1>5. AreContainers(t) /\ Len(t) = Len(s) /\ t # <<>> /\ Last(t) = d
  BY <1>1, <1>2, <1>3, Replaced
<1>6. ASSUME NEW n \in 1 .. Len(t)
      PROVE  IsList(t[n].values) /\ (t[n].kind = "list" => t[n].key = <<>>)
  <2>1. CASE n = Len(s)
    <3>1. t[n] = d
      BY <1>5, <2>1, TopOf
    <3> QED
      BY <1>4, <3>1
  <2>2. CASE n # Len(s)
    <3>1. n \in DOMAIN s
      BY <1>5, LenProperties DEF AreContainers
    <3>2. t[n] = s[n]
      BY <1>3, <2>2, <3>1
    <3> QED
      BY <1>5, <3>2 DEF AreTexts
  <2> QED
    BY <2>1, <2>2
<1> QED
  BY <1>6 DEF AreTexts, t

LEMMA EndStringReads ==
  ASSUME IInv, TextInv, EndString
  PROVE  TextInv' /\ ReadsOn
<1>1. /\ InString /\ PeekChar = "\"" /\ PeekChar # "end"
  BY Zenon DEF EndString
<1>2. PICK i : i = index + 1
  OBVIOUS
<1>3. QuoteAt(i) /\ i <= Size
  BY <1>1, <1>2, StringIsPending, Zenon
<1> DEFINE Ends == /\ InString /\ index' = index + 1 /\ string' = <<>>
                   /\ key => /\ stack' = WithKey(stack, string)
                             /\ pc' = "eat" /\ then' = "colon" /\ result' = result
                   /\ ~key => Return(<<"string", string>>, stack)
<1>4. Ends
  <2>1. index' = index + 1 /\ string' = <<>>
    BY DEF EndString, ConsumeChars
  <2>2. key => /\ stack' = WithKey(stack, string)
               /\ pc' = "eat" /\ then' = "colon" /\ result' = result
    BY Zenon DEF EndString, WithKey, NextTokenFor
  <2>3. ~key => Return(<<"string", string>>, stack)
    BY Zenon DEF EndString
  <2> QED
    BY <1>1, <2>1, <2>2, <2>3
<1> HIDE DEF EndString
<1>5. /\ pc # "done" /\ InputInv /\ IsList(string)
      /\ \A doc : Pending(doc) <=>
           \E q \in Chars[i] : StringLeadsTo(stack, string \o q[1], key, q[2], doc)
      /\ \A r : r \in Chars[i] <=> r = <<<<>>, i + 1>>
  <2>1. /\ pc # "done" /\ InputInv /\ IsList(string)
        /\ \A doc : Pending(doc) <=>
             \E q \in Chars[i] : StringLeadsTo(stack, string \o q[1], key, q[2], doc)
        /\ \A r : r \in Chars[i] <=>
             /\ i <= Size
             /\ \/ QuoteAt(i) /\ r = <<<<>>, i + 1>>
                \/ ~QuoteAt(i) /\ \E c \in CharAt(i) : r \in Followed(c, Chars[c[2]])
    BY <1>1, <1>2, StringIsPending, Zenon
  <2> QED
    BY <1>3, <2>1, Zenon
<1>6. /\ AreContainers(stack) /\ AreTexts(stack) /\ index' + 1 = i + 1
      /\ result = NoValue /\ (key => stack # <<>> /\ ~InList)
  <2>1. InString /\ index' = index + 1
    BY <1>4
  <2> HIDE DEF Ends
  <2>2. ReadingInv /\ result = NoValue /\ pc = "string"
    BY <2>1, InAString
  <2> QED
    BY <1>2, <1>5, <2>1, <2>2, ReadsHere DEF ReadingInv, TextInv
<1>7. \A doc : Pending(doc) <=> StringLeadsTo(stack, string, key, i + 1, doc)
  <2>1. string \o <<>> = string
    BY <1>5, EmptyList, ListsJoin
  <2>2. PICK e : e = <<>>
    OBVIOUS
  <2>3. PICK q : q = <<e, i + 1>> /\ q[1] = e /\ q[2] = i + 1
    <3>1. <<e, i + 1>>[1] = e /\ <<e, i + 1>>[2] = i + 1
      OBVIOUS
    <3> QED
      BY <3>1, Zenon
  <2>4. \A r : r \in Chars[i] <=> r = q
    BY <1>5, <2>2, <2>3, Zenon
  <2>5. string \o e = string
    BY <2>1, <2>2, Zenon
  <2> QED
    BY <1>5, <2>3, <2>4, <2>5, Zenon
<1>8. IsList(string')
  BY <1>4, EmptyList
<1>9. CASE key
  <2>1. /\ stack' = WithKey(stack, string)
        /\ pc' = "eat" /\ then' = "colon" /\ result' = NoValue
    BY <1>4, <1>6, <1>9
  <2>2. \A doc : Pending(doc) <=> TokenIn("colon", stack', index' + 1, NoValue, doc)
    BY <1>6, <1>7, <1>9, <2>1 DEF StringLeadsTo
  <2>3. ReadsOn
    BY <2>1, <2>2 DEF ReadsOn, PendingAt
  <2>4. PICK t : t = WithKey(stack, string) /\ AreTexts(t)
    <3>1. Last(stack).kind # "list"
      BY <1>6, <1>9 DEF InList
    <3> QED
      BY <1>6, <1>9, <3>1, KeyIsText
  <2>5. AreTexts(stack)'
    BY <2>1, <2>4 DEF AreTexts, IsList
  <2>6. IsList(string)'
    BY <1>8 DEF IsList, Range
  <2> QED
    BY <2>1, <2>3, <2>5, <2>6 DEF TextInv
<1>10. CASE ~key
  <2>1. PICK v : v = <<"string", string>> /\ v # NoValue
    <3>1. <<"string", string>> # NoValue
      BY DEF NoValue
    <3> QED
      BY <3>1, Zenon
  <2>2. Return(v, stack)
    BY <1>4, <1>10, <2>1
  <2>3. \A doc : Pending(doc) <=> LeadsTo(stack, v, index' + 1, doc)
    BY <1>6, <1>7, <1>10, <2>1 DEF StringLeadsTo
  <2> HIDE DEF Ends
  <2> QED
    BY <1>6, <1>8, <2>1, <2>2, <2>3, ReturnReads DEF ReadsOn
<1> QED
  BY <1>9, <1>10

-----------------------------------------------------------------------------
(* Numbers.                                                                *)

LEMMA DigitsEndIs ==
  ASSUME InputInv, NEW i \in Positions
  PROVE  /\ DigitsEnd(i) \in i - 1 .. Size
         /\ \A k \in i .. DigitsEnd(i) : input[k] \in Digits
         /\ At(DigitsEnd(i) + 1) \notin Digits
<1>1. Positions = 1 .. Len(input) + 1 /\ Size = Len(input)
  BY DEF Positions, Size
<1> QED
  BY <1>1, DigitsAreThere

LEMMA DigitsEndHere ==
  ASSUME InputInv, NEW i \in Positions, NEW b \in i - 1 .. Size,
         \A k \in i .. b : input[k] \in Digits, At(b + 1) \notin Digits
  PROVE  DigitsEnd(i) = b
<1>1. Size \in Nat /\ Size = Len(input) /\ i \in Nat \ {0}
  BY SizeTyped DEF Size
<1>2. PICK e \in i - 1 .. Size :
        /\ e = DigitsEnd(i) /\ At(e + 1) \notin Digits
        /\ \A k \in i .. e : input[k] \in Digits
  BY DigitsEndIs
<1>3. CASE e < b
  <2>1. e + 1 \in i .. b /\ e + 1 <= Len(input)
    BY <1>1, <1>2, <1>3
  <2> QED
    BY <1>2, <2>1 DEF At
<1>4. CASE b < e
  <2>1. b + 1 \in i .. e /\ b + 1 <= Len(input)
    BY <1>1, <1>2, <1>4
  <2> QED
    BY <1>2, <2>1 DEF At
<1>5. CASE e = b
  BY <1>2, <1>5
<1> QED
  BY <1>1, <1>2, <1>3, <1>4, <1>5

LEMMA IntIsRead ==
  ASSUME InputInv, NEW i \in Positions
  PROVE  /\ ReadInt(i, TRUE) <=> AreDigits(i, DigitsEnd(i))
         /\ ReadInt(i, FALSE) <=> IsWhole(i, DigitsEnd(i))
<1>1. Size \in Nat /\ Size = Len(input) /\ i \in Nat \ {0}
  BY SizeTyped DEF Size
<1>2. PICK e \in i - 1 .. Size :
        e = DigitsEnd(i) /\ \A k \in i .. e : input[k] \in Digits
  BY DigitsEndIs
<1>3. /\ (e - i) + 1 > 0 <=> i <= e
      /\ (e - i) + 1 = 1 <=> i = e
      /\ i < e <=> i <= e /\ i # e
  BY <1>1, <1>2
<1>4. AreDigits(i, e) <=> i <= e
  BY <1>2 DEF AreDigits
<1>5. i <= e => At(i) = input[i]
  BY <1>1, <1>2 DEF At
<1>6. ReadInt(i, TRUE) <=> i <= e
  BY <1>2, <1>3 DEF ReadInt
<1>7. ReadInt(i, FALSE) <=> i <= e /\ (i = e \/ At(i) # "0")
  BY <1>2, <1>3 DEF ReadInt
<1> QED
  BY <1>2, <1>3, <1>4, <1>5, <1>6, <1>7 DEF IsWhole

(* What ConsumeNumber reads, from position i on.                           *)
FirstFrom(i) == IF input[i] = "-" THEN i + 1 ELSE i
WholeFrom(i) == DigitsEnd(FirstFrom(i))
FractionFrom(i) ==
  IF At(WholeFrom(i) + 1) = "." THEN DigitsEnd(WholeFrom(i) + 2) ELSE WholeFrom(i)
ExponentFrom(i) ==
  FractionFrom(i) + (IF At(FractionFrom(i) + 2) \in {"-", "+"} THEN 3 ELSE 2)
EndFrom(i) ==
  IF At(FractionFrom(i) + 1) = "e" THEN DigitsEnd(ExponentFrom(i)) ELSE FractionFrom(i)
ReadsNumber(i) ==
  /\ ReadInt(FirstFrom(i), FALSE)
  /\ FractionFrom(i) # WholeFrom(i) => ReadInt(WholeFrom(i) + 2, TRUE)
  /\ EndFrom(i) # FractionFrom(i) => ReadInt(ExponentFrom(i), TRUE)

(* The characters from i to p, to q and to k are the parts of a number.    *)
IsShape(i, p, q, k) ==
  /\ i <= p /\ p <= q /\ q <= k /\ k <= Size
  /\ IsWhole(FirstFrom(i), p)
  /\ IsFraction(p + 1, q)
  /\ IsExponent(q + 1, k)

LEMMA NumberHas ==
  ASSUME InputInv, NEW i \in Positions, NEW k \in Int, k <= Size
  PROVE  IsNumber(i, k) <=> \E p, q \in Int : IsShape(i, p, q, k) /\ IsFinite(q + 1, k)
<1>1. i \in Int
  BY SizeTyped
<1>2. ASSUME IsNumber(i, k)
      PROVE  \E p, q \in Int : IsShape(i, p, q, k) /\ IsFinite(q + 1, k)
  <2>1. PICK p \in i .. k, q \in i .. k :
          /\ p <= q
          /\ IsWhole(IF input[i] = "-" THEN i + 1 ELSE i, p)
          /\ IsFraction(p + 1, q)
          /\ IsExponent(q + 1, k)
          /\ IsFinite(q + 1, k)
    BY <1>2, Zenon DEF IsNumber
  <2>2. i <= p /\ q <= k /\ p \in Int /\ q \in Int
    BY <1>1, <2>1
  <2> QED
    BY <2>1, <2>2, Zenon DEF IsShape, FirstFrom
<1>3. ASSUME NEW p \in Int, NEW q \in Int, IsShape(i, p, q, k), IsFinite(q + 1, k)
      PROVE  IsNumber(i, k)
  <2>1. p \in i .. k /\ q \in i .. k
    BY <1>1, <1>3 DEF IsShape
  <2> QED
    BY <1>3, <2>1, Zenon DEF IsShape, FirstFrom, IsNumber
<1> QED
  BY <1>2, <1>3

(* What can be told apart at the borders of the parts.                     *)
LEMMA PartsApart ==
  /\ "." \notin Digits /\ "e" \notin Digits /\ "." # "e" /\ "-" \notin Digits
  /\ "+" \notin Digits /\ "end" \notin Digits
BY DEF Digits

LEMMA ShapeIsRead ==
  ASSUME InputInv, NEW i \in Positions, NEW p \in Int, NEW q \in Int, NEW k \in Int,
         IsShape(i, p, q, k), At(k + 1) \notin Digits \cup {".", "e"}
  PROVE  p = WholeFrom(i) /\ q = FractionFrom(i) /\ k = EndFrom(i) /\ ReadsNumber(i)
<1>1. /\ Size \in Nat /\ Size = Len(input) /\ i \in Nat \ {0} /\ Positions = 1 .. Size + 1
      /\ \A n \in Nat \ {0} : n <= Size => At(n) = input[n]
  BY SizeTyped DEF Size, At
<1>2. /\ p \in Nat \ {0} /\ q \in Nat \ {0} /\ k \in Nat \ {0}
      /\ i <= p /\ p <= q /\ q <= k /\ k <= Size
  BY <1>1 DEF IsShape
<1>3. q # p => /\ p + 2 <= q /\ At(p + 1) = "."
               /\ \A n \in p + 2 .. q : input[n] \in Digits
  <2>1. ASSUME q # p
        PROVE  p + 2 <= q /\ At(p + 1) = "." /\ \A n \in p + 2 .. q : input[n] \in Digits
    <3>1. ~(p + 1 > q) /\ (p + 1) + 1 = p + 2
      BY <1>2, <2>1
    <3>2. input[p + 1] = "." /\ AreDigits(p + 2, q)
      BY <3>1 DEF IsShape, IsFraction
    <3> QED
      BY <1>1, <1>2, <3>1, <3>2 DEF AreDigits
  <2> QED
    BY <2>1
<1>4. ASSUME k # q
      PROVE  /\ At(q + 1) = "e"
             /\ ExponentFrom(i) = q + 2 \/ ExponentFrom(i) = q + 3 \/ FractionFrom(i) # q
             /\ FractionFrom(i) = q =>
                  /\ ExponentFrom(i) <= k /\ ExponentFrom(i) \in Positions
                  /\ \A n \in ExponentFrom(i) .. k : input[n] \in Digits
  <2>1. ~(q + 1 > k) /\ (q + 1) + 1 = q + 2 /\ (q + 1) + 2 = q + 3
    BY <1>2, <1>4
  <2>2. /\ input[q + 1] = "e"
        /\ \/ AreDigits(q + 2, k)
           \/ q + 1 < k /\ input[q + 2] \in {"-", "+"} /\ AreDigits(q + 3, k)
    BY <2>1 DEF IsShape, IsExponent
  <2>3. At(q + 1) = "e" /\ q + 2 <= k /\ At(q + 2) = input[q + 2]
    BY <1>1, <1>2, <2>1, <2>2 DEF AreDigits
  <2>4. ASSUME FractionFrom(i) = q
        PROVE  /\ ExponentFrom(i) = q + 2 \/ ExponentFrom(i) = q + 3
               /\ ExponentFrom(i) <= k /\ ExponentFrom(i) \in Positions
               /\ \A n \in ExponentFrom(i) .. k : input[n] \in Digits
    <3>1. CASE AreDigits(q + 2, k)
      <4>1. input[q + 2] \in Digits
        BY <1>2, <2>3, <3>1 DEF AreDigits
      <4>2. ExponentFrom(i) = q + 2
        BY <2>3, <2>4, <4>1, PartsApart DEF ExponentFrom
      <4> QED
        BY <1>1, <1>2, <2>3, <3>1, <4>2 DEF AreDigits
    <3>2. CASE q + 1 < k /\ input[q + 2] \in {"-", "+"} /\ AreDigits(q + 3, k)
      <4>1. ExponentFrom(i) = q + 3
        BY <2>3, <2>4, <3>2 DEF ExponentFrom
      <4> QED
        BY <1>1, <1>2, <2>3, <3>2, <4>1 DEF AreDigits
    <3> QED
      BY <2>2, <3>1, <3>2
  <2> QED
    BY <2>3, <2>4
<1>5. At(p + 1) \notin Digits /\ At(q + 1) \notin Digits
      /\ (q = p => At(p + 1) # ".") /\ (k = q => At(q + 1) # "e")
  <2>1. CASE k = q
    BY <1>3, <2>1, PartsApart
  <2>2. CASE k # q
    BY <1>3, <1>4, <2>2, PartsApart
  <2> QED
    BY <2>1, <2>2
<1>6. PICK a : a = FirstFrom(i)
  OBVIOUS
<1>7. a \in Positions /\ a <= p /\ (\A n \in a .. p : input[n] \in Digits) /\ IsWhole(a, p)
  <2>1. IsWhole(a, p)
    BY <1>6 DEF IsShape
  <2>2. a = i \/ a = i + 1
    BY <1>6 DEF FirstFrom
  <2> QED
    BY <1>1, <1>2, <2>1, <2>2 DEF IsWhole, AreDigits
<1>8. p = WholeFrom(i)
  <2>1. p \in a - 1 .. Size
    BY <1>1, <1>2, <1>7
  <2> QED
    BY <1>5, <1>6, <1>7, <2>1, DigitsEndHere DEF WholeFrom
<1>9. ReadInt(FirstFrom(i), FALSE)
  BY <1>6, <1>7, <1>8, IntIsRead DEF WholeFrom
<1>10. q = FractionFrom(i) /\ (q # p => ReadInt(p + 2, TRUE))
  <2>1. CASE q = p
    BY <1>5, <1>8, <2>1 DEF FractionFrom
  <2>2. CASE q # p
    <3>1. p + 2 \in Positions /\ q \in (p + 2) - 1 .. Size
      BY <1>1, <1>2, <1>3, <2>2
    <3>2. DigitsEnd(p + 2) = q
      BY <1>3, <1>5, <2>2, <3>1, DigitsEndHere
    <3>3. AreDigits(p + 2, q)
      BY <1>3, <2>2 DEF AreDigits
    <3> QED
      BY <1>3, <1>8, <2>2, <3>1, <3>2, <3>3, IntIsRead DEF FractionFrom
  <2> QED
    BY <2>1, <2>2
<1>11. k = EndFrom(i) /\ (k # q => ReadInt(ExponentFrom(i), TRUE))
  <2>1. CASE k = q
    BY <1>5, <1>10, <2>1 DEF EndFrom
  <2>2. CASE k # q
    <3>1. PICK x \in Positions : x = ExponentFrom(i) /\ x <= k
                                 /\ \A n \in x .. k : input[n] \in Digits
      BY <1>4, <1>10, <2>2
    <3>2. k \in x - 1 .. Size
      BY <1>1, <1>2, <3>1
    <3>3. DigitsEnd(x) = k
      BY <3>1, <3>2, DigitsEndHere
    <3>4. AreDigits(x, k)
      BY <3>1 DEF AreDigits
    <3> QED
      BY <1>4, <1>10, <2>2, <3>1, <3>3, <3>4, IntIsRead DEF EndFrom
  <2> QED
    BY <2>1, <2>2
<1> QED
  BY <1>8, <1>9, <1>10, <1>11 DEF ReadsNumber

LEMMA ReadIsShape ==
  ASSUME InputInv, NEW i \in Positions, i <= Size, ReadsNumber(i)
  PROVE  /\ IsShape(i, WholeFrom(i), FractionFrom(i), EndFrom(i))
         /\ WholeFrom(i) \in Nat /\ FractionFrom(i) \in Nat /\ EndFrom(i) \in Nat
<1>1. /\ Size \in Nat /\ Size = Len(input) /\ i \in Nat \ {0} /\ Positions = 1 .. Size + 1
      /\ \A n \in Nat : At(n) # "end" => n <= Size /\ At(n) = input[n]
  BY SizeTyped DEF Size, At
<1>2. PICK a \in Positions : a = FirstFrom(i) /\ i <= a
  BY <1>1 DEF FirstFrom
<1>3. PICK p \in a - 1 .. Size : p = WholeFrom(i) /\ IsWhole(a, p)
  <2>1. WholeFrom(i) \in a - 1 .. Size
    BY <1>2, DigitsEndIs DEF WholeFrom
  <2>2. IsWhole(a, WholeFrom(i))
    BY <1>2, IntIsRead DEF ReadsNumber, WholeFrom
  <2> QED
    BY <2>1, <2>2
<1>4. a <= p /\ p \in Nat \ {0} /\ i <= p /\ p <= Size
  BY <1>1, <1>2, <1>3 DEF IsWhole, AreDigits
<1>5. PICK q \in p .. Size : q = FractionFrom(i) /\ IsFraction(p + 1, q)
  <2>1. CASE At(p + 1) = "."
    <3>1. p + 1 <= Size /\ input[p + 1] = "." /\ p + 2 \in Positions
          /\ (p + 1) + 1 = p + 2
      BY <1>1, <1>4, <2>1
    <3>2. PICK q \in (p + 2) - 1 .. Size : q = DigitsEnd(p + 2) /\ q = FractionFrom(i)
      BY <1>3, <2>1, <3>1, DigitsEndIs DEF FractionFrom
    <3>3. q # p /\ q \in p .. Size
      BY <1>4, <3>2
    <3>4. AreDigits(p + 2, q)
      BY <1>3, <3>1, <3>2, <3>3, IntIsRead DEF ReadsNumber
    <3> QED
      BY <3>1, <3>2, <3>3, <3>4 DEF IsFraction
  <2>2. CASE At(p + 1) # "."
    <3>1. FractionFrom(i) = p /\ p + 1 > p /\ p \in p .. Size
      BY <1>3, <1>4, <2>2 DEF FractionFrom
    <3> QED
      BY <3>1 DEF IsFraction
  <2> QED
    BY <2>1, <2>2
<1>6. q \in Nat /\ p <= q /\ q <= Size
  BY <1>4, <1>5
<1>7. PICK k \in q .. Size : k = EndFrom(i) /\ IsExponent(q + 1, k)
  <2>1. CASE At(q + 1) = "e"
    <3>1. q + 1 <= Size /\ input[q + 1] = "e" /\ (q + 1) + 1 = q + 2 /\ (q + 1) + 2 = q + 3
      BY <1>1, <1>6, <2>1
    <3>2. PICK x \in Positions :
            /\ x = ExponentFrom(i)
            /\ x = q + 2 \/ (x = q + 3 /\ input[q + 2] \in {"-", "+"})
      <4>1. CASE At(q + 2) \in {"-", "+"}
        <5>1. q + 2 <= Size /\ input[q + 2] \in {"-", "+"}
          BY <1>1, <1>6, <4>1
        <5>2. q + 3 \in Positions /\ ExponentFrom(i) = q + 3
          BY <1>1, <1>5, <1>6, <4>1, <5>1 DEF ExponentFrom
        <5> QED
          BY <5>1, <5>2
      <4>2. CASE At(q + 2) \notin {"-", "+"}
        <5>1. q + 2 \in Positions /\ ExponentFrom(i) = q + 2
          BY <1>1, <1>5, <1>6, <3>1, <4>2 DEF ExponentFrom
        <5> QED
          BY <5>1
      <4> QED
        BY <4>1, <4>2
    <3>3. PICK k \in x - 1 .. Size : k = DigitsEnd(x) /\ k = EndFrom(i)
      BY <1>5, <2>1, <3>2, DigitsEndIs DEF EndFrom
    <3>4. k # q /\ k \in q .. Size
      BY <1>6, <3>2, <3>3
    <3>5. AreDigits(x, k)
      BY <1>5, <3>2, <3>3, <3>4, IntIsRead DEF ReadsNumber
    <3>6. x = q + 3 => q + 1 < k
      BY <1>6, <3>3, <3>4, <3>5 DEF AreDigits
    <3> QED
      BY <3>1, <3>2, <3>3, <3>4, <3>5, <3>6 DEF IsExponent
  <2>2. CASE At(q + 1) # "e"
    <3>1. EndFrom(i) = q /\ q + 1 > q /\ q \in q .. Size
      BY <1>5, <1>6, <2>2 DEF EndFrom
    <3> QED
      BY <3>1 DEF IsExponent
  <2> QED
    BY <2>1, <2>2
<1>8. k \in Nat /\ q <= k /\ k <= Size
  BY <1>6, <1>7
<1> QED
  BY <1>2, <1>3, <1>4, <1>5, <1>6, <1>7, <1>8 DEF IsShape

(* The only e of a number is the one before its exponent.                  *)
LEMMA OnlyExponent ==
  ASSUME InputInv, NEW i \in Positions, NEW p \in Int, NEW q \in Int, NEW k \in Int,
         IsShape(i, p, q, k), NEW j \in i .. k
  PROVE  input[j] = "e" <=> j = q + 1
<1>1. i \in Int
  BY SizeTyped
<1>2. i <= p /\ p <= q /\ q <= k
  BY DEF IsShape
<1>3. ASSUME j <= p PROVE input[j] # "e"
  <2>1. PICK a : a = FirstFrom(i) /\ (a = i \/ (a = i + 1 /\ input[i] = "-"))
    BY DEF FirstFrom
  <2>2. \A n \in a .. p : input[n] \in Digits
    BY <2>1 DEF IsShape, IsWhole, AreDigits
  <2>3. j \in a .. p \/ (j = i /\ input[i] = "-")
    BY <1>1, <1>2, <1>3, <2>1
  <2>4. "-" # "e"
    OBVIOUS
  <2> QED
    BY <2>2, <2>3, <2>4, PartsApart
<1>4. ASSUME p < j, j <= q PROVE input[j] # "e"
  <2>1. ~(p + 1 > q) /\ (p + 1) + 1 = p + 2
    BY <1>1, <1>4
  <2>2. input[p + 1] = "." /\ \A n \in p + 2 .. q : input[n] \in Digits
    BY <2>1 DEF IsShape, IsFraction, AreDigits
  <2>3. j = p + 1 \/ j \in p + 2 .. q
    BY <1>1, <1>4
  <2> QED
    BY <2>2, <2>3, PartsApart
<1>5. ASSUME q < j PROVE input[j] = "e" <=> j = q + 1
  <2>1. ~(q + 1 > k) /\ (q + 1) + 1 = q + 2 /\ (q + 1) + 2 = q + 3
    BY <1>1, <1>5
  <2>2. /\ input[q + 1] = "e"
        /\ \/ \A n \in q + 2 .. k : input[n] \in Digits
           \/ input[q + 2] \in {"-", "+"} /\ \A n \in q + 3 .. k : input[n] \in Digits
    BY <2>1 DEF IsShape, IsExponent, AreDigits
  <2>3. /\ j = q + 1 \/ j \in q + 2 .. k
        /\ j = q + 1 \/ j = q + 2 \/ j \in q + 3 .. k
        /\ j \in q + 2 .. k => j # q + 1
        /\ j = q + 2 => j # q + 1
        /\ j \in q + 3 .. k => j # q + 1
    BY <1>1, <1>5
  <2>4. "-" # "e" /\ "+" # "e"
    OBVIOUS
  <2> QED
    BY <2>2, <2>3, <2>4, PartsApart
<1>6. (j <= p \/ (p < j /\ j <= q) \/ q < j) /\ (j <= q => j # q + 1)
  BY <1>1
<1>7. j <= p => j <= q
  BY <1>1, <1>2
<1> QED
  BY <1>3, <1>4, <1>5, <1>6, <1>7

Number(i) == SubSeq(input, i, EndFrom(i))

LEMMA NumberText ==
  ASSUME InputInv, NEW i \in Positions, NEW k \in Nat, i <= k, k <= Size
  PROVE  /\ Len(SubSeq(input, i, k)) = (k - i) + 1
         /\ \A n \in 1 .. (k - i) + 1 : SubSeq(input, i, k)[n] = input[(i + n) - 1]
<1>1. i \in Int /\ k \in Int
  BY SizeTyped
<1>2. \A n \in i .. k : input[n] \in STRING
  <2>1. \A n \in i .. k : n \in 1 .. Size
    BY SizeTyped
  <2> QED
    BY <2>1, SizeTyped
<1>3. /\ Len(SubSeq(input, i, k)) = IF i <= k THEN k - i + 1 ELSE 0
      /\ \A n \in 1 .. k - i + 1 : SubSeq(input, i, k)[n] = input[i + n - 1]
  BY <1>1, <1>2, SubSeqProperties
<1> QED
  BY <1>1, <1>3

LEMMA FiniteIsRepresentable ==
  ASSUME InputInv, index \in Nat, NEW i \in Positions, i = index + 1,
         NEW p \in Int, NEW q \in Int, NEW k \in Nat, IsShape(i, p, q, k)
  PROVE  IsRepresentable(SubSeq(input, i, k)) <=> IsFinite(q + 1, k)
<1>1. /\ Size \in Nat /\ Size = Len(input) /\ i \in Nat \ {0}
      /\ \A n \in Nat \ {0} : n <= Size => At(n) = input[n]
  BY SizeTyped DEF Size, At
<1>2. i <= p /\ p <= q /\ q <= k /\ k <= Size /\ i <= k
  BY <1>1 DEF IsShape
<1>3. PICK num : num = SubSeq(input, i, k)
  OBVIOUS
<1>4. /\ Len(num) = k - index /\ DOMAIN num = 1 .. k - index
      /\ \A n \in 1 .. k - index : num[n] = input[index + n]
  <2>1. (k - i) + 1 = k - index /\ \A n \in 1 .. k - index : (i + n) - 1 = index + n
    BY <1>1
  <2>2. /\ Len(SubSeq(input, i, k)) = k - index
        /\ \A n \in 1 .. k - index : SubSeq(input, i, k)[n] = input[(i + n) - 1]
    BY <1>2, <2>1, NumberText
  <2>3. \A n \in 1 .. k - index : SubSeq(input, i, k)[n] = input[index + n]
    BY <2>1, <2>2
  <2>4. DOMAIN SubSeq(input, i, k) = 1 .. k - index
    <3>1. SubSeq(input, i, k) \in Seq(STRING)
      <4>1. \A n \in i .. k : n \in 1 .. Size
        BY <1>1, <1>2
      <4>2. \A n \in i .. k : input[n] \in STRING
        BY <4>1, SizeTyped
      <4> QED
        BY <1>1, <4>2, SubSeqProperties
    <3> QED
      BY <2>2, <3>1, LenProperties
  <2> QED
    BY <1>3, <2>2, <2>3, <2>4
<1>5. /\ \A j \in i .. k : j - index \in 1 .. k - index /\ index + (j - index) = j
      /\ \A n \in 1 .. k - index : index + n \in i .. k
  BY <1>1
<1> DEFINE Nine(j) == \E m \in j + 1 .. k : input[m] = "9"
<1>6. IsRepresentable(num) <=>
        ~\E j \in i .. k : input[j] = "e" /\ At(j + 1) # "-" /\ Nine(j)
  <2>1. ASSUME NEW n \in DOMAIN num, num[n] = "e", At(index + n + 1) # "-",
               NEW m \in n + 1 .. Len(num), num[m] = "9"
        PROVE  \E j \in i .. k : input[j] = "e" /\ At(j + 1) # "-" /\ Nine(j)
    <3>1. index + n \in i .. k /\ input[index + n] = "e" /\ At((index + n) + 1) # "-"
      BY <1>4, <1>5, <2>1
    <3>2. m \in 1 .. k - index /\ index + m \in (index + n) + 1 .. k
      BY <1>1, <1>4, <2>1
    <3>3. input[index + m] = "9"
      BY <1>4, <2>1, <3>2
    <3> QED
      BY <3>1, <3>2, <3>3
  <2>2. ASSUME NEW j \in i .. k, input[j] = "e", At(j + 1) # "-",
               NEW m \in j + 1 .. k, input[m] = "9"
        PROVE  ~IsRepresentable(num)
    <3>1. PICK n \in 1 .. k - index : n = j - index /\ index + n = j
      BY <1>5
    <3>2. m - index \in n + 1 .. k - index /\ m - index \in 1 .. k - index
          /\ index + (m - index) = m
      BY <1>1, <3>1
    <3>3. num[m - index] = "9" /\ num[n] = "e" /\ At(index + n + 1) # "-"
      BY <1>4, <2>2, <3>1, <3>2
    <3> QED
      BY <1>4, <3>1, <3>2, <3>3 DEF IsRepresentable
  <2> QED
    BY <2>1, <2>2 DEF IsRepresentable
<1>7. \A j \in i .. k : input[j] = "e" <=> j = q + 1
  <2>1. PICK l \in Int : l = k
    OBVIOUS
  <2>2. \A j \in i .. l : input[j] = "e" <=> j = q + 1
    BY <2>1, OnlyExponent
  <2> QED
    BY <2>1, <2>2
<1>8. CASE q = k
  <2>1. \A j \in i .. k : j # q + 1
    BY <1>1, <1>8
  <2>2. \A n : n \notin q + 1 .. k
    BY <1>2, <1>8
  <2> QED
    BY <1>3, <1>6, <1>7, <2>1, <2>2 DEF IsFinite
<1>9. CASE q # k
  <2>1. q + 1 \in i .. k
    BY <1>1, <1>2, <1>9
  <2>2. input[q + 1] = "e" /\ "e" # "9"
    BY <1>7, <2>1
  <2>3. IsRepresentable(num) <=> ~(At((q + 1) + 1) # "-" /\ Nine(q + 1))
    BY <1>6, <1>7, <2>1, <2>2
  <2>4. Nine(q + 1) <=> \E n \in q + 1 .. k : input[n] = "9"
    <3>1. \A n \in q + 1 .. k : n = q + 1 \/ n \in (q + 1) + 1 .. k
      OBVIOUS
    <3>2. \A n \in (q + 1) + 1 .. k : n \in q + 1 .. k
      OBVIOUS
    <3> QED
      BY <2>2, <3>1, <3>2
  <2>5. ASSUME NEW n \in (q + 1) + 1 .. k PROVE At((q + 1) + 1) = input[(q + 1) + 1]
    BY <1>1, <1>2
  <2> HIDE DEF Nine
  <2>6. Nine(q + 1) => At((q + 1) + 1) = input[(q + 1) + 1]
    BY <2>5 DEF Nine
  <2> QED
    BY <1>3, <2>3, <2>4, <2>6 DEF IsFinite
<1> QED
  BY <1>8, <1>9

LEMMA NumberEnds ==
  ASSUME InputInv, NEW s, AreContainers(s), s = <<>> \/ Len(s) < MaxDepth,
         NEW v, NEW p \in Positions, NEW doc, LeadsTo(s, v, p, doc)
  PROVE  At(p) \notin Digits \cup {".", "e"}
<1> SUFFICES ASSUME At(p) \in Digits \cup {".", "e"} PROVE FALSE
  OBVIOUS
<1>1. At(p) # "/" /\ At(p) \notin Blanks \cup LineBreaks /\ At(p) # "end"
  BY Zenon DEF Digits, Blanks, LineBreaks
<1>2. p <= Size => input[p] = At(p)
  BY CharHere
<1>3. ~Commented(p, "/") /\ ~Commented(p, "*")
  BY <1>1, <1>2 DEF Commented, Is
<1>4. Space[p] = {p}
  BY <1>1, <1>2, <1>3, SpaceSteps
<1>5. TokenHere(p) \in {"T_NUMBER", "T_INVALID_TOKEN"}
  BY Zenon DEF TokenHere, TokenOf, Digits
<1>6. p # Size + 1
  BY <1>1, CharHere
<1>7. CASE s = <<>>
  BY <1>4, <1>6, <1>7, LeadsOut
<1>8. CASE s # <<>>
  <2>1. PICK t : t = WithValue(s, v)
    OBVIOUS
  <2>2. TokenIn("separator", t, p, NoValue, doc)
    BY <1>8, <2>1, Returned
  <2>3. TokenAt("separator", t, p, NoValue, doc)
    BY <1>4, <2>2 DEF TokenIn
  <2>4. AreContainers(t) /\ Len(t) = Len(s) /\ t # <<>>
    <3> DEFINE c == Last(s)
               d == [c EXCEPT !.values = Append(@, <<c.key, v>>)]
    <3>1. Len(s) \in Nat \ {0} /\ c = s[Len(s)] /\ IsContainer(c)
      BY <1>8, TopOf
    <3>2. IsContainer(d) /\ d.kind = c.kind
      BY <3>1 DEF IsContainer
    <3>3. t = [s EXCEPT ![Len(s)] = d]
      BY <2>1, <3>1 DEF WithValue
    <3> HIDE DEF c, d
    <3> QED
      BY <1>8, <3>1, <3>2, <3>3, Replaced
  <2>5. TokenHere(p) \in ExpectedBy("separator", t)
    BY <1>8, <2>3, <2>4, TokenIsExpected
  <2> QED
    BY <1>5, <2>5 DEF ExpectedBy, ClosingToken
<1> QED
  BY <1>7, <1>8

LEMMA NumbersAre ==
  ASSUME InputInv, NEW i \in Positions, NEW v
  PROVE  v \in NumbersAt(i) <=>
           \E k \in i .. Size : IsNumber(i, k) /\ v = <<<<"number", SubSeq(input, i, k)>>, k + 1>>
<1>1. Size \in Nat /\ i \in Nat
  BY SizeTyped
<1>2. ASSUME NEW e \in i + 1 .. Size + 1, IsNumber(i, e - 1),
             v = <<<<"number", SubSeq(input, i, e - 1)>>, e>>
      PROVE  \E k \in i .. Size :
               IsNumber(i, k) /\ v = <<<<"number", SubSeq(input, i, k)>>, k + 1>>
  <2>1. e - 1 \in i .. Size /\ (e - 1) + 1 = e
    BY <1>1
  <2> QED
    BY <1>2, <2>1, Zenon
<1>3. ASSUME NEW k \in i .. Size, IsNumber(i, k),
             v = <<<<"number", SubSeq(input, i, k)>>, k + 1>>
      PROVE  v \in NumbersAt(i)
  <2>1. k + 1 \in i + 1 .. Size + 1 /\ (k + 1) - 1 = k
    BY <1>1
  <2>2. IsNumber(i, (k + 1) - 1) /\ v = <<<<"number", SubSeq(input, i, (k + 1) - 1)>>, k + 1>>
    BY <1>3, <2>1, Zenon
  <2>3. PICK e \in i + 1 .. Size + 1 : e = k + 1
    BY <2>1
  <2> QED
    BY <2>2, <2>3, Zenon DEF NumbersAt
<1>4. v \in NumbersAt(i) => \E e \in i + 1 .. Size + 1 :
        IsNumber(i, e - 1) /\ v = <<<<"number", SubSeq(input, i, e - 1)>>, e>>
  BY Zenon DEF NumbersAt
<1> QED
  BY <1>2, <1>3, <1>4

(* The number that ConsumeNumber reads is the one that the rest needs.     *)
LEMMA NumberIsPending ==
  ASSUME IInv, TextInv, ParsesToken, token = "T_NUMBER", NEW i, i = index + 1
  PROVE  /\ i \in Positions /\ i <= Size
         /\ ReadsNumber(i) => EndFrom(i) \in i .. Size /\ Len(Number(i)) = EndFrom(i) - index
         /\ ReadsNumber(i) /\ IsRepresentable(Number(i)) =>
              \A doc : Pending(doc) <=> LeadsTo(stack, <<"number", Number(i)>>, EndFrom(i) + 1, doc)
         /\ ~(ReadsNumber(i) /\ IsRepresentable(Number(i))) => \A doc : ~Pending(doc)
<1>1. pc = "token" /\ pc # "done" /\ then \in {"value", "item", "next"}
  BY ParsesTokenFacts
<1>2. /\ InputInv /\ index \in Nat /\ i \in Positions /\ TokenHere(i) = "T_NUMBER"
      /\ AreContainers(stack) /\ (stack = <<>> \/ Len(stack) < MaxDepth)
      /\ Size \in Nat /\ Positions = 1 .. Size + 1
  BY <1>1, ReadsHere, SizeTyped
<1>3. i <= Size
  <2>1. At(i) # "end"
    BY <1>2, TokensOfChars, PartsApart, Zenon DEF TokenHere
  <2> QED
    BY <1>2, <2>1, CharHere
<1>4. PICK d \in Nat : Inside(stack) = Values[d]
  BY <1>2, DepthIsThere DEF Inside
<1>5. \A v : v \in Inside(stack)[i] <=>
        \E k \in i .. Size : IsNumber(i, k) /\ v = <<<<"number", SubSeq(input, i, k)>>, k + 1>>
  <2>1. \A v : v \in Values[d][i] <=> v \in NumbersAt(i)
    BY <1>2, ValueStarts DEF LiteralTokens
  <2> QED
    BY <1>2, <1>4, <2>1, NumbersAre
<1> DEFINE Reads(k, doc) == LeadsTo(stack, <<"number", SubSeq(input, i, k)>>, k + 1, doc)
<1>6. ASSUME NEW doc
      PROVE  Pending(doc) <=> \E k \in i .. Size : IsNumber(i, k) /\ Reads(k, doc)
  <2>1. Pending(doc) <=> \E v \in Inside(stack)[i] : LeadsTo(stack, v[1], v[2], doc)
    BY ValueIsPending
  <2>2. ASSUME NEW k \in i .. Size
        PROVE  \E v : /\ v = <<<<"number", SubSeq(input, i, k)>>, k + 1>>
                      /\ v[1] = <<"number", SubSeq(input, i, k)>> /\ v[2] = k + 1
    <3>1. \A a, b : <<a, b>>[1] = a /\ <<a, b>>[2] = b
      OBVIOUS
    <3> QED
      BY <3>1, Zenon
  <2>3. ASSUME Pending(doc) PROVE \E k \in i .. Size : IsNumber(i, k) /\ Reads(k, doc)
    <3>1. PICK v \in Inside(stack)[i] : LeadsTo(stack, v[1], v[2], doc)
      BY <2>1, <2>3, Zenon
    <3>2. PICK k \in i .. Size :
            IsNumber(i, k) /\ v = <<<<"number", SubSeq(input, i, k)>>, k + 1>>
      BY <1>5, <3>1, Zenon
    <3> QED
      BY <2>2, <3>1, <3>2, Zenon
  <2>4. ASSUME NEW k \in i .. Size, IsNumber(i, k), Reads(k, doc) PROVE Pending(doc)
    <3>1. PICK v : /\ v = <<<<"number", SubSeq(input, i, k)>>, k + 1>>
                   /\ v[1] = <<"number", SubSeq(input, i, k)>> /\ v[2] = k + 1
      BY <2>2
    <3>2. v \in Inside(stack)[i] /\ LeadsTo(stack, v[1], v[2], doc)
      BY <1>5, <2>4, <3>1, Zenon
    <3> QED
      BY <2>1, <3>2, Zenon
  <2> HIDE DEF Reads
  <2> QED
    BY <2>3, <2>4
<1>7. ASSUME NEW k \in i .. Size, NEW doc, Reads(k, doc), IsNumber(i, k)
      PROVE  ReadsNumber(i) /\ k = EndFrom(i) /\ IsRepresentable(Number(i))
  <2>1. k + 1 \in Positions /\ k \in Int /\ k <= Size /\ k \in Nat
    BY <1>2
  <2>2. At(k + 1) \notin Digits \cup {".", "e"}
    BY <1>2, <1>7, <2>1, NumberEnds
  <2>3. PICK p \in Int, q \in Int : IsShape(i, p, q, k) /\ IsFinite(q + 1, k)
    BY <1>2, <1>7, <2>1, NumberHas
  <2>4. k = EndFrom(i) /\ ReadsNumber(i)
    BY <1>2, <2>1, <2>2, <2>3, ShapeIsRead
  <2>5. IsRepresentable(SubSeq(input, i, k))
    BY <1>2, <2>1, <2>3, FiniteIsRepresentable
  <2> QED
    BY <2>4, <2>5 DEF Number
<1>8. ASSUME ReadsNumber(i)
      PROVE  /\ EndFrom(i) \in i .. Size /\ Len(Number(i)) = EndFrom(i) - index
             /\ IsRepresentable(Number(i)) => IsNumber(i, EndFrom(i))
  <2>1. PICK p \in Nat, q \in Nat, k \in Nat : IsShape(i, p, q, k) /\ k = EndFrom(i)
    BY <1>2, <1>3, <1>8, ReadIsShape
  <2>2. k \in i .. Size /\ i <= k /\ k <= Size /\ p \in Int /\ q \in Int /\ k \in Int
    BY <1>2, <2>1 DEF IsShape
  <2>3. Len(SubSeq(input, i, k)) = (k - i) + 1 /\ (k - i) + 1 = k - index
    BY <1>2, <2>1, <2>2, NumberText
  <2>4. IsRepresentable(SubSeq(input, i, k)) => IsFinite(q + 1, k)
    BY <1>2, <2>1, <2>2, FiniteIsRepresentable
  <2>5. IsFinite(q + 1, k) => IsNumber(i, k)
    BY <1>2, <2>1, <2>2, NumberHas
  <2> QED
    BY <2>1, <2>2, <2>3, <2>4, <2>5 DEF Number
<1>9. ASSUME ReadsNumber(i), IsRepresentable(Number(i)), NEW doc
      PROVE  Pending(doc) <=> LeadsTo(stack, <<"number", Number(i)>>, EndFrom(i) + 1, doc)
  <2>1. EndFrom(i) \in i .. Size /\ IsNumber(i, EndFrom(i))
    BY <1>8, <1>9
  <2>2. Reads(EndFrom(i), doc) <=> LeadsTo(stack, <<"number", Number(i)>>, EndFrom(i) + 1, doc)
    BY Zenon DEF Number
  <2> HIDE DEF Reads
  <2> QED
    BY <1>6, <1>7, <2>1, <2>2
<1>10. ASSUME ~(ReadsNumber(i) /\ IsRepresentable(Number(i))), NEW doc PROVE ~Pending(doc)
  <2> HIDE DEF Reads
  <2> QED
    BY <1>6, <1>7, <1>10
<1> QED
  BY <1>2, <1>3, <1>8, <1>9, <1>10

LEMMA ConsumeNumberReads ==
  ASSUME IInv, TextInv, ConsumeNumber
  PROVE  TextInv' /\ ReadsOn
<1> DEFINE first == index + (IF PeekChar = "-" THEN 2 ELSE 1)
           whole == DigitsEnd(first)
           fraction == IF At(whole + 1) = "." THEN DigitsEnd(whole + 2)
                                              ELSE whole
           exponent == fraction
                         + (IF At(fraction + 2) \in {"-", "+"} THEN 3 ELSE 2)
           end == IF At(fraction + 1) = "e" THEN DigitsEnd(exponent)
                                            ELSE fraction
           num == SubSeq(input, index + 1, end)
           Reads == /\ ReadInt(first, FALSE)
                    /\ fraction # whole => ReadInt(whole + 2, TRUE)
                    /\ end # fraction => ReadInt(exponent, TRUE)
<1>1. ParsesToken /\ token = "T_NUMBER" /\ pc # "done"
  BY ParsesTokenFacts DEF ConsumeNumber
<1>2. \/ /\ Reads /\ IsRepresentable(num)
         /\ ConsumeChars(Len(num)) /\ Return(<<"number", num>>, stack)
         /\ UNCHANGED <<string, key>>
      \/ /\ ~(Reads /\ IsRepresentable(num))
         /\ \E code, adjust, n : ParseError(code, adjust, n)
  BY DEF ConsumeNumber
<1>3. PICK i : i = index + 1
  OBVIOUS
<1>4. i \in Positions /\ i <= Size
  BY <1>1, <1>3, NumberIsPending
<1>5. first = FirstFrom(i)
  <2>1. input[i] = PeekChar /\ index \in Nat
    <3>1. InputInv /\ index \in Nat /\ PeekChar = At(i)
      BY <1>1, <1>3, ReadsHere
    <3> QED
      BY <1>4, <3>1, CharHere
  <2> QED
    BY <1>3, <2>1 DEF FirstFrom
<1> HIDE DEF first
<1>6. whole = WholeFrom(i)
  BY <1>5 DEF WholeFrom
<1> HIDE DEF whole
<1>7. fraction = FractionFrom(i)
  BY <1>6 DEF FractionFrom
<1> HIDE DEF fraction
<1>8. exponent = ExponentFrom(i)
  BY <1>7 DEF ExponentFrom
<1> HIDE DEF exponent
<1>9. end = EndFrom(i)
  BY <1>7, <1>8 DEF EndFrom
<1> HIDE DEF end
<1>10. num = Number(i)
  BY <1>3, <1>9 DEF Number
<1> HIDE DEF num
<1>11. Reads <=> ReadsNumber(i)
  BY <1>5, <1>6, <1>7, <1>8, <1>9 DEF ReadsNumber
<1> HIDE DEF Reads
<1>12. CASE ReadsNumber(i) /\ IsRepresentable(Number(i))
  <2>1. /\ ConsumeChars(Len(Number(i))) /\ Return(<<"number", Number(i)>>, stack)
        /\ UNCHANGED <<string, key>>
    BY <1>2, <1>10, <1>11, <1>12
  <2>2. EndFrom(i) \in i .. Size /\ Len(Number(i)) = EndFrom(i) - index
        /\ \A doc : Pending(doc)
                      <=> LeadsTo(stack, <<"number", Number(i)>>, EndFrom(i) + 1, doc)
    BY <1>1, <1>3, <1>12, NumberIsPending
  <2>3. PICK v : v = <<"number", Number(i)>> /\ v # NoValue
    <3>1. <<"number", Number(i)>> # NoValue
      BY DEF NoValue
    <3> QED
      BY <3>1, Zenon
  <2>4. AreContainers(stack) /\ AreTexts(stack) /\ IsList(string') /\ index \in Nat
    <3>1. string' = string
      BY <2>1
    <3> QED
      BY <1>1, <3>1, ReadsHere DEF TextInv
  <2>5. index' + 1 = EndFrom(i) + 1
    <3>1. i \in Int
      BY <1>3, <2>4
    <3> QED
      BY <2>1, <2>2, <2>4, <3>1 DEF ConsumeChars
  <2>6. Return(v, stack) /\ \A doc : Pending(doc) <=> LeadsTo(stack, v, index' + 1, doc)
    BY <2>1, <2>2, <2>3, <2>5, Zenon
  <2> QED
    BY <2>3, <2>4, <2>6, ReturnReads DEF ReadsOn
<1>13. CASE ~(ReadsNumber(i) /\ IsRepresentable(Number(i)))
  <2>1. PICK code, adjust, n : ParseError(code, adjust, n)
    BY <1>2, <1>10, <1>11, <1>13
  <2>2. \A doc : ~Pending(doc)
    BY <1>1, <1>3, <1>13, NumberIsPending
  <2> QED
    BY <2>1, <2>2, FailsReads
<1> QED
  BY <1>12, <1>13

-----------------------------------------------------------------------------
(* Literals.                                                               *)

LEMMA LiteralsApart ==
  ASSUME NEW l \in Literals, NEW m \in Literals, l[1] = m[1]
  PROVE  l = m
<1>1. \A n \in Literals :
        \/ n = <<"t", "r", "u", "e">> /\ n[1] = "t"
        \/ n = <<"f", "a", "l", "s", "e">> /\ n[1] = "f"
        \/ n = <<"n", "u", "l", "l">> /\ n[1] = "n"
  BY DEF Literals
<1>2. "t" # "f" /\ "t" # "n" /\ "f" # "n"
  OBVIOUS
<1> QED
  BY <1>1, <1>2

LEMMA SpelledOut ==
  ASSUME NEW t \in Seq(STRING), NEW l \in Literals,
         Len(t) = Len(l), \A n \in 1 .. Len(l) : t[n] = l[n]
  PROVE  t = l
<1>1. CASE l = <<"t", "r", "u", "e">>
  <2>1. Len(t) = 4 /\ t[1] = "t" /\ t[2] = "r" /\ t[3] = "u" /\ t[4] = "e"
    BY <1>1
  <2> QED
    BY <1>1, <2>1
<1>2. CASE l = <<"f", "a", "l", "s", "e">>
  <2>1. Len(t) = 5 /\ t[1] = "f" /\ t[2] = "a" /\ t[3] = "l" /\ t[4] = "s" /\ t[5] = "e"
    BY <1>2
  <2> QED
    BY <1>2, <2>1
<1>3. CASE l = <<"n", "u", "l", "l">>
  <2>1. Len(t) = 4 /\ t[1] = "n" /\ t[2] = "u" /\ t[3] = "l" /\ t[4] = "l"
    BY <1>3
  <2> QED
    BY <1>3, <2>1
<1> QED
  BY <1>1, <1>2, <1>3 DEF Literals

SpelledAt(i, l) == \A n \in 1 .. Len(l) : Is(i + n - 1, l[n])

LEMMA LiteralPeeked ==
  ASSUME InputInv, index \in Nat, NEW i, i = index + 1, NEW l \in Literals
  PROVE  PeekChars(Len(l)) = l <=> SpelledAt(i, l)
<1>1. Size \in Nat /\ Size = Len(input)
  BY SizeTyped DEF Size
<1>2. PICK len \in {4, 5} : len = Len(l)
  BY LiteralsAreInLine
<1>3. CASE index + len <= Size
  <2>1. PICK j \in Int, k \in Int : j = index + 1 /\ k = index + len
    BY <1>2
  <2>2. \A n \in j .. k : input[n] \in STRING
    <3>1. \A n \in j .. k : n \in 1 .. Size
      BY <1>1, <1>3, <2>1
    <3> QED
      BY <3>1, SizeTyped
  <2>3. PICK t : t = SubSeq(input, j, k)
    OBVIOUS
  <2>4. /\ t \in Seq(STRING)
        /\ Len(t) = IF j <= k THEN k - j + 1 ELSE 0
        /\ \A n \in 1 .. k - j + 1 : t[n] = input[j + n - 1]
    BY <2>2, <2>3, SubSeqProperties
  <2>5. k - j + 1 = len /\ j <= k /\ \A n \in 1 .. len : j + n - 1 = i + n - 1
                                /\ i + n - 1 <= Size
    BY <1>1, <1>2, <1>3, <2>1
  <2>6. Len(t) = len /\ \A n \in 1 .. len : t[n] = input[i + n - 1]
    BY <2>4, <2>5
  <2>7. PeekChars(Len(l)) = t
    BY <1>1, <1>2, <1>3, <2>1, <2>3 DEF PeekChars
  <2>8. t = l <=> \A n \in 1 .. len : t[n] = l[n]
    BY <1>2, <2>4, <2>6, SpelledOut
  <2>9. SpelledAt(i, l) <=> \A n \in 1 .. len : t[n] = l[n]
    BY <1>2, <2>5, <2>6 DEF SpelledAt, Is
  <2> QED
    BY <2>7, <2>8, <2>9
<1>4. CASE ~(index + len <= Size)
  <2>1. PeekChars(Len(l)) = <<>>
    BY <1>1, <1>2, <1>4 DEF PeekChars
  <2>2. l # <<>>
    BY <1>2
  <2>3. len \in 1 .. Len(l) /\ ~(i + len - 1 <= Size)
    BY <1>1, <1>2, <1>4
  <2> QED
    BY <2>1, <2>2, <2>3 DEF SpelledAt, Is
<1> QED
  BY <1>3, <1>4

LEMMA OneIsSpelled ==
  ASSUME NEW i \in Int, NEW l \in Literals, NEW m \in Literals,
         SpelledAt(i, l), SpelledAt(i, m)
  PROVE  l = m
<1>1. 1 \in 1 .. Len(l) /\ 1 \in 1 .. Len(m) /\ i + 1 - 1 = i
  BY LiteralsAreInLine
<1>2. Is(i, l[1]) /\ Is(i, m[1])
  BY <1>1 DEF SpelledAt
<1> QED
  BY <1>2, LiteralsApart DEF Is

LEMMA LiteralsAre ==
  ASSUME NEW i, NEW v
  PROVE  v \in LiteralsAt(i) <=>
           \E l \in Literals : SpelledAt(i, l) /\ v = <<<<"literal", l>>, i + Len(l)>>
<1>1. {<<"t", "r", "u", "e">>, <<"n", "u", "l", "l">>, <<"f", "a", "l", "s", "e">>} = Literals
  BY Zenon DEF Literals
<1> QED
  BY <1>1, Zenon DEF LiteralsAt, SpelledAt

LEMMA LiteralIsPending ==
  ASSUME IInv, TextInv, ParsesToken, token \in LiteralTokens, NEW doc, NEW i, i = index + 1
  PROVE  Pending(doc) <=>
           \E l \in Literals : PeekChars(Len(l)) = l
                               /\ LeadsTo(stack, <<"literal", l>>, i + Len(l), doc)
<1>1. pc = "token" /\ pc # "done" /\ then \in {"value", "item", "next"}
  BY ParsesTokenFacts
<1>2. /\ InputInv /\ index \in Nat /\ i \in Positions /\ TokenHere(i) = token
      /\ AreContainers(stack) /\ (stack = <<>> \/ Len(stack) < MaxDepth)
  BY <1>1, ReadsHere
<1>3. PICK d \in Nat : Inside(stack) = Values[d]
  BY <1>2, DepthIsThere DEF Inside
<1>4. \A v : v \in Inside(stack)[i] <=>
        \E l \in Literals : SpelledAt(i, l) /\ v = <<<<"literal", l>>, i + Len(l)>>
  <2>1. \A v : v \in Values[d][i] <=> v \in LiteralsAt(i)
    BY <1>2, ValueStarts DEF LiteralTokens
  <2> QED
    BY <1>3, <2>1, LiteralsAre
<1>5. \A l \in Literals : PeekChars(Len(l)) = l <=> SpelledAt(i, l)
  BY <1>2, LiteralPeeked
<1>6. Pending(doc) <=> \E v \in Inside(stack)[i] : LeadsTo(stack, v[1], v[2], doc)
  BY ValueIsPending
<1>7. ASSUME NEW l
      PROVE  \E v : /\ v = <<<<"literal", l>>, i + Len(l)>>
                    /\ v[1] = <<"literal", l>> /\ v[2] = i + Len(l)
  <2>1. \A a, b : <<a, b>>[1] = a /\ <<a, b>>[2] = b
    OBVIOUS
  <2> QED
    BY <2>1, Zenon
<1>8. ASSUME Pending(doc)
      PROVE  \E l \in Literals : PeekChars(Len(l)) = l
                                 /\ LeadsTo(stack, <<"literal", l>>, i + Len(l), doc)
  <2>1. PICK v \in Inside(stack)[i] : LeadsTo(stack, v[1], v[2], doc)
    BY <1>6, <1>8, Zenon
  <2>2. PICK l \in Literals : SpelledAt(i, l) /\ v = <<<<"literal", l>>, i + Len(l)>>
    BY <1>4, <2>1, Zenon
  <2> QED
    BY <1>5, <1>7, <2>1, <2>2, Zenon
<1>9. ASSUME NEW l \in Literals, PeekChars(Len(l)) = l,
             LeadsTo(stack, <<"literal", l>>, i + Len(l), doc)
      PROVE  Pending(doc)
  <2>1. PICK v : /\ v = <<<<"literal", l>>, i + Len(l)>>
                 /\ v[1] = <<"literal", l>> /\ v[2] = i + Len(l)
    BY <1>7
  <2>2. v \in Inside(stack)[i] /\ LeadsTo(stack, v[1], v[2], doc)
    BY <1>4, <1>5, <1>9, <2>1, Zenon
  <2> QED
    BY <1>6, <2>2, Zenon
<1> QED
  BY <1>8, <1>9, Zenon

LEMMA ConsumeLiteralReads ==
  ASSUME IInv, TextInv, ConsumeLiteral
  PROVE  TextInv' /\ ReadsOn
<1>1. ParsesToken /\ token \in LiteralTokens /\ pc # "done"
  BY ParsesTokenFacts DEF ConsumeLiteral, LiteralTokens
<1>2. PICK i : i = index + 1
  OBVIOUS
<1>3. /\ InputInv /\ index \in Nat /\ i \in Int /\ AreContainers(stack) /\ AreTexts(stack)
  BY <1>1, <1>2, ReadsHere DEF TextInv
<1>4. CASE \E m \in Literals : PeekChars(Len(m)) = m
  <2> DEFINE l == CHOOSE m \in Literals : PeekChars(Len(m)) = m
  <2>1. l \in Literals /\ PeekChars(Len(l)) = l
    BY <1>4
  <2>2. ConsumeChars(Len(l)) /\ Return(<<"literal", l>>, stack) /\ UNCHANGED <<string, key>>
    BY <1>4 DEF ConsumeLiteral
  <2> HIDE DEF l
  <2>3. \A m \in Literals : PeekChars(Len(m)) = m => m = l
    BY <1>2, <1>3, <2>1, LiteralPeeked, OneIsSpelled
  <2>4. PICK v : v = <<"literal", l>> /\ v # NoValue
    <3>1. <<"literal", l>> # NoValue
      BY DEF NoValue
    <3> QED
      BY <3>1, Zenon
  <2>5. index' + 1 = i + Len(l)
    <3>1. Len(l) \in Nat
      BY <2>1, LiteralsAreInLine
    <3> QED
      BY <1>2, <1>3, <2>2, <3>1 DEF ConsumeChars
  <2>6. ASSUME NEW doc PROVE Pending(doc) <=> LeadsTo(stack, v, index' + 1, doc)
    <3>1. Pending(doc) <=>
            \E m \in Literals : PeekChars(Len(m)) = m
                                /\ LeadsTo(stack, <<"literal", m>>, i + Len(m), doc)
      BY <1>1, <1>2, LiteralIsPending
    <3> QED
      BY <2>1, <2>3, <2>4, <2>5, <3>1, Zenon
  <2>7. IsList(string') /\ Return(v, stack)
    BY <2>2, <2>4, Zenon DEF TextInv
  <2> QED
    BY <1>3, <2>4, <2>6, <2>7, ReturnReads DEF ReadsOn
<1>5. CASE ~\E m \in Literals : PeekChars(Len(m)) = m
  <2>1. ParseError("JSON_SYNTAX_ERROR", 0, 0)
    BY <1>5 DEF ConsumeLiteral
  <2>2. \A doc : ~Pending(doc)
    BY <1>1, <1>5, LiteralIsPending
  <2> QED
    BY <2>1, <2>2, FailsReads
<1> QED
  BY <1>4, <1>5

-----------------------------------------------------------------------------
(* The parse and the grammar.                                              *)

LEMMA KeptByAll == Next => Kept
<1>1. GetNextToken => Kept
  BY Zenon DEF GetNextToken, EatWhitespace, SeeToken, ForbiddenComment, BeginComment,
     LineComment, BlockComment, CommentUnterminated, TakeToken, Kept
<1>2. \A code, adjust, n : ParseError(code, adjust, n) => Kept
  BY Zenon DEF ParseError, Kept
<1>3. \A caller : NextTokenFor(caller) => Kept
  BY Zenon DEF NextTokenFor, Kept
<1>4. \A v, s : Return(v, s) => Kept
  BY <1>3, Zenon DEF Return
<1>5. \A is_key : BeginString(is_key) => Kept
  BY Zenon DEF BeginString, Kept
<1>6. ConsumeNumber => Kept
  <2>1. ConsumeNumber =>
          (\E code, adjust, n : ParseError(code, adjust, n)) \/ \E v, s : Return(v, s)
    BY Zenon DEF ConsumeNumber
  <2> QED
    BY <1>2, <1>4, <2>1
<1>7. ConsumeLiteral => Kept
  BY <1>2, <1>4, Zenon DEF ConsumeLiteral
<1>8. ParseToken => Kept
  BY <1>2, <1>3, <1>5, <1>6, <1>7, Zenon DEF ParseToken, OpenContainer, StringValue,
     NoSuchValue
<1>9. InContainer => Kept
  BY <1>2, <1>3, <1>4, <1>5, Zenon DEF InContainer, CloseContainer, TrailingComma,
     Separator, Key, Colon
<1>10. EndOfInput => Kept
  BY <1>2, Zenon DEF EndOfInput, Kept
<1>11. \A chars, n : Write(chars, n) => Kept
  BY Zenon DEF Write, Kept
<1>12. EndString => Kept
  BY <1>3, <1>4, Zenon DEF EndString
<1>13. UnicodeEscape => Kept
  BY <1>2, <1>11, Zenon DEF UnicodeEscape
<1>14. ConsumeString => Kept
  BY <1>2, <1>11, <1>12, <1>13, Zenon DEF ConsumeString, CopyCharacter, InvalidCharacter,
     LineBreakInString, ControlCharacter, UnterminatedString, SimpleEscape, UnknownEscape,
     HexEscape, Kept
<1> QED
  BY <1>1, <1>8, <1>9, <1>10, <1>14 DEF Next

LEMMA NextReads ==
  ASSUME IInv, TextInv, Next
  PROVE  TextInv' /\ ReadsOn
<1>1. CASE GetNextToken
  BY <1>1, EatWhitespaceReads, SeeTokenReads, BeginCommentReads, LineCommentReads,
     BlockCommentReads, CommentUnterminatedReads DEF GetNextToken
<1>2. CASE ParseToken
  BY <1>2, OpenContainerReads, StringValueReads, ConsumeNumberReads, ConsumeLiteralReads,
     NoSuchValueReads DEF ParseToken
<1>3. CASE InContainer
  BY <1>3, CloseContainerReads, TrailingCommaReads, SeparatorReads, KeyReads, ColonReads
     DEF InContainer
<1>4. CASE EndOfInput
  BY <1>4, EndOfInputReads
<1>5. CASE ConsumeString
  BY <1>5, CopyCharacterReads, InvalidCharacterReads, LineBreakInStringReads,
     ControlCharacterReads, UnterminatedStringReads, EndStringReads, SimpleEscapeReads,
     UnknownEscapeReads, HexEscapeReads, UnicodeEscapeReads DEF ConsumeString
<1> QED
  BY <1>1, <1>2, <1>3, <1>4, <1>5 DEF Next

(* The parse stands where what it has read and the readings of the rest    *)
(* make exactly the documents of the whole input.                          *)
ReadingsInv == IInv /\ TextInv /\ GrammarInv

LEMMA InitReadings == Init => ReadingsInv
<1> SUFFICES ASSUME Init PROVE ReadingsInv
  OBVIOUS
<1>1. IInv /\ InputInv /\ Size \in Nat /\ Positions = 1 .. Size + 1
  BY InitIInv, SizeTyped DEF IInv
<1>2. /\ pc = "eat" /\ then = "value" /\ stack = <<>> /\ string = <<>>
      /\ result = NoValue
  BY DEF Init
<1>3. TextInv
  BY <1>2, EmptyIsText, EmptyList DEF TextInv
<1>4. index + 1 = IF Is(1, "bom") THEN 2 ELSE 1
  <2>1. input # <<>> <=> 1 <= Size
    BY <1>1, InputFacts, EmptySeq DEF Size
  <2>2. index = IF input # <<>> /\ input[1] = "bom" THEN 1 ELSE 0
    BY DEF Init
  <2>3. Is(1, "bom") <=> 1 <= Size /\ input[1] = "bom"
    BY DEF Is
  <2> QED
    BY <2>1, <2>2, <2>3
<1>5. Deepest - Len(stack) = Deepest
  <2>1. Deepest \in Nat
    BY JsonAssumption DEF Deepest
  <2> QED
    BY <1>2, <2>1
<1>6. PICK values, i : values = Values[Deepest] /\ i = index + 1
  OBVIOUS
<1>7. Inside(stack) = values
  BY <1>5, <1>6 DEF Inside
<1>8. \A doc : Pending(doc) <=>
        \E e \in Space[i] : \E v \in values[e] : LeadsTo(stack, v[1], v[2], doc)
  BY <1>2, <1>6, <1>7 DEF Pending, PendingAt, TokenIn, TokenAt
<1>9. \A doc : Pending(doc) <=>
        \E w \in SpacedAt(values, i) : doc = w[1] /\ Size + 1 \in Space[w[2]]
  <2>1. \A v, doc : LeadsTo(stack, v[1], v[2], doc) <=> doc = v[1] /\ Size + 1 \in Space[v[2]]
    BY <1>2, LeadsOut
  <2> QED
    BY <1>8, <2>1, Zenon DEF SpacedAt
<1>10. Document = {v[1] : v \in {w \in SpacedAt(values, i) : Size + 1 \in Space[w[2]]}}
  BY <1>4, <1>6 DEF Document, Deepest
<1>11. GrammarInv
  BY <1>9, <1>10, Zenon DEF GrammarInv
<1> QED
  BY <1>1, <1>3, <1>11 DEF ReadingsInv

LEMMA NextReadings == ReadingsInv /\ [Next]_vars => ReadingsInv'
<1> SUFFICES ASSUME ReadingsInv, [Next]_vars PROVE ReadingsInv'
  OBVIOUS
<1>1. IInv /\ TextInv /\ GrammarInv /\ IInv' /\ InputInv /\ InputInv'
  BY NextIInv DEF ReadingsInv, IInv
<1>2. Kept /\ TextInv' /\ ReadsOn
  <2>1. CASE Next
    BY <1>1, <2>1, KeptByAll, NextReads
  <2>2. CASE UNCHANGED vars
    <3>1. /\ UNCHANGED <<input, options, pc, then, previous_char, stack, string, key, result>>
          /\ index' = index
      BY <2>2 DEF vars, position
    <3>2. Kept
      BY <3>1 DEF Kept
    <3>3. TextInv'
      BY <1>1, <3>1, TextStays DEF TextInv
    <3>4. ReadsOn
      BY <3>1 DEF ReadsOn, Pending
    <3> QED
      BY <3>2, <3>3, <3>4
  <2> QED
    BY <2>1, <2>2
<1>3. ASSUME NEW doc PROVE Pending(doc)' <=> Pending(doc)
  BY <1>1, <1>2, PendingStays DEF ReadsOn
<1>4. \A doc : (doc \in Document)' <=> doc \in Document
  <2>1. Document' = Document
    BY <1>1, <1>2, DocumentStays
  <2> QED
    BY <2>1
<1>5. GrammarInv'
  <2>1. \A doc : (doc \in Document)' <=> Pending(doc)'
    BY <1>1, <1>3, <1>4, Zenon DEF GrammarInv
  <2> QED
    BY <2>1 DEF GrammarInv
<1> QED
  BY <1>1, <1>2, <1>5 DEF ReadingsInv

-----------------------------------------------------------------------------
(* Theorems.                                                               *)

(* Wherever the parse stands, in whatever text.                            *)
THEOREM JsonInvariant == Spec => []IInv
BY InitIInv, NextIInv, PTL DEF Spec

(* The parser stays inside its input and its depth; a key is read only for *)
(* an object; a finished parse has left every call.                        *)
THEOREM JsonTypeCorrect == Spec => []JsonTypeOK
<1>1. IInv => JsonTypeOK
  <2> SUFFICES ASSUME IInv PROVE JsonTypeOK
    OBVIOUS
  <2>1. /\ index \in 0 .. Len(input)
        /\ line_number \in 1 .. Len(input) + 1
        /\ index_last_line \in -1 .. index - 1
    BY InputFacts DEF IInv, PositionInv
  <2>2. /\ pc \in {"eat", "token", "line_comment", "block_comment", "string", "done"}
        /\ then \in {"value", "item", "key", "colon", "separator", "next", "end"}
    BY DEF IInv, InputInv, Callers
  <2>3. \A n \in DOMAIN stack : stack[n].kind \in {"list", "dict"}
    BY LenProperties DEF IInv, StackInv, AreContainers, IsContainer
  <2>4. stack = <<>> \/ Len(stack) < MaxDepth
    BY DEF IInv, StackInv
  <2>5. pc = "string" /\ key => stack # <<>> /\ ~InList
    BY DEF IInv, RunningInv, ReadingInv
  <2>6. /\ error # NoError => error.line <= line_number /\ error.column >= 1
        /\ pc = "done" => stack = <<>>
    BY DEF IInv, ErrorInv
  <2> QED
    BY <2>1, <2>2, <2>3, <2>4, <2>5, <2>6 DEF JsonTypeOK
<1> QED
  BY <1>1, JsonInvariant, PTL

(* An error is reported exactly when there is no value, though one that is *)
(* found in a comment is reported before its caller fails.                 *)
THEOREM ErrorsAreFailures == Spec => []ErrorIffFailed
<1>1. IInv => ErrorIffFailed
  BY DEF IInv, ErrorInv, ErrorIffFailed
<1> QED
  BY <1>1, JsonInvariant, PTL

(* The parser knows its line in every text without a block comment.        *)
THEOREM LinesAreKnown == Spec => []LinesAreCounted
<1>1. IInv => LinesAreCounted
  BY DEF IInv, RunningInv, LinesInv, LineStart, LinesAreCounted
<1> QED
  BY <1>1, JsonInvariant, PTL

(* Parse returns the value that the grammar reads in the whole input, and  *)
(* none when the grammar reads none: in every text, with every option and  *)
(* every bound of the nesting.                                             *)
THEOREM ParserReadsTheGrammar == Spec => []ParsesTheGrammar
<1>1. ReadingsInv => ParsesTheGrammar
  <2> SUFFICES ASSUME ReadingsInv, pc = "done"
               PROVE  Document = IF result = NoValue THEN {} ELSE {result}
    BY DEF ParsesTheGrammar
  <2>1. \A doc : doc \in Document <=> result # NoValue /\ doc = result
    BY DEF ReadingsInv, GrammarInv, Pending, PendingAt
  <2> QED
    BY <2>1
<1>2. Spec => []ReadingsInv
  BY InitReadings, NextReadings, PTL DEF Spec
<1> QED
  BY <1>1, <1>2, PTL

=============================================================================
