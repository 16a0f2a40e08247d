---------------------------- MODULE MCJsonParser ----------------------------
(***************************************************************************)
(* The inputs TLC parses: all short sequences over a few small alphabets   *)
(* of lexemes, one for each part of the grammar, and some longer texts.    *)
(***************************************************************************)
EXTENDS JsonGrammar

Text(lexemes) == FlattenSeq(lexemes)
Texts(lexemes, n) == {Text(s) : s \in BoundedSeq(lexemes, n)}
TextsOf(lexemes, n) == {Text(s) : s \in [1 .. n -> lexemes]}

Quote == <<"\"">>
Empty == <<"\"", "\"">>

Structure == {<<"{">>, <<"}">>, <<"[">>, <<"]">>, <<",">>, <<":">>, Empty,
              <<"1">>}

Blanking == {<<" ">>, <<"\n">>, <<"\r">>, <<"/">>, <<"/", "/">>, <<"/", "*">>,
             <<"*", "/">>, <<"1">>}

Lead == <<"\\", "u", "d", "8", "3", "d">>
Trail == <<"\\", "u", "d", "e", "0", "0">>
InStrings ==
  {Quote, <<"a">>, <<"utf8">>, <<"bad">>, <<"ctl">>, <<"\n">>, <<"\r">>,
   <<"\t">>, <<"\\">>, <<"\\", "n">>, <<"\\", "v">>, <<"\\", "x", "4", "1">>,
   <<"\\", "x", "4">>, Lead, Trail, <<"\\", "u", "0", "0", "4", "1">>,
   <<"\\", "u", "0">>}

InNumbers == {<<"-">>, <<"0">>, <<"1">>, <<"9">>, <<".">>, <<"e">>, <<"+">>}

True == <<"t", "r", "u", "e">>
False == <<"f", "a", "l", "s", "e">>
Null == <<"n", "u", "l", "l">>

Pair(c, value) == Quote \o <<c>> \o Quote \o <<":">> \o value
Object(members) == <<"{">> \o members \o <<"}">>
List(members) == <<"[">> \o members \o <<"]">>

LongTexts ==
  {True, False, Null, Front(True), Front(False), Front(Null), True \o Null,
   <<"bom">> \o True, <<"bom", "bom">> \o True, True \o <<"bom">>,
   List(True \o <<",">> \o False \o <<",">> \o Null),
   Object(Pair("a", <<"1">>) \o <<",">> \o Pair("a", <<"0">>)),
   Object(Pair("a", <<"1">>) \o <<",">> \o Pair("b", <<"0">>)
            \o <<",">> \o Pair("a", Null)),
   Object(Pair("a", List(<<"1">>)) \o <<",">>),
   Object(Pair("a", Object(Pair("a", True)))),
   Object(Pair("a", Object(Pair("a", Object(<<>>))))),
   List(Object(<<>>) \o <<",">> \o List(<<>>)),
   List(List(List(<<>>))),
   List(<<"1", "\n", ",", "\r", "\n", "/", "/", "a", "\r", "\n", "1">>),
   List(<<"1", "/", "*", "*", "/", ",", "1">>),
   Object(Pair("\n", <<"\t", "/", "*", "/", "*", "/", "1">>)),
   <<"\r", "/", "/", "\n", "}">>}

(* For every part of the grammar.                                          *)
ShortTexts ==
  Texts(Structure, 3)
    \cup {c \o t : c \in {<<"[">>, <<"{">>}, t \in TextsOf(Structure, 3)}
    \cup {Object(Empty \o t) : t \in TextsOf(Structure, 3)}
    \cup Texts(Blanking, 4)
    \cup {Quote \o t : t \in Texts(InStrings, 3)}
    \cup {Quote \o t \o Quote : t \in Texts(InStrings, 2)}
    \cup {List(Quote \o Lead \o t \o Quote) : t \in Texts(InStrings, 1)}
    \cup Texts(InNumbers, 4)
    \cup {<<"1", ".">> \o t : t \in TextsOf(InNumbers, 3)}
MCInputs == LongTexts \cup ShortTexts

(* Every option alone would multiply the run: each is on in two sets and   *)
(* off in two.                                                             *)
MCOptionSets ==
  {{}, Options,
   {"JSON_ALLOW_COMMENTS", "JSON_REPLACE_INVALID_CHARACTERS",
    "JSON_ALLOW_VERT_TAB"},
   {"JSON_ALLOW_TRAILING_COMMAS", "JSON_ALLOW_X_ESCAPES",
    "JSON_ALLOW_NEWLINES_IN_STRINGS"}}

(* For the lines of errors.                                                *)
CommentedTexts == Texts(Blanking, 4)

=============================================================================
