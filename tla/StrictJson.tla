------------------------------ MODULE StrictJson ------------------------------
(***************************************************************************)
(* The strict JSON parser and the canonical form of shared/json.ts, on     *)
(* which every hash of the system rests, and the second copy of the parser *)
(* in the browser console (main.js), against a grammar of JSON.            *)
(*                                                                         *)
(* A source is a sequence of lexemes: the structural characters, "w" for a *)
(* whitespace character, a string literal as a whole ("a", "a2": the same  *)
(* string spelt with an escape, "p": the string __proto__, "bad": one that *)
(* is not well formed), "t" for true, false or null, and the characters of *)
(* numbers, where "B" stands for sixteen digits, too many for a safe       *)
(* integer.  Only TLC uses this module: it is recursive.                   *)
(***************************************************************************)
EXTENDS Naturals, Sequences, FiniteSets, SequencesExt

CONSTANTS
  Alphabets   \* sets of lexemes to build sources from, each with a bound on
              \* the length of a source: records lexemes, bound

VARIABLES source, alphabet

jvars == <<source, alphabet>>

\* What a string literal denotes, as its place in the order of strings.
StringValue == [a |-> 1, a2 |-> 1, p |-> 2]
StringLexeme == <<"a", "p">>
Proto == 2
Digits == {"0", "1", "B"}

----------------------------------------------------------------------------
(* The parser.  A result is the value and where it ends, or a reason. *)

At(src, i) == IF i \in DOMAIN src THEN src[i] ELSE "end"
Parsed(value, i) == [ok |-> TRUE, value |-> value, at |-> i]
Refused(reason, i) == [ok |-> FALSE, value |-> <<reason>>, at |-> i]

\* The first position from i on that the test does not accept.
RunEnd(src, i, accepted) ==
  CHOOSE j \in i .. Len(src) + 1 :
    /\ At(src, j) \notin accepted
    /\ \A k \in i .. j - 1 : At(src, k) \in accepted

SkipWhitespace(src, i) == IF i > Len(src) THEN i ELSE RunEnd(src, i, {"w"})

ParseString(src, i) ==
  IF At(src, i) \in DOMAIN StringValue
    THEN Parsed(<<"str", StringValue[src[i]]>>, i + 1)
    ELSE Refused("invalid_json_syntax", i)

\* Where -?(0|[1-9]\d*) ends, 0 when it does not match.
IntegerEnd(src, i) ==
  LET j == IF At(src, i) = "-" THEN i + 1 ELSE i
  IN CASE At(src, j) = "0"        -> j + 1
       [] At(src, j) \in {"1", "B"} -> RunEnd(src, j, Digits)
       [] OTHER                   -> 0

IsSafe(token) == \A k \in DOMAIN token : token[k] # "B"

ParseNumber(src, i) ==
  LET end == IntegerEnd(src, i)  token == SubSeq(src, i, end - 1)
  IN CASE end = 0                            -> Refused("invalid_json_syntax", i + 1)
       [] end > 0 /\ At(src, end) = "."      -> Refused("invalid_json_number", end + 1)
       [] end > 0 /\ At(src, end) # "." /\ ~IsSafe(token) -> Refused("invalid_json_number", end)
       [] OTHER                              -> Parsed(<<"num", token>>, end)

\* The console matches a fraction with the number and then refuses it; a point
\* without digits is left for what follows.
ParseNumberToken(src, i) ==
  LET end      == IntegerEnd(src, i)  token == SubSeq(src, i, end - 1)
      fraction == At(src, end) = "." /\ At(src, end + 1) \in Digits
  IN CASE end = 0                             -> Refused("invalid_json_syntax", i + 1)
       [] end > 0 /\ (fraction \/ ~IsSafe(token)) -> Refused("invalid_json_number", end)
       [] OTHER                               -> Parsed(<<"num", token>>, end)

\* Object.defineProperty: every key becomes a member.
DefineProperty(members, key, value) == Append(members, <<key, value>>)

\* value[key] = ...: the key __proto__ sets the prototype, and is no member.
AssignProperty(members, key, value) ==
  IF key = Proto THEN members ELSE Append(members, <<key, value>>)

\* seenKeys as a parser without it would have it.
NeverSeen(seen, key) == FALSE

IsSeen(seen, key) == key \in seen

RECURSIVE ParseValue(_, _, _)
RECURSIVE ParseItems(_, _, _, _)
RECURSIVE ParseMembers(_, _, _, _, _)

\* The loop of parseArray from one item on.
ParseItems(src, i, items, console) ==
  LET item == ParseValue(src, i, console)
      next == SkipWhitespace(src, item.at)
  IN CASE i > Len(src)  -> Refused("invalid_json_syntax", i)
       [] i <= Len(src) /\ ~item.ok -> item
       [] i <= Len(src) /\ item.ok /\ At(src, next) = "]" ->
            Parsed(<<"arr", Append(items, item.value)>>, next + 1)
       [] i <= Len(src) /\ item.ok /\ At(src, next) = "," ->
            ParseItems(src, SkipWhitespace(src, next + 1), Append(items, item.value), console)
       [] OTHER -> Refused("invalid_json_syntax", next)

ParseArray(src, i, console) ==
  LET first == SkipWhitespace(src, i + 1)
  IN IF At(src, first) = "]" THEN Parsed(<<"arr", <<>>>>, first + 1)
                             ELSE ParseItems(src, first, <<>>, console)

\* The loop of parseObject from one key on.
ParseMembers(src, i, members, seen, console) ==
  LET key   == ParseString(src, i)
      colon == SkipWhitespace(src, key.at)
      item  == ParseValue(src, colon + 1, console)
      next  == SkipWhitespace(src, item.at)
      name  == key.value[2]
      store == IF console THEN AssignProperty(members, name, item.value)
                          ELSE DefineProperty(members, name, item.value)
  IN IF i > Len(src) \/ ~key.ok THEN Refused("invalid_json_syntax", i)
     ELSE IF IsSeen(seen, name) THEN Refused("duplicate_json_keys", i)
     ELSE IF At(src, colon) # ":" THEN Refused("invalid_json_syntax", colon)
     ELSE IF ~item.ok THEN item
     ELSE IF At(src, next) = "}" THEN Parsed(<<"obj", store>>, next + 1)
     ELSE IF At(src, next) = "," THEN
       ParseMembers(src, SkipWhitespace(src, next + 1), store, seen \cup {name}, console)
     ELSE Refused("invalid_json_syntax", next)

ParseObject(src, i, console) ==
  LET first == SkipWhitespace(src, i + 1)
  IN IF At(src, first) = "}" THEN Parsed(<<"obj", <<>>>>, first + 1)
                             ELSE ParseMembers(src, first, <<>>, {}, console)

ParseValue(src, start, console) ==
  LET i == SkipWhitespace(src, start)  c == At(src, i)
  IN CASE c = "{" -> ParseObject(src, i, console)
       [] c = "[" -> ParseArray(src, i, console)
       [] c \in DOMAIN StringValue \cup {"bad"} -> ParseString(src, i)
       [] c \in Digits \cup {"-"} -> IF console THEN ParseNumberToken(src, i)
                                                ELSE ParseNumber(src, i)
       [] c = "t" -> Parsed(<<"lit">>, i + 1)
       [] OTHER   -> Refused("invalid_json_syntax", i)

\* Nothing but whitespace may follow the value.
Whole(src, result) ==
  LET end == SkipWhitespace(src, result.at)
  IN IF result.ok /\ end # Len(src) + 1 THEN Refused("invalid_json_syntax", end) ELSE result

ParseStrictJson(src) == Whole(src, ParseValue(src, 1, FALSE))
StrictParseJson(src) == Whole(src, ParseValue(src, 1, TRUE))

----------------------------------------------------------------------------
(* The canonical form. *)

SerializeNumber(token) == IF token = <<"-", "0">> THEN <<"0">> ELSE token

\* The members as they were inserted.
InsertionOrder(members) == members

SortedMembers(members) == SortSeq(members, LAMBDA m, n : m[1] < n[1])

\* Texts with commas between them.
Joined(texts) ==
  FoldLeft(LAMBDA acc, t : IF acc = <<>> THEN t ELSE acc \o <<",">> \o t, <<>>, texts)

RECURSIVE CanonicalizeJson(_)
CanonicalizeJson(v) ==
  CASE v[1] = "lit" -> <<"t">>
    [] v[1] = "str" -> <<StringLexeme[v[2]]>>
    [] v[1] = "num" -> SerializeNumber(v[2])
    [] v[1] = "arr" ->
         <<"[">> \o Joined([k \in DOMAIN v[2] |-> CanonicalizeJson(v[2][k])]) \o <<"]">>
    [] v[1] = "obj" ->
         LET sorted == SortedMembers(v[2])
         IN <<"{">> \o Joined([k \in DOMAIN sorted |->
                        <<StringLexeme[sorted[k][1]], ":">> \o CanonicalizeJson(sorted[k][2])])
              \o <<"}">>

----------------------------------------------------------------------------
(* What JSON is: the meanings of a text, by ways to take it apart. *)

Trim(s) ==
  LET black == {k \in DOMAIN s : s[k] # "w"}
  IN IF black = {} THEN <<>>
     ELSE SubSeq(s, CHOOSE k \in black : \A l \in black : k <= l,
                    CHOOSE k \in black : \A l \in black : k >= l)

IsNumber(s) ==
  LET digits == IF s[1] = "-" THEN Tail(s) ELSE s
  IN /\ digits # <<>>
     /\ \A k \in DOMAIN digits : digits[k] \in {"0", "1"}
     /\ digits[1] = "0" => Len(digits) = 1

RECURSIVE Meanings(_)
RECURSIVE ItemLists(_)
RECURSIVE MemberSets(_)

ItemLists(s) ==
  {<<m>> : m \in Meanings(s)} \cup
  UNION {{<<m>> \o rest : m \in Meanings(SubSeq(s, 1, k - 1)),
                          rest \in ItemLists(SubSeq(s, k + 1, Len(s)))} :
         k \in {l \in DOMAIN s : s[l] = ","}}

\* One member: a string, a colon and a value.
Member(s) ==
  UNION {LET key == Trim(SubSeq(s, 1, k - 1))
         IN IF Len(key) = 1 /\ key[1] \in DOMAIN StringValue
              THEN {<<StringValue[key[1]], m>> : m \in Meanings(SubSeq(s, k + 1, Len(s)))}
              ELSE {} :
         k \in {l \in DOMAIN s : s[l] = ":"}}

MemberSets(s) ==
  {{m} : m \in Member(s)} \cup
  UNION {UNION {{{m} \cup rest : rest \in {r \in MemberSets(SubSeq(s, k + 1, Len(s))) :
                                            \A n \in r : n[1] # m[1]}} :
                m \in Member(SubSeq(s, 1, k - 1))} :
         k \in {l \in DOMAIN s : s[l] = ","}}

Meanings(s) ==
  LET t == Trim(s)  inner == SubSeq(t, 2, Len(t) - 1)
  IN CASE t = <<>> -> {}
       [] t # <<>> /\ Len(t) = 1 /\ t[1] \in DOMAIN StringValue -> {<<"str", StringValue[t[1]]>>}
       [] t = <<"t">> -> {<<"lit">>}
       [] t # <<>> /\ t[1] \in Digits \cup {"-"} -> IF IsNumber(t) THEN {<<"num", t>>} ELSE {}
       [] t # <<>> /\ Len(t) > 1 /\ t[1] = "[" /\ Last(t) = "]" ->
            {<<"arr", m>> : m \in IF Trim(inner) = <<>> THEN {<<>>} ELSE ItemLists(inner)}
       [] t # <<>> /\ Len(t) > 1 /\ t[1] = "{" /\ Last(t) = "}" ->
            {<<"obj", m>> : m \in IF Trim(inner) = <<>> THEN {{}} ELSE MemberSets(inner)}
       [] OTHER -> {}

\* A value with its members in no order, without the keys in dropped.
RECURSIVE Unordered(_, _)
Unordered(v, dropped) ==
  CASE v[1] = "arr" -> <<"arr", [k \in DOMAIN v[2] |-> Unordered(v[2][k], dropped)]>>
    [] v[1] = "obj" -> <<"obj", {<<v[2][k][1], Unordered(v[2][k][2], dropped)>> :
                                   k \in {l \in DOMAIN v[2] : v[2][l][1] \notin dropped}}>>
    [] OTHER -> v

\* The same value with the members of its objects the other way round.
RECURSIVE Reversed(_)
Reversed(v) ==
  CASE v[1] = "arr" -> <<"arr", [k \in DOMAIN v[2] |-> Reversed(v[2][k])]>>
    [] v[1] = "obj" -> <<"obj", Reverse([k \in DOMAIN v[2] |-> <<v[2][k][1], Reversed(v[2][k][2])>>])>>
    [] OTHER -> v

----------------------------------------------------------------------------
(* Every source that one of the parsers has not refused before its end. *)

InitJ == source = <<>> /\ alphabet \in Alphabets

Extend ==
  /\ Len(source) < alphabet.bound
  /\ \E result \in {ParseStrictJson(source), StrictParseJson(source)} :
       result.ok \/ result.at > Len(source)
  /\ \E c \in alphabet.lexemes : source' = Append(source, c)
  /\ UNCHANGED alphabet

NextJ == Extend
SpecJ == InitJ /\ [][NextJ]_jvars

----------------------------------------------------------------------------
(* Properties. *)

\* parseStrictJson accepts exactly the texts of JSON whose numbers are safe
\* integers and whose objects have no key twice, however the keys are spelt,
\* and gives each the value the grammar gives it.  The console's copy (main.js)
\* accepts the same texts and reads the same value, but for the members named
\* __proto__, which it assigns and so loses: what the operator is shown is what
\* the engine hashes, save for them.
ParserIsGrammar ==
  LET engine  == ParseStrictJson(source)
      console == StrictParseJson(source)
  IN /\ Meanings(source) = IF engine.ok THEN {Unordered(engine.value, {})} ELSE {}
     /\ console.ok = engine.ok
     /\ engine.ok => Unordered(console.value, {}) = Unordered(engine.value, {Proto})

\* canonicalizeJson gives one text to a value however its members are ordered,
\* and that text is its own canonical form: the two facts verifyCanonicalization
\* and every hash comparison depend on.
CanonicalIsUnique ==
  LET result == ParseStrictJson(source)
      text   == CanonicalizeJson(result.value)
      again  == ParseStrictJson(text)
  IN result.ok =>
       /\ CanonicalizeJson(Reversed(result.value)) = text
       /\ again.ok /\ CanonicalizeJson(again.value) = text

=============================================================================
