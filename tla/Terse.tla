-------------------------------- MODULE Terse --------------------------------
(***************************************************************************)
(* TerseCodec (quickrpc/terse_codec.py) as functions: what the encode      *)
(* methods write, and what decode() makes of any piece of a stream.        *)
(*                                                                         *)
(* Bytes are abstracted to symbols: a punctuation mark, a letter, a number *)
(* (%g loses digits after the sixth, so numbers are short ones) or a piece *)
(* of base64 text.  Values are pairs of a tag and a content:               *)
(*   <<"num", symbol>>   <<"str", symbols>>    <<"bytes", symbol>>         *)
(*   <<"list", values>>  <<"dict", pairs of a name and a value>>           *)
(* and messages are                                                        *)
(*   <<"call", name, pairs, id>>   <<"reply", id, value>>                  *)
(*   <<"error", id, message, details>>                                     *)
(* where a name is a sequence of symbols and an id a number, "0" for none. *)
(*                                                                         *)
(* The branches of _decode() for replies, errors and ids compare a number, *)
(* data[idx], with bytes, b'[': they are never taken, and a line of any    *)
(* kind is read as a call.                                                 *)
(***************************************************************************)
EXTENDS Naturals, Sequences, SequencesExt

CONSTANT Numbers   \* the symbols that a number starts with

NL == "newline"
Quote == "quote"
BS == "backslash"

(* A character of two bytes, and text that is no UTF-8 because one of them *)
(* is missing.                                                             *)
Umlaut == <<"lead", "trail">>
Broken(text) ==
    \E i \in DOMAIN text : \/ text[i] = "lead" /\ (i = Len(text) \/ text[i + 1] # "trail")
                           \/ text[i] = "trail" /\ (i = 1 \/ text[i - 1] # "lead")

Call(name, pairs, id) == <<"call", name, pairs, id>>
-----------------------------------------------------------------------------
(* Encoding                                                                *)

(* A bug for the properties to catch: newlines are written as they are.    *)
EscapedRaw(s) ==
    FlattenSeq([i \in DOMAIN s |-> CASE s[i] = BS -> <<BS, BS>>
                                     [] s[i] = Quote -> <<BS, Quote>>
                                     [] OTHER -> <<s[i]>>])

Escaped(s) ==
    FlattenSeq([i \in DOMAIN s |-> CASE s[i] = BS -> <<BS, BS>>
                                     [] s[i] = Quote -> <<BS, Quote>>
                                     [] s[i] = NL -> <<BS, "n">>
                                     [] OTHER -> <<s[i]>>])

Joined(parts) ==
    FlattenSeq([i \in DOMAIN parts |-> IF i = 1 THEN parts[i] ELSE <<" ">> \o parts[i]])

RECURSIVE ValueText(_)
PairsText(pairs) ==
    Joined([i \in DOMAIN pairs |-> pairs[i][1] \o <<":">> \o ValueText(pairs[i][2])])
ValueText(v) ==
    CASE v[1] = "num" -> <<v[2]>>
      [] v[1] = "str" -> <<Quote>> \o Escaped(v[2]) \o <<Quote>>
      [] v[1] = "bytes" -> <<"'", v[2], "'">>
      [] v[1] = "list" -> <<"[">> \o Joined([i \in DOMAIN v[2] |-> ValueText(v[2][i])]) \o <<"]">>
      [] v[1] = "dict" -> <<"{">> \o PairsText(v[2]) \o <<"}">>

IdText(id) == IF id = "0" THEN <<>> ELSE <<"/", id>>

(* encode, encode_reply and encode_error; only the first ends its line.    *)
Encode(m) ==
    CASE m[1] = "call" -> m[2] \o IdText(m[4]) \o <<" ">> \o PairsText(m[3]) \o <<NL>>
      [] m[1] = "reply" -> <<"[", m[2], "]", ":">> \o ValueText(m[3])
      [] m[1] = "error" -> <<"[", m[2], "]", "!", " ">>
            \o PairsText(<< << <<"message">>, m[3] >>, << <<"details">>, m[4] >> >>)
-----------------------------------------------------------------------------
(* Decoding.  The functions take the text from idx on, and return what     *)
(* they found and the text after it; or how they failed: "error" is a      *)
(* DecodeError, "raise" the AttributeError of a search without match or the *)
(* UnicodeDecodeError, and "hang" the loop that never ends.                *)

Found(val, rest) == [fail |-> "no", val |-> val, rest |-> rest]
Failed(how) == [fail |-> how]

Drop(s, n) == SubSeq(s, n + 1, Len(s))
RECURSIVE SkipBlanks(_)
SkipBlanks(s) == IF Head(s) = " " THEN SkipBlanks(Tail(s)) ELSE s

(* _expect: one mark, after any blanks. *)
Expects(s, mark) == Head(SkipBlanks(s)) = mark
After(s) == Tail(SkipBlanks(s))

Identifier(s) ==
    LET end == SelectInSeq(s, LAMBDA x : x \in {" ", ":", NL})
        name == SubSeq(s, 1, end - 1)
    IN IF Broken(name) THEN Failed("raise") ELSE Found(name, Drop(s, end - 1))

RECURSIVE Replaced(_, _, _)
Replaced(s, old, new) ==
    IF Len(s) < Len(old) THEN s
    ELSE IF IsPrefix(old, s) THEN new \o Replaced(Drop(s, Len(old)), old, new)
    ELSE <<Head(s)>> \o Replaced(Tail(s), old, new)

Unescaped(s) ==
    Replaced(Replaced(Replaced(s, <<BS, "n">>, <<NL>>), <<BS, Quote>>, <<Quote>>), <<BS, BS>>, <<BS>>)

(* The regular expression takes the text up to the first quote without a   *)
(* backslash before it, and up to the last one if there is none such.      *)
StringEnd(s) ==
    LET quotes == {i \in DOMAIN s : s[i] = Quote}
        bare == {i \in quotes : i = 1 \/ s[i - 1] # BS}
    IN CASE bare # {} -> Min(bare) [] bare = {} /\ quotes # {} -> Max(quotes) [] OTHER -> 0

String(s) ==
    IF StringEnd(s) = 0 \/ Broken(SubSeq(s, 1, StringEnd(s) - 1)) THEN Failed("raise")
    ELSE Found(<<"str", Unescaped(SubSeq(s, 1, StringEnd(s) - 1))>>, Drop(s, StringEnd(s)))

Bytes(s) ==
    LET end == SelectInSeq(s, LAMBDA x : x = "'")
    IN IF end # 2 THEN Failed("error") ELSE Found(<<"bytes", s[1]>>, Drop(s, end))

RECURSIVE Value(_), Items(_, _), Pairs(_, _)

(* _decode_list, after the bracket. *)
Items(text, list) ==
    LET s == SkipBlanks(text)
        v == Value(s)
    IN IF Head(s) = "]" THEN Found(<<"list", list>>, Tail(s))
       ELSE IF v.fail # "no" THEN v ELSE Items(v.rest, Append(list, v.val))

(* _decode_pairs and _decode_pair: up to a mark that no pair starts with.  *)
(* Of a key that is there twice, the last one counts.                      *)
Pairs(text, pairs) ==
    LET s == SkipBlanks(text)
        key == Identifier(s)
        v == Value(After(key.rest))
    IN IF Head(s) \in {"}", NL} THEN Found(pairs, s)
       ELSE IF key.fail # "no" THEN key
       ELSE IF ~Expects(key.rest, ":") THEN Failed("error")
       ELSE IF v.fail # "no" THEN v
       ELSE Pairs(v.rest, Append(SelectSeq(pairs, LAMBDA p : p[1] # key.val), <<key.val, v.val>>))

Dict(text) ==
    LET ps == Pairs(text, <<>>)
    IN IF ps.fail # "no" THEN ps
       ELSE IF ~Expects(ps.rest, "}") THEN Failed("error")
       ELSE Found(<<"dict", ps.val>>, After(ps.rest))

Value(text) ==
    LET s == SkipBlanks(text)
    IN CASE Head(s) \in Numbers -> Found(<<"num", Head(s)>>, Tail(s))
         [] Head(s) = "[" -> Items(Tail(s), <<>>)
         [] Head(s) = "{" -> Dict(Tail(s))
         [] Head(s) = Quote -> String(Tail(s))
         [] Head(s) = "'" -> Bytes(Tail(s))
         [] OTHER -> Failed("error")

(* _decode and _decode_message, of one line.  An empty line hangs: the     *)
(* loop that is to skip it ends only at something that is not b''.         *)
DecodeLine(line) ==
    LET name == Identifier(Append(line, NL))
        ps == Pairs(name.rest, <<>>)
    IN IF line = <<>> THEN Failed("hang")
       ELSE IF name.fail # "no" THEN name
       ELSE IF ps.fail # "no" THEN ps
       ELSE IF ~Expects(ps.rest, NL) THEN Failed("error")
       ELSE Found(Call(name.val, ps.val, "0"), <<>>)

RECURSIVE Lines(_)
Lines(data) ==
    LET end == SelectInSeq(data, LAMBDA x : x = NL)
    IN IF end = 0 THEN <<data>> ELSE <<SubSeq(data, 1, end - 1)>> \o Lines(Drop(data, end))

(* decode(), line by line: a DecodeError is logged and skipped, the other  *)
(* failures end it, and of its results nothing remains.                    *)
Decoded(data) ==
    FoldLeft(LAMBDA st, line :
                 LET d == DecodeLine(line)
                 IN IF st.fail # "no" THEN st
                    ELSE IF d.fail = "no" THEN [st EXCEPT !.val = Append(@, d.val)]
                    ELSE IF d.fail = "error" THEN st ELSE [st EXCEPT !.fail = d.fail],
             Found(<<>>, <<>>), Front(Lines(data)))

Remainder(data) == Last(Lines(data))
-----------------------------------------------------------------------------
(* What the codec cannot bring back, although encode() takes it: a string  *)
(* with a backslash before an n or at the end, a call with an id (which is *)
(* taken for part of the name), and everything that is not a call.         *)
RECURSIVE Fragile(_)
Fragile(v) ==
    CASE v[1] = "str" -> \/ \E i \in 2 .. Len(v[2]) : v[2][i - 1] = BS /\ v[2][i] = "n"
                         \/ v[2] # <<>> /\ Last(v[2]) = BS
      [] v[1] = "list" -> \E i \in DOMAIN v[2] : Fragile(v[2][i])
      [] v[1] = "dict" -> \E i \in DOMAIN v[2] : Fragile(v[2][i][2])
      [] OTHER -> FALSE

Plain(m) == m[1] = "call" /\ m[4] = "0" /\ ~Fragile(<<"dict", m[3]>>)
=============================================================================
