------------------------------- MODULE JsonRpc -------------------------------
(***************************************************************************)
(* JsonRpcCodec (quickrpc/codecs.py) as functions: what the encode methods *)
(* write and what decode() makes of any piece of a stream.                 *)
(*                                                                         *)
(* Bytes are abstracted to symbols.  The JSON text of a dict d is the two  *)
(* symbols <<d, End>>, so that a stream can be cut inside of it; what a    *)
(* security provider makes of it is <<[sealed |-> d, by |-> secinfo], End>>*)
(* or, where the provider returns no new payload, the text itself.         *)
(***************************************************************************)
EXTENDS Naturals, Sequences, SequencesExt

CONSTANTS Delim,    \* the delimiter
          End,      \* the end of a JSON text
          None,     \* no secinfo
          Sealing,  \* the secinfos whose provider transforms the payload
          Unloadable \* bodies with a "__bytes" key whose value is no base64 text

(* Message, Reply and ErrorReply; body is the method with its arguments,   *)
(* the result, or the exception.                                           *)
Object(kind, body, id, secinfo) ==
    [kind |-> kind, body |-> body, id |-> id, secinfo |-> secinfo]
DecodeError == Object("DecodeError", None, 0, None)

(* The text around the delimiters, like bytes.split(). *)
Split(data) ==
    FoldLeft(LAMBDA parts, x : IF x = Delim THEN Append(parts, <<>>)
                               ELSE Front(parts) \o << Append(Last(parts), x) >>,
             << <<>> >>, data)
-----------------------------------------------------------------------------
Field(kind) == CASE kind = "Message" -> "method"
                 [] kind = "Reply" -> "result"
                 [] kind = "ErrorReply" -> "error"

(* The id is left out if it is 0. *)
Dict(m) == [f \in {"jsonrpc", Field(m.kind)} \union (IF m.id = 0 THEN {} ELSE {"id"}) |->
               CASE f = "jsonrpc" -> "2.0" [] f = "id" -> m.id [] OTHER -> m.body]

Header(secinfo) == << [jsonrpc |-> "2.0", method |-> "rpc.secinfo", params |-> secinfo], End >>

SecOut(text, secinfo) ==
    IF secinfo \in Sealing THEN << [sealed |-> Head(text), by |-> secinfo], End >> ELSE text

(* _encode_generic, for encode, encode_reply and encode_error. *)
EncodeGeneric(m) ==
    LET text == << Dict(m), End >>
    IN IF m.secinfo = None THEN Append(text, Delim)
       ELSE Header(m.secinfo) \o << Delim >> \o SecOut(text, m.secinfo) \o << Delim >>
-----------------------------------------------------------------------------
(* sec_in() of the same provider undoes what sec_out() did. *)
SecIn(text, secinfo) ==
    IF "sealed" \in DOMAIN Head(text) /\ Head(text).by = secinfo
    THEN << Head(text).sealed, End >> ELSE text

IsJson(text) == Len(text) >= 2 /\ text[1] # End /\ text[2] = End

(* obj_hook() fails: an exception that is no DecodeError. *)
Loadable(text) ==
    IsJson(text) => \A f \in DOMAIN Head(text) : Head(text)[f] \notin Unloadable

IdOf(d) == IF "id" \in DOMAIN d THEN d.id ELSE 0

DecodeOne(text, secinfo) ==
    IF ~IsJson(text) \/ "jsonrpc" \notin DOMAIN Head(text) THEN DecodeError
    ELSE LET d == Head(text)
         IN CASE "method" \in DOMAIN d -> Object("Message", d.method, IdOf(d), secinfo)
              [] "result" \in DOMAIN d -> Object("Reply", d.result, IdOf(d), secinfo)
              [] "error" \in DOMAIN d -> Object("ErrorReply", d.error, IdOf(d), secinfo)
              [] OTHER -> DecodeError
-----------------------------------------------------------------------------
(* decode(), one telegram at a time.  `raised` stands for the exception    *)
(* that leaves it, of which no result remains.                             *)

NoTelegram == [messages |-> <<>>, secinfo |-> None, raised |-> FALSE]

(* A bug for the properties to catch: a header is good for more than the   *)
(* message that comes after it.                                            *)
EmitSticky(st, m) == [st EXCEPT !.messages = Append(@, m)]

Emit(st, m) == [st EXCEPT !.messages = Append(@, m), !.secinfo = None]

Telegram(st, telegram, secIn) ==
    IF telegram = <<>> THEN st
    ELSE IF st.secinfo # None /\ ~secIn THEN Emit(st, DecodeError)
    ELSE LET text == IF st.secinfo # None /\ IsJson(telegram)
                     THEN SecIn(telegram, st.secinfo) ELSE telegram
             message == DecodeOne(text, st.secinfo)
         IN IF ~Loadable(text) THEN [st EXCEPT !.raised = TRUE]
            ELSE IF message.kind = "Message" /\ message.body = "rpc.secinfo"
            THEN [st EXCEPT !.secinfo = Head(text).params]
            ELSE Emit(st, message)

Decoded(parts, secIn) ==
    FoldLeft(LAMBDA st, telegram : Telegram(st, telegram, secIn), NoTelegram, Front(parts))

(* A bug for the properties to catch: the header is not put back.          *)
RemainderBare(data, secIn) == Last(Split(data))

(* The last text, and the header before it if its message is still to come.*)
Remainder(data, secIn) ==
    LET parts == Split(data)
    IN IF Decoded(parts, secIn).secinfo = None THEN Last(parts)
       ELSE parts[Len(parts) - 1] \o << Delim >> \o Last(parts)
=============================================================================
