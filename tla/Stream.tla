------------------------------- MODULE Stream --------------------------------
(***************************************************************************)
(* One direction of a connection between two peers that use the same       *)
(* codec: send() writes whole frames, the channel delivers them in pieces  *)
(* of any size, and the receiver puts what decode() left over before the   *)
(* next piece.  Its API is handed the messages one by one, until there is  *)
(* one that could not be decoded: then it raises, and what is left over is *)
(* never returned.  The receiver is                                        *)
(*   - "tcp", the loop of TcpClientTransport.run or of _TcpConnection.handle *)
(*     (quickrpc/network_transports.py), whose leftover is a local.  It ends *)
(*     with the connection; and an exception ends the loop.                *)
(*   - "qtcp" or "qprocess", on_ready_read of QTcpTransport or of Q-       *)
(*     ProcessTransport (QtTransports.py), whose leftover is an attribute. *)
(*     It is still there when the next connection, or the next run of the  *)
(*     child process, begins.  An exception ends on_ready_read, which is   *)
(*     called again for the next piece, with the leftover as it was.  Q-   *)
(*     ProcessTransport decodes the piece itself, and what there is on     *)
(*     stderr, before it looks at the leftover.                            *)
(* While nothing is sent, keepalive messages are; here they are a bare     *)
(* delimiter.  The connection may break and be made again.                 *)
(***************************************************************************)
EXTENDS JsonRpc

CONSTANTS Objects,   \* codec -> what is sent with it
          Alone,     \* bound: terse messages that are sent by themselves only
          Kept,      \* codec, receiver -> bound: what is sent if it keeps its leftover
          Numbers,   \* for Terse.tla
          MaxSends,  \* codec, receiver -> bound: objects and keepalives on one connection
          MaxLost    \* bound: pieces that QProcessTransport cannot decode

T == INSTANCE Terse

VARIABLES codec, secIn, receiver, \* "jrpc" or "terse"; has the receiver a security
                     \* provider?  Which one is it?  They never change.
          wire,      \* sent and not yet received
          leftover,  \* of the receiver
          went,      \* history: how it has gone on this connection: "well", or
                     \* something "raised", or decode() "hung" in an endless loop
          got,       \* history: the messages that were handled on it
          sent,      \* history: what was sent on it
          stream,    \* history: what was received on it, until it went wrong
          stale,     \* history: the leftover it began with
          beats,     \* number of keepalives
          lost       \* number of pieces that QProcessTransport could not decode

setup == <<codec, secIn, receiver>>
connection == <<wire, went, got, sent, stream, beats>>
vars == <<setup, connection, leftover, stale, lost>>

keeps == receiver # "tcp"

Closed == /\ wire = <<>> /\ went = "well"
          /\ got = <<>> /\ sent = <<>> /\ stream = <<>> /\ beats = 0

(* Only jrpc knows security. *)
Init == /\ codec \in {"jrpc", "terse"} /\ receiver \in {"tcp", "qtcp", "qprocess"}
        /\ secIn \in (IF codec = "jrpc" THEN BOOLEAN ELSE {FALSE})
        /\ Closed /\ leftover = <<>> /\ stale = <<>> /\ lost = 0

Encode(m) == IF codec = "jrpc" THEN EncodeGeneric(m) ELSE T!Encode(m)
Rest(data) == IF codec = "jrpc" THEN Remainder(data, secIn) ELSE T!Remainder(data)

(* What decode() made of the data, and how it ended; and of the messages,  *)
(* those that _handle_received handles: at a DecodeError that the decode() *)
(* of jrpc returned, message_error raises.                                 *)
Outcome(messages, end) == [done |-> messages, end |-> end]
TerseOutcome(decoded) ==
    Outcome(IF decoded.fail = "no" THEN decoded.val ELSE <<>>, decoded.fail)
JrpcOutcome(decoded) ==
    LET error == SelectInSeq(decoded.messages, LAMBDA m : m = DecodeError)
    IN CASE decoded.raised -> Outcome(<<>>, "raise")
         [] ~decoded.raised /\ error = 0 -> Outcome(decoded.messages, "no")
         [] OTHER -> Outcome(SubSeq(decoded.messages, 1, error - 1), "raise")
Handling(data) == IF codec = "terse" THEN TerseOutcome(T!Decoded(data))
                  ELSE JrpcOutcome(Decoded(Split(data), secIn))

Single(m) == codec = "terse" /\ m \in Alone
Room == /\ Len(sent) + beats < MaxSends[codec, receiver]
        /\ keeps /\ stale = <<>> => Len(sent) + beats < 1
        /\ \A i \in DOMAIN sent : ~Single(sent[i])

SendObject(m) ==
    /\ Room /\ (keeps => m \in Kept[codec, receiver]) /\ (Single(m) => sent = <<>> /\ beats = 0)
    /\ wire' = wire \o Encode(m)
    /\ sent' = Append(sent, m)
    /\ UNCHANGED <<setup, leftover, went, got, stream, stale, beats, lost>>

KeepaliveTick ==
    /\ Room
    /\ wire' = Append(wire, IF codec = "jrpc" THEN Delim ELSE T!NL)
    /\ beats' = beats + 1
    /\ UNCHANGED <<setup, leftover, went, got, sent, stream, stale, lost>>

Chunk(n) == SubSeq(wire, 1, n)
Consume(n) == /\ wire' = SubSeq(wire, n + 1, Len(wire))
              /\ stream' = IF went' = "well" THEN stream \o Chunk(n) ELSE <<>>

(* A bug for the properties to catch: the stale bytes are never dropped.   *)
ReceivedTwice(data, outcome) ==
    /\ outcome.end = "no"
    /\ got' = got \o outcome.done
    /\ leftover' = IF stale = <<>> THEN Rest(data) ELSE data
    /\ UNCHANGED went

(* `leftover = self.received(sender, leftover + data)`: it returns what is *)
(* left over; or something raises, and the leftover stays as it was; or    *)
(* decode() does not come back, and nothing is received any more.          *)
Received(data, outcome) ==
    /\ got' = got \o outcome.done
    /\ leftover' = IF outcome.end = "no" THEN Rest(data) ELSE leftover
    /\ went' = CASE outcome.end = "no" -> went
                 [] outcome.end = "raise" -> "raised"
                 [] outcome.end = "hang" -> "hung"

(* A loop that was ended by an exception receives nothing either. *)
Receives == went = "well" \/ (keeps /\ went = "raised")

Receive(n) ==
    /\ Receives /\ (receiver = "qprocess" /\ codec = "terse" => ~T!Broken(Chunk(n)))
    /\ Received(leftover \o Chunk(n), Handling(leftover \o Chunk(n)))
    /\ Consume(n)
    /\ UNCHANGED <<setup, sent, stale, beats, lost>>

(* `data.decode('utf8')` of QProcessTransport raises, if the piece is cut  *)
(* inside of a character, or if what the child process has written to      *)
(* stderr by then is: the piece is lost.  (JSON texts are ASCII.)          *)
ReceiveUndecodable(n) ==
    /\ Receives /\ receiver = "qprocess" /\ lost < MaxLost
    /\ lost' = lost + 1
    /\ went' = "raised"
    /\ Consume(n)
    /\ UNCHANGED <<setup, leftover, got, sent, stale, beats>>

(* The connection is closed and made again.  Bounds: one stale leftover,   *)
(* of a first connection with a single frame (see Room).                   *)
Reconnect ==
    /\ went # "hung" /\ connection # <<<<>>, "well", <<>>, <<>>, <<>>, 0>>
    /\ keeps /\ leftover # <<>> => stale = <<>>
    /\ wire' = <<>> /\ went' = "well"
    /\ got' = <<>> /\ sent' = <<>> /\ stream' = <<>> /\ beats' = 0
    /\ leftover' = IF keeps THEN leftover ELSE <<>>
    /\ stale' = leftover'
    /\ UNCHANGED <<setup, lost>>

Next == \/ \E m \in Objects[codec] : SendObject(m)
        \/ KeepaliveTick \/ Reconnect
        \/ \E n \in 1..Len(wire) : Receive(n) \/ ReceiveUndecodable(n)

Spec == Init /\ [][Next]_vars
-----------------------------------------------------------------------------
TypeOK ==
    /\ codec \in {"jrpc", "terse"} /\ secIn \in BOOLEAN /\ receiver \in {"tcp", "qtcp", "qprocess"}
    /\ went \in {"well", "raised", "hung"} /\ sent \in Seq(Objects[codec])
    /\ codec = "jrpc" /\ ~keeps => got \in Seq(Objects["jrpc"])
    /\ lost \in 0..MaxLost /\ beats \in 0..MaxSends[codec, receiver] /\ Len(sent) + beats <= MaxSends[codec, receiver]

(* As long as nothing has raised on the connection, it makes no difference *)
(* in what pieces the stream arrives: the messages are those that decode() *)
(* makes of all of it at once.  There is one exception: where a security   *)
(* header is left of an earlier connection, it depends on the pieces       *)
(* whether a keepalive makes decode() forget it.  And if something has     *)
(* raised, it does depend on them how much is lost.                        *)
HeaderLeft == codec = "jrpc" /\ \E m \in Objects["jrpc"] :
                  m.secinfo # None /\ IsPrefix(<<Head(Header(m.secinfo))>>, stale)
Doubtful == HeaderLeft /\ beats > 0
PiecesDoNotMatter ==
    went = "well" /\ ~Doubtful => Handling(stale \o stream) = Outcome(got, "no")

(* Of what the terse codec cannot bring back nothing was sent. *)
Plainly == codec = "terse" => \A i \in DOMAIN sent : T!Plain(sent[i])

(* A receiver that begins each connection anew has a channel in the sense  *)
(* of Channel.tla, as long as nothing else is sent.  An exception ends it. *)
Sound == ~keeps /\ Plainly
JrpcChannel == INSTANCE Channel WITH
                   Objects <- Objects["jrpc"],
                   sent <- IF Sound /\ codec = "jrpc" THEN sent ELSE <<>>,
                   got <- IF Sound /\ codec = "jrpc" THEN got ELSE <<>>
TerseChannel == INSTANCE Channel WITH
                    Objects <- Objects["terse"],
                    sent <- IF Sound /\ codec = "terse" THEN sent ELSE <<>>,
                    got <- IF Sound /\ codec = "terse" THEN got ELSE <<>>
ChannelSpec == JrpcChannel!Spec /\ TerseChannel!Spec

(* A receiver that keeps the bytes of a broken connection loses no more    *)
(* than the first frame of the next one by it, unless they make it raise,  *)
(* as half a JSON text does: then it keeps them for good.  Otherwise, when *)
(* all is received, the other frames have arrived as they were sent, with  *)
(* at most one thing more.  Only a security header that was cut off right  *)
(* before its delimiter costs two: the first frame is glued to it, the     *)
(* second taken for its own.                                               *)
Spoilt == IF HeaderLeft /\ Delim \notin Range(stale) /\ Len(stale) > 1 THEN 2 ELSE 1
Recovers ==
    wire = <<>> /\ went = "well" /\ Plainly /\ ~Doubtful
        => /\ IsSuffix(SubSeq(sent, Spoilt + 1, Len(sent)), got)
           /\ Len(got) <= Len(sent) + 1
=============================================================================
