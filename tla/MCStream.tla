------------------------------ MODULE MCStream ------------------------------
(***************************************************************************)
(* For TLC: objects of every kind, with and without security; terse calls  *)
(* with nested values, an id and a reply; and all strings up to a length.  *)
(***************************************************************************)
EXTENDS Stream

CONSTANTS odd, MaxText

Param(name, v) == <<<<name>>, v>>
Text(s) == <<"str", s>>
Texts == UNION {[1..n -> {"n", T!Quote, T!NL, T!BS}] : n \in 0..MaxText}

MCAlone == {T!Call(<<"m">>, <<Param("p", Text(s)), Param("q", Text(s))>>, "0") : s \in Texts}
    \union {T!Call(<<"m">>, <<Param("p", <<"list", <<Text(s), <<"bytes", "b64">>,
                <<"dict", <<Param("k", <<"num", "1">>), Param("l", Text(s))>>>>,
                <<"list", <<>>>> >> >>)>>, "0") : s \in Texts}
    \union {<<"error", "7", Text(<<>>), Text(<<T!NL>>)>>}

Umlauts == T!Call(<<"n">>, <<Param("p", Text(<<"n", T!NL>> \o T!Umlaut))>>, "0")
MCFresh == {T!Call(<<"m">>, <<>>, "0"), T!Call(<<"m">>, <<>>, "7"), Umlauts,
            <<"reply", "7", <<"num", "1">>>>}

Uses == {"jrpc", "terse"} \X {"tcp", "qtcp", "qprocess"}
MCKept == [use \in Uses |->
              CASE use[1] = "jrpc" -> {Object("Message", "plain", 0, None),
                                       Object("Reply", "sealed", 2, "sealer")}
                [] use = <<"terse", "qprocess">> -> {Umlauts}
                [] OTHER -> MCFresh]
MCMaxSends == [use \in Uses |-> IF use[1] = "jrpc" /\ use[2] # "qprocess" THEN 3 ELSE 2]

MCObjects ==
    [jrpc |-> {Object("Message", "plain", 0, None), Object("ErrorReply", "signed", 1, "user"),
               Object("Reply", "sealed", 2, "sealer"), Object("Message", odd, 0, None)},
     terse |-> MCFresh \union MCAlone]
=============================================================================
