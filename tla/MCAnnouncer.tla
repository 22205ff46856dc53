----------------------------- MODULE MCAnnouncer -----------------------------
(***************************************************************************)
(* For TLC: two announcers of one process, the second with a long          *)
(* description, and a seeker with listeners of both kinds.                 *)
(***************************************************************************)
EXTENDS Announcer

CONSTANTS ann1, ann2, seeker, once, steady, process, all, some

MCProcess == [x \in Announcers |-> process]
MCMatches == (all :> {ann1, ann2}) @@ (some :> {ann2})

(* seek() without a filter and a description that is a number have none. *)
MCQuoted == {<<"seek", some>>, <<"advertise", ann2>>}
=============================================================================
