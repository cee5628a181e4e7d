--------------------------- MODULE ChatServerRoom ---------------------------
(***************************************************************************)
(* The server implements the room.  A text is posted at the moment its     *)
(* sendText takes the mutex, a client is inside while it is registered and *)
(* authenticated, and it is given a text when send() accepted it.          *)
(***************************************************************************)
EXTENDS ChatServerProperties

PostedLog ==
  IF \E s \in Clients : pc[s] = "sending"
    THEN Append(backlog_, ServerText(CHOOSE s \in Clients : pc[s] = "sending"))
    ELSE backlog_

PlaceOf(c) ==
  CASE Inside(c) -> "inside" [] Gone(c) -> "gone" [] OTHER -> "outside"

Places == [c \in Clients |-> PlaceOf(c)]
Given == [c \in Clients |-> TextsOf("live", out[c])]

Room == INSTANCE ChatRoom WITH
  Members <- Clients,
  Posts <- Texts,
  log <- PostedLog,
  place <- Places,
  start <- since,
  given <- Given

\* Every behaviour of the server's threads is a behaviour of the room: texts
\* take effect atomically and are given in one order to everyone inside.
ImplementsRoom == Room!Init /\ [][Room!Next]_(Room!vars)
=============================================================================
