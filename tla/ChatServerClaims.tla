-------------------------- MODULE ChatServerClaims --------------------------
(***************************************************************************)
(* What comments of the repository say of the server and the code does not *)
(* do: TLC finds a behaviour that violates each of them.                   *)
(***************************************************************************)
EXTENDS ChatServerRoom

\* Server.h:53-54 "If the username is already connected, the authentification
\* will be refused": no two connected clients have the same name.
NoDoubleLogin ==
  \A c, d \in clients_ :
    c # d /\ auth_[c] /\ auth_[d] => name_[c] # name_[d]

\* Server.h:66-68 "When a client thread receives a message from a user, we
\* need to send it back to the other users connected": the texts of others
\* that a client is sent, replayed or live, leave no hole in the backlog.
NoMissedText ==
  \A c \in clients_ :
    auth_[c] /\ pc[c] \in Serving /\ Intact(c)
      => \A i \in Len(TextsOf("replay", Stream(c))) + 1 .. since[c] :
           i <= Len(backlog_) => backlog_[i].from = c
=============================================================================
