---------------------------- MODULE MCChatServer ----------------------------
(***************************************************************************)
(* Small instances of ChatServer for TLC.                                  *)
(***************************************************************************)
EXTENDS ChatServerClaims, TLC

CONSTANTS c1, c2, c3, Ann, Bob, p, q

AnnKnown == <<[name |-> Ann, pass |-> p]>>
AnnTwice == <<[name |-> Ann, pass |-> p], [name |-> Ann, pass |-> q]>>

NoTexts == <<>>
OneText == <<[user |-> Ann, from |-> "past", n |-> 1]>>

Symmetry == Permutations(Clients)
=============================================================================
