------------------------------ MODULE ChatRoom ------------------------------
(***************************************************************************)
(* What the chat server promises to a participant, without threads, locks, *)
(* queues or sockets: posting appends to one log, and whoever is in the    *)
(* room is given the log's entries one by one, without holes, repetition   *)
(* or change of order, from the point where it came in until it leaves or  *)
(* its connection fails.  This is the contract of Server::sendText         *)
(* (Server.h:65-75) together with Server::unregister.                      *)
(***************************************************************************)
EXTENDS Naturals, Sequences

CONSTANTS Members, Posts

VARIABLES
  log,     \* the texts posted so far
  place,   \* "outside", "inside" or "gone", for each member
  start,   \* the length of the log from which a member is served
  given    \* the texts a member was given

vars == <<log, place, start, given>>

Init ==
  /\ log \in Seq(Posts)
  /\ place = [m \in Members |-> "outside"]
  /\ start = [m \in Members |-> 0]
  /\ given = [m \in Members |-> <<>>]

\* A member who comes in while a text is being posted may or may not get it.
Enter(m) ==
  /\ place[m] = "outside"
  /\ place' = [place EXCEPT ![m] = "inside"]
  /\ \E from \in {Len(log), Len(log) - 1} \cap Nat : start' = [start EXCEPT ![m] = from]
  /\ UNCHANGED <<log, given>>

Post(m, t) ==
  /\ place[m] # "gone" /\ t.from = m
  /\ log' = Append(log, t)
  /\ UNCHANGED <<place, start, given>>

Give(m) ==
  /\ place[m] = "inside"
  /\ start[m] + Len(given[m]) < Len(log)
  /\ given' = [given EXCEPT ![m] = Append(@, log[start[m] + Len(@) + 1])]
  /\ UNCHANGED <<log, place, start>>

Quit(m) ==
  /\ place[m] # "gone"
  /\ place' = [place EXCEPT ![m] = "gone"]
  /\ UNCHANGED <<log, start, given>>

Next ==
  \E m \in Members : \/ Enter(m) \/ Give(m) \/ Quit(m)
                     \/ \E t \in Posts : Post(m, t)

Spec == Init /\ [][Next]_vars
=============================================================================
