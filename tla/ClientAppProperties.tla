------------------------- MODULE ClientAppProperties -------------------------
(***************************************************************************)
(* What the hand-over between the client's three threads has to guarantee. *)
(***************************************************************************)
EXTENDS ClientApp

\* Every variable keeps its type; nothing is taken out of the buffer before both
\* its halves arrived (the sum below), and what was printed is what was taken
\* and is a server text, whatever the timing.
ClientTypeOK ==
  /\ pcMain \in {"auth", "drain", "start", "wake", "wait", "waiting", "woken",
                 "notify", "stop", "wakeall", "join", "done", "restored",
                 "exited", "killed"}
  /\ pc \in [Threads -> {"none", "test", "wait", "waiting", "woken", "poll",
                         "lock", "type", "notify", "exit", "ended"}]
  /\ locked \in [Threads -> BOOLEAN]
  /\ status \in BOOLEAN /\ running_ \in BOOLEAN
  /\ closed \in BOOLEAN /\ stalled \in BOOLEAN
  /\ lost \in BOOLEAN /\ spurred \in Nat
  /\ type_ \in 0..2 /\ platform \in Platforms
  /\ visit \in Threads \cup {"nobody"} /\ typeLock \in Threads \cup {"nobody"}
  /\ answer \in {"none", "ok", "refused"}
  /\ {socketIn, buffer_, taken, served, typed} \subseteq Nat
  /\ 2 * taken + buffer_ + socketIn = served
  /\ foreign \subseteq Nat /\ shown = (1..taken) \ foreign
  /\ DOMAIN keys \subseteq 1..typed
  /\ \A k \in DOMAIN keys : keys[k] \in {"char", "blank", "line", "quit"}

\* Where a thread holds mutexType_: from lock() in one turn of its loop to
\* unlock() in the next one, its wait() included.
Holds(t) ==
  \/ pc[t] \in {"type", "notify"}
  \/ locked[t] /\ pc[t] \in {"test", "wait", "waiting", "woken", "exit"}

\* checkInput and checkSocket hold mutexType_ exactly where their local
\* variable locked says they do: neither writes type_ while the event of the
\* other is being handled, and unlock() is only called by the holder, even if
\* waits return for no reason and notifications are lost.
LockedIsHolder == \A t \in Threads : Holds(t) <=> typeLock = t

\* t waits and nobody is going to notify it: the main thread waits too, or is
\* past its last notification.  With mutexType_ in the hands of t, the other
\* thread cannot go on either.
Forgotten(t) == pc[t] = "waiting" /\ pcMain \in {"wait", "waiting", "join"}

\* A thread is only forgotten when a notify_one() has found the thread it was
\* for on its way to wait(): no order of events, no wake-up without reason and
\* no shutdown makes the threads wait for each other otherwise.
Handshake == (\E t \in Threads : Forgotten(t)) => lost

\* The main loop ends because the user typed /quit, because the server closed
\* the connection or sent something else than a text, or because getSocket was
\* called on half a text.  It ends for another reason (getSocket with nothing
\* to read, or a status that was never set) only if some wait() returned
\* without a notification.
QuitsForAReason ==
  pcMain = "stop" /\ visit # "input" =>
    closed \/ taken \in foreign \/ buffer_ = 1 \/ spurred > 0

\* What the user has to do on Windows before the client can end.
KeyMissing == platform = "windows" /\ DOMAIN keys = {}

\* Once the main loop has ended, both threads end, mainLoop returns and the
\* process exits, the terminal restored; unless a thread that had tested
\* running_ called wait() after the last notification, and on Windows only when
\* a key is pressed.
StopsInTheEnd ==
  (pcMain \in {"stop", "wakeall", "join"})
    ~> (pcMain = "exited" \/ KeyMissing \/ \E t \in Threads : Forgotten(t))

\* What ends the handling of events: the end of the main loop, SIGPIPE, a server
\* that does not read what the main thread sends, and a forgotten thread.
Hangs ==
  \/ pcMain \in {"stop", "wakeall", "join", "done", "restored"} \/ Over
  \/ stalled \/ \E t \in Threads : Forgotten(t)

\* Once the login is answered, every keystroke is read by getLine in the end,
\* unless the client stops or hangs.
KeysAreRead ==
  (DOMAIN keys # {} /\ pcMain # "auth") ~> (DOMAIN keys = {} \/ Hangs)

\* Everything the server sent leaves the socket, unless the client stops or
\* hangs.  (Out of the buffer it need not come: see section 4 of the README.)
SocketIsRead ==
  (socketIn > 0) ~> (socketIn = 0 \/ Hangs)

(***************************************************************************)
(* What src/README.md says and the client does not guarantee.              *)
(***************************************************************************)
\* "Pour quitter l'application, il suffit d'ecrire '/quit' en tant que message et
\* appuyer une touche" (README.md:30-31): here the key is one pressed after the
\* Enter that ends /quit.
QuitSuffices ==
  (pcMain \in {"stop", "wakeall", "join"} /\ visit = "input" /\ DOMAIN keys # {})
    ~> (pcMain = "exited")
=============================================================================
