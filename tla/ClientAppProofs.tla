--------------------------- MODULE ClientAppProofs ---------------------------
(***************************************************************************)
(* The lock discipline of the client's threads, for every number of keys   *)
(* and texts and whatever the timing of waits and notifications.           *)
(***************************************************************************)
EXTENDS ClientAppProperties, TLAPS

Labels == {"none", "test", "wait", "waiting", "woken", "poll", "lock", "type",
           "notify", "exit", "ended"}

\* LockedIsHolder is not inductive: what locked says when a thread reaches
\* lock() and when it starts has to be known as well.
LockTypes ==
  /\ pc \in [Threads -> Labels]
  /\ locked \in [Threads -> BOOLEAN]
  /\ typeLock \in Threads \cup {"nobody"}

LockedOnTheWay ==
  \A t \in Threads : pc[t] \in {"poll", "lock", "type", "notify"} => locked[t]

NotStarted ==
  pcMain \in {"auth", "drain", "start"} =>
    \A t \in Threads : pc[t] = "none" /\ ~locked[t]

LockInv == LockTypes /\ LockedOnTheWay /\ NotStarted /\ LockedIsHolder

LEMMA InitLock == Init => LockInv
  BY DEF Init, LockInv, LockTypes, LockedOnTheWay, NotStarted, LockedIsHolder,
         Holds, Threads, Labels

\* A step that only moves threads out of wait(), as notify_one() does, keeps
\* the invariant, if it does not take the main thread back to its start.
LEMMA WakeLock ==
  ASSUME LockInv,
         UNCHANGED <<typeLock, locked>>,
         pc' \in [Threads -> Labels],
         \A t \in Threads : \/ pc'[t] = pc[t]
                            \/ pc[t] = "waiting" /\ pc'[t] = "woken",
         pcMain' \in {"auth", "drain", "start"} =>
           pcMain \in {"auth", "drain", "start"}
  PROVE  LockInv'
<1>1. LockTypes' /\ LockedOnTheWay'
  BY DEF LockInv, LockTypes, LockedOnTheWay
<1>2. NotStarted'
  BY DEF LockInv, NotStarted
<1>3. LockedIsHolder'
  BY DEF LockInv, LockTypes, LockedIsHolder, Holds
<1> QED
  BY <1>1, <1>2, <1>3 DEF LockInv

LEMMA MainLock == LockInv /\ MainStep => LockInv'
<1> SUFFICES ASSUME LockInv, MainStep PROVE LockInv'
  OBVIOUS
<1> USE DEF LockInv, LockTypes
<1>1. CASE StartThreads
  <2>1. /\ pcMain = "start" /\ pcMain' = "wake"
        /\ pc' = [t \in Threads |-> "test"]
        /\ UNCHANGED <<typeLock, locked>>
    BY <1>1 DEF StartThreads
  <2>2. LockTypes' /\ LockedOnTheWay' /\ NotStarted'
    BY <2>1 DEF LockedOnTheWay, NotStarted, Labels
  <2>3. LockedIsHolder'
    BY <2>1 DEF LockedIsHolder, Holds, NotStarted
  <2> QED
    BY <2>2, <2>3
<1>2. CASE WakeThem \/ NotifyThread \/ WakeAll
  <2>1. PICK S : WakeThreads(S)
    BY <1>2 DEF WakeThem, NotifyThread, WakeAll
  <2>2. pc' \in [Threads -> Labels]
    BY <2>1 DEF WakeThreads, Labels
  <2>3. \A t \in Threads : \/ pc'[t] = pc[t]
                           \/ pc[t] = "waiting" /\ pc'[t] = "woken"
    BY <2>1 DEF WakeThreads
  <2>4. UNCHANGED <<typeLock, locked>> /\ pcMain' \notin {"auth", "drain", "start"}
    BY <1>2 DEF WakeThem, NotifyThread, WakeAll, sharedVars
  <2> QED
    BY <2>2, <2>3, <2>4, WakeLock
<1>3. CASE Authentificate \/ Drain \/ MainWait \/ HandleNothing \/ HandleInput
             \/ HandleSocket \/ Stop \/ Join \/ DestroyWindow
             \/ DeleteClient
  <2>1. UNCHANGED <<pc, typeLock, locked>>
    BY <1>3 DEF Authentificate, Drain, MainWait, HandleNothing, HandleInput,
                HandleSocket, Stop, Join, DestroyWindow, DeleteClient,
                sharedVars, threadVars
  <2>2. pcMain' \in {"auth", "drain", "start"} =>
          pcMain \in {"auth", "drain", "start"}
    BY <1>3 DEF Authentificate, Drain, MainWait, HandleNothing, HandleInput,
                HandleSocket, Stop, Join, DestroyWindow, DeleteClient
  <2> QED
    BY <2>1, <2>2, WakeLock
<1> QED
  BY <1>1, <1>2, <1>3 DEF MainStep

\* The user, the server and spurious wake-ups.
LEMMA OutsideLock ==
  LockInv /\ (Outside \/ SpuriousMain \/ \E t \in Threads : SpuriousThread(t))
    => LockInv'
<1> SUFFICES ASSUME LockInv,
                    Outside \/ SpuriousMain \/ \E t \in Threads : SpuriousThread(t)
             PROVE  LockInv'
  OBVIOUS
<1>1. CASE Outside \/ SpuriousMain
  <2>1. UNCHANGED <<pc, typeLock, locked>>
    BY <1>1 DEF Outside, Key, ServerAnswers, ServerSends, ServerStalls,
     ServerCloses,
                SpuriousMain, sharedVars, threadVars
  <2>2. pcMain' \in {"auth", "drain", "start"} =>
          pcMain \in {"auth", "drain", "start"}
    BY <1>1 DEF Outside, Key, ServerAnswers, ServerSends, ServerStalls,
     ServerCloses,
                SpuriousMain, mainVars
  <2> QED
    BY <2>1, <2>2, WakeLock DEF LockInv, LockTypes
<1>2. ASSUME NEW t \in Threads, SpuriousThread(t) PROVE LockInv'
  BY <1>2, WakeLock DEF SpuriousThread, LockInv, LockTypes, Labels, mainVars,
                        sharedVars
<1> QED
  BY <1>1, <1>2

LEMMA ThreadLock == \A t \in Threads : LockInv /\ ThreadStep(t) => LockInv'
<1> SUFFICES ASSUME NEW t \in Threads, LockInv, ThreadStep(t) PROVE LockInv'
  OBVIOUS
<1> USE DEF LockInv, LockTypes, Labels, Goto
<1>a. "nobody" \notin Threads
  BY DEF Threads
<1>1. CASE Woken(t)
  <2>1. /\ pc[t] = "woken" /\ typeLock' = AfterUnlock(t)
        /\ locked' = [locked EXCEPT ![t] = TRUE]
        /\ pc' = [pc EXCEPT ![t] = "poll"] /\ UNCHANGED pcMain
    BY <1>1 DEF Woken, mainVars
  <2>2. LockTypes' /\ LockedOnTheWay' /\ NotStarted'
    BY <2>1 DEF LockedOnTheWay, NotStarted, AfterUnlock
  <2>3. LockedIsHolder'
    BY <2>1, <1>a DEF LockedIsHolder, Holds, AfterUnlock
  <2> QED
    BY <2>2, <2>3
<1>2. CASE Exit(t)
  <2>1. /\ pc[t] = "exit" /\ typeLock' = AfterUnlock(t)
        /\ pc' = [pc EXCEPT ![t] = "ended"] /\ UNCHANGED <<pcMain, locked>>
    BY <1>2 DEF Exit, mainVars
  <2>2. LockTypes' /\ LockedOnTheWay' /\ NotStarted'
    BY <2>1 DEF LockedOnTheWay, NotStarted, AfterUnlock
  <2>3. LockedIsHolder'
    BY <2>1, <1>a DEF LockedIsHolder, Holds, AfterUnlock
  <2> QED
    BY <2>2, <2>3
<1>3. CASE LockType(t)
  <2>1. /\ pc[t] = "lock" /\ typeLock = "nobody" /\ typeLock' = t
        /\ pc' = [pc EXCEPT ![t] = "type"] /\ UNCHANGED <<pcMain, locked>>
    BY <1>3 DEF LockType, LockFree, mainVars
  <2>2. LockTypes' /\ LockedOnTheWay' /\ NotStarted'
    BY <2>1 DEF LockedOnTheWay, NotStarted
  <2>3. LockedIsHolder'
    BY <2>1, <1>a DEF LockedIsHolder, Holds
  <2> QED
    BY <2>2, <2>3
<1>4. CASE Test(t) \/ Wait(t) \/ Poll(t) \/ SetType(t) \/ NotifyMain(t)
  <2>1. UNCHANGED <<typeLock, locked>>
    BY <1>4 DEF Test, Wait, Poll, SetType, NotifyMain, sharedVars
  <2>2. PICK l \in Labels : pc' = [pc EXCEPT ![t] = l]
    BY <1>4 DEF Test, Wait, Poll, SetType, NotifyMain
  <2>3. pcMain' \in {"auth", "drain", "start"} =>
          pcMain \in {"auth", "drain", "start"}
    BY <1>4 DEF Test, Wait, Poll, SetType, NotifyMain, mainVars
  <2>4. pc[t] # "none"
    BY <1>4 DEF Test, Wait, Poll, SetType, NotifyMain
  <2>5. LockTypes' /\ NotStarted'
    BY <2>1, <2>2, <2>3, <2>4 DEF NotStarted
  <2>6. LockedOnTheWay' /\ (Holds(t)' <=> Holds(t))
    BY <1>4, <2>1 DEF Test, Wait, Poll, SetType, NotifyMain, LockedOnTheWay, Holds
  <2>7. LockedIsHolder'
    BY <2>1, <2>2, <2>6 DEF LockedIsHolder, Holds
  <2> QED
    BY <2>5, <2>6, <2>7
<1> QED
  BY <1>1, <1>2, <1>3, <1>4 DEF ThreadStep

LEMMA StepLock == LockInv /\ [Next]_vars => LockInv'
<1>1. LockInv /\ UNCHANGED vars => LockInv'
  BY DEF vars, mainVars, sharedVars, threadVars, LockInv, LockTypes,
         LockedOnTheWay, NotStarted, LockedIsHolder, Holds
<1> QED
  BY <1>1, MainLock, OutsideLock, ThreadLock DEF Next

\* checkInput and checkSocket hold mutexType_ exactly where their local
\* variable locked says so, in every execution: never both of them, and
\* unlock() is called by the thread that holds the mutex only.
THEOREM TypeLockDiscipline == Spec => []LockedIsHolder
<1>1. LockInv => LockedIsHolder
  BY DEF LockInv
<1> QED
  BY InitLock, StepLock, <1>1, PTL DEF Spec

(***************************************************************************)
(* The hand-over.  An event a thread announces is handled, and the thread  *)
(* notified, unless a notification was lost.                               *)
(***************************************************************************)
After == {"join", "done", "restored", "exited"}

Leaving == pcMain \in {"stop", "wakeall", "killed"} \cup After

\* type_ is what the holder of mutexType_ wrote.
TypeIsOwn == \A t \in Threads : Holds(t) /\ pc[t] # "type" => type_ = Kind(t)

RunsToStop ==
  \/ pcMain \in {"auth", "drain", "start", "killed"}
  \/ pcMain \in {"wake", "wait", "waiting", "woken", "notify", "stop"} /\ running_
  \/ pcMain \in After \cup {"wakeall"} /\ ~running_

Idle(t) == pc[t] \in {"test", "wait", "waiting"}

\* The main thread is on its way to a notification of t, or has left its loop.
ToServe(t) ==
  \/ pcMain = "woken"
  \/ pcMain = "notify" /\ (visit = t \/ ~status)
  \/ Leaving

IdleIsServed ==
  \A t \in Threads : Idle(t) => pcMain = "wake" \/ (locked[t] /\ ToServe(t))

NobodyLeft ==
  pcMain \in After => \A t \in Threads : pc[t] \notin {"wait", "waiting"}

Served == lost \/ (IdleIsServed /\ NobodyLeft)

HandInv == LockInv /\ TypeIsOwn /\ RunsToStop /\ Served

LEMMA TwoKinds ==
  \A t, u \in Threads : /\ Kind(t) = Kind(u) => t = u
                        /\ Kind(t) \in {0, 1}
  BY DEF Threads, Kind

LEMMA OneHolds ==
  ASSUME LockInv, NEW t \in Threads, NEW u \in Threads, Holds(t), Holds(u)
  PROVE  t = u
  BY DEF LockInv, LockedIsHolder

LEMMA InitHand == Init => HandInv
<1> SUFFICES ASSUME Init PROVE HandInv
  OBVIOUS
<1>1. LockInv
  BY InitLock
<1>2. TypeIsOwn /\ RunsToStop /\ Served
  BY DEF Init, TypeIsOwn, RunsToStop, Served, IdleIsServed, NobodyLeft, Holds,
         Idle, After, Threads
<1> QED BY <1>1, <1>2 DEF HandInv

\* notify_one() leaves nobody of S on its way to wait(), or is lost.
LEMMA WakeServes ==
  ASSUME LockInv, NEW S, WakeThreads(S), ~lost', running_
  PROVE  ~lost /\ \A t \in S \cap Threads : pc'[t] \notin {"test", "wait", "waiting"}
  BY DEF WakeThreads, OnItsWay, LockInv, LockTypes

LEMMA HandMain ==
  ASSUME HandInv, MainStep
  PROVE  TypeIsOwn' /\ RunsToStop' /\ Served'
<1> USE DEF HandInv, LockInv, LockTypes
<1>1. CASE Authentificate \/ Drain
  <2>1. /\ UNCHANGED <<pc, locked, type_, running_>>
        /\ pcMain \in {"auth", "drain"} /\ pcMain' \in {"drain", "start"}
    BY <1>1 DEF Authentificate, Drain, sharedVars, threadVars
  <2> QED BY <2>1 DEF TypeIsOwn, RunsToStop, Served, IdleIsServed, NobodyLeft,
                      NotStarted, Holds, Idle, After
<1>2. CASE StartThreads
  <2>1. /\ pcMain = "start" /\ pcMain' = "wake" /\ running_'
        /\ pc' = [t \in Threads |-> "test"] /\ UNCHANGED locked
    BY <1>2 DEF StartThreads
  <2> QED BY <2>1 DEF TypeIsOwn, RunsToStop, Served, IdleIsServed, NobodyLeft,
                      NotStarted, Holds, Idle, After
<1>3. CASE WakeThem
  <2>1. /\ pcMain = "wake" /\ pcMain' = "wait" /\ WakeThreads(Threads)
        /\ UNCHANGED <<type_, running_, locked>> /\ running_
    BY <1>3 DEF WakeThem, sharedVars, RunsToStop, After
  <2>2. \A t \in Threads : (Holds(t)' => Holds(t)) /\ (pc'[t] = "type" <=> pc[t] = "type")
    BY <2>1 DEF WakeThreads, Holds
  <2>3. ~lost' => \A t \in Threads : ~Idle(t)'
    BY <2>1, WakeServes DEF Idle
  <2> QED BY <2>1, <2>2, <2>3 DEF TypeIsOwn, RunsToStop, Served, IdleIsServed,
                                  NobodyLeft, After
<1>4. CASE MainWait
  <2>1. /\ pcMain = "wait" /\ pcMain' = "waiting"
        /\ UNCHANGED <<type_, running_, pc, locked, lost>>
    BY <1>4 DEF MainWait, sharedVars, threadVars, history
  <2> QED BY <2>1 DEF TypeIsOwn, RunsToStop, Served, IdleIsServed, NobodyLeft,
                      Holds, Idle, ToServe, Leaving, After
<1>5. CASE HandleNothing
  <2>1. /\ pcMain = "woken" /\ type_ = 2 /\ pcMain' \in {"wait", "stop"}
        /\ UNCHANGED <<type_, running_, pc, locked, lost>>
    BY <1>5 DEF HandleNothing, sharedVars, threadVars, history
  <2>2. \A t \in Threads : ~(locked[t] /\ Idle(t))
    BY <2>1, TwoKinds DEF TypeIsOwn, Holds, Idle
  <2> QED BY <2>1, <2>2 DEF TypeIsOwn, RunsToStop, Served, IdleIsServed,
                            NobodyLeft, Holds, Idle, After
<1>6. CASE HandleInput \/ HandleSocket
  <2>1. /\ pcMain = "woken" /\ visit' \in Threads /\ type_ = Kind(visit')
        /\ pcMain' \in {"notify", "killed"}
        /\ UNCHANGED <<type_, running_, pc, locked, lost>>
    BY <1>6 DEF HandleInput, HandleSocket, Kind, Threads, sharedVars, threadVars,
                history
  <2>2. \A t \in Threads : locked[t] /\ Idle(t) => t = visit'
    BY <2>1, TwoKinds DEF TypeIsOwn, Holds, Idle
  <2> QED BY <2>1, <2>2 DEF TypeIsOwn, RunsToStop, Served, IdleIsServed,
                            NobodyLeft, Holds, Idle, ToServe, Leaving, After
<1>7. CASE NotifyThread
  <2>1. /\ pcMain = "notify" /\ pcMain' = (IF status THEN "wait" ELSE "stop")
        /\ WakeThreads({visit})
        /\ UNCHANGED <<type_, running_, locked>> /\ running_
    BY <1>7 DEF NotifyThread, sharedVars, RunsToStop, After
  <2>2. \A t \in Threads : /\ Holds(t)' => Holds(t)
                           /\ pc'[t] = "type" <=> pc[t] = "type"
                           /\ Idle(t)' => Idle(t)
    BY <2>1 DEF WakeThreads, Holds, Idle
  <2>3. ~lost' => ~lost /\ \A t \in Threads : visit = t => ~Idle(t)'
    BY <2>1, WakeServes DEF Idle
  <2>4. TypeIsOwn' /\ RunsToStop'
    BY <2>1, <2>2 DEF TypeIsOwn, RunsToStop
  <2>5. ASSUME ~lost' PROVE IdleIsServed' /\ NobodyLeft'
    BY <2>1, <2>2, <2>3, <2>5 DEF Served, IdleIsServed, NobodyLeft, ToServe,
                                  Leaving, After
  <2> QED BY <2>4, <2>5 DEF Served
<1>8. CASE Stop
  <2>1. /\ pcMain = "stop" /\ pcMain' = "wakeall" /\ ~running_'
        /\ UNCHANGED <<type_, pc, locked, lost>>
    BY <1>8 DEF Stop, threadVars, history
  <2> QED BY <2>1 DEF TypeIsOwn, RunsToStop, Served, IdleIsServed, NobodyLeft,
                      Holds, Idle, ToServe, Leaving, After
<1>9. CASE WakeAll
  <2>1. /\ pcMain = "wakeall" /\ pcMain' = "join" /\ WakeThreads(Threads)
        /\ UNCHANGED <<type_, running_, locked>> /\ ~running_
    BY <1>9 DEF WakeAll, sharedVars, RunsToStop, After
  <2>2. \A t \in Threads : /\ Holds(t)' => Holds(t)
                           /\ pc'[t] = "type" <=> pc[t] = "type"
                           /\ Idle(t)' => Idle(t)
    BY <2>1 DEF WakeThreads, Holds, Idle
  <2>3. ~lost' => ~lost /\ \A t \in Threads : pc'[t] \notin {"wait", "waiting"}
    BY <2>1 DEF WakeThreads, OnItsWay
  <2> QED BY <2>1, <2>2, <2>3 DEF TypeIsOwn, RunsToStop, Served, IdleIsServed,
                                  NobodyLeft, ToServe, Leaving, After
<1>10. CASE Join \/ DestroyWindow \/ DeleteClient
  <2>1. /\ pcMain \in After /\ pcMain' \in After
        /\ UNCHANGED <<type_, running_, pc, locked, lost>>
    BY <1>10 DEF Join, DestroyWindow, DeleteClient, sharedVars, threadVars,
                 history, After
  <2> QED BY <2>1 DEF TypeIsOwn, RunsToStop, Served, IdleIsServed, NobodyLeft,
                      Holds, Idle, ToServe, Leaving, After
<1> QED
  BY <1>1, <1>2, <1>3, <1>4, <1>5, <1>6, <1>7, <1>8, <1>9, <1>10 DEF MainStep

LEMMA HandThread ==
  ASSUME HandInv, NEW t \in Threads, ThreadStep(t)
  PROVE  TypeIsOwn' /\ RunsToStop' /\ Served'
<1> USE DEF HandInv, LockInv, LockTypes, Labels, Goto
<1>a. Kind(t) \in {0, 1}
  BY TwoKinds
<1>1. CASE Test(t) \/ Wait(t)
  <2>1. /\ UNCHANGED <<pcMain, status, visit, type_, running_, locked, lost>>
        /\ \/ pc[t] = "test" /\ pc' = [pc EXCEPT ![t] = IF running_ THEN "wait" ELSE "exit"]
           \/ pc[t] = "wait" /\ pc' = [pc EXCEPT ![t] = "waiting"]
    BY <1>1 DEF Test, Wait, mainVars, sharedVars, history
  <2>2. TypeIsOwn' /\ RunsToStop'
    BY <2>1 DEF TypeIsOwn, RunsToStop, Holds
  <2>3. \A u \in Threads : Idle(u)' => Idle(u)
    BY <2>1 DEF Idle
  <2>4. NobodyLeft => NobodyLeft'
    BY <2>1 DEF NobodyLeft, RunsToStop, After
  <2> QED BY <2>1, <2>2, <2>3, <2>4 DEF Served, IdleIsServed, ToServe, Leaving
<1>2. CASE Woken(t) \/ Poll(t) \/ LockType(t) \/ Exit(t)
  <2>1. /\ UNCHANGED <<pcMain, status, visit, type_, running_, lost>>
        /\ \A u \in Threads \ {t} : pc'[u] = pc[u] /\ locked'[u] = locked[u]
        /\ pc'[t] \in {"poll", "lock", "type", "ended"}
    BY <1>2 DEF Woken, Poll, LockType, Exit, mainVars, sharedVars, history
  <2>2. \A u \in Threads : /\ Idle(u)' => Idle(u) /\ locked'[u] = locked[u]
                           /\ Holds(u)' /\ pc'[u] # "type" => Holds(u) /\ pc[u] # "type"
                           /\ pc'[u] \in {"wait", "waiting"} => pc'[u] = pc[u]
    BY <2>1 DEF Idle, Holds
  <2> QED BY <2>1, <2>2 DEF TypeIsOwn, RunsToStop, Served, IdleIsServed,
                            NobodyLeft, ToServe, Leaving
<1>3. CASE SetType(t)
  <2>1. /\ UNCHANGED <<pcMain, status, visit, running_, locked, lost>>
        /\ type_' = Kind(t) /\ pc[t] = "type" /\ pc' = [pc EXCEPT ![t] = "notify"]
    BY <1>3 DEF SetType, TypeFor, mainVars, history
  <2>2. \A u \in Threads : Holds(u) => u = t
    BY <2>1, OneHolds DEF Holds
  <2>3. \A u \in Threads : /\ Idle(u)' => Idle(u)
                           /\ Holds(u)' => Holds(u)
                           /\ pc'[u] \in {"wait", "waiting"} => pc'[u] = pc[u]
    BY <2>1 DEF Idle, Holds
  <2> QED BY <2>1, <2>2, <2>3 DEF TypeIsOwn, RunsToStop, Served, IdleIsServed,
                                  NobodyLeft, ToServe, Leaving
<1>4. CASE NotifyMain(t)
  <2>1. /\ pc[t] = "notify" /\ pc' = [pc EXCEPT ![t] = "test"]
        /\ pcMain' = IF pcMain = "waiting" THEN "woken" ELSE pcMain
        /\ ~lost' => ~lost /\ pcMain # "wait" /\ ~(pcMain = "notify" /\ status)
        /\ UNCHANGED <<status, visit, type_, running_, locked>>
    BY <1>4 DEF NotifyMain, sharedVars
  <2>2. Holds(t) /\ locked[t] /\ \A u \in Threads : Holds(u) => u = t
    BY <2>1, OneHolds DEF Holds, LockedOnTheWay
  <2>3. pcMain \notin {"auth", "drain", "start"}
    BY <2>1 DEF NotStarted
  <2>4. TypeIsOwn' /\ RunsToStop'
    BY <2>1, <2>2 DEF TypeIsOwn, RunsToStop, Holds, After
  <2>5. ASSUME ~lost' PROVE IdleIsServed'
    <3>1. pcMain' = "wake" \/ ToServe(t)'
      BY <2>1, <2>3, <2>5 DEF RunsToStop, ToServe, Leaving, After
    <3>2. \A u \in Threads \ {t} :
            Idle(u)' => pcMain' = "wake" \/ (locked'[u] /\ ToServe(u)')
      BY <2>1, <2>5 DEF Served, IdleIsServed, Idle, ToServe, Leaving, After
    <3> QED BY <2>1, <2>2, <3>1, <3>2 DEF IdleIsServed
  <2>6. ASSUME ~lost' PROVE NobodyLeft'
    BY <2>1, <2>6 DEF Served, NobodyLeft, After
  <2> QED BY <2>4, <2>5, <2>6 DEF Served
<1> QED
  BY <1>1, <1>2, <1>3, <1>4 DEF ThreadStep

\* A wait() that returns for no reason leaves less to be served.
LEMMA HandSpurious ==
  ASSUME HandInv, SpuriousMain \/ \E t \in Threads : SpuriousThread(t)
  PROVE  TypeIsOwn' /\ RunsToStop' /\ Served'
<1> USE DEF HandInv, LockInv, LockTypes
<1>1. CASE SpuriousMain
  <2>1. /\ pcMain = "waiting" /\ pcMain' = "woken"
        /\ UNCHANGED <<type_, running_, pc, locked, lost>>
    BY <1>1 DEF SpuriousMain, sharedVars, threadVars
  <2> QED BY <2>1 DEF TypeIsOwn, RunsToStop, Served, IdleIsServed, NobodyLeft,
                      Holds, Idle, ToServe, Leaving, After
<1>2. ASSUME NEW t \in Threads, SpuriousThread(t)
      PROVE  TypeIsOwn' /\ RunsToStop' /\ Served'
  <2>1. /\ pc[t] = "waiting" /\ pc' = [pc EXCEPT ![t] = "woken"]
        /\ UNCHANGED <<pcMain, status, visit, type_, running_, locked, lost>>
    BY <1>2 DEF SpuriousThread, mainVars, sharedVars
  <2>2. \A u \in Threads : /\ Idle(u)' => Idle(u)
                           /\ Holds(u)' => Holds(u) /\ (pc[u] = "type" => pc'[u] = "type")
                           /\ pc'[u] \in {"wait", "waiting"} => pc'[u] = pc[u]
    BY <2>1 DEF Idle, Holds
  <2> QED BY <2>1, <2>2 DEF TypeIsOwn, RunsToStop, Served, IdleIsServed,
                            NobodyLeft, ToServe, Leaving
<1> QED BY <1>1, <1>2

LEMMA HandSame ==
  ASSUME HandInv, UNCHANGED <<mainVars, sharedVars, threadVars, history>>
  PROVE  TypeIsOwn' /\ RunsToStop' /\ Served'
  BY DEF HandInv, mainVars, sharedVars, threadVars, history, TypeIsOwn, RunsToStop,
         Served, IdleIsServed, NobodyLeft, Holds, Idle, ToServe, Leaving, After

LEMMA HandStep == HandInv /\ [Next]_vars => HandInv'
<1> SUFFICES ASSUME HandInv, [Next]_vars PROVE HandInv'
  OBVIOUS
<1>1. LockInv'
  BY StepLock DEF HandInv
<1>2. CASE Outside
  <2>1. UNCHANGED <<mainVars, sharedVars, threadVars, history>>
    BY <1>2 DEF Outside, Key, ServerAnswers, ServerSends, ServerStalls,
                ServerCloses
  <2> QED BY <1>1, <2>1, HandSame DEF HandInv
<1>3. CASE UNCHANGED vars
  BY <1>1, <1>3, HandSame DEF vars, HandInv
<1> QED
  BY <1>1, <1>2, <1>3, HandMain, HandThread, HandSpurious DEF Next, HandInv

\* In every execution, whatever the timing and however often a wait() returns
\* for no reason: a thread is only left waiting, with the main thread waiting
\* for it or past its last notification, if a notify_one() found the thread it
\* was for on its way to wait().
THEOREM HandshakeHolds == Spec => []Handshake
<1>1. HandInv => Handshake
  BY DEF HandInv, Served, IdleIsServed, NobodyLeft, Idle, ToServe, Leaving, After,
         Handshake, Forgotten
<1> QED
  BY InitHand, HandStep, <1>1, PTL DEF Spec

(***************************************************************************)
(* The data of the client, for every number of keys and texts: nothing     *)
(* that arrived is lost or shown before it is complete, and why the main   *)
(* loop ends.                                                              *)
(***************************************************************************)

ControlOK ==
  /\ pcMain \in {"auth", "drain", "start", "wake", "wait", "waiting", "woken",
                 "notify", "stop", "wakeall", "join", "done", "restored",
                 "exited", "killed"}
  /\ pc \in [Threads -> Labels]
  /\ locked \in [Threads -> BOOLEAN]
  /\ status \in BOOLEAN /\ running_ \in BOOLEAN
  /\ type_ \in 0..2
  /\ visit \in Threads \cup {"nobody"} /\ typeLock \in Threads \cup {"nobody"}

SocketOK ==
  /\ closed \in BOOLEAN /\ stalled \in BOOLEAN
  /\ answer \in {"none", "ok", "refused"}
  /\ socketIn \in Nat /\ buffer_ \in Nat /\ taken \in Nat /\ served \in Nat
  /\ 2 * taken + buffer_ + socketIn = served
  /\ foreign \subseteq Nat

\* What was printed; a number that is taken is never declared foreign later.
ShownOK == shown = (1..taken) \ foreign

HistoryOK == lost \in BOOLEAN /\ spurred \in Nat

KeysOK ==
  /\ typed \in Nat /\ platform \in Platforms
  /\ DOMAIN keys \subseteq 1..typed
  /\ \A k \in DOMAIN keys : keys[k] \in {"char", "blank", "line", "quit"}

TypeParts == ControlOK /\ SocketOK /\ ShownOK /\ HistoryOK /\ KeysOK

LEMMA InitParts == Init => TypeParts
<1> SUFFICES ASSUME Init PROVE TypeParts
  OBVIOUS
<1>1. ControlOK
  <2>1. /\ pcMain = "auth" /\ status = TRUE /\ visit = "nobody"
        /\ type_ = 2 /\ running_ = FALSE /\ typeLock = "nobody"
        /\ pc = [t \in Threads |-> "none"] /\ locked = [t \in Threads |-> FALSE]
    BY DEF Init
  <2>2. status \in BOOLEAN /\ running_ \in BOOLEAN /\ locked \in [Threads -> BOOLEAN]
    BY <2>1
  <2>3. type_ \in 0..2 BY <2>1
  <2>4. pc \in [Threads -> Labels] BY <2>1 DEF Labels
  <2>5. /\ pcMain \in {"auth"} /\ visit \in Threads \cup {"nobody"}
        /\ typeLock \in Threads \cup {"nobody"}
    BY <2>1
  <2> QED BY <2>2, <2>3, <2>4, <2>5 DEF ControlOK
<1>2. SocketOK /\ ShownOK
  <2>1. /\ answer = "none" /\ socketIn = 0 /\ closed = FALSE /\ stalled = FALSE
        /\ buffer_ = 0 /\ taken = 0 /\ foreign = {} /\ shown = {} /\ served = 0
    BY DEF Init
  <2>2. closed \in BOOLEAN /\ stalled \in BOOLEAN /\ answer \in {"none"} BY <2>1
  <2>3. 2 * taken + buffer_ + socketIn = served BY <2>1
  <2>4. socketIn \in Nat /\ buffer_ \in Nat /\ taken \in Nat /\ served \in Nat
    BY <2>1
  <2>5. foreign \subseteq Nat /\ shown = (1..taken) \ foreign
    BY <2>1
  <2> QED BY <2>2, <2>3, <2>4, <2>5 DEF SocketOK, ShownOK
<1>3. DOMAIN keys = {} /\ typed = 0 /\ platform \in Platforms BY DEF Init
<1>4. lost = FALSE /\ spurred = 0 BY DEF Init
<1>5. HistoryOK BY <1>4 DEF HistoryOK
<1> QED BY <1>1, <1>2, <1>3, <1>5 DEF TypeParts, KeysOK

\* The main thread, and then each of the others.
LEMMA ControlMain == ControlOK /\ MainStep => ControlOK'
<1> SUFFICES ASSUME ControlOK, MainStep PROVE ControlOK'
  OBVIOUS
<1> USE DEF ControlOK
<1>1. CASE Authentificate \/ Drain \/ MainWait \/ Join \/ DestroyWindow
           \/ DeleteClient \/ Stop
  BY <1>1 DEF Authentificate, Drain, MainWait, Join, DestroyWindow, DeleteClient,
     Stop, sharedVars, threadVars
<1>2. CASE StartThreads
  BY <1>2 DEF StartThreads, Labels
<1>3. CASE WakeThem \/ NotifyThread \/ WakeAll
  <2>1. PICK S : WakeThreads(S)
    BY <1>3 DEF WakeThem, NotifyThread, WakeAll
  <2>2. pc' \in [Threads -> Labels]
    BY <2>1 DEF WakeThreads, Labels
  <2>3. visit' \in {visit, "nobody"} /\ pcMain' \in {"wait", "stop", "join"}
    BY <1>3 DEF WakeThem, NotifyThread, WakeAll
  <2> QED BY <1>3, <2>2, <2>3 DEF WakeThem, NotifyThread, WakeAll, sharedVars
<1>4. CASE HandleNothing
  BY <1>4 DEF HandleNothing, sharedVars, threadVars
<1>5. CASE HandleInput
  <2>1. /\ pcMain' \in {"notify", "killed"} /\ visit' = "input"
        /\ UNCHANGED <<sharedVars, threadVars>>
    BY <1>5 DEF HandleInput
  <2>2. status' \in BOOLEAN
    BY <1>5 DEF HandleInput
  <2> QED BY <2>1, <2>2 DEF sharedVars, threadVars, Threads
<1>6. CASE HandleSocket
  <2>1. status' \in BOOLEAN
    BY <1>6 DEF HandleSocket, GotText
  <2> QED BY <1>6, <2>1 DEF HandleSocket, sharedVars, threadVars, Threads
<1> QED BY <1>1, <1>2, <1>3, <1>4, <1>5, <1>6 DEF MainStep

LEMMA ControlThread ==
  ASSUME ControlOK, NEW t \in Threads, ThreadStep(t) \/ SpuriousThread(t)
  PROVE  ControlOK'
<1> USE DEF ControlOK, Goto, Labels
<1>1. CASE Test(t) \/ Wait(t) \/ Poll(t) \/ SpuriousThread(t)
  BY <1>1 DEF Test, Wait, Poll, SpuriousThread, mainVars, sharedVars
<1>2. CASE Woken(t) \/ LockType(t) \/ Exit(t)
  BY <1>2 DEF Woken, LockType, Exit, AfterUnlock, mainVars
<1>3. CASE SetType(t)
  BY <1>3 DEF SetType, TypeFor, Kind, mainVars
<1>4. CASE NotifyMain(t)
  BY <1>4 DEF NotifyMain, sharedVars
<1> QED BY <1>1, <1>2, <1>3, <1>4 DEF ThreadStep

\* getMessage takes everything out of the socket and one message out of the
\* buffer.
LEMMA GetSocketKeeps ==
  ASSUME SocketOK, ShownOK, GetSocket PROVE SocketOK' /\ ShownOK'
<1>1. Received \in Nat
  BY DEF SocketOK, Received
<1>2. SocketOK'
  <2>1. CASE GotMessage
    BY <1>1, <2>1 DEF SocketOK, GetSocket, GotMessage, Received
  <2>2. CASE ~GotMessage
    BY <1>1, <2>2 DEF SocketOK, GetSocket, GotMessage, Received
  <2> QED BY <2>1, <2>2
<1>3. ShownOK'
  <2>1. foreign' = foreign /\ taken \in Nat
    BY DEF GetSocket, SocketOK
  <2>2. CASE GotText
    <3>1. taken' = taken + 1 /\ shown' = shown \cup {taken + 1}
          /\ taken + 1 \notin foreign
      BY <2>2 DEF GetSocket, GotText, PrintMessage
    <3>2. 1..(taken + 1) = (1..taken) \cup {taken + 1}
      BY <2>1
    <3> QED BY <2>1, <3>1, <3>2 DEF ShownOK
  <2>3. CASE ~GotText /\ GotMessage
    <3>1. taken' = taken + 1 /\ shown' = shown /\ taken + 1 \in foreign
      BY <2>3 DEF GetSocket, GotText
    <3>2. 1..(taken + 1) = (1..taken) \cup {taken + 1}
      BY <2>1
    <3> QED BY <2>1, <3>1, <3>2 DEF ShownOK
  <2>4. CASE ~GotMessage
    BY <2>1, <2>4 DEF GetSocket, GotText, ShownOK
  <2> QED BY <2>2, <2>3, <2>4
<1> QED BY <1>2, <1>3

\* The message whose first byte the server sends now is one getMessage has not
\* returned yet.
LEMMA SendsKeeps ==
  ASSUME SocketOK, ShownOK, NEW h \in {1, 2}, NEW other \in BOOLEAN,
         ServerSends(h, other)
  PROVE  SocketOK' /\ ShownOK'
<1>1. /\ UNCHANGED <<answer, closed, stalled, buffer_, taken, shown>>
      /\ served' = served + h /\ socketIn' = socketIn + h
      /\ foreign' \in {foreign, foreign \cup {served \div 2 + 1}}
  BY DEF ServerSends
<1>2. served \div 2 + 1 \in Nat /\ served \div 2 + 1 > taken
  BY DEF SocketOK
<1>3. SocketOK'
  BY <1>1, <1>2 DEF SocketOK
<1>4. served \div 2 + 1 \notin 1..taken
  BY <1>2 DEF SocketOK
<1>5. ShownOK'
  BY <1>1, <1>4 DEF ShownOK
<1> QED BY <1>3, <1>5

LEMMA SocketStep == SocketOK /\ ShownOK /\ [Next]_vars => SocketOK' /\ ShownOK'
<1> SUFFICES ASSUME SocketOK, ShownOK, [Next]_vars PROVE SocketOK' /\ ShownOK'
  OBVIOUS
<1>1. CASE Drain \/ HandleSocket
  BY <1>1, GetSocketKeeps DEF Drain, HandleSocket
<1>2. CASE Authentificate
  BY <1>2 DEF Authentificate, SocketOK, ShownOK
<1>3. CASE Outside
  <2>1. CASE \E h \in {1, 2}, other \in BOOLEAN : ServerSends(h, other)
    BY <2>1, SendsKeeps
  <2>2. CASE \/ \E k \in {"char", "blank", "line", "quit"} : Key(k)
             \/ \E a \in {"ok", "refused"} : ServerAnswers(a)
             \/ ServerStalls \/ ServerCloses
    BY <2>2 DEF Key, ServerAnswers, ServerStalls, ServerCloses, SocketOK, ShownOK,
       netVars
  <2> QED BY <1>3, <2>1, <2>2 DEF Outside
<1>4. CASE UNCHANGED netVars
  BY <1>4 DEF SocketOK, ShownOK, netVars
<1>5. CASE MainStep
  BY <1>1, <1>2, <1>4, <1>5 DEF MainStep, StartThreads, WakeThem, MainWait,
     HandleNothing, HandleInput, NotifyThread, Stop, WakeAll, Join,
     DestroyWindow, DeleteClient
<1>6. ASSUME NEW t \in Threads, ThreadStep(t) \/ SpuriousThread(t)
      PROVE  UNCHANGED netVars
  BY <1>6 DEF ThreadStep, SpuriousThread, Test, Wait, Woken, Poll, LockType,
     SetType, NotifyMain, Exit
<1> QED
  BY <1>3, <1>4, <1>5, <1>6 DEF Next, vars, SpuriousMain

LEMMA HistoryStep ==
  ASSUME ControlOK, HistoryOK, [Next]_vars PROVE HistoryOK'
<1>1. CASE UNCHANGED history
  BY <1>1 DEF HistoryOK, history
<1>2. CASE MainStep
  <2>1. CASE WakeThem \/ NotifyThread \/ WakeAll
    BY <2>1 DEF WakeThem, NotifyThread, WakeAll, WakeThreads, HistoryOK
  <2> QED
    BY <1>1, <1>2, <2>1 DEF MainStep, Authentificate, Drain, StartThreads,
       MainWait, HandleNothing, HandleInput, HandleSocket, Stop, Join,
       DestroyWindow, DeleteClient
<1>3. CASE SpuriousMain \/ \E t \in Threads : SpuriousThread(t)
  BY <1>3 DEF SpuriousMain, SpuriousThread, HistoryOK
<1>4. ASSUME NEW t \in Threads, ThreadStep(t) PROVE HistoryOK'
  <2>1. CASE NotifyMain(t)
    BY <2>1 DEF NotifyMain, HistoryOK
  <2> QED
    BY <1>1, <1>4, <2>1 DEF ThreadStep, Test, Wait, Woken, Poll, LockType,
       SetType, Exit
<1>5. CASE Outside
  BY <1>1, <1>5 DEF Outside, Key, ServerAnswers, ServerSends, ServerStalls,
     ServerCloses
<1> QED
  BY <1>1, <1>2, <1>3, <1>4, <1>5 DEF Next, vars

LEMMA KeysStep == KeysOK /\ [Next]_vars => KeysOK'
<1> SUFFICES ASSUME KeysOK, [Next]_vars PROVE KeysOK'
  OBVIOUS
<1>1. ASSUME NEW k \in {"char", "blank", "line", "quit"}, Key(k) PROVE KeysOK'
  <2>1. /\ typed' = typed + 1 /\ platform' = platform
        /\ keys' = [i \in DOMAIN keys \cup {typed + 1} |->
                      IF i = typed + 1 THEN k ELSE keys[i]]
    BY <1>1 DEF Key
  <2> QED BY <2>1 DEF KeysOK
<1>2. CASE HandleInput
  <2>1. typed' = typed /\ platform' = platform
    BY <1>2 DEF HandleInput
  <2>2. CASE keys' = [k \in {} |-> "char"]
    BY <2>1, <2>2 DEF KeysOK
  <2>3. CASE keys' = [i \in {j \in DOMAIN keys : j > FirstEnter} |-> keys[i]]
    BY <2>1, <2>3 DEF KeysOK
  <2> QED BY <1>2, <2>2, <2>3 DEF HandleInput
<1>3. CASE UNCHANGED keyVars
  BY <1>3 DEF KeysOK, keyVars
<1>4. CASE Outside
  BY <1>1, <1>3, <1>4 DEF Outside, ServerAnswers, ServerSends, ServerStalls,
     ServerCloses
<1>5. CASE MainStep
  BY <1>2, <1>3, <1>5 DEF MainStep, Authentificate, Drain, StartThreads, WakeThem,
     MainWait, HandleNothing, HandleSocket, NotifyThread, Stop, WakeAll, Join,
     DestroyWindow, DeleteClient
<1>6. ASSUME NEW t \in Threads, ThreadStep(t) \/ SpuriousThread(t)
      PROVE  UNCHANGED keyVars
  BY <1>6 DEF ThreadStep, SpuriousThread, Test, Wait, Woken, Poll, LockType,
     SetType, NotifyMain, Exit
<1> QED
  BY <1>3, <1>4, <1>5, <1>6 DEF Next, vars, SpuriousMain

LEMMA PartsStep == TypeParts /\ [Next]_vars => TypeParts'
<1> SUFFICES ASSUME TypeParts, [Next]_vars PROVE TypeParts'
  OBVIOUS
<1>1. SocketOK' /\ ShownOK' /\ HistoryOK' /\ KeysOK'
  BY SocketStep, HistoryStep, KeysStep DEF TypeParts
<1>2. ASSUME Outside PROVE ControlOK'
  BY <1>2 DEF TypeParts, ControlOK, Outside, Key, ServerAnswers, ServerSends,
     ServerStalls, ServerCloses, mainVars, sharedVars, threadVars
<1>3. ASSUME SpuriousMain \/ UNCHANGED vars PROVE ControlOK'
  BY <1>3 DEF TypeParts, ControlOK, SpuriousMain, vars, mainVars, sharedVars,
     threadVars
<1>4. ControlOK'
  BY <1>2, <1>3, ControlMain, ControlThread DEF Next, TypeParts
<1> QED BY <1>1, <1>4 DEF TypeParts

\* Every variable keeps its type, every half message that the server sent is in
\* the socket, in the buffer or taken, and the texts among those that were taken
\* are on the screen, whatever the timing.
THEOREM NothingIsLost == Spec => []ClientTypeOK
<1>1. TypeParts => ClientTypeOK
  BY DEF TypeParts, ControlOK, SocketOK, ShownOK, HistoryOK, KeysOK, ClientTypeOK,
         Labels
<1> QED BY InitParts, PartsStep, <1>1, PTL DEF Spec

(***************************************************************************)
(* Why the main loop ends.                                                 *)
(***************************************************************************)
\* While no wait() has returned for no reason the main thread is only awake for
\* a thread that has announced an event and still waits.
Owed(t) == locked[t] /\ Idle(t)

ServedIsOwed ==
  /\ pcMain = "woken" => \E t \in Threads : type_ = Kind(t) /\ Owed(t)
  /\ pcMain = "notify" => visit \in Threads /\ Owed(visit)

\* The socket thread has seen something that is still there, and the main
\* thread was woken for it.
SeenBySocket ==
  pc["socket"] \in {"lock", "type", "notify"} => Ready("socket")

SeenByMain == pcMain = "woken" /\ type_ = 1 => Ready("socket")

WithReason ==
  pcMain = "stop" \/ (pcMain = "notify" /\ ~status)
    => visit = "input" \/ closed \/ taken \in foreign \/ buffer_ = 1

Quits == ServedIsOwed /\ SeenBySocket /\ SeenByMain /\ WithReason

QuitsInv == spurred > 0 \/ Quits

LEMMA InitQuits == Init => Quits
BY DEF Init, Quits, ServedIsOwed, SeenBySocket, SeenByMain, WithReason, Threads

\* The main loop takes from the socket only while its thread waits.
LEMMA QuitsMain ==
  ASSUME HandInv, TypeParts, Quits, MainStep
  PROVE  Quits'
<1> USE DEF Quits, Threads, TypeParts, ControlOK
<1>1. CASE Authentificate \/ Drain
  <2>1. pc["socket"] = "none" /\ pc' = pc /\ pcMain' \in {"drain", "start"}
    BY <1>1 DEF Authentificate, Drain, HandInv, LockInv, NotStarted, threadVars
  <2> QED BY <2>1 DEF ServedIsOwed, SeenBySocket, SeenByMain, WithReason
<1>2. CASE \/ StartThreads \/ WakeThem \/ MainWait \/ Stop \/ WakeAll \/ Join
           \/ DestroyWindow \/ DeleteClient
  <2>1. UNCHANGED <<socketIn, closed>> /\ pcMain' \notin {"woken", "stop", "notify"}
    BY <1>2 DEF StartThreads, WakeThem, MainWait, Stop, WakeAll, Join,
       DestroyWindow, DeleteClient, netVars
  <2>2. pc'["socket"] \in {"lock", "type", "notify"} => pc'["socket"] = pc["socket"]
    BY <1>2 DEF StartThreads, WakeThem, MainWait, Stop, WakeAll, WakeThreads, Join,
       DestroyWindow, DeleteClient, threadVars
  <2> QED BY <2>1, <2>2 DEF ServedIsOwed, SeenBySocket, SeenByMain, WithReason, Ready
<1>3. CASE HandleNothing
  BY <1>3 DEF HandleNothing, ServedIsOwed, Kind
<1>4. CASE HandleInput
  <2>1. /\ UNCHANGED <<pc, locked, socketIn, closed>> /\ pcMain = "woken"
        /\ pcMain' \in {"notify", "killed"} /\ visit' = "input" /\ type_ = 0
    BY <1>4 DEF HandleInput, netVars, threadVars
  <2>2. Owed("input")
    BY <2>1 DEF ServedIsOwed, Kind
  <2> QED BY <2>1, <2>2 DEF ServedIsOwed, Owed, Idle, SeenBySocket, SeenByMain,
                            WithReason, Ready
<1>5. CASE HandleSocket
  <2>1. /\ pcMain = "woken" /\ type_ = 1 /\ pcMain' = "notify"
        /\ UNCHANGED <<pc, locked>>
        /\ GetSocket /\ status' = GotText /\ visit' = "socket" /\ closed' = closed
    BY <1>5 DEF HandleSocket, GetSocket, threadVars
  <2>2. Owed("socket")
    BY <2>1 DEF ServedIsOwed, Kind
  <2>3. socketIn > 0 \/ closed
    BY <2>1 DEF SeenByMain, Ready
  <2>4. ~GotMessage => closed \/ buffer_' = 1
    BY <2>1, <2>3 DEF GetSocket, GotMessage, Received, SocketOK
  <2>5. GotMessage /\ ~GotText => taken' \in foreign'
    BY <2>1 DEF GetSocket, GotText
  <2> QED BY <2>1, <2>2, <2>4, <2>5 DEF ServedIsOwed, Owed, Idle, SeenBySocket,
     SeenByMain, WithReason, GotText
<1>6. CASE NotifyThread
  <2>1. /\ UNCHANGED <<socketIn, closed, buffer_, taken, foreign, status>>
        /\ pcMain = "notify" /\ pcMain' = (IF status THEN "wait" ELSE "stop")
        /\ ~status => visit' = visit
        /\ pc'["socket"] \in {"lock", "type", "notify"} => pc'["socket"] = pc["socket"]
    BY <1>6 DEF NotifyThread, WakeThreads, netVars
  <2> QED BY <2>1 DEF ServedIsOwed, SeenBySocket, SeenByMain, WithReason, Ready
<1> QED BY <1>1, <1>2, <1>3, <1>4, <1>5, <1>6 DEF MainStep

\* A thread that is owed stays so until the main thread notifies it, and no
\* other thread can write type_ meanwhile.
LEMMA OwedThread ==
  ASSUME HandInv, TypeParts, Quits, NEW t \in Threads, ThreadStep(t)
  PROVE  ServedIsOwed'
<1> USE DEF HandInv, LockInv, TypeParts, ControlOK, Goto
<1>1. CASE NotifyMain(t)
  <2>1. /\ pc[t] = "notify" /\ pc' = [pc EXCEPT ![t] = "test"]
        /\ pcMain' = IF pcMain = "waiting" THEN "woken" ELSE pcMain
        /\ UNCHANGED <<visit, type_, locked>>
    BY <1>1 DEF NotifyMain, sharedVars
  <2>2. Holds(t) /\ locked[t] /\ type_ = Kind(t)
    BY <2>1 DEF Holds, LockedOnTheWay, TypeIsOwn
  <2>3. Owed(t)'
    BY <2>1, <2>2 DEF Owed, Idle
  <2>4. \A u \in Threads : Owed(u) => Owed(u)'
    BY <2>1, <2>3 DEF Owed, Idle
  <2> QED BY <2>1, <2>2, <2>3, <2>4 DEF Quits, ServedIsOwed
<1>2. CASE ~NotifyMain(t)
  <2>1. UNCHANGED <<pcMain, visit>>
    BY <1>2 DEF ThreadStep, Test, Wait, Woken, Poll, LockType, SetType, Exit, mainVars
  <2>2. CASE pcMain \notin {"woken", "notify"}
    BY <2>1, <2>2 DEF ServedIsOwed
  <2>3. CASE pcMain \in {"woken", "notify"}
    <3>1. PICK u \in Threads : /\ Owed(u)
                               /\ pcMain = "woken" => type_ = Kind(u)
                               /\ pcMain = "notify" => visit = u
      BY <2>3 DEF Quits, ServedIsOwed
    <3>2. running_
      BY <2>3 DEF RunsToStop, After
    <3>3. pc[t] # "type"
      BY <3>1, OneHolds DEF Holds, Owed, Idle
    <3>4. type_' = type_
      BY <1>2, <3>3 DEF ThreadStep, Test, Wait, Woken, Poll, LockType, SetType, Exit,
         sharedVars
    <3>5. Owed(u)'
      <4>1. CASE u # t
        BY <1>2, <3>1, <4>1 DEF ThreadStep, Test, Wait, Woken, Poll, LockType,
           SetType, Exit, Owed, Idle
      <4>2. CASE u = t
        <5>1. pc[t] \in {"test", "wait", "waiting"} /\ locked[t]
          BY <3>1, <4>2 DEF Owed, Idle
        <5>2. Test(t) \/ Wait(t)
          BY <1>2, <5>1 DEF ThreadStep, Test, Wait, Woken, Poll, LockType, SetType,
             Exit
        <5> QED BY <3>2, <4>2, <5>1, <5>2 DEF Test, Wait, Owed, Idle
      <4> QED BY <4>1, <4>2
    <3> QED BY <2>1, <3>1, <3>4, <3>5 DEF ServedIsOwed
  <2> QED BY <2>2, <2>3
<1> QED BY <1>1, <1>2

LEMMA QuitsThread ==
  ASSUME HandInv, TypeParts, Quits, NEW t \in Threads, ThreadStep(t)
  PROVE  Quits'
<1> USE DEF Quits, TypeParts, ControlOK, Goto
<1>1. UNCHANGED <<socketIn, closed, buffer_, taken, foreign, status, visit>>
  BY DEF ThreadStep, Test, Wait, Woken, Poll, LockType, SetType, NotifyMain, Exit,
     mainVars, netVars
<1>a. ServedIsOwed'
  BY OwedThread
<1>2. CASE Test(t) \/ Wait(t) \/ Woken(t) \/ LockType(t) \/ Exit(t)
  <2>1. /\ UNCHANGED <<pcMain, type_>>
        /\ pc'["socket"] \in {"lock", "type", "notify"} =>
             pc["socket"] \in {"lock", "type", "notify"}
    BY <1>2 DEF Test, Wait, Woken, LockType, Exit, mainVars, sharedVars, Threads
  <2> QED BY <1>1, <1>a, <2>1 DEF SeenBySocket, SeenByMain, WithReason, Ready
<1>3. CASE Poll(t)
  <2>1. /\ UNCHANGED <<pcMain, type_>>
        /\ pc'["socket"] \in {"lock", "type", "notify"} =>
             pc["socket"] \in {"lock", "type", "notify"} \/ Ready("socket")
    BY <1>3 DEF Poll, mainVars, sharedVars, Threads
  <2> QED BY <1>1, <1>a, <2>1 DEF SeenBySocket, SeenByMain, WithReason, Ready
<1>4. CASE SetType(t)
  <2>1. /\ UNCHANGED pcMain /\ type_' = Kind(t) /\ pc[t] = "type"
        /\ pc'["socket"] \in {"lock", "type", "notify"} =>
             pc["socket"] \in {"lock", "type", "notify"}
    BY <1>4 DEF SetType, TypeFor, mainVars, Threads
  <2>2. type_' = 1 => Ready("socket")
    BY <2>1 DEF Kind, Threads, SeenBySocket
  <2> QED BY <1>1, <1>a, <2>1, <2>2 DEF SeenBySocket, SeenByMain, WithReason, Ready
<1>5. CASE NotifyMain(t)
  <2>1. /\ pcMain' = IF pcMain = "waiting" THEN "woken" ELSE pcMain
        /\ UNCHANGED type_ /\ pc[t] = "notify" /\ type_ = Kind(t)
        /\ pc'["socket"] \in {"lock", "type", "notify"} =>
             pc["socket"] \in {"lock", "type", "notify"}
    BY <1>5 DEF NotifyMain, sharedVars, Threads, HandInv, TypeIsOwn, Holds
  <2>2. type_ = 1 => Ready("socket")
    BY <2>1 DEF Kind, Threads, SeenBySocket
  <2> QED BY <1>1, <1>a, <2>1, <2>2 DEF SeenBySocket, SeenByMain, WithReason, Ready
<1> QED BY <1>2, <1>3, <1>4, <1>5 DEF ThreadStep

LEMMA QuitsOutside ==
  ASSUME TypeParts, Quits, Outside
  PROVE  Quits'
<1>1. /\ UNCHANGED <<mainVars, sharedVars, threadVars, buffer_, taken>>
      /\ closed => closed'
      /\ socketIn > 0 => socketIn' > 0
      /\ foreign \subseteq foreign'
  BY DEF Outside, Key, ServerAnswers, ServerSends, ServerStalls, ServerCloses,
     netVars, TypeParts, SocketOK
<1> QED
  BY <1>1 DEF Quits, ServedIsOwed, Owed, Idle, SeenBySocket, SeenByMain, WithReason,
     Ready, mainVars, sharedVars, threadVars

LEMMA QuitsStep ==
  ASSUME HandInv, TypeParts, QuitsInv, [Next]_vars PROVE QuitsInv'
<1>1. CASE SpuriousMain \/ \E t \in Threads : SpuriousThread(t)
  BY <1>1 DEF SpuriousMain, SpuriousThread, TypeParts, HistoryOK, QuitsInv
<1>2. spurred > 0 /\ spurred' = spurred => QuitsInv'
  BY DEF QuitsInv
<1>3. CASE MainStep
  <2>1. spurred' = spurred
    BY <1>3 DEF MainStep, Authentificate, Drain, StartThreads, WakeThem, MainWait,
       HandleNothing, HandleInput, HandleSocket, NotifyThread, Stop, WakeAll,
       WakeThreads, Join, DestroyWindow, DeleteClient, history
  <2> QED BY <1>2, <1>3, <2>1, QuitsMain DEF QuitsInv
<1>4. ASSUME NEW t \in Threads, ThreadStep(t) PROVE QuitsInv'
  <2>1. spurred' = spurred
    BY <1>4 DEF ThreadStep, Test, Wait, Woken, Poll, LockType, SetType, NotifyMain,
       Exit, history
  <2> QED BY <1>2, <1>4, <2>1, QuitsThread DEF QuitsInv
<1>5. CASE Outside
  <2>1. spurred' = spurred
    BY <1>5 DEF Outside, Key, ServerAnswers, ServerSends, ServerStalls, ServerCloses,
       history
  <2> QED BY <1>2, <1>5, <2>1, QuitsOutside DEF QuitsInv
<1>6. CASE UNCHANGED vars
  <2>1. /\ UNCHANGED <<pcMain, status, visit, type_, pc, locked, spurred>>
        /\ UNCHANGED <<socketIn, closed, buffer_, taken, foreign>>
    BY <1>6 DEF vars, mainVars, sharedVars, threadVars, netVars, history
  <2> QED BY <2>1 DEF QuitsInv, Quits, ServedIsOwed, Owed, Idle, SeenBySocket,
                      SeenByMain, WithReason, Ready
<1> QED
  BY <1>1, <1>3, <1>4, <1>5, <1>6 DEF Next

\* In every execution in which no wait() has returned for no reason, whatever
\* the timing and even if notifications are lost, the main loop is left only
\* with /quit, after the server closed the connection, on a message that is no
\* server text, or on half a message.
THEOREM QuitsWithReason == Spec => []QuitsForAReason
<1>1. QuitsInv => QuitsForAReason
  BY DEF QuitsInv, Quits, WithReason, QuitsForAReason
<1>2. Init => QuitsInv
  BY InitQuits DEF QuitsInv
<1> QED
  BY InitParts, PartsStep, InitHand, HandStep, <1>2, QuitsStep, <1>1, PTL DEF Spec
=============================================================================
