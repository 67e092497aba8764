--------------------------- MODULE ShutdownProofs ---------------------------
(***************************************************************************)
(* Safety of the shutdown, for any number of calls of accept() and         *)
(* close(): it runs once, its GoAway goes out, and a close() that returns  *)
(* leaves no task behind.                                                  *)
(***************************************************************************)
EXTENDS Shutdown, TLAPS

USE ZenonT(60)

Inside(x) == pc[x] \in {"goaway", "signal"}

\* The first caller of initiate_shutdown.
FirstCaller ==
    /\ signalled => closing
    /\ \A x \in Actors : Inside(x) => closing /\ ~signalled
    /\ \A x, y \in Actors : Inside(x) /\ Inside(y) => x = y

\* The GoAway and the writer: where the frame can be, by where they stand.
GoAwayPlace ==
    /\ ~closing => goaway = "no"
    /\ signalled => goaway # "no"
    /\ \A x \in Actors : /\ pc[x] = "goaway" => goaway = "no"
                         /\ pc[x] = "signal" => goaway # "no"
    /\ goaway = "writing" => pc["writer"] = "writing"
    /\ goaway = "lost" => broken
    /\ Inside("writer") => broken
    /\ pc["writer"] \in {"draining", "drained", "exited"} /\ ~broken => signalled
    /\ pc["writer"] \in {"drained", "exited"} /\ ~broken => goaway = "written"

\* The joins: the JoinSet is gone only when every task has exited.
Joined ==
    /\ joinset = "taken" => AllExited
    /\ \A c \in Closers : pc[c] = "returned" => joinset = "taken"

IInv == TypeOK /\ FirstCaller /\ GoAwayPlace /\ Joined

(* The tasks, the calls of accept() and those of close() are distinct      *)
(* actors.                                                                 *)
LEMMA ActorFacts ==
    /\ {"writer", "reader", "closer"} \subseteq Tasks
    /\ WithKeepalive => "keepalive" \in Tasks
    /\ Tasks \subseteq {"writer", "reader", "closer", "keepalive"}
    /\ Tasks \subseteq Actors /\ Accepters \subseteq Actors /\ Closers \subseteq Actors
    /\ Tasks \cap Closers = {} /\ Tasks \cap Accepters = {} /\ Accepters \cap Closers = {}
BY ShutdownAssumption DEF Tasks, Actors

(* The initial states of the session satisfy the inductive invariant.      *)
LEMMA InitIInv == Init => IInv
<1> SUFFICES ASSUME Init PROVE IInv
  OBVIOUS
<1>1. \A x \in Actors : pc[x] \in {"unborn", "idle"}
  BY DEF Init
<1>2. TypeOK
  <2>1. pc \in [Actors -> Places]
    BY DEF Init, Places
  <2>2. acceptq \in 0..MaxSyns
    BY SMTT(60), ShutdownAssumption DEF Init
  <2> QED
    BY <2>1, <2>2 DEF Init, TypeOK
<1>3. FirstCaller
  BY <1>1 DEF Init, FirstCaller, Inside
<1>4. GoAwayPlace
  BY <1>1, ActorFacts DEF Init, GoAwayPlace, Inside
<1>5. Joined
  BY <1>1, ActorFacts DEF Init, Joined
<1> QED
  BY <1>2, <1>3, <1>4, <1>5 DEF IInv

(* Every step keeps the types.                                             *)
LEMMA TypeStep == ASSUME IInv, [Next]_vars PROVE TypeOK'
<1> USE ActorFacts DEF IInv, TypeOK, Places, Move, Goto, Initiate, sessionVars, callVars, wireVars
<1>1. ASSUME NEW t \in Tasks, Spawn(t) PROVE TypeOK'
  BY <1>1 DEF Spawn, Subscribe
<1>2. ASSUME NEW x \in Actors, Shutting(x) PROVE TypeOK'
  BY <1>2 DEF Shutting, ShutdownStep, SendGoAway, After
<1>3. CASE WriterTake
  BY <1>3 DEF WriterTake
<1>4. CASE WriterWrote
  BY <1>4 DEF WriterWrote
<1>5. CASE WriterFailed
  BY <1>5 DEF WriterFailed
<1>6. CASE WriterSignalled
  BY <1>6 DEF WriterSignalled
<1>7. CASE WriterDrain
  BY <1>7 DEF WriterDrain
<1>8. CASE WriterExit
  BY <1>8 DEF WriterExit
<1>9. CASE ReaderSignalled
  BY <1>9 DEF ReaderSignalled
<1>10. CASE ReaderEnd
  BY <1>10 DEF ReaderEnd
<1>11. CASE ReaderGoAway
  BY <1>11 DEF ReaderGoAway
<1>12. CASE ReaderSyn
  BY SMTT(60), <1>12, ShutdownAssumption DEF ReaderSyn
<1>13. CASE ReaderPong
  BY <1>13 DEF ReaderPong
<1>14. CASE CloserSignalled
  BY <1>14 DEF CloserSignalled
<1>15. CASE KeepaliveSignalled
  BY <1>15 DEF KeepaliveSignalled, Keepalive
<1>16. CASE KeepaliveTick
  BY <1>16 DEF KeepaliveTick, Keepalive
<1>17. CASE KeepalivePong
  BY <1>17 DEF KeepalivePong, Keepalive
<1>18. CASE KeepaliveTimeout
  BY <1>18 DEF KeepaliveTimeout
<1>19. CASE PeerStops
  BY <1>19 DEF PeerStops
<1>20. ASSUME NEW a \in Accepters, AcceptCheck(a) PROVE TypeOK'
  BY <1>20 DEF AcceptCheck
<1>21. ASSUME NEW a \in Accepters, AcceptSubscribe(a) PROVE TypeOK'
  BY <1>21 DEF AcceptSubscribe, Subscribe
<1>22. ASSUME NEW a \in Accepters, AcceptLock(a) PROVE TypeOK'
  BY <1>22 DEF AcceptLock
<1>23. ASSUME NEW a \in Accepters, AcceptSignalled(a) PROVE TypeOK'
  BY <1>23 DEF AcceptSignalled
<1>24. ASSUME NEW a \in Accepters, AcceptTake(a) PROVE TypeOK'
  BY SMTT(60), <1>24, ShutdownAssumption DEF AcceptTake, Queued
<1>25. ASSUME NEW c \in Closers, CloseCall(c) PROVE TypeOK'
  BY <1>25 DEF CloseCall
<1>26. ASSUME NEW c \in Closers, CloseLock(c) PROVE TypeOK'
  BY <1>26 DEF CloseLock
<1>27. ASSUME NEW c \in Closers, CloseJoined(c) PROVE TypeOK'
  BY <1>27 DEF CloseJoined
<1>28. CASE UNCHANGED vars
  BY <1>28 DEF vars
<1> QED
  BY <1>1, <1>2, <1>3, <1>4, <1>5, <1>6, <1>7, <1>8, <1>9, <1>10, <1>11, <1>12, <1>13, <1>14, <1>15, <1>16, <1>17, <1>18, <1>19, <1>20, <1>21, <1>22, <1>23, <1>24, <1>25, <1>26, <1>27, <1>28 DEF Next, AcceptStep

(* One caller at a time is inside initiate_shutdown, and stays the only    *)
(* one: the swap of is_closing lets no second one in.                      *)
LEMMA FirstCallerStep == ASSUME IInv, [Next]_vars PROVE FirstCaller'
<1> USE ActorFacts DEF IInv, TypeOK, FirstCaller, Inside, Move, Goto, sessionVars, callVars, wireVars
<1>1. ASSUME NEW t \in Tasks, Spawn(t) PROVE FirstCaller'
  BY <1>1 DEF Spawn, Subscribe
<1>2. ASSUME NEW x \in Actors, Shutting(x) PROVE FirstCaller'
  BY SMTT(60), <1>2 DEF Shutting, ShutdownStep, SendGoAway, SendFails, After
<1>3. CASE WriterTake
  BY <1>3 DEF WriterTake
<1>4. CASE WriterWrote
  BY <1>4 DEF WriterWrote, Accepts
<1>5. CASE WriterFailed
  BY <1>5 DEF WriterFailed, Initiate, Won
<1>6. CASE WriterSignalled
  BY <1>6 DEF WriterSignalled, Sees
<1>7. CASE WriterDrain
  BY <1>7 DEF WriterDrain, Accepts
<1>8. CASE WriterExit
  BY <1>8 DEF WriterExit
<1>9. CASE ReaderSignalled
  BY <1>9 DEF ReaderSignalled
<1>10. CASE ReaderEnd
  BY <1>10 DEF ReaderEnd, Initiate, Won
<1>11. CASE ReaderGoAway
  BY <1>11 DEF ReaderGoAway, Reads, Initiate, Won
<1>12. CASE ReaderSyn
  BY <1>12 DEF ReaderSyn
<1>13. CASE ReaderPong
  BY <1>13 DEF ReaderPong
<1>14. CASE CloserSignalled
  BY <1>14 DEF CloserSignalled
<1>15. CASE KeepaliveSignalled
  BY <1>15 DEF KeepaliveSignalled, Keepalive
<1>16. CASE KeepaliveTick
  BY <1>16 DEF KeepaliveTick, Keepalive
<1>17. CASE KeepalivePong
  BY <1>17 DEF KeepalivePong, Keepalive
<1>18. CASE KeepaliveTimeout
  BY <1>18 DEF KeepaliveTimeout, Initiate, Won
<1>19. CASE PeerStops
  BY <1>19 DEF PeerStops
<1>20. ASSUME NEW a \in Accepters, AcceptCheck(a) PROVE FirstCaller'
  BY <1>20 DEF AcceptCheck
<1>21. ASSUME NEW a \in Accepters, AcceptSubscribe(a) PROVE FirstCaller'
  BY <1>21 DEF AcceptSubscribe
<1>22. ASSUME NEW a \in Accepters, AcceptLock(a) PROVE FirstCaller'
  BY <1>22 DEF AcceptLock
<1>23. ASSUME NEW a \in Accepters, AcceptSignalled(a) PROVE FirstCaller'
  BY <1>23 DEF AcceptSignalled
<1>24. ASSUME NEW a \in Accepters, AcceptTake(a) PROVE FirstCaller'
  BY <1>24 DEF AcceptTake
<1>25. ASSUME NEW c \in Closers, CloseCall(c) PROVE FirstCaller'
  BY <1>25 DEF CloseCall, Initiate, Won
<1>26. ASSUME NEW c \in Closers, CloseLock(c) PROVE FirstCaller'
  BY <1>26 DEF CloseLock, TasksUnlocked
<1>27. ASSUME NEW c \in Closers, CloseJoined(c) PROVE FirstCaller'
  BY <1>27 DEF CloseJoined
<1>28. CASE UNCHANGED vars
  BY <1>28 DEF vars
<1> QED
  BY <1>1, <1>2, <1>3, <1>4, <1>5, <1>6, <1>7, <1>8, <1>9, <1>10, <1>11, <1>12, <1>13, <1>14, <1>15, <1>16, <1>17, <1>18, <1>19, <1>20, <1>21, <1>22, <1>23, <1>24, <1>25, <1>26, <1>27, <1>28 DEF Next, AcceptStep

(* Every step keeps the GoAway where the progress of its sender and of the *)
(* writer says.                                                            *)
LEMMA GoAwayStep == ASSUME IInv, [Next]_vars PROVE GoAwayPlace'
<1> USE ActorFacts DEF IInv, TypeOK, FirstCaller, GoAwayPlace, Inside, Move, Goto, sessionVars, callVars, wireVars
<1>1. ASSUME NEW t \in Tasks, Spawn(t) PROVE GoAwayPlace'
  BY <1>1 DEF Spawn, Subscribe
<1>2. ASSUME NEW x \in Actors, Shutting(x) PROVE GoAwayPlace'
  BY <1>2 DEF Shutting, ShutdownStep, SendGoAway, SendFails, After
<1>3. CASE WriterTake
  BY <1>3 DEF WriterTake
<1>4. CASE WriterWrote
  BY <1>4 DEF WriterWrote, Accepts
<1>5. CASE WriterFailed
  BY <1>5 DEF WriterFailed, Initiate, Won
<1>6. CASE WriterSignalled
  BY <1>6 DEF WriterSignalled, Sees
<1>7. CASE WriterDrain
  BY <1>7 DEF WriterDrain, Accepts
<1>8. CASE WriterExit
  BY <1>8 DEF WriterExit
<1>9. CASE ReaderSignalled
  BY <1>9 DEF ReaderSignalled
<1>10. CASE ReaderEnd
  BY <1>10 DEF ReaderEnd, Initiate, Won
<1>11. CASE ReaderGoAway
  BY <1>11 DEF ReaderGoAway, Reads, Initiate, Won
<1>12. CASE ReaderSyn
  BY <1>12 DEF ReaderSyn
<1>13. CASE ReaderPong
  BY <1>13 DEF ReaderPong
<1>14. CASE CloserSignalled
  BY <1>14 DEF CloserSignalled
<1>15. CASE KeepaliveSignalled
  BY SMTT(60), <1>15 DEF KeepaliveSignalled, Keepalive
<1>16. CASE KeepaliveTick
  BY SMTT(60), <1>16 DEF KeepaliveTick, Keepalive
<1>17. CASE KeepalivePong
  BY SMTT(60), <1>17 DEF KeepalivePong, Keepalive
<1>18. CASE KeepaliveTimeout
  BY SMTT(60), <1>18 DEF KeepaliveTimeout, Initiate, Won
<1>19. CASE PeerStops
  BY <1>19 DEF PeerStops
<1>20. ASSUME NEW a \in Accepters, AcceptCheck(a) PROVE GoAwayPlace'
  BY <1>20 DEF AcceptCheck
<1>21. ASSUME NEW a \in Accepters, AcceptSubscribe(a) PROVE GoAwayPlace'
  BY <1>21 DEF AcceptSubscribe
<1>22. ASSUME NEW a \in Accepters, AcceptLock(a) PROVE GoAwayPlace'
  BY <1>22 DEF AcceptLock
<1>23. ASSUME NEW a \in Accepters, AcceptSignalled(a) PROVE GoAwayPlace'
  BY <1>23 DEF AcceptSignalled
<1>24. ASSUME NEW a \in Accepters, AcceptTake(a) PROVE GoAwayPlace'
  BY <1>24 DEF AcceptTake
<1>25. ASSUME NEW c \in Closers, CloseCall(c) PROVE GoAwayPlace'
  BY <1>25 DEF CloseCall, Initiate, Won
<1>26. ASSUME NEW c \in Closers, CloseLock(c) PROVE GoAwayPlace'
  BY <1>26 DEF CloseLock, TasksUnlocked
<1>27. ASSUME NEW c \in Closers, CloseJoined(c) PROVE GoAwayPlace'
  BY <1>27 DEF CloseJoined
<1>28. CASE UNCHANGED vars
  BY <1>28 DEF vars
<1> QED
  BY <1>1, <1>2, <1>3, <1>4, <1>5, <1>6, <1>7, <1>8, <1>9, <1>10, <1>11, <1>12, <1>13, <1>14, <1>15, <1>16, <1>17, <1>18, <1>19, <1>20, <1>21, <1>22, <1>23, <1>24, <1>25, <1>26, <1>27, <1>28 DEF Next, AcceptStep

(* Every step keeps the joins sound: a task that has exited stays so.      *)
LEMMA JoinedStep == ASSUME IInv, [Next]_vars PROVE Joined'
<1> USE ActorFacts DEF IInv, TypeOK, Joined, AllExited, Move, Goto, sessionVars, callVars, wireVars
<1>1. ASSUME NEW t \in Tasks, Spawn(t) PROVE Joined'
  BY <1>1 DEF Spawn, Subscribe
<1>2. ASSUME NEW x \in Actors, Shutting(x) PROVE Joined'
  BY <1>2 DEF Shutting, ShutdownStep, SendGoAway, SendFails, After
<1>3. CASE WriterTake
  BY <1>3 DEF WriterTake
<1>4. CASE WriterWrote
  BY <1>4 DEF WriterWrote, Accepts
<1>5. CASE WriterFailed
  BY <1>5 DEF WriterFailed, Initiate, Won
<1>6. CASE WriterSignalled
  BY <1>6 DEF WriterSignalled, Sees
<1>7. CASE WriterDrain
  BY <1>7 DEF WriterDrain, Accepts
<1>8. CASE WriterExit
  BY <1>8 DEF WriterExit
<1>9. CASE ReaderSignalled
  BY <1>9 DEF ReaderSignalled
<1>10. CASE ReaderEnd
  BY <1>10 DEF ReaderEnd, Initiate, Won
<1>11. CASE ReaderGoAway
  BY <1>11 DEF ReaderGoAway, Reads, Initiate, Won
<1>12. CASE ReaderSyn
  BY <1>12 DEF ReaderSyn
<1>13. CASE ReaderPong
  BY <1>13 DEF ReaderPong
<1>14. CASE CloserSignalled
  BY <1>14 DEF CloserSignalled
<1>15. CASE KeepaliveSignalled
  BY <1>15 DEF KeepaliveSignalled, Keepalive
<1>16. CASE KeepaliveTick
  BY <1>16 DEF KeepaliveTick, Keepalive
<1>17. CASE KeepalivePong
  BY <1>17 DEF KeepalivePong, Keepalive
<1>18. CASE KeepaliveTimeout
  BY <1>18 DEF KeepaliveTimeout, Initiate, Won
<1>19. CASE PeerStops
  BY <1>19 DEF PeerStops
<1>20. ASSUME NEW a \in Accepters, AcceptCheck(a) PROVE Joined'
  BY <1>20 DEF AcceptCheck
<1>21. ASSUME NEW a \in Accepters, AcceptSubscribe(a) PROVE Joined'
  BY <1>21 DEF AcceptSubscribe
<1>22. ASSUME NEW a \in Accepters, AcceptLock(a) PROVE Joined'
  BY <1>22 DEF AcceptLock
<1>23. ASSUME NEW a \in Accepters, AcceptSignalled(a) PROVE Joined'
  BY <1>23 DEF AcceptSignalled
<1>24. ASSUME NEW a \in Accepters, AcceptTake(a) PROVE Joined'
  BY <1>24 DEF AcceptTake
<1>25. ASSUME NEW c \in Closers, CloseCall(c) PROVE Joined'
  BY <1>25 DEF CloseCall, Initiate, Won
<1>26. ASSUME NEW c \in Closers, CloseLock(c) PROVE Joined'
  BY <1>26 DEF CloseLock, TasksUnlocked
<1>27. ASSUME NEW c \in Closers, CloseJoined(c) PROVE Joined'
  BY <1>27 DEF CloseJoined
<1>28. CASE UNCHANGED vars
  BY <1>28 DEF vars
<1> QED
  BY <1>1, <1>2, <1>3, <1>4, <1>5, <1>6, <1>7, <1>8, <1>9, <1>10, <1>11, <1>12, <1>13, <1>14, <1>15, <1>16, <1>17, <1>18, <1>19, <1>20, <1>21, <1>22, <1>23, <1>24, <1>25, <1>26, <1>27, <1>28 DEF Next, AcceptStep

(* IInv holds in every state the session reaches, and implies the          *)
(* properties below.                                                       *)
THEOREM Invariance == Spec => []IInv
<1>1. IInv /\ [Next]_vars => IInv'
  BY TypeStep, FirstCallerStep, GoAwayStep, JoinedStep DEF IInv
<1> QED
  BY InitIInv, <1>1, PTL DEF Spec

(* The variables of the session keep their types.                          *)
THEOREM TypeCorrect == Spec => []TypeOK
<1>1. IInv => TypeOK
  BY DEF IInv
<1> QED
  BY Invariance, <1>1, PTL

(* initiate_shutdown takes effect once, however many tasks and calls of    *)
(* close() run it at the same time.                                        *)
THEOREM RunsOnce == Spec => []ShutdownOnce
<1>1. IInv => ShutdownOnce
  BY DEF IInv, FirstCaller, Inside, ShutdownOnce
<1> QED
  BY Invariance, <1>1, PTL

(* A writer task that exits without a write error has written the GoAway.  *)
THEOREM GoAwayGoesOut == Spec => []GoAwayFlushed
<1>1. IInv => GoAwayFlushed
  BY DEF IInv, GoAwayPlace, GoAwayFlushed
<1> QED
  BY Invariance, <1>1, PTL

(* Whichever call of close() returns, and however many there are, every    *)
(* task has exited by then.                                                *)
THEOREM CloseIsFinal == Spec => []CloseMeansStopped
<1>1. IInv => CloseMeansStopped
  BY DEF IInv, Joined, CloseMeansStopped
<1> QED
  BY Invariance, <1>1, PTL
=============================================================================
