------------------------------ MODULE Shutdown ------------------------------
(***************************************************************************)
(* The end of one session, at the grain of its atomic operations: the      *)
(* constructor that spawns the tasks, the four tasks, the calls of         *)
(* accept() and close(), and the steps of initiate_shutdown, which any of  *)
(* them may run while the others go on.  What the shutdown does to the     *)
(* streams is in Opening.tla.                                              *)
(*                                                                         *)
(* The shutdown watch wakes a receiver only if it subscribed before the    *)
(* signal: subscribe() marks the value it finds as seen.  The peer and the *)
(* transport are external: frames arrive in any order that makes sense,    *)
(* the transport may fail, and the peer may stop reading and answering.    *)
(* Of the frames that go out only the GoAway is followed.                  *)
(***************************************************************************)
EXTENDS Integers

CONSTANTS
    Accepters,      \* bound: the calls of accept()
    Closers,        \* bound: the calls of close()
    MaxSyns,        \* bound: streams the peer opens that wait in accept_rx
    WithKeepalive   \* Config::keepalive_interval is set

VARIABLES
    pc,         \* where each task ("unborn" before its spawn) and call stands
    sub,        \* its watch receiver: "none", or "fresh" or "stale" by whether
                \* it was made before the signal
    closing,    \* SessionInner.is_closing
    signalled,  \* shutdown_tx has sent true
    acceptq,    \* streams in accept_rx
    acceptBy,   \* the calls that hold the lock of accept_rx
    joinset,    \* SessionInner.tasks: "stashed", "joining" (lock held), "taken"
    goaway,     \* our GoAway: "no", "queued" (in out_rx), "writing" (by
                \* write_one), "written" to the transport or "lost"
    pong,       \* a pong is in pong_rx
    broken,     \* a write has failed
    silent      \* the peer has stopped reading and answering

vars == <<pc, sub, closing, signalled, acceptq, acceptBy, joinset,
          goaway, pong, broken, silent>>

callVars == <<acceptq, acceptBy, joinset>>
wireVars == <<goaway, pong, broken, silent>>

Tasks == {"writer", "reader", "closer"} \cup (IF WithKeepalive THEN {"keepalive"} ELSE {})

Actors == Tasks \cup Accepters \cup Closers

ASSUME ShutdownAssumption ==
    /\ MaxSyns \in Nat /\ WithKeepalive \in BOOLEAN
    /\ Accepters \cap Closers = {}
    /\ (Accepters \cup Closers) \cap {"writer", "reader", "closer", "keepalive"} = {}

Init ==
    /\ pc = [x \in Actors |-> IF x \in Tasks THEN "unborn" ELSE "idle"]
    /\ sub = [x \in Actors |-> "none"]
    /\ closing = FALSE /\ signalled = FALSE
    /\ acceptq = 0 /\ acceptBy = {} /\ joinset = "stashed"
    /\ goaway = "no" /\ pong = FALSE /\ broken = FALSE /\ silent = FALSE

----------------------------------------------------------------------------
\* Session::new, the watch, and initiate_shutdown.

Goto(x, where) == pc' = [pc EXCEPT ![x] = where]

Move(x, from, to) == pc[x] = from /\ Goto(x, to)

\* shutdown_tx.subscribe().
Subscribe(x) == sub' = [sub EXCEPT ![x] = IF signalled THEN "stale" ELSE "fresh"]

\* changed() is ready.
Sees(x) == signalled /\ sub[x] = "fresh"

\* The order in which Session::new spawns the tasks.
SpawnedBefore(t) ==
    CASE t = "writer" -> {} [] t = "reader" -> {"writer"}
      [] t = "closer" -> {"writer", "reader"} [] OTHER -> {"writer", "reader", "closer"}

\* The receiver is made, then the task spawned; it may run at once.
Spawn(t) ==
    /\ \A u \in SpawnedBefore(t) : pc[u] # "unborn"
    /\ Move(t, "unborn", "running")
    /\ Subscribe(t)
    /\ UNCHANGED <<closing, signalled, callVars, wireVars>>

WonAlways == TRUE

\* is_closing.swap(true) tells who is first.
Won == ~closing

\* The start of initiate_shutdown; a caller that is not the first goes on.
Initiate(x, after) ==
    /\ closing' = TRUE
    /\ Goto(x, IF Won THEN "goaway" ELSE after)

\* The writer task has returned and dropped out_rx.
SendFails == pc["writer"] = "exited"

SendGoAway == goaway' = IF SendFails THEN "lost" ELSE "queued"

\* Where the first caller goes on when it is through.
After(x) ==
    CASE x = "writer" -> "draining" [] x \in Closers -> "locking" [] OTHER -> "exited"

SignalFirst(x) ==
    \/ Move(x, "goaway", "signal") /\ signalled' = TRUE /\ UNCHANGED goaway
    \/ Move(x, "signal", After(x)) /\ SendGoAway /\ UNCHANGED signalled

\* The steps of the first caller: the GoAway, then (once the registry is
\* drained) the signal.
ShutdownStep(x) ==
    \/ Move(x, "goaway", "signal") /\ SendGoAway /\ UNCHANGED signalled
    \/ Move(x, "signal", After(x)) /\ signalled' = TRUE /\ UNCHANGED goaway

Shutting(x) ==
    /\ ShutdownStep(x)
    /\ UNCHANGED <<sub, closing, callVars, pong, broken, silent>>

----------------------------------------------------------------------------
\* The writer task.

sessionVars == <<sub, closing, signalled, callVars>>

\* The transport takes a frame: the peer reads, or there is room.
Accepts == ~broken /\ ~silent

\* It takes a frame, the GoAway when that is next.  Others come at any time
\* once the reader runs: its answers, then what streams and keepalive send.
WriterTake ==
    /\ Move("writer", "running", "writing") /\ ~Sees("writer")
    /\ pc["reader"] # "unborn"
    /\ \/ UNCHANGED goaway
       \/ goaway = "queued" /\ goaway' = "writing"
    /\ UNCHANGED <<sessionVars, pong, broken, silent>>

\* write_one does not look at the shutdown signal.
WriterWrote ==
    /\ Move("writer", "writing", "running") /\ Accepts
    /\ goaway' = IF goaway = "writing" THEN "written" ELSE goaway
    /\ UNCHANGED <<sessionVars, pong, broken, silent>>

WriterFailed ==
    /\ pc["writer"] = "writing"
    /\ Initiate("writer", "draining")
    /\ broken' = TRUE
    /\ goaway' = IF goaway = "writing" THEN "lost" ELSE goaway
    /\ UNCHANGED <<sub, signalled, callVars, pong, silent>>

WriterSignalled ==
    /\ Move("writer", "running", "draining") /\ Sees("writer")
    /\ UNCHANGED <<sessionVars, wireVars>>

\* drain: the rest of the queue goes out, or an error ends it.
WriterDrain ==
    /\ Move("writer", "draining", "drained")
    /\ \/ /\ Accepts \/ (goaway # "queued" /\ ~broken)
          /\ goaway' = IF goaway = "queued" THEN "written" ELSE goaway
          /\ UNCHANGED broken
       \/ /\ broken' = TRUE
          /\ goaway' = IF goaway = "queued" THEN "lost" ELSE goaway
    /\ UNCHANGED <<sessionVars, pong, silent>>

\* What was queued since the last try_recv goes with out_rx.
WriterExit ==
    /\ Move("writer", "drained", "exited")
    /\ goaway' = IF goaway = "queued" THEN "lost" ELSE goaway
    /\ UNCHANGED <<sessionVars, pong, broken, silent>>

WriterStep == WriterTake \/ WriterWrote \/ WriterSignalled \/ WriterExit
              \/ (WriterDrain /\ UNCHANGED broken)

----------------------------------------------------------------------------
\* The reader task; its select! polls the signal first.

Reads == pc["reader"] = "running" /\ ~Sees("reader") /\ ~silent

ReaderSignalled ==
    /\ Move("reader", "running", "exited") /\ Sees("reader")
    /\ UNCHANGED <<sessionVars, wireVars>>

\* End of file, an error, or a dispatch that fails: initiate_shutdown, break.
ReaderEnd ==
    /\ pc["reader"] = "running" /\ ~Sees("reader")
    /\ Initiate("reader", "exited")
    /\ UNCHANGED <<sub, signalled, callVars, wireVars>>

\* A GoAway, which does not end the loop by itself.
ReaderGoAway ==
    /\ Reads
    /\ Initiate("reader", "running")
    /\ UNCHANGED <<sub, signalled, callVars, wireVars>>

\* handle_data on a SYN: accept_tx.send.
ReaderSyn ==
    /\ Reads /\ acceptq < MaxSyns
    /\ acceptq' = acceptq + 1
    /\ UNCHANGED <<pc, sub, closing, signalled, acceptBy, joinset, wireVars>>

\* The answer to the ping that is out (there is one at a time); pong_tx.send.
ReaderPong ==
    /\ Reads /\ ~pong /\ WithKeepalive /\ pc["keepalive"] = "waiting"
    /\ pong' = TRUE
    /\ UNCHANGED <<sessionVars, pc, goaway, broken, silent>>

----------------------------------------------------------------------------
\* The closer task and the keepalive task.

CloserSignalled ==
    /\ Move("closer", "running", "exited") /\ Sees("closer")
    /\ UNCHANGED <<sessionVars, wireVars>>

Keepalive(from, to) == WithKeepalive /\ Move("keepalive", from, to)

TickRegardless ==
    /\ Keepalive("running", "waiting") /\ ~Sees("keepalive")
    /\ UNCHANGED <<sessionVars, wireVars>>

KeepaliveSignalled ==
    /\ Keepalive("running", "exited") /\ Sees("keepalive")
    /\ UNCHANGED <<sessionVars, wireVars>>

\* A tick: send a ping and wait for the answer.
KeepaliveTick ==
    /\ Keepalive("running", IF SendFails THEN "exited" ELSE "waiting") /\ ~Sees("keepalive")
    /\ UNCHANGED <<sessionVars, wireVars>>

\* await_pong returns: the pong came, or the reader is gone and pong_tx with it.
PongOver == pong \/ pc["reader"] = "exited"

KeepalivePong ==
    /\ Keepalive("waiting", "running") /\ PongOver
    /\ pong' = FALSE
    /\ UNCHANGED <<sessionVars, goaway, broken, silent>>

KeepaliveBreaks ==
    /\ Keepalive("waiting", "exited")
    /\ UNCHANGED <<sessionVars, wireVars>>

\* keepalive_timeout elapses first.
KeepaliveTimeout ==
    /\ WithKeepalive /\ pc["keepalive"] = "waiting" /\ ~pong
    /\ Initiate("keepalive", "exited")
    /\ UNCHANGED <<sub, signalled, callVars, wireVars>>

KeepaliveStep ==
    KeepaliveSignalled \/ KeepaliveTick \/ KeepalivePong \/ KeepaliveTimeout

----------------------------------------------------------------------------
\* The calls of the application, each made once, after Session::new.

Built == \A t \in Tasks : pc[t] # "unborn"

\* accept(): the check, the subscription, the lock, then the select.
AcceptCheck(a) ==
    /\ Built
    /\ Move(a, "idle", IF closing THEN "failed" ELSE "checked")
    /\ UNCHANGED <<sessionVars, wireVars>>

AcceptSubscribe(a) ==
    /\ Move(a, "checked", "locking")
    /\ Subscribe(a)
    /\ UNCHANGED <<closing, signalled, callVars, wireVars>>

AcceptLock(a) ==
    /\ Move(a, "locking", "waiting") /\ acceptBy = {}
    /\ acceptBy' = {a}
    /\ UNCHANGED <<sub, closing, signalled, acceptq, joinset, wireVars>>

AcceptDeaf(a) == FALSE

AcceptSignalled(a) ==
    /\ Move(a, "waiting", "failed") /\ Sees(a)
    /\ acceptBy' = {}
    /\ UNCHANGED <<sub, closing, signalled, acceptq, joinset, wireVars>>

\* recv() is ready.
Queued == acceptq > 0

\* A stream is queued; the call gets it if its ACK can still be sent.
AcceptTake(a) ==
    /\ ~Sees(a)
    /\ Move(a, "waiting", IF SendFails THEN "failed" ELSE "got")
    /\ Queued /\ acceptq' = acceptq - 1
    /\ acceptBy' = {}
    /\ UNCHANGED <<sub, closing, signalled, joinset, wireVars>>

AcceptStep(a) == AcceptSubscribe(a) \/ AcceptLock(a) \/ AcceptSignalled(a) \/ AcceptTake(a)

\* close(): initiate_shutdown, the lock of the tasks, then the joins.
CloseCall(c) ==
    /\ Built
    /\ pc[c] = "idle" /\ Initiate(c, "locking")
    /\ UNCHANGED <<sub, signalled, callVars, wireVars>>

LockIgnored == TRUE

\* The lock of SessionInner.tasks is held during the joins.
TasksUnlocked == joinset # "joining"

CloseLock(c) ==
    /\ TasksUnlocked
    /\ Move(c, "locking", IF joinset = "stashed" THEN "joining" ELSE "returned")
    /\ joinset' = IF joinset = "stashed" THEN "joining" ELSE joinset
    /\ UNCHANGED <<sub, closing, signalled, acceptq, acceptBy, wireVars>>

AllExited == \A t \in Tasks : pc[t] = "exited"

CloseJoined(c) ==
    /\ Move(c, "joining", "returned") /\ AllExited
    /\ joinset' = "taken"
    /\ UNCHANGED <<sub, closing, signalled, acceptq, acceptBy, wireVars>>

\* External: the peer stops reading and answering, for good.
PeerStops ==
    /\ ~silent /\ silent' = TRUE
    /\ UNCHANGED <<sessionVars, pc, goaway, pong, broken>>

----------------------------------------------------------------------------
Next ==
    \/ PeerStops \/ \E t \in Tasks : Spawn(t)
    \/ \E x \in Actors : Shutting(x)
    \/ WriterTake \/ WriterWrote \/ WriterFailed \/ WriterSignalled \/ WriterDrain \/ WriterExit
    \/ ReaderSignalled \/ ReaderEnd \/ ReaderGoAway \/ ReaderSyn \/ ReaderPong
    \/ CloserSignalled
    \/ KeepaliveSignalled \/ KeepaliveTick \/ KeepalivePong \/ KeepaliveTimeout
    \/ \E a \in Accepters : AcceptCheck(a) \/ AcceptStep(a)
    \/ \E c \in Closers : CloseCall(c) \/ CloseLock(c) \/ CloseJoined(c)

Spec == Init /\ [][Next]_vars

\* Spawned tasks and calls under way run on, timers fire, and a transport the
\* peer reads from takes what is written.  Nothing makes a peer send, a
\* transport fail, or an application make a call.
FairSpec ==
    /\ Spec
    /\ \A t \in Tasks : WF_vars(Spawn(t))
    /\ \A x \in Actors : WF_vars(Shutting(x))
    /\ WF_vars(WriterStep)
    /\ WF_vars(ReaderSignalled) /\ WF_vars(CloserSignalled) /\ WF_vars(KeepaliveStep)
    /\ \A a \in Accepters : WF_vars(AcceptStep(a))
    /\ \A c \in Closers : WF_vars(CloseLock(c)) /\ WF_vars(CloseJoined(c))

----------------------------------------------------------------------------
Places == {"unborn", "idle", "running", "exited", "goaway", "signal", "writing", "draining",
           "drained", "checked", "locking", "waiting", "joining", "returned", "got", "failed"}

TypeOK ==
    /\ pc \in [Actors -> Places]
    /\ sub \in [Actors -> {"none", "fresh", "stale"}]
    /\ closing \in BOOLEAN /\ signalled \in BOOLEAN
    /\ pong \in BOOLEAN /\ broken \in BOOLEAN /\ silent \in BOOLEAN
    /\ acceptq \in 0..MaxSyns
    /\ acceptBy \subseteq Accepters /\ joinset \in {"stashed", "joining", "taken"}
    /\ goaway \in {"no", "queued", "writing", "written", "lost"}

(* initiate_shutdown runs once, whoever and how many call it: one caller at *)
(* a time is inside it, and none after the signal.                          *)
ShutdownOnce ==
    \A x, y \in Actors :
        pc[x] \in {"goaway", "signal"} =>
            ~signalled /\ (pc[y] \in {"goaway", "signal"} => x = y)

(* The GoAway reaches the transport before the writer task exits, unless a  *)
(* write failed: it is queued before the signal that makes the writer drain. *)
GoAwayFlushed == pc["writer"] = "exited" /\ ~broken => goaway = "written"

(* When a call of close() returns, the first or a later one, every          *)
(* background task has exited.                                              *)
CloseMeansStopped == \A c \in Closers : pc[c] = "returned" => AllExited

(* close() returns, unless the peer has stopped reading while the writer    *)
(* still has frames for it, or the session ended while Session::new was     *)
(* still spawning the closer task, which then missed the signal.            *)
CloseReturns ==
    \A c \in Closers :
        pc[c] \notin {"idle", "returned"} ~>
            pc[c] = "returned" \/ (silent /\ ~broken) \/ sub["closer"] = "stale"

(* accept() returns once the session has shut down, unless the call, or the *)
(* one that holds the lock, subscribed to the shutdown watch after the      *)
(* signal.                                                                  *)
AcceptReturns ==
    \A a \in Accepters :
        signalled /\ pc[a] \in {"checked", "locking", "waiting"} ~>
            pc[a] \in {"got", "failed"} \/ \E b \in Accepters : pc[b] = "waiting" /\ sub[b] = "stale"

(* With keepalive on, a peer that stops answering ends the session, even if *)
(* it has also stopped reading and the writer is stuck.                     *)
SilentPeerNoticed == silent /\ WithKeepalive ~> signalled

----------------------------------------------------------------------------
\* What the repository's documents say and the code does not do.

(* session/mod.rs, accept: returns SessionClosed once the session has shut *)
(* down.                                                                    *)
AcceptEndsWithSession ==
    \A a \in Accepters : signalled ~> pc[a] \notin {"locking", "waiting"}
=============================================================================
