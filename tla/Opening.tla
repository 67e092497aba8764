------------------------------ MODULE Opening ------------------------------
(***************************************************************************)
(* The streams of one session while it opens and shuts down, at the grain  *)
(* of its atomic operations: concurrent calls of open(), the id allocator, *)
(* the registry and its cap, the wait for the peer's answer, the reader    *)
(* task that registers the peer's streams and delivers answers, and an     *)
(* initiate_shutdown that drains the registry among all that.              *)
(*                                                                         *)
(* A stream is its id; its flags are sets of ids, followed from the        *)
(* insertion by open() until the call has failed or its stream is dropped. *)
(* The peer is external: it opens streams with fresh ids of its parity and *)
(* answers a SYN with an ACK, an RST or nothing.                           *)
(***************************************************************************)
EXTENDS Integers, FiniteSets

CONSTANTS
    Openers,    \* the tasks that call open(), each one call at a time
    MaxStreams, \* Config::max_streams
    FirstId,    \* Role::first_id: 1 for the client, 2 for the server
    MaxId,      \* u32::MAX, the end of the id space
    MaxPeerId   \* bound: the ids of the streams the peer opens

VARIABLES
    pc,         \* where each call, the reader and the shutdown stand
    cur,        \* the id each of them works on
    next,       \* StreamIdAllocator.next
    registry,   \* the ids in StreamRegistry
    acked,      \* streams with ack_received
    resets,     \* streams with the reset bit
    shut,       \* streams with write_open cleared
    waker,      \* streams whose ack_waker holds the task of open()
    woken,      \* streams whose call of open() has been woken
    closeq,     \* ids in closer_rx
    peerNext,   \* the peer's next id
    closing, peerGone, signalled,
    doomed,     \* what drain() returned and force_close has not reached
    writerGone  \* out_rx is dropped

idVars == <<next, peerNext>>
regVars == <<registry, closeq>>
flagVars == <<acked, resets, shut>>
wakeVars == <<waker, woken>>
drainVars == <<signalled, doomed, writerGone>>
endVars == <<closing, peerGone, drainVars>>
vars == <<pc, cur, idVars, regVars, flagVars, wakeVars, endVars>>

\* The reader task, and whoever runs initiate_shutdown.
Wakers == {"reader", "shutdown"}

Actors == Openers \cup Wakers

ASSUME OpeningAssumption ==
    /\ Openers \cap Wakers = {} /\ IsFiniteSet(Openers)
    /\ MaxStreams \in Nat \ {0} /\ MaxId \in Nat \ {0, 1} /\ MaxPeerId \in Nat
    /\ FirstId \in {1, 2}

Ids == 1..(MaxId + MaxPeerId)

\* Role::owns.
Owns(i) == i # 0 /\ i % 2 = FirstId % 2

Init ==
    /\ pc = [x \in Actors |-> "idle"] /\ cur = [x \in Actors |-> 0]
    /\ next = FirstId /\ peerNext = 3 - FirstId
    /\ registry = {} /\ acked = {} /\ resets = {} /\ shut = {}
    /\ waker = {} /\ woken = {} /\ closeq = {} /\ doomed = {}
    /\ closing = FALSE /\ peerGone = FALSE /\ signalled = FALSE /\ writerGone = FALSE

Goto(x, where) == pc' = [pc EXCEPT ![x] = where]

Move(x, from, to) == pc[x] = from /\ Goto(x, to)

WorkOn(x, i) == cur' = [cur EXCEPT ![x] = i]

Looking == {"first", "registering", "acked2", "reset2", "open2", "parked"}

HasId(o) ==
    pc[o] \in Looking \cup {"inserting", "duplicate", "syn", "got", "reset", "closed", "timeout"}

\* The streams whose flags are followed.
Followed == {cur[o] : o \in {p \in Openers : HasId(p)}}

Forget(i) ==
    /\ acked' = acked \ {i} /\ resets' = resets \ {i} /\ shut' = shut \ {i}
    /\ waker' = waker \ {i} /\ woken' = woken \ {i}

\* The call, or the handle it returned, is gone.
Leave(o) == Goto(o, "idle") /\ WorkOn(o, 0) /\ Forget(cur[o])

----------------------------------------------------------------------------
\* open() up to its SYN.

NeverRefuses == FALSE

Refuses == closing \/ peerGone

OpenCheck(o) ==
    /\ Move(o, "idle", IF Refuses THEN "idle" ELSE "counting")
    /\ UNCHANGED <<cur, idVars, regVars, flagVars, wakeVars, endVars>>

FullAbove == Cardinality(registry) > MaxStreams

\* registry.len() >= max_streams.
Full == Cardinality(registry) >= MaxStreams

OpenCount(o) ==
    /\ Move(o, "counting", IF Full THEN "idle" ELSE "loading")
    /\ UNCHANGED <<cur, idVars, regVars, flagVars, wakeVars, endVars>>

\* checked_add fails at the end of the id space.
Exhausted == next + 2 > MaxId

\* The allocator's load.
AllocLoad(o) ==
    /\ pc[o] = "loading"
    /\ IF Exhausted THEN Goto(o, "idle") /\ UNCHANGED cur
                 ELSE Goto(o, "exchanging") /\ WorkOn(o, next)
    /\ UNCHANGED <<idVars, regVars, flagVars, wakeVars, endVars>>

ExchangeBlindly(o) == TRUE

CanExchange(o) == next = cur[o]

\* compare_exchange_weak, which may fail for no reason.
AllocExchange(o) ==
    /\ \/ /\ CanExchange(o)
          /\ Move(o, "exchanging", "inserting")
          /\ next' = cur[o] + 2
          /\ UNCHANGED cur
       \/ Move(o, "exchanging", "loading") /\ WorkOn(o, 0) /\ UNCHANGED next
    /\ UNCHANGED <<peerNext, regVars, flagVars, wakeVars, endVars>>

\* StreamInner::new and insert, which refuses an id that is in use.
OpenInsert(o) ==
    /\ Move(o, "inserting", IF cur[o] \in registry THEN "duplicate" ELSE "syn")
    /\ registry' = registry \cup {cur[o]}
    /\ UNCHANGED <<cur, idVars, closeq, flagVars, wakeVars, endVars>>

OpenSyn(o) ==
    /\ Move(o, "syn", IF writerGone THEN "closed" ELSE "first")
    /\ UNCHANGED <<cur, idVars, regVars, flagVars, wakeVars, endVars>>

----------------------------------------------------------------------------
\* The rest of open(): wait_acked under the open timeout.

Look(o, at, flags, found, else) == Move(o, at, IF cur[o] \in flags THEN found ELSE else)

Notified == acked \cup shut

\* The streams for which wait_acked is over with success.
Established == acked

\* A look at the flags of the stream.  (The loads of the first look are one step;
\* those of the second meet the same races.)  A poll that finds nothing the
\* second time leaves the call parked, or times it out if the deadline is over.
LookAgain(o) ==
    /\ \/ /\ pc[o] = "first"
          /\ Goto(o, IF cur[o] \in Established THEN "got" ELSE
                     IF cur[o] \in resets THEN "reset" ELSE
                     IF cur[o] \in shut THEN "closed" ELSE "registering")
       \/ Look(o, "acked2", Established, "got", "reset2")
       \/ Look(o, "reset2", resets, "reset", "open2")
       \/ Look(o, "open2", shut, "closed", "parked")
       \/ Look(o, "open2", shut, "closed", "timeout")
    /\ UNCHANGED <<cur, idVars, regVars, flagVars, wakeVars, endVars>>

ParkAtOnce == "parked"

AfterRegister == "acked2"

Register(o) ==
    /\ Move(o, "registering", AfterRegister)
    /\ waker' = waker \cup {cur[o]}
    /\ UNCHANGED <<cur, idVars, regVars, flagVars, woken, endVars>>

\* The task is polled again, because it was woken.
Repoll(o) ==
    /\ Move(o, "parked", "first") /\ cur[o] \in woken
    /\ woken' = woken \ {cur[o]}
    /\ UNCHANGED <<cur, idVars, regVars, flagVars, waker, endVars>>

\* The deadline wakes the task, which looks once more.
Deadline(o) ==
    /\ Move(o, "parked", "first")
    /\ UNCHANGED <<cur, idVars, regVars, flagVars, wakeVars, endVars>>

\* The caller drops the future of open() at its only await.
Cancel(o) ==
    /\ Move(o, "parked", "cancelled")
    /\ Forget(cur[o])
    /\ UNCHANGED <<cur, idVars, regVars, endVars>>

KeepEntry(o) == registry

Unregistered(o) == registry \ {cur[o]}

\* open() fails: it removes the stream (after an RST on the timeout).
OpenUndo(o) ==
    /\ pc[o] \in {"reset", "closed", "timeout"} /\ Leave(o)
    /\ registry' = Unregistered(o)
    /\ UNCHANGED <<idVars, closeq, endVars>>

\* The application drops the stream it got: on_user_drop.
DropStream(o) ==
    /\ pc[o] = "got" /\ Leave(o)
    /\ closeq' = closeq \cup {cur[o]}
    /\ UNCHANGED <<idVars, registry, endVars>>

OpenStep(o) ==
    \/ OpenCount(o) \/ AllocLoad(o) \/ AllocExchange(o) \/ OpenInsert(o) \/ OpenSyn(o)
    \/ LookAgain(o) \/ Register(o) \/ Repoll(o) \/ OpenUndo(o)

----------------------------------------------------------------------------
\* The reader task and the closer task, which stop at the signal.

\* handle_data on a SYN, up to the cap.
ReaderSyn ==
    /\ ~signalled /\ peerNext <= MaxPeerId /\ pc["reader"] = "idle"
    /\ IF peerGone \/ Full THEN UNCHANGED <<pc, cur>>
                           ELSE Goto("reader", "inserting") /\ WorkOn("reader", peerNext)
    /\ peerNext' = peerNext + 2
    /\ UNCHANGED <<next, regVars, flagVars, wakeVars, endVars>>

\* The insertion, after which the stream waits in accept_rx.
ReaderInsert ==
    /\ Move("reader", "inserting", "idle") /\ WorkOn("reader", 0)
    /\ registry' = registry \cup {cur["reader"]}
    /\ UNCHANGED <<idVars, closeq, flagVars, wakeVars, endVars>>

\* The peer's answer to a SYN, for a stream that is still registered.
Answer(i) ==
    /\ ~signalled /\ Owns(i) /\ i \in registry
    /\ \A o \in Openers : pc[o] = "syn" => cur[o] # i
    /\ WorkOn("reader", i)

ReaderAck(i) ==
    /\ Answer(i) /\ i \in Followed \ acked
    /\ Move("reader", "idle", "waking")
    /\ acked' = acked \cup {i}
    /\ UNCHANGED <<idVars, regVars, resets, shut, wakeVars, endVars>>

\* remote_reset up to its wake-up; the closer hears of it after.
ReaderRst(i) ==
    /\ Answer(i) /\ i \notin resets
    /\ Move("reader", "idle", "resetting")
    /\ resets' = resets \cup ({i} \cap Followed) /\ shut' = shut \cup ({i} \cap Followed)
    /\ UNCHANGED <<idVars, regVars, acked, wakeVars, endVars>>

\* ack_waker.wake().
Wake(i) ==
    /\ waker' = waker \ {i}
    /\ woken' = IF i \in waker THEN woken \cup {i} ELSE woken

ReaderWake ==
    /\ pc["reader"] \in {"waking", "resetting"}
    /\ Goto("reader", "idle") /\ WorkOn("reader", 0)
    /\ Wake(cur["reader"])
    /\ closeq' = IF pc["reader"] = "resetting" THEN closeq \cup {cur["reader"]} ELSE closeq
    /\ UNCHANGED <<idVars, registry, flagVars, endVars>>

\* The application accepts a stream of the peer and drops it.
DropPeerStream(i) ==
    /\ ~Owns(i) /\ i \in registry /\ i \notin closeq
    /\ closeq' = closeq \cup {i}
    /\ UNCHANGED <<pc, cur, idVars, registry, flagVars, wakeVars, endVars>>

CloserTask(i) ==
    /\ ~signalled /\ i \in closeq
    /\ closeq' = closeq \ {i} /\ registry' = registry \ {i}
    /\ UNCHANGED <<pc, cur, idVars, flagVars, wakeVars, endVars>>

----------------------------------------------------------------------------
\* initiate_shutdown, by close() or by a task.

\* The swap of is_closing.  (The GoAway that goes out next is in Shutdown.tla.)
Initiate ==
    /\ ~closing /\ closing' = TRUE
    /\ Move("shutdown", "idle", "draining")
    /\ UNCHANGED <<cur, idVars, regVars, flagVars, wakeVars, peerGone, drainVars>>

\* The reader takes the peer's GoAway: note_peer_gone, then the swap, after
\* which, if it was the first, it is busy with the shutdown.
ReaderGoAway ==
    /\ ~signalled /\ ~peerGone /\ pc["reader"] = "idle"
    /\ peerGone' = TRUE /\ closing' = TRUE
    /\ IF closing THEN UNCHANGED pc
                  ELSE pc' = [pc EXCEPT !["shutdown"] = "draining", !["reader"] = "ending"]
    /\ UNCHANGED <<cur, idVars, regVars, flagVars, wakeVars, drainVars>>

Drain ==
    /\ Move("shutdown", "draining", "forcing")
    /\ doomed' = registry /\ registry' = {}
    /\ UNCHANGED <<cur, idVars, closeq, flagVars, wakeVars, closing, peerGone, signalled, writerGone>>

\* force_close of the next stream: its halves, then its wake-ups.
ForceClose ==
    /\ Move("shutdown", "forcing", "forced")
    /\ \E i \in doomed :
          /\ doomed' = doomed \ {i} /\ shut' = shut \cup ({i} \cap Followed)
          /\ WorkOn("shutdown", i)
    /\ UNCHANGED <<idVars, regVars, acked, resets, wakeVars, closing, peerGone, signalled, writerGone>>

ForceQuietly ==
    /\ Move("shutdown", "forced", "forcing") /\ WorkOn("shutdown", 0)
    /\ UNCHANGED <<idVars, regVars, flagVars, wakeVars, endVars>>

ForceWake ==
    /\ Move("shutdown", "forced", "forcing") /\ WorkOn("shutdown", 0)
    /\ Wake(cur["shutdown"])
    /\ UNCHANGED <<idVars, regVars, flagVars, endVars>>

Signal ==
    /\ Move("shutdown", "forcing", "idle") /\ doomed = {}
    /\ signalled' = TRUE
    /\ UNCHANGED <<cur, idVars, regVars, flagVars, wakeVars, closing, peerGone, doomed, writerGone>>

ShutdownStep == Drain \/ ForceClose \/ ForceWake \/ Signal

\* The writer task drains out_rx and exits.
WriterExit ==
    /\ signalled /\ ~writerGone /\ writerGone' = TRUE
    /\ UNCHANGED <<pc, cur, idVars, regVars, flagVars, wakeVars, closing, peerGone, signalled, doomed>>

----------------------------------------------------------------------------
Next ==
    \/ \E o \in Openers : OpenCheck(o) \/ OpenStep(o) \/ Deadline(o) \/ Cancel(o) \/ DropStream(o)
    \/ ReaderSyn \/ ReaderInsert \/ ReaderWake
    \/ \E i \in Ids : ReaderAck(i) \/ ReaderRst(i) \/ DropPeerStream(i) \/ CloserTask(i)
    \/ Initiate \/ ReaderGoAway \/ ShutdownStep
    \/ WriterExit

Spec == Init /\ [][Next]_vars

\* Calls under way and tasks run on.  Nothing makes the peer answer, the
\* deadline pass or the application make a call.
FairSpec ==
    /\ Spec
    /\ \A o \in Openers : WF_vars(OpenStep(o))
    /\ WF_vars(ReaderInsert \/ ReaderWake)
    /\ WF_vars(ShutdownStep)
    /\ WF_vars(WriterExit)

----------------------------------------------------------------------------
Waiting(o) == pc[o] \in Looking

Places == Looking \cup
    {"idle", "counting", "loading", "exchanging", "inserting", "duplicate", "syn", "got",
     "reset", "closed", "timeout", "cancelled", "waking", "resetting", "ending", "draining",
     "forcing", "forced"}

TypeOK ==
    /\ pc \in [Actors -> Places]
    /\ cur \in [Actors -> Ids \cup {0}] /\ next \in 1..MaxId /\ peerNext \in Nat \ {0}
    /\ registry \subseteq Ids /\ acked \subseteq Ids
    /\ resets \subseteq Ids /\ shut \subseteq Ids /\ waker \subseteq Ids
    /\ woken \subseteq Ids /\ closeq \subseteq Ids /\ doomed \subseteq Ids
    /\ closing \in BOOLEAN /\ peerGone \in BOOLEAN /\ signalled \in BOOLEAN
    /\ writerGone \in BOOLEAN

(* Concurrent calls of open() get different ids, of this side's parity and *)
(* within 32 bits, that were never used before; so insert never reports a  *)
(* duplicate.                                                              *)
IdsUnique ==
    \A o \in Openers : HasId(o) =>
        /\ pc[o] # "duplicate"
        /\ Owns(cur[o]) /\ cur[o] < next /\ next <= MaxId
        /\ \A p \in Openers \ {o} : HasId(p) => cur[p] # cur[o]
        /\ pc[o] = "inserting" => cur[o] \notin registry

\* Past the check of the cap and not yet registered.
Counted(x) == pc[x] \in {"loading", "exchanging", "inserting"}

(* max_streams is checked before a stream is registered, so open() and the *)
(* reader task exceed it together: by at most one stream for each task that *)
(* calls open(), the streams about to be registered included.              *)
CapOvershoot ==
    Cardinality(registry) + Cardinality({x \in Actors : Counted(x)})
        <= MaxStreams + Cardinality(Openers)

(* What open() reports is so: the peer has acknowledged the stream it      *)
(* returns; StreamReset means an RST; SessionClosed means the session is   *)
(* shutting down, or an RST that came between the two loads of wait_acked. *)
OutcomeTrue ==
    \A o \in Openers :
        /\ pc[o] = "got" => cur[o] \in acked
        /\ pc[o] = "reset" => cur[o] \in resets
        /\ pc[o] = "closed" => closing \/ cur[o] \in resets

(* A call of open() whose stream has been answered or closed is not left   *)
(* parked: it has been woken, or whoever changed the flag is about to.     *)
NoLostWakeup ==
    \A o \in Openers :
        pc[o] = "parked" /\ cur[o] \in acked \cup shut =>
            \/ cur[o] \in woken
            \/ \E x \in Wakers : pc[x] \in {"waking", "resetting", "forced"} /\ cur[x] = cur[o]

(* The registry holds no stream of ours that nobody will remove: its call  *)
(* is under way, its handle is alive, the closer has been told, or the     *)
(* call was cancelled while it waited.                                     *)
RegistryAccounted ==
    \A i \in registry :
        \/ ~Owns(i) \/ i \in closeq
        \/ \E o \in Openers : (HasId(o) \/ pc[o] = "cancelled") /\ cur[o] = i

\* Past the check of is_closing and not yet registered.
Passed(o) == pc[o] = "counting" \/ Counted(o)

(* The streams of ours that get registered after the drain, which the      *)
(* shutdown does not close, are at most one for each task that calls       *)
(* open(): its call was past the check when is_closing was set.            *)
LateStreams ==
    closing /\ pc["shutdown"] # "draining" =>
        Cardinality({i \in registry : Owns(i)}) + Cardinality({o \in Openers : Passed(o)})
            <= Cardinality(Openers)

(* A call of open() that waits when the session has shut down returns      *)
(* without its timeout, unless its stream missed the drain.                *)
OpenUnblocked ==
    \A o \in Openers : signalled /\ Waiting(o) ~> ~Waiting(o) \/ cur[o] \in registry
=============================================================================
