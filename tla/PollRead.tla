------------------------------ MODULE PollRead ------------------------------
(***************************************************************************)
(* poll_read of one stream against the calls that change what it looks at  *)
(* (stream/inner.rs), one atomic operation or critical section per step.   *)
(* The owner is the task that polls the Stream; the reader task of the     *)
(* session runs push_data, remote_fin and remote_reset as frames arrive;   *)
(* another task may run force_close while it shuts the session down.       *)
(*                                                                         *)
(* A payload is one unread byte, the buffer its number.  The AtomicWaker   *)
(* is as in SendWindow.                                                    *)
(***************************************************************************)
EXTENDS Integers

CONSTANT MaxData    \* bound: how many payloads the peer sends

ASSUME MaxDataAssumption == MaxData \in Nat

VARIABLES
    buf,        \* StreamInner.recv
    readOpen,   \* StreamState.read_open
    reset,      \* StreamState.reset
    waker,      \* StreamInner.recv_waker holds the owner's waker
    notified,   \* the owner's task is scheduled to poll again
    opc,        \* where the owner is in poll_read
    result,     \* what the last poll_read returned
    rpc,        \* where the reader task is in handle_data
    inbound,    \* payloads the peer has still to send; -1 after its last frame
    fpc         \* where the task that runs force_close is

vars == <<buf, readOpen, reset, waker, notified, opc, result, rpc, inbound, fpc>>

Init ==
    /\ buf = 0 /\ readOpen = TRUE /\ reset = FALSE
    /\ waker = FALSE /\ notified = FALSE
    /\ opc = "idle" /\ result = "none"
    /\ rpc = "idle" /\ inbound = MaxData
    /\ fpc = "idle"

----------------------------------------------------------------------------
\* The owner.  Every step but these leaves the shared state alone.

OwnerOnly == UNCHANGED <<readOpen, reset, rpc, inbound, fpc>>

Return(r) == opc' = "idle" /\ result' = r

\* The application reads; a parked one is polled when it was woken, or for
\* another reason.
Poll ==
    /\ opc \in {"idle", "parked"}
    /\ opc' = "reset?"
    /\ notified' = FALSE
    /\ UNCHANGED <<buf, waker, result>> /\ OwnerOnly

PollWoken == opc = "parked" /\ notified /\ Poll

LoadReset ==
    /\ opc = "reset?"
    /\ IF reset THEN Return("reset") ELSE opc' = "drain" /\ UNCHANGED result
    /\ UNCHANGED <<buf, waker, notified>> /\ OwnerOnly

\* How many bytes read_into may copy, depending on the room it is given.
ReadInto == 1..buf

\* read_into under the lock: some of the bytes, if there are any.
Drain ==
    /\ opc = "drain"
    /\ IF buf > 0
       THEN Return("data") /\ \E n \in ReadInto : buf' = buf - n
       ELSE opc' = "open?" /\ UNCHANGED <<buf, result>>
    /\ UNCHANGED <<waker, notified>> /\ OwnerOnly

LoadReadOpen ==
    /\ opc = "open?"
    /\ IF readOpen THEN opc' = "register" /\ UNCHANGED result ELSE Return("eof")
    /\ UNCHANGED <<buf, waker, notified>> /\ OwnerOnly

NoSecondLook == "parked"

\* What follows the registration.
AfterRegister == "empty?"

Register ==
    /\ opc = "register"
    /\ waker' = TRUE
    /\ opc' = AfterRegister
    /\ UNCHANGED <<buf, notified, result>> /\ OwnerOnly

\* The second look, in three reads: the buffer, read_open, reset.
SecondLook ==
    /\ \/ opc = "empty?"    /\ opc' = IF buf > 0     THEN "reset?" ELSE "reopen?"
       \/ opc = "reopen?"   /\ opc' = IF ~readOpen   THEN "reset?" ELSE "rereset?"
       \/ opc = "rereset?"  /\ opc' = IF reset       THEN "reset?" ELSE "parked"
    /\ UNCHANGED <<buf, waker, notified, result>> /\ OwnerOnly

----------------------------------------------------------------------------
\* The other tasks.

OtherOnly == UNCHANGED <<opc, result>>

\* AtomicWaker::wake.
Wake ==
    /\ waker' = FALSE
    /\ notified' = (notified \/ waker)

NoWake == UNCHANGED <<waker, notified>>

\* handle_data with a payload: can_recv.  A refusal runs local_reset, whose
\* first store is that of mark_reset, and ends the session's reader task.
ReceiveData ==
    /\ rpc = "idle" /\ inbound > 0
    /\ IF readOpen /\ ~reset
       THEN rpc' = "push" /\ inbound' = inbound - 1 /\ UNCHANGED reset
       ELSE rpc' = "marked" /\ inbound' = -1 /\ reset' = TRUE
    /\ NoWake /\ UNCHANGED <<buf, readOpen, fpc>> /\ OtherOnly

\* push_data: push under the lock, then wake.
PushData ==
    /\ rpc = "push"
    /\ buf' = buf + 1
    /\ rpc' = "wake"
    /\ NoWake /\ UNCHANGED <<readOpen, reset, inbound, fpc>> /\ OtherOnly

\* remote_fin: close_read, then wake.
RemoteFin ==
    /\ rpc = "idle" /\ inbound >= 0
    /\ inbound' = -1
    /\ readOpen' = FALSE
    /\ rpc' = "wake"
    /\ NoWake /\ UNCHANGED <<buf, reset, fpc>> /\ OtherOnly

\* remote_reset: mark_reset stores reset, then read_open; then wake.
RemoteReset ==
    /\ rpc = "idle" /\ inbound >= 0
    /\ inbound' = -1
    /\ reset' = TRUE
    /\ rpc' = "marked"
    /\ NoWake /\ UNCHANGED <<buf, readOpen, fpc>> /\ OtherOnly

MarkedReset ==
    /\ rpc = "marked"
    /\ readOpen' = FALSE
    /\ rpc' = "wake"
    /\ NoWake /\ UNCHANGED <<buf, reset, inbound, fpc>> /\ OtherOnly

ReaderWake ==
    /\ rpc = "wake"
    /\ Wake
    /\ rpc' = "idle"
    /\ UNCHANGED <<buf, readOpen, reset, inbound, fpc>> /\ OtherOnly

\* force_close: close_read, then wake.
ForceClose ==
    /\ fpc = "idle"
    /\ readOpen' = FALSE
    /\ fpc' = "wake"
    /\ NoWake /\ UNCHANGED <<buf, reset, rpc, inbound>> /\ OtherOnly

ForceWake ==
    /\ fpc = "wake"
    /\ Wake
    /\ fpc' = "done"
    /\ UNCHANGED <<buf, readOpen, reset, rpc, inbound>> /\ OtherOnly

----------------------------------------------------------------------------
OwnerStep == LoadReset \/ Drain \/ LoadReadOpen \/ Register \/ SecondLook

Finish == PushData \/ MarkedReset \/ ReaderWake

Next ==
    \/ Poll \/ OwnerStep
    \/ ReceiveData \/ RemoteFin \/ RemoteReset \/ Finish
    \/ ForceClose \/ ForceWake

Spec == Init /\ [][Next]_vars

\* A call that has begun goes on and a woken task is polled again.
FairSpec ==
    /\ Spec
    /\ WF_vars(PollWoken) /\ WF_vars(OwnerStep) /\ WF_vars(Finish) /\ WF_vars(ForceWake)

----------------------------------------------------------------------------
TypeOK ==
    /\ buf \in 0..MaxData /\ readOpen \in BOOLEAN /\ reset \in BOOLEAN
    /\ waker \in BOOLEAN /\ notified \in BOOLEAN
    /\ opc \in {"idle", "reset?", "drain", "open?", "register", "empty?", "reopen?",
                "rereset?", "parked"}
    /\ result \in {"none", "data", "eof", "reset"}
    /\ rpc \in {"idle", "push", "marked", "wake"} /\ inbound \in -1..MaxData
    /\ fpc \in {"idle", "wake", "done"}

\* Something poll_read would return for.
Readable == buf > 0 \/ ~readOpen \/ reset

\* A call that has changed something and has yet to wake.
WakePending == rpc \in {"marked", "wake"} \/ fpc = "wake"

(* The second look after registering closes the window in which a wake-up  *)
(* could be lost: a parked reader that is not scheduled has its waker in   *)
(* the slot, and if there is something for it, a wake is still to come.    *)
NoLostWakeup == opc = "parked" /\ ~notified => waker /\ (Readable => WakePending)

(* A read that is parked returns once there are bytes, an end of file or a *)
(* reset for it, although three different tasks signal these.              *)
ParkedIsServed == (opc = "parked" /\ Readable) ~> opc = "idle"

(* While the session is up, end of file means that the peer's bytes have   *)
(* all been read: architecture.md, "stream.read returns resp, then EOF".   *)
EofAfterData == result = "eof" /\ opc = "idle" /\ fpc = "idle" => buf = 0
=============================================================================
