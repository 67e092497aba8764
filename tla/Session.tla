------------------------------ MODULE Session ------------------------------
(***************************************************************************)
(* Two sessions joined by a connection, and the life of their streams:     *)
(* opening, accepting, half-closing, resetting, dropping, and the end of   *)
(* the session by close, GoAway, end of file or an error of the transport. *)
(*                                                                         *)
(* net[p] is p's out queue together with the transport in p's direction:   *)
(* the frames p has emitted and the other reader task has not dispatched   *)
(* (none once that task has exited, as nobody can see them any more).      *)
(* The reader's dispatch, each call of the Stream API and each stretch of  *)
(* open() between two points where it can be overtaken is one step;        *)
(* initiate_shutdown is four, and everybody goes on between them.          *)
(* A payload is known by its number on its stream; what is received is     *)
(* counted.  Credit is the subject of FlowControl.tla.                     *)
(***************************************************************************)
EXTENDS Integers, Sequences, FiniteSets

CONSTANTS
    MaxStreams,     \* Config::max_streams of both sides
    ClientOpens,    \* bound: calls of open() on the client side
    ServerOpens,    \* bound: calls of open() on the server side
    MaxWrites,      \* bound: payloads written per stream and side
    WithReset,      \* the sides whose application may call Stream::reset
    WithTimeout,    \* the timer of open() may fire
    WithClose,      \* the sides whose application may call Session::close
    WithBreak       \* the sides whose transport may fail when they send

ASSUME SessionAssumption ==
    /\ MaxStreams \in Nat \ {0} /\ ClientOpens \in Nat /\ ServerOpens \in Nat
    /\ MaxWrites \in Nat
    /\ WithTimeout \in BOOLEAN
    /\ WithReset \cup WithClose \cup WithBreak \subseteq {"client", "server"}

VARIABLES
    net,        \* frames under way from each side
    registry,   \* SessionInner.registry: the registered ids
    acceptq,    \* SessionInner.accept_rx
    closerq,    \* ids sent to the closer task (removals commute)
    nextId,     \* StreamIdAllocator.next
    admitted,   \* calls of open() past the checks and before the insert
    shut,       \* the code of initiate_shutdown, "no" as long as is_closing is false
    stage,      \* how far initiate_shutdown is: "up" (not called), "swapped"
                \* (is_closing), "told" (GoAway queued), "drained", "signalled"
    reader,     \* the reader task: "reading", "peer_gone" (reading, after a
                \* GoAway), "out" (in initiate_shutdown, or out of its loop)
    writer,     \* the writer task: "running", "broken" (its transport failed),
                \* "failing" (broken, in initiate_shutdown), "drained" (out_rx
                \* still there, no longer read), "gone"
    st          \* the StreamInner of each side and id

tasks == <<shut, stage, reader, writer>>

vars == <<net, registry, acceptq, closerq, nextId, admitted, tasks, st>>

Peers == {"client", "server"}

Other(p) == IF p = "client" THEN "server" ELSE "client"

FirstId(p) == IF p = "client" THEN 1 ELSE 2

Opens(p) == IF p = "client" THEN ClientOpens ELSE ServerOpens

Owns(p, id) == IF p = "client" THEN id % 2 = 1 ELSE id # 0 /\ id % 2 = 0

Ids == {FirstId("client") + 2 * k : k \in 0..(ClientOpens - 1)}
       \cup {FirstId("server") + 2 * k : k \in 0..(ServerOpens - 1)}

Codes == {"Normal", "ProtocolError", "InternalError"}

\* What travels: Data frames with one flag or a payload, GoAway with its
\* code, and what the transport itself reports at the end.
StreamFrame == [kind: {"syn", "ack", "fin", "rst"}, id: Ids]
               \cup [kind: {"data"}, id: Ids, n: 1..MaxWrites]

SessionFrame == [kind: {"goaway"}, code: Codes] \cup [kind: {"eof", "err"}]

Frame(kind, id) == [kind |-> kind, id |-> id]

Payload(id, n) == [kind |-> "data", id |-> id, n |-> n]

FinAsRst(id) == Frame("rst", id)

Fin(id) == Frame("fin", id)

Absent == [made |-> FALSE, handle |-> "none", readOpen |-> TRUE, writeOpen |-> TRUE,
           reset |-> FALSE, acked |-> FALSE, finSent |-> FALSE, userReset |-> FALSE,
           buf |-> 0, got |-> 0, wrote |-> 0]

AckedAtOnce(origin) == TRUE

\* Only a stream made for a peer's SYN is established at once.
Acked(origin) == origin = "queued"

\* StreamInner::new, for open() ("opening") or for a SYN ("queued").
New(origin) == [Absent EXCEPT !.made = TRUE, !.handle = origin, !.acked = Acked(origin)]

Init ==
    /\ net = [p \in Peers |-> <<>>]
    /\ registry = [p \in Peers |-> {}]
    /\ acceptq = [p \in Peers |-> <<>>]
    /\ closerq = [p \in Peers |-> {}]
    /\ nextId = [p \in Peers |-> FirstId(p)]
    /\ admitted = [p \in Peers |-> 0]
    /\ shut = [p \in Peers |-> "no"]
    /\ stage = [p \in Peers |-> "up"]
    /\ reader = [p \in Peers |-> "reading"]
    /\ writer = [p \in Peers |-> "running"]
    /\ st = [p \in Peers |-> [id \in Ids |-> Absent]]

----------------------------------------------------------------------------
\* Effects shared by several operations.

\* What p brings out matters as long as the other reader task dispatches it.
Heard(p) == reader[Other(p)] # "out"

\* out_tx.send of the frames fs, in the network n.  It succeeds until the
\* writer is gone, but only a running writer brings the frames out.
Sending(n, p, fs) ==
    IF writer[p] = "running" /\ Heard(p) THEN [n EXCEPT ![p] = @ \o fs] ELSE n

SendFails(p) == writer[p] = "gone"

\* closer_tx.send; the closer task takes ids until the shutdown signal.
ToCloser(p, id) ==
    IF stage[p] = "signalled" THEN closerq ELSE [closerq EXCEPT ![p] = @ \cup {id}]

\* StreamState::mark_reset.
MarkReset(s) == [s EXCEPT !.reset = TRUE, !.readOpen = FALSE, !.writeOpen = FALSE]

ForceCloseWrite(s) == [s EXCEPT !.writeOpen = FALSE]

\* StreamInner::force_close.
ForceClose(s) == [s EXCEPT !.readOpen = FALSE, !.writeOpen = FALSE]

\* The call of initiate_shutdown by one of p's tasks: is_closing is swapped,
\* and whoever finds it set returns at once.  The other steps follow below.
Swap(p, code) ==
    /\ shut' = [shut EXCEPT ![p] = IF @ = "no" THEN code ELSE @]
    /\ stage' = [stage EXCEPT ![p] = IF @ = "up" THEN "swapped" ELSE @]

WriteUnlessReset(s) == ~s.reset

CanWrite(s) == ~s.reset /\ s.writeOpen

\* local_fin: what it queues, and what it makes of the stream.
FinFrames(s, id) == IF CanWrite(s) /\ ~s.finSent THEN <<Fin(id)>> ELSE <<>>

LocalFin(s) == IF CanWrite(s) THEN [s EXCEPT !.writeOpen = FALSE, !.finSent = TRUE] ELSE s

\* local_reset: an RST, unless a FIN or an RST was sent before.
RstFrames(s, id) == IF ~s.reset /\ ~s.finSent THEN <<Frame("rst", id)>> ELSE <<>>

LocalReset(s) == IF s.reset THEN s ELSE [MarkReset(s) EXCEPT !.finSent = TRUE]

Full(p) == Cardinality(registry[p]) >= MaxStreams

----------------------------------------------------------------------------
\* Session::open.

\* The checks at its start.
OpenCheck(p) ==
    /\ shut[p] = "no"
    /\ ~Full(p)
    /\ nextId[p] + 2 * admitted[p] \in Ids
    /\ admitted' = [admitted EXCEPT ![p] = @ + 1]
    /\ UNCHANGED <<net, registry, acceptq, closerq, nextId, tasks, st>>

StepOfZero == 0

StepOfOne == 1

\* Ids advance by two.
IdStep == 2

\* Allocate, insert and send the SYN; a failed send removes the stream again.
OpenRegister(p) ==
    LET id == nextId[p]
    IN  /\ admitted[p] > 0
        /\ admitted' = [admitted EXCEPT ![p] = @ - 1]
        /\ nextId' = [nextId EXCEPT ![p] = @ + IdStep]
        /\ net' = Sending(net, p, <<Frame("syn", id)>>)
        /\ registry' = [registry EXCEPT ![p] = IF SendFails(p) THEN @ ELSE @ \cup {id}]
        /\ st' = [st EXCEPT ![p][id] = New(IF SendFails(p) THEN "failed" ELSE "opening")]
        /\ UNCHANGED <<acceptq, closerq, tasks>>

\* wait_acked finds the ACK: open() returns the Stream.
OpenAcked(p, id) ==
    /\ st[p][id].handle = "opening" /\ st[p][id].acked
    /\ st' = [st EXCEPT ![p][id].handle = "open"]
    /\ UNCHANGED <<net, registry, acceptq, closerq, nextId, admitted, tasks>>

\* wait_acked finds a reset or a closed stream: open() fails.
OpenFailed(p, id) ==
    /\ st[p][id].handle = "opening" /\ ~st[p][id].acked
    /\ st[p][id].reset \/ ~st[p][id].writeOpen
    /\ st' = [st EXCEPT ![p][id].handle = "failed"]
    /\ registry' = [registry EXCEPT ![p] = @ \ {id}]
    /\ UNCHANGED <<net, acceptq, closerq, nextId, admitted, tasks>>

\* The timer fires while wait_acked is pending.
OpenTimeout(p, id) ==
    /\ WithTimeout
    /\ st[p][id].handle = "opening" /\ ~st[p][id].acked
    /\ ~st[p][id].reset /\ st[p][id].writeOpen
    /\ net' = Sending(net, p, <<Frame("rst", id)>>)
    /\ st' = [st EXCEPT ![p][id].handle = "failed"]
    /\ registry' = [registry EXCEPT ![p] = @ \ {id}]
    /\ UNCHANGED <<acceptq, closerq, nextId, admitted, tasks>>

\* Session::accept, past its check of is_closed: a call that waits may take a
\* stream until the shutdown signal.  It fails if the ACK cannot be sent.
Accept(p) ==
    /\ stage[p] # "signalled"
    /\ acceptq[p] # <<>>
    /\ LET id == Head(acceptq[p])
       IN  /\ net' = Sending(net, p, <<Frame("ack", id)>>)
           /\ st' = [st EXCEPT ![p][id].handle = IF SendFails(p) THEN "failed" ELSE "open"]
    /\ acceptq' = [acceptq EXCEPT ![p] = Tail(@)]
    /\ UNCHANGED <<registry, closerq, nextId, admitted, tasks>>

----------------------------------------------------------------------------
\* The reader task of p: dispatch and handle_data.  It goes on until the
\* shutdown signal, unless it calls initiate_shutdown itself.

Arrived(p, kind) ==
    /\ reader[p] # "out"
    /\ net[Other(p)] # <<>>
    /\ Head(net[Other(p)]).kind = kind

ArrivedId(p) == Head(net[Other(p)]).id

\* The network without the frame p dispatches.
Taken(p) == [net EXCEPT ![Other(p)] = Tail(@)]

CanRecv(s) == s.readOpen /\ ~s.reset

\* The reader calls initiate_shutdown and leaves its loop: what is under way
\* to p in the network n is never dispatched.
ReaderEnds(p, code, n) ==
    /\ Swap(p, code)
    /\ reader' = [reader EXCEPT ![p] = "out"]
    /\ net' = [n EXCEPT ![Other(p)] = <<>>]

\* A SYN is refused after a GoAway, and when the registry is full.
Refuses(p) == reader[p] = "peer_gone" \/ Full(p)

DispatchSyn(p) ==
    LET id == ArrivedId(p)
    IN  /\ Arrived(p, "syn")
        /\ \/ /\ Owns(p, id) \/ (~Refuses(p) /\ id \in registry[p])
              /\ ReaderEnds(p, "ProtocolError", net)
              /\ UNCHANGED <<registry, acceptq, st>>
           \/ /\ ~Owns(p, id) /\ Refuses(p)
              /\ net' = Sending(Taken(p), p, <<Frame("rst", id)>>)
              /\ UNCHANGED <<registry, acceptq, shut, stage, reader, st>>
           \/ /\ ~Owns(p, id) /\ ~Refuses(p) /\ id \notin registry[p]
              /\ net' = Taken(p)
              /\ registry' = [registry EXCEPT ![p] = @ \cup {id}]
              /\ acceptq' = [acceptq EXCEPT ![p] = Append(@, id)]
              /\ st' = [st EXCEPT ![p][id] = New("queued")]
              /\ UNCHANGED <<shut, stage, reader>>
        /\ UNCHANGED <<closerq, nextId, admitted, writer>>

Silently(kind) == TRUE

\* A frame for a stream that is not registered: anything but an ACK or an
\* RST is answered with an RST.
IgnoredIfUnknown(kind) == kind \in {"ack", "rst"}

DispatchUnknown(p, kind) ==
    LET id == ArrivedId(p)
    IN  /\ Arrived(p, kind) /\ id \notin registry[p]
        /\ net' = IF IgnoredIfUnknown(kind) THEN Taken(p)
                  ELSE Sending(Taken(p), p, <<Frame("rst", id)>>)
        /\ UNCHANGED <<registry, acceptq, closerq, nextId, admitted, tasks, st>>

\* mark_acked.
DispatchAck(p) ==
    LET id == ArrivedId(p)
    IN  /\ Arrived(p, "ack") /\ id \in registry[p]
        /\ net' = Taken(p)
        /\ st' = [st EXCEPT ![p][id].acked = TRUE]
        /\ UNCHANGED <<registry, acceptq, closerq, nextId, admitted, tasks>>

\* A payload: push_data, or local_reset and a protocol error.
DispatchData(p) ==
    LET id == ArrivedId(p)
        s  == st[p][id]
    IN  /\ Arrived(p, "data") /\ id \in registry[p]
        /\ \/ /\ CanRecv(s)
              /\ net' = Taken(p)
              /\ st' = [st EXCEPT ![p][id].buf = @ + 1]
              /\ UNCHANGED <<closerq, shut, stage, reader>>
           \/ /\ ~CanRecv(s)
              /\ ReaderEnds(p, "ProtocolError", Sending(net, p, RstFrames(s, id)))
              /\ st' = [st EXCEPT ![p][id] = LocalReset(@)]
              /\ closerq' = IF s.reset THEN closerq ELSE ToCloser(p, id)
        /\ UNCHANGED <<registry, acceptq, nextId, admitted, writer>>

FinUnregisters(kind) == kind \in {"fin", "rst"}

\* Which of FIN and RST sends the id to the closer task.
Unregisters(kind) == kind = "rst"

\* remote_fin and remote_reset.
DispatchEnd(p, kind) ==
    LET id == ArrivedId(p)
    IN  /\ Arrived(p, kind) /\ id \in registry[p]
        /\ net' = Taken(p)
        /\ st' = [st EXCEPT ![p][id] =
                     IF kind = "fin" THEN [@ EXCEPT !.readOpen = FALSE] ELSE MarkReset(@)]
        /\ closerq' = IF Unregisters(kind) THEN ToCloser(p, id) ELSE closerq
        /\ UNCHANGED <<registry, acceptq, nextId, admitted, tasks>>

LeaveQuietly(p, kind) ==
    /\ Arrived(p, kind)
    /\ net' = Taken(p)
    /\ UNCHANGED <<registry, acceptq, closerq, nextId, admitted, tasks, st>>

\* End of file, or an error of the transport.
DispatchLast(p, kind) ==
    /\ Arrived(p, kind)
    /\ ReaderEnds(p, IF kind = "eof" THEN "Normal" ELSE "InternalError", net)
    /\ UNCHANGED <<registry, acceptq, closerq, nextId, admitted, writer, st>>

\* A GoAway: note_peer_gone and initiate_shutdown.  If that returns at once,
\* as another task is in it, the reader goes on.
DispatchGoAway(p) ==
    /\ Arrived(p, "goaway")
    /\ \/ /\ shut[p] = "no"
          /\ ReaderEnds(p, Head(net[Other(p)]).code, net)
       \/ /\ shut[p] # "no"
          /\ reader' = [reader EXCEPT ![p] = "peer_gone"]
          /\ net' = Taken(p)
          /\ UNCHANGED <<shut, stage>>
    /\ UNCHANGED <<registry, acceptq, closerq, nextId, admitted, writer, st>>

Dispatch(p) ==
    \/ DispatchSyn(p)
    \/ \E kind \in {"ack", "data", "fin", "rst"} : DispatchUnknown(p, kind)
    \/ DispatchAck(p)
    \/ DispatchData(p)
    \/ \E kind \in {"fin", "rst"} : DispatchEnd(p, kind)
    \/ DispatchGoAway(p)
    \/ \E kind \in {"eof", "err"} : DispatchLast(p, kind)

----------------------------------------------------------------------------
\* The applications, on a Stream they hold.

Holds(p, id) == st[p][id].handle = "open"

\* poll_write; a failed send closes the write half.
Written(s, fails) ==
    IF fails THEN [s EXCEPT !.writeOpen = FALSE] ELSE [s EXCEPT !.wrote = @ + 1]

Write(p, id) ==
    /\ Holds(p, id) /\ CanWrite(st[p][id]) /\ st[p][id].wrote < MaxWrites
    /\ net' = Sending(net, p, <<Payload(id, st[p][id].wrote + 1)>>)
    /\ st' = [st EXCEPT ![p][id] = Written(@, SendFails(p))]
    /\ UNCHANGED <<registry, acceptq, closerq, nextId, admitted, tasks>>

\* poll_read that finds bytes.
Consumed(s) == [s EXCEPT !.buf = @ - 1, !.got = @ + 1]

Read(p, id) ==
    /\ Holds(p, id) /\ ~st[p][id].reset /\ st[p][id].buf > 0
    /\ st' = [st EXCEPT ![p][id] = Consumed(@)]
    /\ UNCHANGED <<net, registry, acceptq, closerq, nextId, admitted, tasks>>

\* poll_shutdown.
Shutdown(p, id) ==
    /\ Holds(p, id)
    /\ net' = Sending(net, p, FinFrames(st[p][id], id))
    /\ st' = [st EXCEPT ![p][id] = LocalFin(@)]
    /\ UNCHANGED <<registry, acceptq, closerq, nextId, admitted, tasks>>

\* Stream::reset.
Reset(p, id) ==
    /\ p \in WithReset
    /\ Holds(p, id)
    /\ net' = Sending(net, p, RstFrames(st[p][id], id))
    /\ st' = [st EXCEPT ![p][id] = [LocalReset(@) EXCEPT !.userReset = TRUE]]
    /\ closerq' = IF st[p][id].reset THEN closerq ELSE ToCloser(p, id)
    /\ UNCHANGED <<registry, acceptq, nextId, admitted, tasks>>

ClosedIfOpen(s) == s.writeOpen

\* on_user_drop sends the id to the closer task, whatever the stream's state.
DropUnregisters(s) == TRUE

Drop(p, id) ==
    /\ Holds(p, id)
    /\ net' = Sending(net, p, FinFrames(st[p][id], id))
    /\ st' = [st EXCEPT ![p][id] = [LocalFin(@) EXCEPT !.handle = "dropped"]]
    /\ closerq' = IF DropUnregisters(st[p][id]) THEN ToCloser(p, id) ELSE closerq
    /\ UNCHANGED <<registry, acceptq, nextId, admitted, tasks>>

\* Session::close; on a session that is closing it changes nothing.
Close(p) ==
    /\ p \in WithClose
    /\ shut[p] = "no"
    /\ Swap(p, "Normal")
    /\ UNCHANGED <<net, registry, acceptq, closerq, nextId, admitted, reader, writer, st>>

----------------------------------------------------------------------------
\* initiate_shutdown after its swap, whichever task is in it.

SendGoAway(p) ==
    /\ stage[p] = "swapped"
    /\ stage' = [stage EXCEPT ![p] = "told"]
    /\ net' = Sending(net, p, <<[kind |-> "goaway", code |-> shut[p]]>>)
    /\ UNCHANGED <<registry, acceptq, closerq, nextId, admitted, shut, reader, writer, st>>

\* registry.drain, and force_close of what was in it.
DrainRegistry(p) ==
    /\ stage[p] = "told"
    /\ stage' = [stage EXCEPT ![p] = "drained"]
    /\ st' = [st EXCEPT ![p] = [id \in Ids |->
                 IF id \in registry[p] THEN ForceClose(@[id]) ELSE @[id]]]
    /\ registry' = [registry EXCEPT ![p] = {}]
    /\ UNCHANGED <<net, acceptq, closerq, nextId, admitted, shut, reader, writer>>

\* shutdown_tx.send: the select loops look at it first, so the reader and the
\* closer do nothing after it.
Signal(p) ==
    /\ stage[p] = "drained"
    /\ stage' = [stage EXCEPT ![p] = "signalled"]
    /\ reader' = [reader EXCEPT ![p] = "out"]
    /\ net' = [net EXCEPT ![Other(p)] = <<>>]
    /\ closerq' = [closerq EXCEPT ![p] = {}]
    /\ UNCHANGED <<registry, acceptq, nextId, admitted, shut, writer, st>>

InitiateShutdown(p) == SendGoAway(p) \/ DrainRegistry(p) \/ Signal(p)

----------------------------------------------------------------------------
\* The closer and writer tasks, and the transport.

CloserTask(p, id) ==
    /\ id \in closerq[p]
    /\ closerq' = [closerq EXCEPT ![p] = @ \ {id}]
    /\ registry' = [registry EXCEPT ![p] = @ \ {id}]
    /\ UNCHANGED <<net, acceptq, nextId, admitted, tasks, st>>

\* After the shutdown signal: drain, then shut the connection's write half.
\* A writer whose write fails does not wait for it if another task is in
\* initiate_shutdown, which then returns at once.
WriterDrain(p) ==
    /\ \/ stage[p] = "signalled" /\ writer[p] \in {"running", "broken", "failing"}
       \/ shut[p] # "no" /\ writer[p] = "broken"
    /\ net' = Sending(net, p, <<[kind |-> "eof"]>>)
    /\ writer' = [writer EXCEPT ![p] = "drained"]
    /\ UNCHANGED <<registry, acceptq, closerq, nextId, admitted, shut, stage, reader, st>>

\* The writer task returns and drops out_rx.
WriterExit(p) ==
    /\ writer[p] = "drained"
    /\ writer' = [writer EXCEPT ![p] = "gone"]
    /\ UNCHANGED <<net, registry, acceptq, closerq, nextId, admitted, shut, stage, reader, st>>

\* External: the transport fails in p's direction and loses what it likes.
Break(p) ==
    /\ p \in WithBreak
    /\ writer[p] = "running"
    /\ \E k \in 0..Len(net[p]) :
           net' = IF Heard(p)
                  THEN [net EXCEPT ![p] = Append(SubSeq(@, 1, k), [kind |-> "err"])]
                  ELSE net
    /\ writer' = [writer EXCEPT ![p] = "broken"]
    /\ UNCHANGED <<registry, acceptq, closerq, nextId, admitted, shut, stage, reader, st>>

\* write_one fails.
WriterError(p) ==
    /\ shut[p] = "no" /\ writer[p] = "broken"
    /\ Swap(p, "InternalError")
    /\ writer' = [writer EXCEPT ![p] = "failing"]
    /\ UNCHANGED <<net, registry, acceptq, closerq, nextId, admitted, reader, st>>

----------------------------------------------------------------------------
Next ==
    \E p \in Peers :
        \/ OpenCheck(p) \/ OpenRegister(p) \/ Accept(p) \/ Close(p)
        \/ Dispatch(p)
        \/ InitiateShutdown(p)
        \/ WriterDrain(p) \/ WriterExit(p) \/ Break(p) \/ WriterError(p)
        \/ \E id \in Ids :
               \/ OpenAcked(p, id) \/ OpenFailed(p, id) \/ OpenTimeout(p, id)
               \/ Write(p, id) \/ Read(p, id) \/ Shutdown(p, id)
               \/ Reset(p, id) \/ Drop(p, id)
               \/ CloserTask(p, id)

Spec == Init /\ [][Next]_vars

\* The reader, writer and closer tasks run while they have something to do,
\* and initiate_shutdown, which awaits nothing, runs to its end.
\* Nothing obliges an application to open, accept, read, write, drop or close,
\* nor a timer to fire before anything else.
FairSpec ==
    /\ Spec
    /\ \A p \in Peers :
           /\ WF_vars(Dispatch(p))
           /\ WF_vars(InitiateShutdown(p))
           /\ WF_vars(WriterDrain(p) \/ WriterExit(p))
           /\ \A id \in Ids : WF_vars(CloserTask(p, id))

----------------------------------------------------------------------------
StreamRecord ==
    [made: BOOLEAN, handle: {"none", "opening", "queued", "open", "dropped", "failed"},
     readOpen: BOOLEAN, writeOpen: BOOLEAN, reset: BOOLEAN, acked: BOOLEAN,
     finSent: BOOLEAN, userReset: BOOLEAN,
     buf: 0..MaxWrites, got: 0..MaxWrites, wrote: 0..MaxWrites]

TypeOK ==
    /\ net \in [Peers -> Seq(StreamFrame \cup SessionFrame)]
    /\ acceptq \in [Peers -> Seq(Ids)]
    /\ nextId \in [Peers -> Nat] /\ admitted \in [Peers -> Nat]
    /\ \A p \in Peers : /\ nextId[p] \in {FirstId(p) + 2 * k : k \in 0..Opens(p)}
                        /\ admitted[p] \in 0..Opens(p)
    /\ registry \in [Peers -> SUBSET Ids] /\ closerq \in [Peers -> SUBSET Ids]
    /\ shut \in [Peers -> {"no"} \cup Codes]
    /\ stage \in [Peers -> {"up", "swapped", "told", "drained", "signalled"}]
    /\ reader \in [Peers -> {"reading", "peer_gone", "out"}]
    /\ writer \in [Peers -> {"running", "broken", "failing", "drained", "gone"}]
    /\ st \in [Peers -> [Ids -> StreamRecord]]

(* No sequence of legal calls on the two sides, short of a reset, makes a  *)
(* session end with ProtocolError: dispatch's errors ("data after FIN",    *)
(* "duplicate stream id", "peer SYN with our parity") need one.            *)
ProtocolErrorOnlyAfterReset ==
    (\E p \in Peers : shut[p] = "ProtocolError") =>
        \E p \in Peers, id \in Ids : st[p][id].userReset

(* open() returns a Stream only when accept() of the other side has taken  *)
(* it, even with timeouts, refusals and shutdowns on the way.              *)
HandshakeSound ==
    \A p \in Peers, id \in Ids :
        st[p][id].handle = "open" /\ Owns(p, id) =>
            st[Other(p)][id].handle \in {"open", "dropped"}

(* A stream is reset only for a reason on one of the two sides: a reset by *)
(* an application, a stream that was refused, given up or dropped, or the  *)
(* failure of the whole session.                                           *)
ResetHasCause ==
    \A p \in Peers, id \in Ids :
        st[p][id].reset =>
            \/ st[p][id].userReset \/ st[Other(p)][id].userReset
            \/ ~st[Other(p)][id].made
            \/ st[Other(p)][id].handle \in {"failed", "dropped"}
            \/ shut[p] # "no"

\* initiate_shutdown has drained p's registry.
Drained(p) == stage[p] \in {"drained", "signalled"}

(* The reader task, and then the drain of initiate_shutdown, find every    *)
(* stream somebody still uses: until the drain, only a stream that is      *)
(* reset leaves the registry before its handle is dropped.                 *)
LiveHandleRegistered ==
    \A p \in Peers, id \in Ids :
        ~Drained(p) /\ st[p][id].handle \in {"opening", "queued", "open"} =>
            id \in registry[p] \/ st[p][id].reset

(* initiate_shutdown's comment: it force-closes every registered stream so *)
(* that blocked user code unblocks.  After the drain, what an application  *)
(* still holds or waits for is closed in both halves, except a stream that *)
(* was registered since: by the reader, which goes on until the signal, or *)
(* by an open() past its checks.  (protocol.md lets established streams    *)
(* continue after a GoAway; the code closes them.)                         *)
UnblockedByShutdown ==
    \A p \in Peers, id \in Ids :
        Drained(p) /\ st[p][id].handle \in {"opening", "queued", "open"} =>
            \/ ~st[p][id].readOpen /\ ~st[p][id].writeOpen
            \/ id \in registry[p]

(* When a FIN closes the read half, every payload the other side ever      *)
(* wrote on the stream has been received.                                  *)
FinAfterData ==
    \A p \in Peers, id \in Ids :
        shut[p] = "no" /\ st[p][id].made /\ ~st[p][id].readOpen /\ ~st[p][id].reset =>
            st[p][id].got + st[p][id].buf = st[Other(p)][id].wrote

(* An id names one stream for the life of the session: a half that is      *)
(* closed, and a reset, stay so, as no second stream takes the id.         *)
ClosedForGood ==
    [][\A p \in Peers, id \in Ids :
           LET s == st[p][id]
               t == st'[p][id]
           IN  /\ s.reset => t.reset
               /\ s.made /\ ~s.readOpen => ~t.readOpen
               /\ s.made /\ ~s.writeOpen => ~t.writeOpen]_vars

(* A stream whose handle is dropped, or whose open() failed, does not stay *)
(* in the registry, where it would count against max_streams, as long as   *)
(* the session is up.                                                      *)
Reclaimed ==
    \A p \in Peers, id \in Ids :
        st[p][id].handle \in {"dropped", "failed"} ~> id \notin registry[p] \/ shut[p] # "no"

(* A writer is told when the stream it writes to is gone: a payload under  *)
(* way to a side that no longer has the stream leads to the reset of the   *)
(* stream, unless the writer drops it or the session ends first.           *)
PeerGoneNoticed ==
    \A p \in Peers, id \in Ids :
        /\ \E i \in 1..Len(net[p]) : net[p][i].kind = "data" /\ net[p][i].id = id
        /\ id \notin registry[Other(p)]
        ~> st[p][id].reset \/ st[p][id].handle = "dropped" \/ shut[p] # "no"

(* When one side shuts down, for whatever reason, so does the other.       *)
Converge ==
    (\E p \in Peers : shut[p] # "no") ~> (\A p \in Peers : shut[p] # "no")

----------------------------------------------------------------------------
\* What the repository's documents and comments say and the code does not do.

(* architecture.md: every stream has an independent lifecycle; resetting   *)
(* one does not end the session.                                           *)
ResetIsLocal == \A p \in Peers : shut[p] # "ProtocolError"

(* stream/mod.rs, Stream::reset: shutting down and dropping streams, the   *)
(* other side sees a graceful FIN.  While it holds the stream and has not  *)
(* written to a side that is gone, it can read what it was sent.           *)
GracefulClose ==
    \A p \in Peers, id \in Ids :
        Holds(p, id) /\ st[p][id].buf > 0 /\ st[p][id].wrote = 0 => ~st[p][id].reset
=============================================================================
