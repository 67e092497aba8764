---------------------------- MODULE FlowControl ----------------------------
(***************************************************************************)
(* One direction of one established stream, from the writing application   *)
(* to the reading one: poll_write and the send window of the writing end,  *)
(* the Data frames on their way, the receive buffer, poll_read and the     *)
(* receive window of the reading end, and the WindowUpdate frames that     *)
(* travel back.  Neither end resets the stream and the session stays up;   *)
(* Session.tla has those cases.                                            *)
(*                                                                         *)
(* A byte is named by its position in the stream.  A Data frame is the     *)
(* interval [from, to) of the positions it carries, a WindowUpdate the     *)
(* interval of the positions whose consumption it acknowledges: the u32    *)
(* delta of the frame is to - from.  The out queue of an end, its writer   *)
(* task and the transport are one FIFO channel.                            *)
(***************************************************************************)
EXTENDS Integers, Sequences

CONSTANTS
    SendInit,   \* initial_stream_window in the writing end's Config
    RecvInit,   \* initial_stream_window in the reading end's Config
    MaxFrame,   \* max_frame_size in the writing end's Config
    MaxCredit,  \* u32::MAX
    Total       \* bound: how many bytes the application writes at most

ASSUME ConfigAssumption ==
    /\ SendInit \in Nat \ {0} /\ RecvInit \in Nat \ {0} /\ MaxFrame \in Nat \ {0}
    /\ MaxCredit \in Nat /\ SendInit <= MaxCredit
    /\ Total \in Nat

VARIABLES
    available,  \* writing end: SendWindow.available
    sent,       \* writing end: bytes poll_write has accepted
    finSent,    \* writing end: the write half is closed and FIN was queued
    wire,       \* Data frames queued and not yet dispatched
    received,   \* reading end: bytes push_data has appended to the buffer
    readOpen,   \* reading end: StreamState.read_open
    failed,     \* reading end: dispatch returned Error::Protocol
    consumed,   \* reading end: bytes poll_read has handed to the application
    pending,    \* reading end: RecvWindow.pending_credit
    eof,        \* reading end: poll_read has reported end of file
    updates     \* WindowUpdate frames queued and not yet dispatched

vars == <<available, sent, finSent, wire, received, readOpen, failed, consumed,
          pending, eof, updates>>

Least(a, b) == IF a <= b THEN a ELSE b

Greatest(a, b) == IF a >= b THEN a ELSE b

\* A Data frame without payload is the FIN.
DataFrame == {f \in [from: 0..Total, to: 0..Total, fin: BOOLEAN] : f.from <= f.to}

UpdateFrame == {u \in [from: 0..Total, to: 0..Total] : u.from <= u.to}

Length(f) == f.to - f.from

Init ==
    /\ available = SendInit
    /\ sent = 0 /\ finSent = FALSE
    /\ wire = <<>>
    /\ received = 0 /\ readOpen = TRUE /\ failed = FALSE
    /\ consumed = 0 /\ pending = 0 /\ eof = FALSE
    /\ updates = <<>>

----------------------------------------------------------------------------
\* The writing end.

TakeIgnoringCredit(n) == Least(n, MaxFrame)

\* The credit try_take gives to a poll_write with n bytes to send.
Take(n) == Least(Least(n, MaxFrame), available)

AlwaysWriteOpen == TRUE

\* StreamState.write_open of the writing end.
WriteOpen == ~finSent

\* poll_write with n bytes; with no credit it stays pending.
Write(n) ==
    /\ WriteOpen /\ ~failed
    /\ available > 0 /\ n <= Total - sent
    /\ available' = available - Take(n)
    /\ sent' = sent + Take(n)
    /\ wire' = Append(wire, [from |-> sent, to |-> sent + Take(n), fin |-> FALSE])
    /\ UNCHANGED <<finSent, received, readOpen, failed, consumed, pending, eof, updates>>

\* poll_shutdown, local_fin.
Shutdown ==
    /\ WriteOpen /\ ~failed
    /\ finSent' = TRUE
    /\ wire' = Append(wire, [from |-> sent, to |-> sent, fin |-> TRUE])
    /\ UNCHANGED <<available, sent, received, readOpen, failed, consumed, pending,
                   eof, updates>>

\* SendWindow::grant of a u32: it saturates.
Granted(delta) == Least(available + delta, MaxCredit)

\* The writing end's reader task dispatches a WindowUpdate.
DispatchWindowUpdate ==
    /\ ~failed
    /\ updates # <<>>
    /\ available' = Granted(Length(Head(updates)))
    /\ updates' = Tail(updates)
    /\ UNCHANGED <<sent, finSent, wire, received, readOpen, failed, consumed, pending, eof>>

----------------------------------------------------------------------------
\* The reading end.

EndsReadOnPayload(f) == f.fin /\ f.from < f.to

\* The frame closes the read half, its payload or not.
EndsRead(f) == f.fin

\* The reader task dispatches a Data frame: push_data, then remote_fin.
\* A payload for a closed read half is a protocol error instead.
DispatchData ==
    /\ ~failed
    /\ wire # <<>>
    /\ LET f == Head(wire)
           refused == f.from < f.to /\ ~readOpen
       IN  /\ failed' = refused
           /\ received' = IF refused THEN received ELSE received + Length(f)
           /\ readOpen' = (readOpen /\ ~EndsRead(f))
    /\ wire' = Tail(wire)
    /\ UNCHANGED <<available, sent, finSent, consumed, pending, eof, updates>>

ThresholdBeyondWindow == RecvInit + 1

\* The tally at which on_consume emits a WindowUpdate.
Threshold == Greatest(RecvInit \div 2, 1)

PendingKept(n) == pending + n

\* What on_consume leaves in pending_credit after n more bytes.
PendingAfter(n) == IF pending + n >= Threshold THEN 0 ELSE pending + n

\* poll_read into a buffer of room bytes: read_into, then on_consume.
Read(room) ==
    LET n == Least(room, received - consumed)
    IN  /\ ~failed
        /\ n > 0
        /\ consumed' = consumed + n
        /\ pending' = PendingAfter(n)
        /\ updates' = IF pending + n >= Threshold
                      THEN Append(updates, [from |-> consumed - pending, to |-> consumed + n])
                      ELSE updates
        /\ UNCHANGED <<available, sent, finSent, wire, received, readOpen, failed, eof>>

\* poll_read finds the buffer empty and the read half closed.  It is one
\* step here; PollRead.tla has the steps it really takes.
ReadEof ==
    /\ ~failed
    /\ consumed = received /\ ~readOpen
    /\ eof' = TRUE
    /\ UNCHANGED <<available, sent, finSent, wire, received, readOpen, failed, consumed,
                   pending, updates>>

----------------------------------------------------------------------------
Next ==
    \/ \E n \in 1..Total : Write(n)
    \/ Shutdown
    \/ DispatchWindowUpdate
    \/ DispatchData
    \/ \E room \in 1..Total : Read(room)
    \/ ReadEof

Spec == Init /\ [][Next]_vars

\* The two reader tasks run whenever a frame is there, and the reading
\* application keeps reading.  Nothing obliges the writer to write.
FairSpec ==
    /\ Spec
    /\ WF_vars(DispatchWindowUpdate)
    /\ WF_vars(DispatchData)
    /\ WF_vars(\E room \in 1..Total : Read(room))
    /\ WF_vars(ReadEof)

----------------------------------------------------------------------------
TypeOK ==
    /\ available \in 0..MaxCredit
    /\ sent \in 0..Total /\ received \in 0..Total /\ consumed \in 0..Total
    /\ pending \in 0..Total
    /\ finSent \in BOOLEAN /\ readOpen \in BOOLEAN /\ failed \in BOOLEAN /\ eof \in BOOLEAN
    /\ wire \in Seq(DataFrame)
    /\ updates \in Seq(UpdateFrame)

\* The intervals of the frames in q follow each other, without gap or overlap,
\* from position a to position b.  (The second conjunct follows from the third
\* by induction; stated, it spares the proofs that induction.)
Chain(q, a, b) ==
    /\ \A i \in 1..Len(q) : q[i].from <= q[i].to
    /\ \A i, j \in 1..Len(q) : i < j => q[i].to <= q[j].from
    /\ \A i \in 1..(Len(q) - 1) : q[i].to = q[i + 1].from
    /\ IF q = <<>> THEN a = b ELSE q[1].from = a /\ q[Len(q)].to = b

\* The bytes whose credit has come back to the writing end.
Returned == sent - (SendInit - available)

(* Every byte is in exactly one place: not acknowledged bytes are in the   *)
(* window of the writing end, on the wire, in the buffer, in the reading   *)
(* end's tally or in a WindowUpdate on its way back, in stream order, and  *)
(* together they are the initial window.  It is what poll_acquire, grant   *)
(* and on_consume keep between them, across the two ends.                  *)
CreditConserved ==
    /\ Chain(wire, received, sent)
    /\ Chain(updates, Returned, consumed - pending)
    /\ 0 <= Returned /\ 0 <= pending /\ consumed <= received

(* The bytes that are written and not yet read never exceed the window the *)
(* writing end started with, however the two configurations differ.        *)
OutstandingBounded == sent - consumed <= SendInit

(* Config::initial_stream_window: the reading end buffers no more unread   *)
(* bytes of a stream than its own configured window.                       *)
BufferWithinWindow == received - consumed <= RecvInit

(* Flow control never comes to a standstill: with no credit left there is  *)
(* a frame on its way or something to read.                                *)
NoStall ==
    available = 0 => wire # <<>> \/ updates # <<>> \/ consumed < received

(* A stream that nobody resets never makes dispatch fail with "data after  *)
(* FIN", which would take the whole session down.                          *)
NoProtocolError == ~failed

(* The FIN never overtakes data: the read half closes only when every     *)
(* byte that will ever be written is in the receive buffer.                *)
FinAfterData == ~readOpen => finSent /\ received = sent

(* A writer that has run out of credit gets some back, as long as the      *)
(* other application keeps reading: the threshold in on_consume never      *)
(* stalls a fast reader.                                                   *)
CreditReturns == (available = 0) ~> (available > 0)

(* After a shutdown of the write half the reading application comes to the *)
(* end of the file.                                                        *)
FinReachesReader == finSent ~> eof
=============================================================================
