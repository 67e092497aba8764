# A TLA+ verification of net-mux

`net-mux` multiplexes byte streams over one connection. A `Session` owns the
connection through background tasks; a `Stream` is one logical connection, with
its own flow control and half-close. This directory models the parts of it in
which several tasks, or the two sides of a connection, meet.

## The system

| Part | State | Operations | Meets |
| --- | --- | --- | --- |
| Send window (`flow/window.rs`) | `available`, `closed`, a waker slot | `poll_acquire`, `grant`, `close` | the writing task against the reader task and whoever closes |
| Receive window (`flow/window.rs`) | `pending_credit` | `on_consume` | the reading task; the peer's send window through WindowUpdate |
| Receive buffer (`stream/recv.rs`) | a queue of chunks under a lock | `push`, `read_into`, `is_empty` | reader task and reading task |
| Stream (`stream/inner.rs`, `state.rs`, `mod.rs`) | `read_open`, `write_open`, `reset`, `ack_received`, `fin_sent`, two wakers | `poll_read`, `poll_write`, `local_fin`, `local_reset`, `on_user_drop`; `push_data`, `remote_fin`, `remote_reset`, `mark_acked`, `force_close`; `wait_acked` | the application against reader task and shutdown |
| Session (`session/mod.rs`, `inner.rs`) | registry, accept queue, closer queue, `is_closing`, `peer_gone`, watch channel, task set | `new`, `open`, `accept`, `close`, `initiate_shutdown` | everything |
| Reader task (`session/reader.rs`) | none | `dispatch`, `handle_data`, end of file, errors | the peer's frames against the registry |
| Writer task (`session/writer.rs`) | the out queue's receiving end | forward, drain, fail | transport, shutdown |
| Closer task (`session/mod.rs`) | none | remove an id from the registry | `Drop` and resets |
| Keepalive task (`session/keepalive.rs`) | nonce | ping, await pong, time out | reader task, shutdown |
| Stream ids (`util/id.rs`) | the next id | `allocate`, `owns` | concurrent `open()` |
| Codec (`protocol/`) | none | `encode`, `decode` | the bytes on the wire |

What is hard about it: a task parks on a waker that others signal (register,
then look again); flags, buffer and counter are read in separate steps; frames
under way meet a stream that has been reset, dropped or removed since; the cap
on streams, the closing flag and the registry are checked and used in separate
steps; the open timeout races the ACK; the transport fails in one direction; the
two sides may be configured differently; anybody may start the shutdown while
everybody else goes on, and a subscriber that comes late never hears of it.

## Modules

| Module | Models | Grain |
| --- | --- | --- |
| `FlowControl` | one direction of a stream over both ends | one call or dispatched frame per step |
| `SendWindow` | the send window | one atomic operation per step |
| `Credit` | what a send window promises: an atomic counter | one call per step |
| `PollRead` | `poll_read` against the calls that signal it | one atomic operation or critical section per step |
| `Session` | two sessions, their streams from open to removal, shutdown and failure | one call, dispatched frame, stretch of `open()` or step of `initiate_shutdown` per step |
| `Opening` | the streams of one session: `open()`, ids, registry, cap, `wait_acked`, and the drain of a shutdown | one atomic operation or critical section per step |
| `Shutdown` | the end of one session: constructor, tasks, keepalive, `accept()`, `close()`, `initiate_shutdown` | one atomic operation or await per step |
| `Wire` | `poll_write`'s fragments, the codec, the receive buffer | one frame or one piece of bytes per step |
| `...Proofs` | the theorems about each of them; `SessionSteps` holds the part of those about `Session` that looks at single actions | |
| `MC...` | | the instances TLC checks |

**FlowControl.** Bytes are named by their position in the stream; a Data frame is
the interval of positions it carries, a WindowUpdate the interval it
acknowledges, so its `delta` is the interval's length. `Write` is `poll_write`
with `try_take`, `Shutdown` is `local_fin`, `DispatchData` and
`DispatchWindowUpdate` are the reader tasks, `Read` is `read_into` followed by
`on_consume`. The two ends have their own `initial_stream_window`, as each
takes it from its own `Config`. Out queue, writer task and transport are one FIFO.

**SendWindow** and **PollRead** have a program counter per task. The
`AtomicWaker` is a slot that holds the owner's waker or not; `wake` empties it and
sets `notified`. A `compare_exchange_weak` may fail spuriously. The task may be
polled without having been woken. The atomics are taken as sequentially
consistent: the code uses acquire and release orderings, and `AtomicWaker`
provides the ordering between registering and waking.

**Session** names a frame by its kind and id, and a payload by its number on the stream;
the receiving end only counts. `net[p]` is p's out queue and the
transport behind it. `OpenCheck`, `OpenRegister` and one of `OpenAcked`,
`OpenFailed`, `OpenTimeout` are `open()`; between them anything can happen.
`Dispatch` is the reader task, one action per branch of `handle_data`. `Write`,
`Read`, `Shutdown`, `Reset`, `Drop` are the calls on a `Stream`. `initiate_shutdown` is
four steps: `Swap`, in the step of the task that calls it, then `SendGoAway`,
`DrainRegistry` and `Signal`. `stage` says how far it is; between its steps everybody goes
on, except the task that is in it. `reader` says whether the reader task dispatches
(before or after a GoAway) or is out: inside `initiate_shutdown`, past an error, or past the
signal, which the select loop looks at first. So a SYN that arrives between the drain and the signal
is registered and may be accepted. The drain and its calls of `force_close` are one step here
and one per stream in `Opening`. The writer is running, broken (its direction of
the transport has failed), failing (inside `initiate_shutdown`), drained (out queue
no longer read, but sends still succeed) or gone (sends fail). Frames to a side whose reader
task is out are dropped at once. Credit is left out; what it does is in `FlowControl`.

**Opening** looks at one session from the inside. Every task that calls `open()` has a
program counter and the id it works on: `OpenCheck` and `OpenCount` are the two
checks, `AllocLoad` and `AllocExchange` the allocator, `OpenInsert` the registry,
`OpenSyn` the send; `LookAgain`, `Register`, `Repoll` are the polls of `wait_acked`;
`Deadline` is the open timeout and `Cancel` a caller that drops the future. The
reader task inserts streams for SYNs (`ReaderSyn`, `ReaderInsert`) and delivers
answers in two steps, flag then wake-up. `Initiate`, `Drain`, `ForceClose`,
`ForceWake`, `Signal` are `initiate_shutdown`. The flags of a stream are sets of ids; they
are followed as long as a call or a handle refers to the stream.

**Shutdown** leaves the streams out and keeps who waits for whom. `sub` says
whether a task or call subscribed to the watch before the signal (`fresh`) or
after it (`stale`: `subscribe()` marks the value as seen, so `changed()` never
becomes ready). `Spawn` is the constructor, one task at a time. `Shutting` are the
steps of whichever caller of `initiate_shutdown` came first. The writer blocks
inside `write_one` and `drain` while the peer does not read. `joinset` is the
`JoinSet` behind its lock.

**Wire** works on bytes: a header is 12 of them, big-endian, as `Header::encode`
lays it out. `Arrive` is a read of `FramedRead`, of any number of bytes; `Decode` is
a call of `decode` that returns a frame or an error, and the dispatch of a payload
to the receive buffer. The two sides have their own `max_frame_size`, and the sender
may speak another version. An error of the codec ends the task that met it.

`FlowControl` treats `poll_read` as one step, so its `FinAfterData` is about the
receive buffer, not about what the application sees at the end of the file; that
is the subject of `PollRead`.

## Runs

Passing:

| Run | Checks |
| --- | --- |
| `flow` | Window 4 on the writing and 5 on the reading end, frames up to 3, 9 bytes. Conservation of credit across both ends, a bound on buffered bytes, no standstill, FIN behind data; credit returns and the FIN arrives. |
| `window` | Two granters, one closer, saturation at 3. Credit is exact, no wake-up is lost, the window implements `Credit`, and a parked writer is served. |
| `read` | Three payloads, FIN or RST, `force_close`. No wake-up is lost and a parked read returns. |
| `session_one` | One stream, one payload each way, the open timeout, and a transport that fails at any time in the server's direction and loses what it holds; both sides then shut down step by step, through a failing write, an error or end of file on reading, or a GoAway. Ids stay in range, no protocol error without a reset, `open()` succeeds only with `accept()`, the drain unblocks what is registered before it, the FIN follows all data; given-up streams are reclaimed, a writer is told that its stream is gone, and the end of one side reaches the other. |
| `session_two` | Two streams of the client, one after the other under a cap of one, with resets by the client and a `close()` of the server: refusals for the cap and after a GoAway, SYNs before, during and after the drain. Resets have a cause, used streams are registered until the drain, and ids are not reused. |
| `opening` | Two tasks that open streams up to the end of an id space of 4, one stream of the peer, a cap of one, a shutdown. Ids are unique, the cap is exceeded by at most one per task, `open()` reports what happened, no wake-up is lost, entries do not leak, and a shutdown unblocks the calls it finds. |
| `shutdown` | All four tasks, one `accept()`, two `close()`. One shutdown, the GoAway goes out, `close()` returns only after the tasks; `close()` and `accept()` return and a silent peer is noticed. |
| `wire` | Up to 3 bytes in any fragments, one other frame of any kind, limits 1 to 3 on either side with a ceiling of 2. Frames and bytes come out as they went in, and the codec fails only for unequal limits or versions. |

Violations, each of a statement made in the repository (quoted in
`PROJECT.json`):

| Run | Shows |
| --- | --- |
| `read_eof` | Payload and FIN between `poll_read`'s look at the buffer and at `read_open`: end of file with the payload unread. |
| `session_reset` | Data under way to a stream that has just been reset ends the session with ProtocolError. |
| `session_graceful` | After one side has dropped its handle, the other side's FIN is answered with an RST, and what it had not read yet is lost. |
| `shutdown_accept` | An `accept()` that subscribes after the signal waits for ever, with the lock of the accept queue. |

Differences without a run of their own. Where a property allows for one, it states
exactly when it happens, and TLC reaches that case:

- A writing end whose window is larger than the reading end's fills the buffer beyond
  `initial_stream_window` (`config.rs:12`); one whose window is below half of it stops
  for good (`architecture.md:178`). Theorems `Buffer` and `StallFree` name the condition
  on the two windows.
- `max_streams` is not a hard cap (`config.rs:20`): check and insert are two critical
  sections. `CapOvershoot` is the exact bound.
- A session that ends while `Session::new` is still spawning leaves the closer task
  without the signal, and `close()` waiting (`CloseReturns`, `sub["closer"] = "stale"`).
- `close()` waits as long as the peer does not read: two sides that close at once over a
  transport with little room may wait for each other (`CloseReturns`, `silent`).
- A stream registered after the drain of a shutdown is never force-closed, although
  `inner.rs:63` says that every registered stream is. An `open()` past its checks registers one
  and waits for its timeout (`LateStreams`, `OpenUnblocked`); the reader task registers one for a
  SYN it dispatches before the signal, and an `accept()` that was already waiting returns it, to
  an application that then waits for ever if it reads. `UnblockedByShutdown` excepts exactly
  these streams, and `session_one` reaches one of the reader task's that is accepted and open
  after the signal.
- An `open()` that is cancelled leaves its stream in the registry (`RegistryAccounted`).
- `open()` may report `SessionClosed` for an RST, as `wait_acked` loads `reset` before and
  `write_open` after it (`OutcomeTrue`).
- A `max_frame_size` above the peer's, or above 16 MiB, ends the session with the first
  large write, where `config.rs:16` promises fragments (`FailsForACause`).
- A writer without credit whose peer has dropped the stream is not told: it sends nothing
  that could be answered. `PeerGoneNoticed` is about writers with a frame under way.
- `reset` after `shutdown` sends no RST (`stream/inner.rs:290` against `stream/mod.rs:35`),
  and a drop after `shutdown` no second FIN (`stream/mod.rs:19` says always).
- GoAway closes the established streams, as `architecture.md:103` says: the reader calls
  `initiate_shutdown`, which drains the registry. `protocol.md:68-70` and the comment of
  `note_peer_gone` (`inner.rs:79-81`) say that they go on. `UnblockedByShutdown` states what
  the code does.

**Bounds.** In `flow` the two windows differ, with the writing end's between the threshold and
the window of the reading end; the theorems cover all others. 9 bytes send a window of 4
round more than twice. Two granters are enough for a grant to overtake
another between load and exchange. One payload per direction is enough for data to meet
each state of a stream, since payloads of one stream differ only in number.
`WithReset`, `WithClose` and `WithBreak` are the sides whose application resets or closes, or
whose transport fails. A failing transport starts a shutdown on both sides, by the writer task
and by the reader task, so `session_one` has all interleavings of the four steps with the
peer's without a `close()`, which begins with the same swap. `session_two` leaves payloads out,
since there the two streams only meet in the registry, the queues and the shutdown, and gives
`close()` to the side that registers streams for SYNs. SYNs that cross, and streams of the server,
are left to the theorems. Two openers are enough for an exchange to fail and for a cap
to be exceeded; with an id space of 4, one of them finds it exhausted
(several ids per caller are beyond TLC here and covered by `OpeningProofs`). One stream of the
peer brings the reader task between check and insert. Two calls of `close()` meet at the
lock, and one of `accept()` is enough to miss the signal. In `wire` the ceiling lies between
the limits, so each limit is met, exceeded by one, and undercut; metadata goes beyond
one byte. `CHECK_DEADLOCK FALSE` is set where the system may come to rest: a transfer that is
complete, a session that is closed, applications that call nothing.

**Fairness.** A background task with something to do runs (Tokio polls woken
tasks); a call that has begun goes on, `initiate_shutdown` in particular, which awaits nothing;
a woken task is polled; an exchange does not
fail spuriously for ever (strong fairness of the successful exchange in `SendWindow`;
`OpenUnblocked` is about calls that are past it). Timers fire in `Shutdown`, where the
keepalive is about them; a transport takes bytes as long as the peer reads. The reading
application reads in `FlowControl` and `Wire`, where the properties are about an
application that does. No application is obliged to write, accept, drop or close, no peer
to answer, and no open timeout to fire.

## Proofs

`FlowControlProofs` holds for all window sizes, frame sizes and transfer lengths,
from `ConfigAssumption` (sizes positive, windows within u32). The inductive
invariant `IInv` consists of the types, `CreditConserved`, `FinInv` (the FIN is the
last frame and nothing follows it) and `TallyInv` (the tally rests below the
threshold). `CreditConserved` says that the queued frames form a chain of adjoining
intervals between two counters; lemmas `ChainAppend` and `ChainTail` say what queueing and
dispatching do to a chain. Without `FinInv` a data frame behind a FIN could not be
excluded; without `TallyInv` the window could sit in the tally. `Buffer` needs the
sender's window not to be the larger one, `StallFree` needs it to reach the
threshold.

`SendWindowProofs` holds for any sets of granters and closers and any amounts, from
`WindowAssumption`. `WakeInv` strengthens `NoLostWakeup`: once registered, the owner's
waker is in the slot or the task is scheduled, and a change that the second look
cannot have seen comes from a call that has yet to wake. `Refinement` maps
`available` to `Credit`'s counter; every step is one of its steps or a stutter.

`PollReadProofs` holds for any number of payloads, from `MaxDataAssumption`. Types need
the number of payloads in buffer, in the reader task's hands and still to come
(`Payloads`). Its `WakeInv` is that of the send window, with one clause per look:
what a look has passed by, and is there nevertheless, comes from a call that has yet to
wake or has woken.

`OpeningProofs` holds for any finite set of callers, any cap, role and id space, from
`OpeningAssumption`. Its `IInv` adds to the types and to `RegistryAccounted`: `Numbering`
(the counter has our parity and the peer's next id has not, our ids in the registry are
below the counter, a call that is about to exchange holds an id of ours that is not above
it and has room behind it, and `IdsUnique`; most actions hand out no id, which `NoNewId` says of
them and lemma `NumberingKept` uses once); `Ending` (where the shutdown stands and that it
implies the closing flag, a stream that is closed is reset or its session is closing, and
`OutcomeTrue`); `Told` (a call that an answer or the shutdown concerns has been woken or is
about to be); and `Waking`, which is to `NoLostWakeup` what `WakeInv` is above. The two
bounds on cardinalities rest on lemmas that say which actions add to the registry and which
only move a stream from "about to be registered" to "registered".

`ShutdownProofs` holds for any sets of calls, from `ShutdownAssumption`. The invariant says
that between the swap of `is_closing` and the signal exactly one caller is inside, that a
GoAway is queued before the signal and that the writer exits only behind it, and that the
joins are over once the `JoinSet` is taken.

`SessionSteps` and `SessionProofs` hold for any number of streams and payloads, any cap, and
with or without resets, timeouts, closes and failures, from `SessionAssumption`. All seven
invariants of `Session` and `ClosedForGood` are proved. The inductive invariant `IInv` is about
what is under way, since every one of them can be broken by a frame that was sent long
before it is dispatched:

- `NetInv`. `FrameInv` says what a frame under way knows of the two sides: a SYN is for a
  stream its receiver does not know, an ACK comes from an accepted stream, payload n has not
  been received. `OrderInv` says what the order of two frames excludes: a payload behind the
  FIN of its stream, or numbers that go down.
- `ResetInv` says that an RST under way has a cause, and that a payload behind it needs a reset by
  an application or a receiver that has already removed the stream. The causes are
  `UserReset`, `GivenUp` (refused, given up or dropped by its sender, for good) and `Left`
  (removed by its receiver). They must survive every step until the RST is dispatched, so they
  are stated with the registry and not with the records alone.
- A side that has drained its registry goes on dispatching until its signal, and answers
  frames of perfectly good streams with RSTs. `ResetInv` is therefore about frames that are `Early`:
  sent before that drain, or at least not behind the GoAway that precedes it. `GoAwayInv` says that
  this GoAway is under way until it is dispatched, so an RST of a drained side reaches only a
  reader that has seen the GoAway, which is closing too.
- `EndInv` says how a stream came to be reset or half-closed at a side that is `Steady` (not
  drained itself, and no GoAway seen of a side that is), and that no payload is behind. With
  `NetInv` and `ResetInv` it excludes "data after FIN"; it is also the larger part of `FinAfterData`.
- `DataInv` says that no payload is missing: what was written and not received is under way,
  as long as the reader reads and the writer's transport works or the FIN is still under way. The
  second case is needed for a transport that fails behind the FIN. Theorem `NothingLost` states
  it for itself.
- `ShutInv` says that what `open()` or `accept()` has returned, or can still return, is registered
  or closed in both halves: the drain moves every registered stream from the first to the
  second, and what is registered afterwards is what `UnblockedByShutdown` excepts.
- `StageInv`, `StreamInv`, `AcceptInv` and `IdInv` relate the closing flag and the tasks, the two
  records of a stream, its registration, the two queues and the allocator.

`SessionSteps` reduces each action to a few relations between the two states of a step:
`Aging` (records only grow older), `NetGrows` (which frames may join, and at what time),
`AllCarry` (no frame goes missing while transport and receiver are up) and `Books` (registry,
queues, allocator, the tasks and how far the shutdown is).
`SessionProofs` shows that these relations alone keep the
conjuncts of `IInv`, so no action is looked at twice for the same reason.

`WireProofs` holds for any streams, frames, limits and ceiling that fit their fields, from
`WireAssumption`. The codec lemmas say that a frame's bytes are its header and its payload, that
each field of a header is read back as it was written, and that `Decoded` of bytes that begin
with a frame's encoding is that frame. The inductive invariant says that the bytes in
`FramedRead`'s buffer and under way are those of the frames that have not been decoded, laid
end to end (`IsCut` lists where each begins): `Arrive` moves bytes across without touching
the cuts, `Decode` removes the first, and the length field makes it end exactly at the second.
`PiecesInOrder` adds what `poll_write` does: for each stream there is a list `pos` of byte
counts such that each decoded frame holds the bytes between two neighbours in it. Its invariant
`PieceInv` says so of the frames sent, up to `written`, as long as the writer task has met no
error; an encoding error ends the writer with bytes already counted as written.

Only model-checked: all liveness properties (liveness under fairness is out of the prover's
reach), and `BytesInOrder`, which is about what `ReadInto`, a recursive function, computes for
every queue, and about flattening a queue of any length: both need an induction over data.
`BytesInOrder` is stated in `MCWire`, beside the instance; `PiecesInOrder` proves the part of it
that lies before the receive buffer.

## Not modelled

A dispatch is one step against the drain of `initiate_shutdown` in `Session`, although the
reader task looks a stream up and changes it in two critical sections (`Opening` has the two
steps of its insert); cancellation of `accept()` and `close()`; the exchange of `on_consume`,
which has no competitor; nonces of pings, as there is never more than one ping out; the builder of the
configuration and the conversion of errors to `io::Error`, which only store or rename;
logging and formatting. Credit and the life cycle of streams are in different modules, as
are the streams and the watch of one shutdown: their product is beyond TLC, and the
properties do not relate them, apart from the writer without credit described above.
