---------------------------- MODULE SessionSteps ---------------------------
(***************************************************************************)
(* What every step of two sessions does to their streams, for any number   *)
(* of streams and payloads and any cap: the invariant, and one lemma per   *)
(* action that reduces it to a few relations between the state before and  *)
(* the state after.                                                        *)
(***************************************************************************)
EXTENDS Session, TLAPS

\* Zenon proves what needs no arithmetic, and takes its time over a context of this size.
USE ZenonT(60)

\* The types alone; IdInv has the bounds of TypeOK.
Frames == StreamFrame \cup SessionFrame

NetType == [Peers -> Seq(Frames)]

StType == [Peers -> [Ids -> StreamRecord]]

TaskType ==
    /\ shut \in [Peers -> {"no"} \cup Codes]
    /\ stage \in [Peers -> {"up", "swapped", "told", "drained", "signalled"}]
    /\ reader \in [Peers -> {"reading", "peer_gone", "out"}]
    /\ writer \in [Peers -> {"running", "broken", "failing", "drained", "gone"}]

RestType ==
    /\ acceptq \in [Peers -> Seq(Ids)]
    /\ nextId \in [Peers -> Nat] /\ admitted \in [Peers -> Nat]
    /\ registry \in [Peers -> SUBSET Ids] /\ closerq \in [Peers -> SUBSET Ids]
    /\ TaskType

Typed == net \in NetType /\ st \in StType /\ RestType

UserReset(id) == \E p \in Peers : st[p][id].userReset

AnyReset == \E p \in Peers, id \in Ids : st[p][id].userReset

Count(s) == s.got + s.buf

Received(p, id) == Count(st[p][id])

NoSyn(p, id) == \A i \in 1..Len(net[p]) : net[p][i] # Frame("syn", id)

NoData(p, id) ==
    \A i \in 1..Len(net[p]) : net[p][i].kind = "data" => net[p][i].id # id

HasFin(p, id) == \E i \in 1..Len(net[p]) : net[p][i] = Fin(id)

\* p's GoAway has been queued.
Told(p) == stage[p] \in {"told", "drained", "signalled"}

\* p has not drained its registry, and knows nothing of a side that has.
Steady(p) == ~Drained(p) /\ (reader[p] = "reading" \/ ~Drained(Other(p)))

\* The i-th frame from p reaches a side that has not drained its registry, and was sent
\* before p drained its own: p has not yet, or neither the receiver nor the frame has seen
\* p's GoAway.
Early(p, i) ==
    /\ ~Drained(Other(p))
    /\ \/ ~Drained(p)
       \/ /\ reader[Other(p)] = "reading"
          /\ \A k \in 1..Len(net[p]) : k < i => net[p][k].kind # "goaway"

\* p has no use for the stream any more: given up, dropped, or refused.
GivenUp(p, id) ==
    /\ id \notin registry[p]
    /\ \/ st[p][id].handle \in {"failed", "dropped"}
       \/ ~st[p][id].made /\ st[Other(p)][id].made /\ NoSyn(Other(p), id)

\* The stream has left p's registry, and will not come back.
Left(p, id) == st[p][id].made /\ id \notin registry[p]

\* What a frame under way from p says about the two sides, by its kind.
SynInv(p, id) == Owns(p, id) /\ st[p][id].made /\ ~st[Other(p)][id].made

AckInv(p, id) == ~Owns(p, id) /\ st[p][id].handle \in {"open", "dropped"}

FinInv(p, id) == st[p][id].made /\ st[p][id].acked /\ ~st[p][id].writeOpen

PayloadInv(p, id, n) ==
    /\ st[p][id].made /\ st[p][id].acked
    /\ Received(Other(p), id) < n /\ n <= st[p][id].wrote

RstInv(p, id) == UserReset(id) \/ GivenUp(p, id) \/ Left(Other(p), id)

FrameInv(p, f) ==
    /\ f.kind = "syn" => SynInv(p, f.id)
    /\ f.kind = "ack" => AckInv(p, f.id)
    /\ f.kind = "fin" => FinInv(p, f.id)
    /\ f.kind = "data" => PayloadInv(p, f.id, f.n)
    /\ f.kind = "goaway" /\ f.code = "ProtocolError" => AnyReset

\* What the order of two frames under way from p says: f is ahead of g.
OrderInv(f, g) ==
    /\ f.kind = "syn" /\ g.kind = "syn" => f.id # g.id
    /\ f.kind = "fin" /\ g.kind = "data" => f.id # g.id
    /\ f.kind = "data" /\ g.kind = "data" /\ f.id = g.id => f.n < g.n

NetInv ==
    \A p \in Peers : \A i \in 1..Len(net[p]) :
        /\ FrameInv(p, net[p][i])
        /\ \A j \in 1..Len(net[p]) : i < j => OrderInv(net[p][i], net[p][j])

\* What g is behind an RST of its stream for, if it is a payload.
BehindInv(p, id, g) ==
    g.kind = "data" /\ g.id = id => UserReset(id) \/ Left(Other(p), id)

\* An RST that is not due to the drain of a registry has a cause.
ResetInv ==
    \A p \in Peers : \A i \in 1..Len(net[p]) :
        Early(p, i) /\ net[p][i].kind = "rst" =>
            /\ RstInv(p, net[p][i].id)
            /\ \A j \in 1..Len(net[p]) : i < j => BehindInv(p, net[p][i].id, net[p][j])

\* A GoAway is under way until it is dispatched.
GoAwayInv ==
    \A p \in Peers :
        Told(p) /\ writer[p] = "running" /\ reader[Other(p)] = "reading" =>
            \E k \in 1..Len(net[p]) : net[p][k].kind = "goaway"

\* A session that is up has all its tasks.
StageInv == \A p \in Peers : shut[p] = "no" => stage[p] = "up" /\ reader[p] = "reading"

\* What a record says by itself.
Sound(s) ==
    /\ ~s.made => s = Absent
    /\ s.made => s.handle # "none"
    /\ s.handle \in {"queued", "open", "dropped"} => s.acked
    /\ s.wrote > 0 => s.acked
    /\ s.reset => ~s.readOpen /\ ~s.writeOpen

\* The records s and u of the two sides, and p's registry and queue of removals.
Paired(p, id, s, u) ==
    /\ Sound(s)
    /\ ~s.made => id \notin registry[p] /\ id \notin closerq[p]
    /\ s.made /\ ~Owns(p, id) => u.made
    /\ Owns(p, id) /\ id >= nextId[p] => ~s.made
    /\ s.handle = "opening" => Owns(p, id)
    /\ s.handle = "queued" => ~Owns(p, id)
    /\ Owns(p, id) /\ s.acked => u.handle \in {"open", "dropped"}
    /\ id \in closerq[p] => s.reset \/ s.handle = "dropped"
    /\ Count(s) <= u.wrote

StreamInv == \A p \in Peers, id \in Ids : Paired(p, id, st[p][id], st[Other(p)][id])

\* Whatever open() or accept() has returned or can still return is registered or closed.
ShutInv ==
    \A p \in Peers, id \in Ids :
        LET s == st[p][id]
        IN  s.handle \in {"opening", "queued", "open"} =>
                id \in registry[p] \/ (~s.readOpen /\ ~s.writeOpen)

\* How a stream came to be reset, or its read half closed, before the drain.
Ended(p, id, s, u) ==
    /\ s.reset => UserReset(id) \/ (GivenUp(Other(p), id) /\ NoData(Other(p), id))
    /\ ~s.readOpen /\ ~s.reset =>
           s.made /\ ~u.writeOpen /\ NoData(Other(p), id) /\ Count(s) = u.wrote

EndInv ==
    \A p \in Peers, id \in Ids :
        Steady(p) => Ended(p, id, st[p][id], st[Other(p)][id])

\* Nothing that q wrote is missing, as long as it can still reach p.
DataInv ==
    \A p \in Peers, id \in Ids :
        LET q == Other(p)
        IN  /\ reader[p] # "out" /\ id \in registry[p]
            /\ writer[q] = "running" \/ HasFin(q, id)
            =>
                \A n \in Received(p, id) + 1 .. st[q][id].wrote :
                    \E i \in 1..Len(net[q]) : net[q][i] = Payload(id, n)

AcceptInv ==
    \A p \in Peers : \A i \in 1..Len(acceptq[p]) :
        /\ st[p][acceptq[p][i]].handle = "queued"
        /\ \A j \in 1..Len(acceptq[p]) : i # j => acceptq[p][i] # acceptq[p][j]

\* The ids of the calls of open() that are past the checks are within the bound.
IdInv ==
    \A p \in Peers :
        \E k \in 0..Opens(p) : nextId[p] = FirstId(p) + 2 * k /\ k + admitted[p] <= Opens(p)

IInv ==
    /\ Typed /\ IdInv /\ StageInv /\ StreamInv /\ NetInv /\ ResetInv /\ GoAwayInv
    /\ AcceptInv /\ ShutInv /\ EndInv /\ DataInv
    /\ LiveHandleRegistered /\ ProtocolErrorOnlyAfterReset

----------------------------------------------------------------------------
\* The relations between the state before a step and the state after it.

\* What becomes of the frames under way from x: nothing, f goes behind
\* them, the first is taken, or nobody takes them any more.
Quiet(x) == net'[x] = net[x]

Emits(x, f) ==
    net'[x] = IF writer[x] = "running" /\ Heard(x) THEN Append(net[x], f) ELSE net[x]

\* The reader that takes a GoAway knows that the other side is gone.
Takes(x) ==
    /\ net[x] # <<>> /\ net'[x] = Tail(net[x])
    /\ Head(net[x]).kind = "goaway" => reader'[Other(x)] # "reading"

Stops(x) == net'[x] = <<>> /\ reader'[Other(x)] = "out"

\* A frame that says nothing about streams stands for none.
Nothing == [kind |-> "err"]

\* The frames under way from x after a step: those before it, or all but the first of
\* them, and perhaps f behind them, which a running writer task brings out.
Follows(x, f) ==
    \E c \in {0, 1} :
        /\ c # 0 => Takes(x)
        /\ \A j \in 1..Len(net'[x]) :
               \/ j + c \in 1..Len(net[x]) /\ net'[x][j] = net[x][j + c]
               \/ j = Len(net'[x]) /\ net'[x][j] = f /\ writer[x] = "running"

\* f may go behind the frames under way from x: it is true when the step is over, in
\* order with those ahead of it, a SYN is for a new stream, a payload for an open one, and
\* an RST has a cause, or comes of the drain of a registry.
Joins(x, f) ==
    /\ FrameInv(x, f)'
    /\ \A j \in 1..Len(net[x]) : OrderInv(net[x][j], f)
    /\ f.kind = "syn" => ~st[x][f.id].made
    /\ f.kind = "data" => st[x][f.id].handle = "open" /\ st[x][f.id].writeOpen
    /\ f.kind = "rst" => RstInv(x, f.id)' \/ ~Early(x, Len(net[x]))'

NetGrows == \A x \in Peers : \E f \in Frames : Follows(x, f) /\ Joins(x, f)

\* What becomes of the payloads under way from y: they stay in place, or the first frame is
\* dispatched and counted if it is one, or those behind a failure of the transport are lost.
Dispatches(y) ==
    LET x == Other(y)
        f == Head(net[y])
    IN  /\ Takes(y)
        /\ f.kind = "data" /\ f.id \in registry[x] => Count(st'[x][f.id]) = Count(st[x][f.id]) + 1

Carries(y) ==
    \/ reader'[Other(y)] = "out"
    \/ \A k \in 1..Len(net[y]) : k \in 1..Len(net'[y]) /\ net'[y][k] = net[y][k]
    \/ Dispatches(y)
    \/ /\ writer'[y] # "running"
       /\ \E k \in 0..Len(net[y]) : net'[y] = Append(SubSeq(net[y], 1, k), Nothing)

AllCarry == \A y \in Peers : Carries(y)

\* What never happens to the record of a stream.
Ages(s, t) ==
    /\ s.made => t.made
    /\ s.userReset => t.userReset
    /\ s.reset => t.reset
    /\ s.acked => t.acked
    /\ ~s.readOpen => ~t.readOpen
    /\ ~s.writeOpen => ~t.writeOpen
    /\ s.handle \in {"open", "dropped"} => t.handle \in {"open", "dropped"}
    /\ s.handle \in {"failed", "dropped"} => t.handle = s.handle
    /\ s.made /\ t.handle \in {"opening", "queued"} => s.handle = t.handle
    /\ s.made /\ t.handle = "open" =>
           s.handle \in {"queued", "open"} \/ (s.handle = "opening" /\ s.acked)
    /\ s.wrote <= t.wrote

\* The reader task of x gets f.
From(x, f) == reader[x] # "out" /\ Takes(Other(x)) /\ Head(net[Other(x)]) = f

\* A stream that open() makes, and one that is made for a SYN.
Opened(x, i, t) ==
    /\ Owns(x, i) /\ i < nextId'[x] /\ t.handle \in {"opening", "failed"} /\ ~t.acked
    /\ i \in registry'[x] \/ t.handle = "failed"

Admitted(x, i, t) == From(x, Frame("syn", i)) /\ t.handle = "queued" /\ i \in registry'[x]

\* x gets a payload of the stream i, and counts it.
Pushed(x, i, s, t) ==
    LET f == Head(net[Other(x)])
    IN  From(x, f) /\ f.kind = "data" /\ f.id = i /\ Count(t) = Count(s) + 1

\* x writes the next payload.
Sent(x, i, s, t) ==
    /\ s.handle = "open" /\ s.writeOpen /\ t.wrote = s.wrote + 1
    /\ writer' = writer /\ Emits(x, Payload(i, t.wrote))

\* x accepts the stream i.
Served(x, i) ==
    acceptq[x] # <<>> /\ i = Head(acceptq[x]) /\ acceptq'[x] = Tail(acceptq[x])

\* The record s of i at x becomes t, and if there is anything new in it the step is the one
\* that does so.
Changes(x, i, s, t) ==
    /\ Ages(s, t) /\ Sound(t)
    /\ t.made => s.made \/ Opened(x, i, t) \/ Admitted(x, i, t)
    /\ Count(t) = Count(s) \/ Pushed(x, i, s, t)
    /\ t.acked => s.acked \/ t.handle = "queued" \/ From(x, Frame("ack", i))
    /\ t.reset => \/ s.reset \/ t.userReset \/ ~Steady(x)
                  \/ From(x, Frame("rst", i)) /\ i \in registry[x]
    /\ ~t.readOpen => \/ ~s.readOpen \/ t.reset \/ Drained(x)'
                      \/ From(x, Frame("fin", i)) /\ i \in registry[x]
    /\ t.wrote = s.wrote \/ Sent(x, i, s, t)
    /\ s.handle = "queued" => t.handle = "queued" \/ Served(x, i)

\* s is the record of a stream, t comes of it, and nothing but c is new in t.
Keeps(s, t, c) ==
    /\ s.made /\ Ages(s, t) /\ Sound(t)
    /\ c # "count" => Count(t) = Count(s)
    /\ c # "acked" => (t.acked => s.acked)
    /\ c # "reset" => (t.reset => s.reset \/ t.userReset)
    /\ c # "read" => (~t.readOpen => ~s.readOpen \/ t.reset)
    /\ c # "wrote" => t.wrote = s.wrote
    /\ c # "queue" => (s.handle = "queued" => t.handle = "queued")

Aging == \A x \in Peers, i \in Ids : Changes(x, i, st[x][i], st'[x][i])

\* Only a stream that is made by the step joins a registry.
Registers ==
    \A x \in Peers, i \in Ids :
        i \in registry'[x] => i \in registry[x] \/ (~st[x][i].made /\ st'[x][i].made)

\* What the steps do to the registries, the queues and the tasks.
Leaves ==
    \A x \in Peers, i \in Ids :
        i \in registry[x] /\ i \notin registry'[x] =>
            \/ st'[x][i].handle = "failed" \/ i \in closerq[x]
            \/ Drained(x)' /\ ~st'[x][i].readOpen /\ ~st'[x][i].writeOpen

Queues ==
    \A x \in Peers, i \in Ids :
        i \in closerq'[x] => i \in closerq[x] \/ st'[x][i].reset \/ st'[x][i].handle = "dropped"

Numbers == IdInv' /\ \A x \in Peers : nextId[x] <= nextId'[x]

Writers == \A x \in Peers : writer'[x] = "running" => writer[x] = "running"

\* A session shuts down once, with a protocol error only when a stream was reset.
Shuts ==
    \A x \in Peers :
        /\ shut[x] # "no" => shut'[x] = shut[x]
        /\ shut'[x] = "ProtocolError" => shut[x] = "ProtocolError" \/ AnyReset

\* x queues its GoAway.
Tells(x) ==
    /\ writer' = writer /\ reader' = reader
    /\ \E f \in Frames : f.kind = "goaway" /\ Emits(x, f)

\* initiate_shutdown and the reader task only go forward.
Stages ==
    \A x \in Peers :
        /\ Drained(x) => Drained(x)'
        /\ Told(x)' => Told(x) \/ Tells(x)
        /\ reader'[x] = "reading" => reader[x] = "reading"
        /\ reader[x] = "out" => reader'[x] = "out"

Tasks == TaskType' /\ Writers /\ Shuts /\ Stages /\ StageInv'

Accepts ==
    \A x \in Peers :
        \/ acceptq'[x] = acceptq[x]
        \/ acceptq[x] # <<>> /\ acceptq'[x] = Tail(acceptq[x])
        \/ \E i \in Ids : /\ acceptq'[x] = Append(acceptq[x], i)
                          /\ ~st[x][i].made /\ st'[x][i].handle = "queued"

Books == Registers /\ Leaves /\ Queues /\ Numbers /\ Accepts /\ Tasks

\* What a step does to the frames under way, the records and the rest.
Summary == Typed' /\ Aging /\ NetGrows /\ AllCarry /\ Books

----------------------------------------------------------------------------
(* What the order of the natural numbers is used for.                      *)
LEMMA Order ==
    ASSUME NEW a \in Nat, NEW b \in Nat
    PROVE  a <= a /\ (a <= b => a < b + 1)
BY SMTT(60)

(* Each side is the other's other.                                         *)
LEMMA PeerFacts ==
    \A p \in Peers : /\ Other(p) \in Peers /\ Other(p) # p /\ Other(Other(p)) = p
                     /\ \A x \in Peers : x = p \/ x = Other(p)
BY DEF Peers, Other

(* An id belongs to exactly one side, and those of calls within the bound  *)
(* are ids of their side.                                                  *)
LEMMA IdFacts ==
    /\ \A id \in Ids : /\ id \in Nat
                       /\ \A p \in Peers : Owns(p, id) <=> ~Owns(Other(p), id)
    /\ \A p \in Peers : /\ Opens(p) \in Nat /\ FirstId(p) \in Nat
                        /\ \A k \in 0..(Opens(p) - 1) : /\ FirstId(p) + 2 * k \in Ids
                                                        /\ Owns(p, FirstId(p) + 2 * k)
                        /\ \A k \in Nat : FirstId(p) + 2 * k \in Ids => k < Opens(p)
<1> USE SessionAssumption
<1>1. ASSUME NEW k \in Nat PROVE (1 + 2 * k) % 2 = 1 /\ (2 + 2 * k) % 2 = 0
  BY SMTT(60)
<1>2. \A id \in Ids : \/ \E k \in 0..(ClientOpens - 1) : id = 1 + 2 * k
                      \/ \E k \in 0..(ServerOpens - 1) : id = 2 + 2 * k
  BY DEF Ids, FirstId
<1>3. \A id \in Ids : id \in Nat /\ id # 0 /\ (id % 2 = 0 \/ id % 2 = 1)
  BY SMTT(60), <1>1, <1>2
<1>4. \A id \in Ids : id \in Nat /\ \A p \in Peers : Owns(p, id) <=> ~Owns(Other(p), id)
  BY SMTT(60), <1>3 DEF Owns, Peers, Other
<1>5. \A p \in Peers : Opens(p) \in Nat /\ FirstId(p) \in Nat
  BY DEF Opens, FirstId
<1>6. ASSUME NEW p \in Peers, NEW k \in 0..(Opens(p) - 1)
      PROVE  FirstId(p) + 2 * k \in Ids /\ Owns(p, FirstId(p) + 2 * k)
  BY SMTT(60), <1>1, <1>5 DEF Peers, Ids, Owns, FirstId, Opens
<1>7. ASSUME NEW p \in Peers, NEW k \in Nat, FirstId(p) + 2 * k \in Ids PROVE k < Opens(p)
  <2>1. CASE p = "client"
    BY SMTT(60), <1>1, <1>2, <1>7, <2>1 DEF FirstId, Opens
  <2>2. CASE p = "server"
    BY SMTT(60), <1>1, <1>2, <1>7, <2>2 DEF FirstId, Opens
  <2> QED
    BY <2>1, <2>2 DEF Peers
<1> QED
  BY <1>4, <1>5, <1>6, <1>7

(* The constructors make frames of their kinds.                            *)
LEMMA FrameFacts ==
    /\ \A id \in Ids, k \in {"syn", "ack", "fin", "rst"} : Frame(k, id) \in Frames
    /\ \A id \in Ids, n \in 1..MaxWrites : Payload(id, n) \in Frames
    /\ \A c \in Codes : [kind |-> "goaway", code |-> c] \in Frames
    /\ [kind |-> "eof"] \in Frames /\ Nothing \in Frames
BY DEF Frames, StreamFrame, SessionFrame, Frame, Payload, Nothing

(* A frame has the fields of its kind.                                     *)
LEMMA FrameParts ==
    ASSUME NEW f \in Frames
    PROVE  /\ f.kind \in {"syn", "ack", "fin", "rst", "data"} => f.id \in Ids
           /\ f.kind \in {"syn", "ack", "fin", "rst"} => f = Frame(f.kind, f.id)
           /\ f.kind = "data" => f.n \in 1..MaxWrites /\ f = Payload(f.id, f.n)
           /\ f.kind = "goaway" => f.code \in Codes
           /\ f.kind \in {"syn", "ack", "fin", "rst", "data", "goaway", "eof", "err"}
BY DEF Frames, StreamFrame, SessionFrame, Frame, Payload

(* The parts of the type invariant.                                        *)
LEMMA TypeFacts ==
    ASSUME IInv
    PROVE  net \in NetType /\ st \in StType /\ RestType
BY DEF IInv, Typed

(* out_tx.send puts a frame behind those under way, or has no effect.      *)
LEMMA SendingFacts ==
    ASSUME NEW n \in NetType, NEW p \in Peers, NEW f \in Frames
    PROVE  /\ Sending(n, p, <<f>>) \in NetType
           /\ Sending(n, p, <<>>) = n
           /\ Sending(n, p, <<f>>)[Other(p)] = n[Other(p)]
           /\ Sending(n, p, <<f>>)[p] =
                  IF writer[p] = "running" /\ Heard(p) THEN Append(n[p], f) ELSE n[p]
<1>1. n[p] \o <<f>> = Append(n[p], f) /\ Append(n[p], f) \in Seq(Frames) /\ n[p] \o <<>> = n[p]
  BY SMTT(60) DEF NetType
<1>2. [n EXCEPT ![p] = @ \o <<>>] = n
  BY <1>1 DEF NetType
<1>3. [n EXCEPT ![p] = @ \o <<f>>] = [n EXCEPT ![p] = Append(@, f)]
  BY <1>1
<1> QED
  BY <1>1, <1>2, <1>3, PeerFacts DEF Sending, NetType

(* What is known of the frames under way.                                  *)
LEMMA UnderWay ==
    ASSUME IInv, NEW p \in Peers
    PROVE  \A j \in 1..Len(net[p]) : net[p][j] \in Frames /\ FrameInv(p, net[p][j])
<1>1. net[p] \in Seq(Frames)
  BY TypeFacts DEF NetType
<1> QED
  BY SMTT(60), <1>1 DEF IInv, NetInv

(* What has arrived is a frame under way.                                  *)
LEMMA Arrival ==
    ASSUME IInv, NEW p \in Peers, NEW kind, Arrived(p, kind)
    PROVE  \E f \in Frames :
               /\ f = Head(net[Other(p)]) /\ f.kind = kind /\ f.id = ArrivedId(p)
               /\ FrameInv(Other(p), f)
               /\ reader[p] # "out" /\ net[Other(p)] # <<>>
<1>1. Other(p) \in Peers /\ net[Other(p)] \in Seq(Frames)
  BY PeerFacts, TypeFacts DEF NetType
<1>2. reader[p] # "out" /\ net[Other(p)] # <<>> /\ Head(net[Other(p)]).kind = kind
  BY DEF Arrived
<1>3. 1 \in 1..Len(net[Other(p)]) /\ Head(net[Other(p)]) = net[Other(p)][1]
  BY SMTT(60), <1>1, <1>2
<1> QED
  BY <1>1, <1>2, <1>3, UnderWay DEF ArrivedId

(* A stream that a frame of it has arrived for.                            *)
LEMMA ArrivedFor ==
    ASSUME IInv, NEW p \in Peers, NEW kind \in {"syn", "ack", "fin", "rst"}, Arrived(p, kind)
    PROVE  \E id \in Ids :
               /\ id = ArrivedId(p) /\ Head(net[Other(p)]) = Frame(kind, id)
               /\ FrameInv(Other(p), Frame(kind, id))
<1>1. PICK f \in Frames : /\ f = Head(net[Other(p)]) /\ f.kind = kind /\ f.id = ArrivedId(p)
                          /\ FrameInv(Other(p), f)
  BY Arrival
<1> QED
  BY <1>1, FrameParts

(* What sending does to the frames under way.                              *)
LEMMA SendStep ==
    ASSUME IInv, NEW p \in Peers, NEW f \in Frames
    PROVE  /\ net' = Sending(net, p, <<f>>) => net' \in NetType /\ Emits(p, f) /\ Quiet(Other(p))
           /\ net' = Sending(net, p, <<>>) => net' \in NetType /\ Quiet(p) /\ Quiet(Other(p))
<1>1. net \in NetType
  BY TypeFacts
<1>2. ASSUME net' = Sending(net, p, <<f>>)
      PROVE  net' \in NetType /\ Emits(p, f) /\ Quiet(Other(p))
  BY <1>1, <1>2, SendingFacts DEF Emits, Quiet
<1>3. ASSUME net' = Sending(net, p, <<>>) PROVE net' = net
  BY <1>1, <1>3, SendingFacts
<1> QED
  BY <1>1, <1>2, <1>3 DEF Quiet

(* What dispatching does to the frames under way.                          *)
LEMMA TakeStep ==
    ASSUME IInv, NEW p \in Peers, NEW kind \in {"syn", "ack", "data", "fin", "rst"},
           Arrived(p, kind), NEW f \in Frames,
           net' = Taken(p) \/ net' = Sending(Taken(p), p, <<f>>)
    PROVE  /\ net' \in NetType /\ From(p, Head(net[Other(p)]))
           /\ net' = Taken(p) => Quiet(p)
           /\ Quiet(p) \/ Emits(p, f)
           /\ kind # "data" \/ ArrivedId(p) \notin registry[p] => Dispatches(Other(p))
<1>1. Other(p) \in Peers /\ Other(p) # p /\ Other(Other(p)) = p
  BY PeerFacts
<1>2. net \in NetType /\ Tail(net[Other(p)]) \in Seq(Frames)
  BY SMTT(60), <1>1, TypeFacts DEF Arrived, NetType
<1>3. /\ Taken(p) \in NetType /\ Taken(p)[p] = net[p]
      /\ Taken(p)[Other(p)] = Tail(net[Other(p)])
  BY <1>1, <1>2 DEF Taken, NetType
<1>4. /\ net' \in NetType /\ net'[Other(p)] = Tail(net[Other(p)])
      /\ net' = Taken(p) => net'[p] = net[p]
      /\ net'[p] = net[p] \/ Emits(p, f)
  <2>1. CASE net' = Taken(p)
    BY <1>3, <2>1
  <2>2. CASE net' = Sending(Taken(p), p, <<f>>)
    BY SMTT(60), <1>3, <2>2, SendingFacts DEF Emits
  <2> QED
    BY <1>3, <2>1, <2>2
<1>5. From(p, Head(net[Other(p)])) /\ Takes(Other(p))
  BY <1>4 DEF From, Takes, Arrived
<1>6. kind # "data" \/ ArrivedId(p) \notin registry[p] => Dispatches(Other(p))
  BY <1>1, <1>5 DEF Dispatches, Arrived, ArrivedId
<1> QED
  BY <1>4, <1>5, <1>6 DEF Quiet

(* The numbers in a record are natural.                                    *)
LEMMA RecordNumbers ==
    ASSUME NEW s \in StreamRecord
    PROVE  /\ s.got \in Nat /\ s.buf \in Nat /\ s.wrote \in Nat /\ Count(s) \in Nat
           /\ s.wrote <= MaxWrites
BY SMTT(60), SessionAssumption DEF StreamRecord, Count

(* A stream that is not made has no handle, and nothing is closed, sent or *)
(* received.                                                               *)
LEMMA NotMade ==
    ASSUME NEW s, Sound(s), ~s.made
    PROVE  /\ s.handle = "none"
           /\ s.handle \notin {"opening", "queued", "open", "failed", "dropped"}
           /\ ~s.reset /\ ~s.acked /\ s.readOpen /\ s.wrote = 0 /\ Count(s) = 0
BY SMTT(60) DEF Sound, Absent, Count

(* The two records of a stream, and what the registry and the handle say   *)
(* about one of them.                                                      *)
LEMMA RecordIn ==
    ASSUME IInv, NEW p \in Peers, NEW id \in Ids
    PROVE  \E s \in StreamRecord, u \in StreamRecord :
               /\ s = st[p][id] /\ u = st[Other(p)][id]
               /\ Sound(s) /\ Paired(p, id, s, u)
               /\ id \in registry[p] \/ s.handle # "none" => s.made
               /\ ~s.made => s = Absent
<1>1. Other(p) \in Peers /\ st \in StType
  BY PeerFacts, TypeFacts
<1>2. PICK s \in StreamRecord, u \in StreamRecord :
          s = st[p][id] /\ u = st[Other(p)][id] /\ Paired(p, id, s, u)
  BY <1>1 DEF StType, IInv, StreamInv
<1>3. Sound(s) /\ (~s.made => s = Absent) /\ (id \in registry[p] => s.made)
  BY <1>2 DEF Paired, Sound
<1>4. s.handle # "none" => s.made
  BY SMTT(60), <1>3 DEF Absent
<1> QED
  BY <1>2, <1>3, <1>4

(* A record that stays as it is.                                           *)
LEMMA Unchanged ==
    ASSUME IInv, NEW x \in Peers, NEW i \in Ids
    PROVE  Changes(x, i, st[x][i], st[x][i])
<1>1. PICK s \in StreamRecord : s = st[x][i] /\ Sound(s)
  BY RecordIn
<1>2. s.wrote <= s.wrote
  BY SMTT(60), RecordNumbers
<1>3. Changes(x, i, s, s)
  BY <1>1, <1>2 DEF Changes, Ages
<1> QED
  BY <1>1, <1>3

(* A record changes in one respect, for the reason that it has.            *)
LEMMA ChangeRule ==
    ASSUME NEW p, NEW id, NEW s, NEW t, NEW c, Keeps(s, t, c),
           \/ c = "none"
           \/ c = "count" /\ Pushed(p, id, s, t)
           \/ c = "acked" /\ From(p, Frame("ack", id))
           \/ c = "reset" /\ (~Steady(p) \/ (From(p, Frame("rst", id)) /\ id \in registry[p]))
           \/ c = "read" /\ (Drained(p)' \/ (From(p, Frame("fin", id)) /\ id \in registry[p]))
           \/ c = "wrote" /\ Sent(p, id, s, t)
           \/ c = "queue" /\ Served(p, id)
    PROVE  Changes(p, id, s, t)
BY DEF Keeps, Changes

(* The frames that say nothing about streams.                              *)
LEMMA IdleJoins ==
    ASSUME NEW x \in Peers
    PROVE  /\ Nothing \in Frames /\ Joins(x, Nothing)
           /\ [kind |-> "eof"] \in Frames /\ Joins(x, [kind |-> "eof"])
BY FrameFacts DEF Nothing, Joins, FrameInv, OrderInv

(* The frames that may be sent behind any other.                           *)
LEMMA FlagJoins ==
    ASSUME NEW p \in Peers, NEW id \in Ids
    PROVE  /\ Fin(id) \in Frames /\ (FinInv(p, id)' => Joins(p, Fin(id)))
           /\ Frame("rst", id) \in Frames /\ (RstInv(p, id)' => Joins(p, Frame("rst", id)))
           /\ Frame("ack", id) \in Frames /\ (AckInv(p, id)' => Joins(p, Frame("ack", id)))
<1>1. ASSUME NEW k \in {"fin", "rst", "ack"}, FrameInv(p, Frame(k, id))',
             k = "rst" => RstInv(p, id)'
      PROVE  Joins(p, Frame(k, id))
  BY <1>1 DEF Joins, OrderInv, Frame
<1>2. /\ FinInv(p, id)' => FrameInv(p, Frame("fin", id))'
      /\ RstInv(p, id)' => FrameInv(p, Frame("rst", id))'
      /\ AckInv(p, id)' => FrameInv(p, Frame("ack", id))'
  BY DEF FrameInv, Frame
<1> QED
  BY <1>1, <1>2, FrameFacts DEF Fin

(* Sending leaves the frames under way in place, dispatching moves them,   *)
(* and when the reader task is out there are none.                         *)
LEMMA FollowRule ==
    ASSUME IInv, net' \in NetType, NEW x \in Peers, NEW f
    PROVE  /\ Quiet(x) \/ Emits(x, f) => Follows(x, f) /\ Carries(x)
           /\ Takes(x) => Follows(x, f)
           /\ Stops(x) => Follows(x, f) /\ Carries(x)
<1>1. PICK n \in Seq(Frames), m \in Seq(Frames) : n = net[x] /\ m = net'[x]
  BY TypeFacts DEF NetType
<1>2. ASSUME Quiet(x) \/ Emits(x, f) PROVE Follows(x, f) /\ Carries(x)
  <2>1. m = n \/ (m = Append(n, f) /\ writer[x] = "running")
    BY <1>1, <1>2 DEF Quiet, Emits
  <2>2. \A j \in 1..Len(m) : \/ j + 0 \in 1..Len(n) /\ m[j] = n[j + 0]
                             \/ j = Len(m) /\ m[j] = f /\ writer[x] = "running"
    BY SMTT(60), <2>1
  <2>3. \A k \in 1..Len(n) : k \in 1..Len(m) /\ m[k] = n[k]
    BY SMTT(60), <2>1
  <2> QED
    BY <1>1, <2>2, <2>3 DEF Follows, Carries
<1>3. ASSUME Takes(x) PROVE Follows(x, f)
  <2>1. \A j \in 1..Len(m) : j + 1 \in 1..Len(n) /\ m[j] = n[j + 1]
    BY SMTT(60), <1>1, <1>3 DEF Takes
  <2> QED
    BY <1>1, <1>3, <2>1 DEF Follows
<1>4. ASSUME Stops(x) PROVE Follows(x, f) /\ Carries(x)
  <2>1. 1..Len(m) = {}
    BY SMTT(60), <1>1, <1>4 DEF Stops
  <2> QED
    BY <1>1, <1>4, <2>1 DEF Stops, Follows, Carries
<1> QED
  BY <1>2, <1>3, <1>4

(* A step that sends at most one frame, and dispatches at most one.        *)
LEMMA SumRule ==
    ASSUME IInv, NEW p \in Peers, NEW f \in Frames,
           net' \in NetType, st' \in StType, RestType', Aging, Books,
           Quiet(p) \/ (Emits(p, f) /\ Joins(p, f)),
           Quiet(Other(p)) \/ Dispatches(Other(p)) \/ Stops(Other(p))
    PROVE  Summary
<1>1. Other(p) \in Peers /\ \A x \in Peers : x = p \/ x = Other(p)
  BY PeerFacts
<1>2. (\E g \in Frames : Follows(p, g) /\ Joins(p, g)) /\ Carries(p)
  BY FollowRule, IdleJoins
<1>3. (\E g \in Frames : Follows(Other(p), g) /\ Joins(Other(p), g)) /\ Carries(Other(p))
  <2>1. Quiet(Other(p)) \/ (Takes(Other(p)) /\ Dispatches(Other(p))) \/ Stops(Other(p))
    BY DEF Dispatches
  <2>2. Follows(Other(p), Nothing) /\ Carries(Other(p))
    BY <1>1, <2>1, FollowRule DEF Carries
  <2> QED
    BY <1>1, <2>2, IdleJoins
<1>4. NetGrows /\ AllCarry
  BY <1>1, <1>2, <1>3 DEF NetGrows, AllCarry
<1> QED
  BY <1>4 DEF Summary, Typed

(* What does not change is in order.                                       *)
LEMMA BooksSame ==
    ASSUME IInv
    PROVE  /\ registry' = registry => Leaves /\ Registers
           /\ closerq' = closerq => Queues
           /\ nextId' = nextId /\ admitted' = admitted => Numbers
           /\ acceptq' = acceptq => Accepts
           /\ tasks' = tasks => Tasks
<1>1. nextId' = nextId /\ admitted' = admitted => Numbers
  BY SMTT(60), TypeFacts DEF IInv, RestType, Numbers, IdInv
<1>2. ASSUME tasks' = tasks PROVE Tasks
  <2>1. shut' = shut /\ stage' = stage /\ reader' = reader /\ writer' = writer
    BY <1>2 DEF tasks
  <2>2. TaskType' /\ StageInv'
    BY <2>1, TypeFacts DEF RestType, TaskType, IInv, StageInv
  <2>3. Writers /\ Shuts /\ Stages
    BY <2>1 DEF Writers, Shuts, Stages, Drained, Told
  <2> QED
    BY <2>2, <2>3 DEF Tasks
<1> QED
  BY <1>1, <1>2 DEF Leaves, Registers, Queues, Accepts

\* Only the record of one stream changes, on one side.
Becomes(p, id, t) == t \in StreamRecord /\ st' = [st EXCEPT ![p][id] = t]

\* A step that makes the record s of one stream of p into t: p may send f, dispatch a frame,
\* take the stream out of its registry, or have it taken out.
Updates(p, id, s, t, f) ==
    /\ s = st[p][id] /\ Becomes(p, id, t) /\ Changes(p, id, s, t)
    /\ net' \in NetType /\ f \in Frames
    /\ Quiet(p) \/ (Emits(p, f) /\ Joins(p, f))
    /\ Quiet(Other(p)) \/ Dispatches(Other(p)) \/ Stops(Other(p))
    /\ \/ registry' = registry
       \/ registry' = [registry EXCEPT ![p] = @ \ {id}] /\ t.handle = "failed"
    /\ \/ closerq' = closerq
       \/ closerq' = [closerq EXCEPT ![p] = @ \cup {id}] /\ (t.reset \/ t.handle = "dropped")
    /\ UNCHANGED <<acceptq, nextId, admitted>> /\ Tasks

(* Only the record of one stream changes, on one side.                     *)
LEMMA OneRecord ==
    ASSUME IInv, NEW p \in Peers, NEW id \in Ids, NEW t, Becomes(p, id, t)
    PROVE  /\ st' \in StType /\ st'[p][id] = t /\ st'[Other(p)][id] = st[Other(p)][id]
           /\ \A x \in Peers, i \in Ids : x # p \/ i # id => st'[x][i] = st[x][i]
<1>1. st \in StType /\ Other(p) \in Peers /\ Other(p) # p
  BY TypeFacts, PeerFacts
<1> QED
  BY <1>1 DEF StType, Becomes

(* It is enough to look at the record that changes.                        *)
LEMMA OneChanges ==
    ASSUME IInv, NEW p \in Peers, NEW id \in Ids, NEW s, NEW t, s = st[p][id],
           Becomes(p, id, t), Changes(p, id, s, t)
    PROVE  Aging
BY SMTT(60), OneRecord, Unchanged DEF Aging

(* What a step of that kind does.                                          *)
LEMMA UpdateRule ==
    ASSUME IInv, NEW p \in Peers, NEW id \in Ids, NEW s, NEW t, NEW f, Updates(p, id, s, t, f)
    PROVE  Summary
<1>1. /\ s = st[p][id] /\ Becomes(p, id, t) /\ Changes(p, id, s, t)
      /\ net' \in NetType /\ f \in Frames
      /\ Quiet(p) \/ (Emits(p, f) /\ Joins(p, f))
      /\ Quiet(Other(p)) \/ Dispatches(Other(p)) \/ Stops(Other(p))
  BY DEF Updates
<1>2. /\ \/ registry' = registry
         \/ registry' = [registry EXCEPT ![p] = @ \ {id}] /\ t.handle = "failed"
      /\ \/ closerq' = closerq
         \/ closerq' = [closerq EXCEPT ![p] = @ \cup {id}] /\ (t.reset \/ t.handle = "dropped")
      /\ UNCHANGED <<acceptq, nextId, admitted>> /\ Tasks
  BY DEF Updates
<1>3. st' \in StType /\ st'[p][id] = t
  BY SMTT(60), <1>1, OneRecord
<1>4. Aging
  BY <1>1, OneChanges
<1>5. registry' \in [Peers -> SUBSET Ids] /\ Registers /\ Leaves
  <2>1. CASE registry' = registry
    BY <2>1, TypeFacts, BooksSame DEF RestType
  <2>2. CASE registry' = [registry EXCEPT ![p] = @ \ {id}] /\ t.handle = "failed"
    BY <1>3, <2>2, TypeFacts DEF RestType, Registers, Leaves
  <2> QED
    BY <1>2, <2>1, <2>2
<1>6. closerq' \in [Peers -> SUBSET Ids] /\ Queues
  <2>1. CASE closerq' = closerq
    BY <2>1, TypeFacts, BooksSame DEF RestType
  <2>2. CASE closerq' = [closerq EXCEPT ![p] = @ \cup {id}] /\ (t.reset \/ t.handle = "dropped")
    BY <1>3, <2>2, TypeFacts DEF RestType, Queues
  <2> QED
    BY <1>2, <2>1, <2>2
<1>7. RestType' /\ Books
  BY <1>2, <1>5, <1>6, TypeFacts, BooksSame DEF RestType, Books, Tasks
<1> QED
  BY <1>1, <1>3, <1>4, <1>7, SumRule

----------------------------------------------------------------------------
\* The applications' calls on a stream.

(* open() returns the stream.                                              *)
LEMMA OpenAckedStep ==
    ASSUME IInv, NEW p \in Peers, NEW id \in Ids, OpenAcked(p, id)
    PROVE  Summary
<1>1. PICK s \in StreamRecord : s = st[p][id] /\ Sound(s) /\ (s.handle # "none" => s.made)
  BY SMTT(60), RecordIn
<1>2. PICK t \in StreamRecord : t = [s EXCEPT !.handle = "open"]
  BY DEF StreamRecord
<1>3. Keeps(s, t, "none")
  <2>1. s.handle = "opening" /\ s.acked
    BY <1>1 DEF OpenAcked
  <2>2. /\ t.made = s.made /\ t.handle = "open" /\ t.readOpen = s.readOpen
        /\ t.writeOpen = s.writeOpen /\ t.reset = s.reset /\ t.acked = s.acked
        /\ t.userReset = s.userReset /\ t.buf = s.buf /\ t.got = s.got /\ t.wrote = s.wrote
    BY <1>2 DEF StreamRecord
  <2>3. Count(t) = Count(s) /\ s.wrote <= t.wrote
    BY SMTT(60), <2>2, RecordNumbers DEF Count
  <2> QED
    BY <1>1, <2>1, <2>2, <2>3 DEF Keeps, Ages, Sound
<1>4. Becomes(p, id, t)
  BY <1>1, <1>2 DEF Becomes, OpenAcked
<1>5. net' \in NetType /\ Quiet(p) /\ Quiet(Other(p)) /\ Nothing \in Frames
  BY TypeFacts, FrameFacts DEF OpenAcked, Quiet
<1>6. Changes(p, id, s, t)
  BY <1>3, ChangeRule
<1>7. Updates(p, id, s, t, Nothing)
  BY <1>1, <1>4, <1>5, <1>6, BooksSame DEF Updates, OpenAcked
<1> QED
  BY <1>7, UpdateRule

(* open() fails.                                                           *)
LEMMA OpenFailedStep ==
    ASSUME IInv, NEW p \in Peers, NEW id \in Ids, OpenFailed(p, id)
    PROVE  Summary
<1>1. PICK s \in StreamRecord : s = st[p][id] /\ Sound(s) /\ (s.handle # "none" => s.made)
  BY SMTT(60), RecordIn
<1>2. PICK t \in StreamRecord : t = [s EXCEPT !.handle = "failed"]
  BY DEF StreamRecord
<1>3. Keeps(s, t, "none") /\ t.handle = "failed"
  <2>1. s.handle = "opening"
    BY <1>1 DEF OpenFailed
  <2>2. /\ t.made = s.made /\ t.handle = "failed" /\ t.readOpen = s.readOpen
        /\ t.writeOpen = s.writeOpen /\ t.reset = s.reset /\ t.acked = s.acked
        /\ t.userReset = s.userReset /\ t.buf = s.buf /\ t.got = s.got /\ t.wrote = s.wrote
    BY <1>2 DEF StreamRecord
  <2>3. Count(t) = Count(s) /\ s.wrote <= t.wrote
    BY SMTT(60), <2>2, RecordNumbers DEF Count
  <2> QED
    BY <1>1, <2>1, <2>2, <2>3 DEF Keeps, Ages, Sound
<1>4. Becomes(p, id, t)
  BY <1>1, <1>2 DEF Becomes, OpenFailed
<1>5. net' \in NetType /\ Quiet(p) /\ Quiet(Other(p)) /\ Nothing \in Frames
  BY TypeFacts, FrameFacts DEF OpenFailed, Quiet
<1>6. Changes(p, id, s, t)
  BY <1>3, ChangeRule
<1>7. Updates(p, id, s, t, Nothing)
  BY <1>1, <1>3, <1>4, <1>5, <1>6, BooksSame DEF Updates, OpenFailed
<1> QED
  BY <1>7, UpdateRule

(* open() gives up and resets the stream.                                  *)
LEMMA OpenTimeoutStep ==
    ASSUME IInv, NEW p \in Peers, NEW id \in Ids, OpenTimeout(p, id)
    PROVE  Summary
<1>1. PICK s \in StreamRecord : s = st[p][id] /\ Sound(s) /\ (s.handle # "none" => s.made)
  BY SMTT(60), RecordIn
<1>2. PICK t \in StreamRecord : t = [s EXCEPT !.handle = "failed"]
  BY DEF StreamRecord
<1>3. Keeps(s, t, "none") /\ t.handle = "failed"
  <2>1. s.handle = "opening"
    BY <1>1 DEF OpenTimeout
  <2>2. /\ t.made = s.made /\ t.handle = "failed" /\ t.readOpen = s.readOpen
        /\ t.writeOpen = s.writeOpen /\ t.reset = s.reset /\ t.acked = s.acked
        /\ t.userReset = s.userReset /\ t.buf = s.buf /\ t.got = s.got /\ t.wrote = s.wrote
    BY <1>2 DEF StreamRecord
  <2>3. Count(t) = Count(s) /\ s.wrote <= t.wrote
    BY SMTT(60), <2>2, RecordNumbers DEF Count
  <2> QED
    BY <1>1, <2>1, <2>2, <2>3 DEF Keeps, Ages, Sound
<1>4. Becomes(p, id, t)
  BY <1>1, <1>2 DEF Becomes, OpenTimeout
<1>5. Frame("rst", id) \in Frames /\ Joins(p, Frame("rst", id))
  <2>1. id \notin registry'[p]
    BY TypeFacts DEF OpenTimeout, RestType
  <2>2. RstInv(p, id)'
    BY SMTT(60), <1>3, <1>4, <2>1, OneRecord DEF RstInv, GivenUp
  <2> QED
    BY <2>2, FlagJoins
<1>6. net' \in NetType /\ Emits(p, Frame("rst", id)) /\ Quiet(Other(p))
  BY <1>5, SendStep DEF OpenTimeout
<1>7. Changes(p, id, s, t)
  BY <1>3, ChangeRule
<1>8. Updates(p, id, s, t, Frame("rst", id))
  BY <1>1, <1>3, <1>4, <1>5, <1>6, <1>7, BooksSame DEF Updates, OpenTimeout
<1> QED
  BY <1>8, UpdateRule

(* poll_read takes a payload out of the buffer.                            *)
LEMMA ReadStep ==
    ASSUME IInv, NEW p \in Peers, NEW id \in Ids, Read(p, id)
    PROVE  Summary
<1>1. PICK s \in StreamRecord, u \in StreamRecord :
          /\ s = st[p][id] /\ Sound(s) /\ (s.handle # "none" => s.made)
          /\ Paired(p, id, s, u)
  BY RecordIn
<1>2. s.handle = "open" /\ s.buf > 0
  BY <1>1 DEF Read, Holds
<1>3. s.got < MaxWrites
  <2>1. s.got + s.buf <= u.wrote /\ u.wrote <= MaxWrites /\ 0 < s.buf
    BY <1>1, <1>2, RecordNumbers DEF Paired, Count
  <2>2. s.got \in Nat /\ s.buf \in Nat /\ u.wrote \in Nat /\ MaxWrites \in Nat
    BY RecordNumbers, SessionAssumption
  <2> QED
    BY SMTT(60), <2>1, <2>2
<1>4. PICK t : t = Consumed(s)
  OBVIOUS
<1>5. /\ t.got = s.got + 1 /\ t.buf = s.buf - 1 /\ t.made = s.made /\ t.handle = s.handle
      /\ t.readOpen = s.readOpen /\ t.writeOpen = s.writeOpen /\ t.reset = s.reset
      /\ t.acked = s.acked /\ t.userReset = s.userReset /\ t.wrote = s.wrote
  BY <1>4 DEF Consumed, StreamRecord
<1>6. t \in StreamRecord
  <2>1. PICK n \in 0..MaxWrites, m \in 0..MaxWrites : n = s.buf - 1 /\ m = s.got + 1
    BY SMTT(60), <1>2, <1>3, RecordNumbers, SessionAssumption DEF StreamRecord
  <2>2. t = [s EXCEPT !.buf = n, !.got = m]
    BY <1>4, <2>1 DEF Consumed
  <2> QED
    BY <2>2 DEF StreamRecord
<1>7. Keeps(s, t, "none")
  <2>1. Count(t) = Count(s) /\ s.wrote <= t.wrote
    BY SMTT(60), <1>5, RecordNumbers DEF Count
  <2> QED
    BY <1>1, <1>2, <1>5, <2>1 DEF Keeps, Ages, Sound
<1>8. Becomes(p, id, t)
  BY <1>1, <1>4, <1>6 DEF Becomes, Read
<1>9. net' \in NetType /\ Quiet(p) /\ Quiet(Other(p)) /\ Nothing \in Frames
  BY TypeFacts, FrameFacts DEF Read, Quiet
<1>10. Changes(p, id, s, t)
  BY <1>7, ChangeRule
<1>11. Updates(p, id, s, t, Nothing)
  BY <1>1, <1>8, <1>9, <1>10, BooksSame DEF Updates, Read
<1> QED
  BY <1>11, UpdateRule

\* t is what local_fin makes of s, and perhaps the handle is dropped with it.
Finishes(s, t) == t = LocalFin(s) \/ t = [LocalFin(s) EXCEPT !.handle = "dropped"]

(* What local_fin makes of a record.                                       *)
LEMMA FinishedRecord ==
    ASSUME NEW s \in StreamRecord, Sound(s), s.made, s.handle = "open", NEW t, Finishes(s, t)
    PROVE  t \in StreamRecord /\ Keeps(s, t, "none") /\ (CanWrite(s) => ~t.writeOpen)
<1>1. PICK r : r = LocalFin(s)
  OBVIOUS
<1>2. r \in StreamRecord
  BY <1>1 DEF LocalFin, StreamRecord
<1>3. /\ r.made = s.made /\ r.handle = s.handle /\ r.readOpen = s.readOpen /\ r.reset = s.reset
      /\ r.acked = s.acked /\ r.userReset = s.userReset /\ r.wrote = s.wrote
      /\ r.got = s.got /\ r.buf = s.buf
      /\ r.writeOpen => s.writeOpen
      /\ CanWrite(s) => ~r.writeOpen
  BY <1>1 DEF LocalFin, CanWrite, StreamRecord
<1>4. /\ t \in StreamRecord
      /\ t.made = r.made /\ t.handle \in {"open", "dropped"} /\ t.readOpen = r.readOpen
      /\ t.reset = r.reset /\ t.acked = r.acked /\ t.userReset = r.userReset
      /\ t.wrote = r.wrote /\ t.got = r.got /\ t.buf = r.buf /\ t.writeOpen = r.writeOpen
  <2>1. CASE t = r
    BY <1>2, <1>3, <2>1
  <2>2. CASE t = [r EXCEPT !.handle = "dropped"]
    <3>1. t \in StreamRecord
      BY <1>2, <2>2 DEF StreamRecord
    <3> QED
      BY <1>2, <2>2, <3>1 DEF StreamRecord
  <2> QED
    BY <1>1, <2>1, <2>2 DEF Finishes
<1> QED
  BY SMTT(60), <1>3, <1>4, RecordNumbers DEF Keeps, Ages, Sound, Count

(* What local_fin does to a stream that is open.                           *)
LEMMA FinishStep ==
    ASSUME IInv, NEW p \in Peers, NEW id \in Ids, NEW s \in StreamRecord, NEW t \in StreamRecord,
           s = st[p][id], Sound(s), Keeps(s, t, "none"), s.handle = "open",
           CanWrite(s) => ~t.writeOpen,
           Becomes(p, id, t), net' = Sending(net, p, FinFrames(s, id))
    PROVE  /\ Changes(p, id, s, t) /\ net' \in NetType /\ Fin(id) \in Frames
           /\ Quiet(p) \/ (Emits(p, Fin(id)) /\ Joins(p, Fin(id)))
           /\ Quiet(Other(p))
<1>1. Changes(p, id, s, t)
  BY ChangeRule
<1>2. CanWrite(s) => Joins(p, Fin(id))
  <2>1. t.made /\ t.acked
    BY DEF Keeps, Ages, Sound
  <2>2. CanWrite(s) => FinInv(p, id)'
    BY SMTT(60), <2>1, OneRecord DEF FinInv
  <2> QED
    BY <2>2, FlagJoins
<1>3. Fin(id) \in Frames
  BY FlagJoins
<1>4. /\ net' \in NetType /\ Quiet(Other(p))
      /\ Quiet(p) \/ (CanWrite(s) /\ Emits(p, Fin(id)))
  BY <1>3, SendStep DEF FinFrames
<1> QED
  BY <1>1, <1>2, <1>3, <1>4

(* poll_shutdown closes the write half.                                    *)
LEMMA ShutdownStep ==
    ASSUME IInv, NEW p \in Peers, NEW id \in Ids, Shutdown(p, id)
    PROVE  Summary
<1>1. PICK s \in StreamRecord : s = st[p][id] /\ Sound(s) /\ (s.handle # "none" => s.made)
  BY SMTT(60), RecordIn
<1>2. PICK t : t = LocalFin(s)
  OBVIOUS
<1>3. s.handle = "open" /\ net' = Sending(net, p, FinFrames(s, id))
  BY <1>1 DEF Shutdown, Holds
<1>4. t \in StreamRecord /\ Keeps(s, t, "none") /\ (CanWrite(s) => ~t.writeOpen)
  BY <1>1, <1>2, <1>3, FinishedRecord DEF Finishes
<1>5. Becomes(p, id, t)
  BY <1>1, <1>2, <1>4 DEF Becomes, Shutdown
<1>6. Updates(p, id, s, t, Fin(id))
  BY <1>1, <1>3, <1>4, <1>5, FinishStep, BooksSame DEF Updates, Shutdown
<1> QED
  BY <1>6, UpdateRule

(* The drop of a Stream closes the write half and has the stream removed.  *)
LEMMA DropStep ==
    ASSUME IInv, NEW p \in Peers, NEW id \in Ids, Drop(p, id)
    PROVE  Summary
<1>1. PICK s \in StreamRecord : s = st[p][id] /\ Sound(s) /\ (s.handle # "none" => s.made)
  BY SMTT(60), RecordIn
<1>2. PICK t : t = [LocalFin(s) EXCEPT !.handle = "dropped"]
  OBVIOUS
<1>3. s.handle = "open" /\ net' = Sending(net, p, FinFrames(s, id))
  BY <1>1 DEF Drop, Holds
<1>4. t \in StreamRecord /\ Keeps(s, t, "none") /\ (CanWrite(s) => ~t.writeOpen)
  BY <1>1, <1>2, <1>3, FinishedRecord DEF Finishes
<1>5. t.handle = "dropped"
  BY <1>2 DEF LocalFin, StreamRecord
<1>6. Becomes(p, id, t)
  BY <1>1, <1>2, <1>4 DEF Becomes, Drop
<1>7. Updates(p, id, s, t, Fin(id))
  BY <1>1, <1>3, <1>4, <1>5, <1>6, FinishStep, BooksSame
  DEF Updates, Drop, DropUnregisters, ToCloser
<1> QED
  BY <1>7, UpdateRule

(* Stream::reset closes both halves and tells the peer.                    *)
LEMMA ResetStep ==
    ASSUME IInv, NEW p \in Peers, NEW id \in Ids, Reset(p, id)
    PROVE  Summary
<1>1. PICK s \in StreamRecord : s = st[p][id] /\ Sound(s) /\ (s.handle # "none" => s.made)
  BY SMTT(60), RecordIn
<1>2. PICK t \in StreamRecord : t = [LocalReset(s) EXCEPT !.userReset = TRUE]
  <2>1. MarkReset(s) \in StreamRecord
    BY DEF MarkReset, StreamRecord
  <2>2. LocalReset(s) \in StreamRecord
    BY <2>1 DEF LocalReset, StreamRecord
  <2> QED
    BY <2>2 DEF StreamRecord
<1>3. /\ t.reset /\ t.userReset /\ t.made = s.made /\ t.handle = s.handle /\ t.acked = s.acked
      /\ t.wrote = s.wrote /\ t.got = s.got /\ t.buf = s.buf
      /\ ~t.readOpen /\ ~t.writeOpen
  <2>1. CASE s.reset
    BY <1>1, <1>2, <2>1 DEF LocalReset, StreamRecord, Sound
  <2>2. CASE ~s.reset
    BY SMTT(60), <1>2, <2>2 DEF LocalReset, MarkReset, StreamRecord
  <2> QED
    BY <2>1, <2>2
<1>4. Keeps(s, t, "none")
  <2>1. s.handle = "open" /\ s.wrote \in Nat
    BY <1>1, RecordNumbers DEF Reset, Holds
  <2>2. Count(t) = Count(s) /\ s.wrote <= t.wrote
    BY SMTT(60), <1>3, RecordNumbers DEF Count
  <2> QED
    BY <1>1, <1>3, <2>1, <2>2 DEF Keeps, Ages, Sound
<1>5. Becomes(p, id, t)
  BY <1>1, <1>2 DEF Becomes, Reset
<1>6. Frame("rst", id) \in Frames /\ Joins(p, Frame("rst", id))
  <2>1. RstInv(p, id)'
    BY SMTT(60), <1>3, <1>5, OneRecord DEF RstInv, UserReset
  <2> QED
    BY <2>1, FlagJoins
<1>7. /\ net' \in NetType /\ Quiet(Other(p)) /\ (Quiet(p) \/ Emits(p, Frame("rst", id)))
  BY <1>6, SendStep DEF Reset, RstFrames
<1>8. closerq' = closerq \/ closerq' = [closerq EXCEPT ![p] = @ \cup {id}]
  BY DEF Reset, ToCloser
<1>9. Changes(p, id, s, t)
  BY <1>4, ChangeRule
<1>10. Updates(p, id, s, t, Frame("rst", id))
  BY <1>1, <1>3, <1>5, <1>6, <1>7, <1>8, <1>9, BooksSame DEF Updates, Reset
<1> QED
  BY <1>10, UpdateRule

(* The next payload goes behind the frames under way: there is no FIN of   *)
(* the stream among them, and the payloads have lower numbers.             *)
LEMMA PayloadJoins ==
    ASSUME IInv, NEW p \in Peers, NEW id \in Ids,
           NEW s \in StreamRecord, NEW u \in StreamRecord, NEW t \in StreamRecord,
           s = st[p][id], u = st[Other(p)][id], Sound(s), Count(u) <= s.wrote,
           s.handle = "open", s.writeOpen,
           Becomes(p, id, t), t.made, t.acked, t.wrote = s.wrote + 1
    PROVE  Joins(p, Payload(id, t.wrote))
<1>1. PICK n \in Nat : n = t.wrote
  BY RecordNumbers
<1>2. PICK f : f = Payload(id, n)
  OBVIOUS
<1>3. s.wrote \in Nat /\ Count(u) \in Nat /\ n = s.wrote + 1
  BY <1>1, RecordNumbers
<1>4. f.kind = "data" /\ f.id = id /\ f.n = n
  BY <1>2 DEF Payload
<1>5. FrameInv(p, f)'
  <2>1. st'[p][id] = t /\ st'[Other(p)][id] = u
    BY SMTT(60), OneRecord
  <2>2. PayloadInv(p, id, n)'
    <3>1. Count(u) < n /\ n <= n
      BY <1>3, Order
    <3> QED
      BY <1>1, <2>1, <3>1 DEF PayloadInv, Received
  <2> QED
    BY <1>4, <2>2 DEF FrameInv
<1>6. ASSUME NEW j \in 1..Len(net[p]) PROVE OrderInv(net[p][j], f)
  <2>1. PICK g \in Frames : g = net[p][j] /\ FrameInv(p, g)
    BY UnderWay
  <2>2. g.kind = "fin" => g.id # id
    BY <2>1 DEF FrameInv, FinInv
  <2>3. ASSUME g.kind = "data", g.id = id PROVE g.n < f.n
    <3>1. g.n <= s.wrote
      BY <2>1, <2>3 DEF FrameInv, PayloadInv
    <3>2. g.n \in Nat
      BY SMTT(60), <2>3, FrameParts, SessionAssumption
    <3>3. g.n < s.wrote + 1
      BY <1>3, <3>1, <3>2, Order
    <3> QED
      BY <1>3, <1>4, <3>3
  <2>4. OrderInv(g, f)
    BY <1>4, <2>2, <2>3 DEF OrderInv
  <2> QED
    BY <2>1, <2>4
<1>7. Joins(p, f)
  BY <1>4, <1>5, <1>6 DEF Joins
<1> QED
  BY <1>1, <1>2, <1>7

(* poll_write queues the next payload.                                     *)
LEMMA WriteStep ==
    ASSUME IInv, NEW p \in Peers, NEW id \in Ids, Write(p, id)
    PROVE  Summary
<1>1. PICK s \in StreamRecord, u \in StreamRecord :
          /\ s = st[p][id] /\ u = st[Other(p)][id] /\ Sound(s)
          /\ s.handle # "none" => s.made
  BY SMTT(60), RecordIn
<1>2. Count(u) <= s.wrote
  BY <1>1, PeerFacts DEF IInv, StreamInv, Paired
<1>3. s.handle = "open" /\ s.writeOpen /\ s.wrote < MaxWrites /\ s.wrote \in Nat
  BY <1>1, RecordNumbers DEF Write, Holds, CanWrite
<1>4. PICK n \in 1..MaxWrites : n = s.wrote + 1
  BY SMTT(60), <1>3, SessionAssumption
<1>5. /\ net' = Sending(net, p, <<Payload(id, n)>>)
      /\ st' = [st EXCEPT ![p][id] = Written(s, SendFails(p))]
      /\ UNCHANGED <<registry, acceptq, closerq, nextId, admitted, tasks>>
  BY <1>1, <1>4 DEF Write
<1>6. Payload(id, n) \in Frames
  BY FrameFacts
<1>7. net' \in NetType /\ Emits(p, Payload(id, n)) /\ Quiet(Other(p))
  BY <1>5, <1>6, SendStep
<1>8. CASE SendFails(p)
  <2>1. PICK t \in StreamRecord : t = [s EXCEPT !.writeOpen = FALSE]
    BY DEF StreamRecord
  <2>2. Keeps(s, t, "none")
    <3>1. /\ t.made = s.made /\ t.handle = s.handle /\ t.readOpen = s.readOpen /\ ~t.writeOpen
          /\ t.reset = s.reset /\ t.acked = s.acked /\ t.userReset = s.userReset
          /\ t.buf = s.buf /\ t.got = s.got /\ t.wrote = s.wrote
      BY <2>1 DEF StreamRecord
    <3>2. Count(t) = Count(s) /\ s.wrote <= t.wrote
      BY SMTT(60), <3>1, RecordNumbers DEF Count
    <3> QED
      BY <1>1, <1>3, <3>1, <3>2 DEF Keeps, Ages, Sound
  <2>3. Becomes(p, id, t)
    BY <1>5, <1>8, <2>1 DEF Becomes, Written
  <2>4. Quiet(p)
    BY <1>7, <1>8 DEF Emits, SendFails, Quiet
  <2>5. Changes(p, id, s, t)
    BY <2>2, ChangeRule
  <2>6. Updates(p, id, s, t, Payload(id, n))
    BY <1>1, <1>5, <1>6, <1>7, <2>3, <2>4, <2>5, BooksSame DEF Updates
  <2> QED
    BY <2>6, UpdateRule
<1>9. CASE ~SendFails(p)
  <2>1. PICK t \in StreamRecord : t = [s EXCEPT !.wrote = n]
    <3>1. n \in 0..MaxWrites
      BY SMTT(60), SessionAssumption
    <3> QED
      BY <3>1 DEF StreamRecord
  <2>2. Keeps(s, t, "wrote") /\ t.wrote = n
    <3>1. /\ t.made = s.made /\ t.handle = s.handle /\ t.readOpen = s.readOpen
          /\ t.writeOpen = s.writeOpen /\ t.reset = s.reset /\ t.acked = s.acked
          /\ t.userReset = s.userReset /\ t.buf = s.buf /\ t.got = s.got /\ t.wrote = n
      BY <2>1 DEF StreamRecord
    <3>2. Count(t) = Count(s) /\ s.wrote <= t.wrote
      BY SMTT(60), <1>3, <1>4, <3>1 DEF Count
    <3> QED
      BY <1>1, <1>3, <3>1, <3>2 DEF Keeps, Ages, Sound
  <2>3. Becomes(p, id, t)
    BY <1>4, <1>5, <1>9, <2>1 DEF Becomes, Written
  <2>4. Sent(p, id, s, t)
    BY <1>3, <1>4, <1>5, <1>7, <2>2 DEF Sent, tasks
  <2>5. t.made /\ t.acked
    BY <1>3, <2>2, <1>1 DEF Keeps, Ages, Sound
  <2>6. Joins(p, Payload(id, n))
    BY <1>1, <1>2, <1>3, <1>4, <2>2, <2>3, <2>5, PayloadJoins
  <2>7. Changes(p, id, s, t)
    BY <2>2, <2>4, ChangeRule
  <2>8. Updates(p, id, s, t, Payload(id, n))
    BY <1>1, <1>5, <1>6, <1>7, <2>3, <2>6, <2>7, BooksSame DEF Updates
  <2> QED
    BY <2>8, UpdateRule
<1> QED
  BY <1>8, <1>9

----------------------------------------------------------------------------
\* The reader task.

(* The reader task gets an ACK.                                            *)
LEMMA AckStep ==
    ASSUME IInv, NEW p \in Peers, DispatchAck(p)
    PROVE  Summary
<1>1. Arrived(p, "ack") /\ net' = Taken(p)
  BY DEF DispatchAck
<1>2. PICK id \in Ids : id = ArrivedId(p) /\ Head(net[Other(p)]) = Frame("ack", id)
  BY <1>1, ArrivedFor
<1>3. PICK s \in StreamRecord : s = st[p][id] /\ Sound(s) /\ s.made
  BY <1>2, RecordIn DEF DispatchAck
<1>4. PICK t \in StreamRecord : t = [s EXCEPT !.acked = TRUE]
  BY DEF StreamRecord
<1>5. Keeps(s, t, "acked")
  <2>1. /\ t.made = s.made /\ t.handle = s.handle /\ t.readOpen = s.readOpen
        /\ t.writeOpen = s.writeOpen /\ t.reset = s.reset /\ t.acked
        /\ t.userReset = s.userReset /\ t.buf = s.buf /\ t.got = s.got /\ t.wrote = s.wrote
    BY <1>4 DEF StreamRecord
  <2>2. Count(t) = Count(s) /\ s.wrote <= t.wrote
    BY SMTT(60), <2>1, RecordNumbers DEF Count
  <2> QED
    BY <1>3, <2>1, <2>2 DEF Keeps, Ages, Sound
<1>6. Becomes(p, id, t)
  BY <1>2, <1>3, <1>4 DEF Becomes, DispatchAck
<1>7. Nothing \in Frames
  BY FrameFacts
<1>8. net' \in NetType /\ From(p, Frame("ack", id)) /\ Quiet(p) /\ Dispatches(Other(p))
  BY <1>1, <1>2, <1>7, TakeStep
<1>9. Changes(p, id, s, t)
  BY <1>5, <1>8, ChangeRule
<1>10. Updates(p, id, s, t, Nothing)
  BY <1>3, <1>6, <1>7, <1>8, <1>9, BooksSame DEF Updates, DispatchAck
<1> QED
  BY <1>10, UpdateRule

(* The reader task gets a FIN.                                             *)
LEMMA FinStep ==
    ASSUME IInv, NEW p \in Peers, DispatchEnd(p, "fin")
    PROVE  Summary
<1>1. Arrived(p, "fin") /\ net' = Taken(p)
  BY DEF DispatchEnd
<1>2. PICK id \in Ids : id = ArrivedId(p) /\ Head(net[Other(p)]) = Frame("fin", id)
  BY <1>1, ArrivedFor
<1>3. PICK s \in StreamRecord : s = st[p][id] /\ Sound(s) /\ s.made /\ id \in registry[p]
  BY <1>2, RecordIn DEF DispatchEnd
<1>4. PICK t \in StreamRecord : t = [s EXCEPT !.readOpen = FALSE]
  BY DEF StreamRecord
<1>5. Keeps(s, t, "read")
  <2>1. /\ t.made = s.made /\ t.handle = s.handle /\ ~t.readOpen
        /\ t.writeOpen = s.writeOpen /\ t.reset = s.reset /\ t.acked = s.acked
        /\ t.userReset = s.userReset /\ t.buf = s.buf /\ t.got = s.got /\ t.wrote = s.wrote
    BY <1>4 DEF StreamRecord
  <2>2. Count(t) = Count(s) /\ s.wrote <= t.wrote
    BY SMTT(60), <2>1, RecordNumbers DEF Count
  <2> QED
    BY <1>3, <2>1, <2>2 DEF Keeps, Ages, Sound
<1>6. Becomes(p, id, t)
  BY <1>2, <1>3, <1>4 DEF Becomes, DispatchEnd
<1>7. Nothing \in Frames
  BY FrameFacts
<1>8. net' \in NetType /\ From(p, Frame("fin", id)) /\ Quiet(p) /\ Dispatches(Other(p))
  BY <1>1, <1>2, <1>7, TakeStep
<1>9. closerq' = closerq
  BY TypeFacts DEF DispatchEnd, Unregisters, RestType
<1>10. Changes(p, id, s, t)
  BY <1>3, <1>5, <1>8, ChangeRule
<1>11. Updates(p, id, s, t, Nothing)
  BY <1>3, <1>6, <1>7, <1>8, <1>9, <1>10, BooksSame DEF Updates, DispatchEnd
<1> QED
  BY <1>11, UpdateRule

(* The reader task gets an RST.                                            *)
LEMMA RstStep ==
    ASSUME IInv, NEW p \in Peers, DispatchEnd(p, "rst")
    PROVE  Summary
<1>1. Arrived(p, "rst") /\ net' = Taken(p)
  BY DEF DispatchEnd
<1>2. PICK id \in Ids : id = ArrivedId(p) /\ Head(net[Other(p)]) = Frame("rst", id)
  BY <1>1, ArrivedFor
<1>3. PICK s \in StreamRecord : s = st[p][id] /\ Sound(s) /\ s.made /\ id \in registry[p]
  BY <1>2, RecordIn DEF DispatchEnd
<1>4. PICK t \in StreamRecord : t = MarkReset(s)
  BY DEF StreamRecord, MarkReset
<1>5. Keeps(s, t, "reset") /\ t.reset
  <2>1. /\ t.made = s.made /\ t.handle = s.handle /\ ~t.readOpen /\ ~t.writeOpen /\ t.reset
        /\ t.acked = s.acked /\ t.userReset = s.userReset /\ t.buf = s.buf /\ t.got = s.got
        /\ t.wrote = s.wrote
    BY SMTT(60), <1>4 DEF StreamRecord, MarkReset
  <2>2. Count(t) = Count(s) /\ s.wrote <= t.wrote
    BY SMTT(60), <2>1, RecordNumbers DEF Count
  <2> QED
    BY <1>3, <2>1, <2>2 DEF Keeps, Ages, Sound
<1>6. Becomes(p, id, t)
  BY <1>2, <1>3, <1>4 DEF Becomes, DispatchEnd
<1>7. Nothing \in Frames
  BY FrameFacts
<1>8. net' \in NetType /\ From(p, Frame("rst", id)) /\ Quiet(p) /\ Dispatches(Other(p))
  BY <1>1, <1>2, <1>7, TakeStep
<1>9. closerq' = closerq \/ closerq' = [closerq EXCEPT ![p] = @ \cup {id}]
  BY <1>2 DEF DispatchEnd, Unregisters, ToCloser
<1>10. Changes(p, id, s, t)
  BY <1>3, <1>5, <1>8, ChangeRule
<1>11. Updates(p, id, s, t, Nothing)
  BY <1>3, <1>5, <1>6, <1>7, <1>8, <1>9, <1>10, BooksSame DEF Updates, DispatchEnd
<1> QED
  BY <1>11, UpdateRule

(* The reader task gets a payload, for a stream that takes it.             *)
LEMMA PushStep ==
    ASSUME IInv, NEW p \in Peers, DispatchData(p), CanRecv(st[p][ArrivedId(p)])
    PROVE  Summary
<1>1. Arrived(p, "data") /\ ArrivedId(p) \in registry[p] /\ net' = Taken(p)
  BY DEF DispatchData
<1>2. PICK f \in Frames : /\ f = Head(net[Other(p)]) /\ f.kind = "data" /\ f.id = ArrivedId(p)
                          /\ FrameInv(Other(p), f)
  BY <1>1, Arrival
<1>3. PICK id \in Ids, n \in 1..MaxWrites : id = f.id /\ n = f.n /\ PayloadInv(Other(p), id, n)
  BY <1>2, FrameParts DEF FrameInv
<1>4. PICK s \in StreamRecord : s = st[p][id] /\ Sound(s) /\ s.made
  <2>1. id \in registry[p]
    BY <1>1, <1>2, <1>3
  <2> QED
    BY <2>1, RecordIn
<1>5. Count(s) < n
  BY <1>3, <1>4, PeerFacts DEF PayloadInv, Received
<1>6. PICK m \in 0..MaxWrites : m = s.buf + 1
  BY SMTT(60), <1>5, RecordNumbers, SessionAssumption DEF Count
<1>7. PICK t \in StreamRecord : t = [s EXCEPT !.buf = m]
  BY DEF StreamRecord
<1>8. Keeps(s, t, "count") /\ Count(t) = Count(s) + 1
  <2>1. /\ t.made = s.made /\ t.handle = s.handle /\ t.readOpen = s.readOpen
        /\ t.writeOpen = s.writeOpen /\ t.reset = s.reset /\ t.acked = s.acked
        /\ t.userReset = s.userReset /\ t.buf = m /\ t.got = s.got /\ t.wrote = s.wrote
    BY <1>7 DEF StreamRecord
  <2>2. Count(t) = Count(s) + 1 /\ s.wrote <= t.wrote
    BY SMTT(60), <1>6, <2>1, RecordNumbers DEF Count
  <2> QED
    BY <1>4, <2>1, <2>2 DEF Keeps, Ages, Sound
<1>9. Becomes(p, id, t)
  <2>1. st' = [st EXCEPT ![p][id].buf = @ + 1]
    BY <1>2, <1>3 DEF DispatchData
  <2>2. [s EXCEPT !.buf = @ + 1] = t
    BY <1>6, <1>7
  <2>3. st' = [st EXCEPT ![p][id] = t]
    BY <1>4, <2>1, <2>2, Zenon
  <2> QED
    BY <2>3 DEF Becomes
<1>10. Nothing \in Frames
  BY FrameFacts
<1>11. net' \in NetType /\ From(p, f) /\ Quiet(p)
  BY <1>1, <1>2, <1>10, TakeStep
<1>12. Dispatches(Other(p))
  <2>1. Takes(Other(p)) /\ st'[p][id] = t
    BY SMTT(60), <1>9, <1>11, OneRecord DEF From
  <2> QED
    BY <1>2, <1>3, <1>4, <1>8, <2>1, PeerFacts DEF Dispatches
<1>13. Changes(p, id, s, t)
  <2>1. Pushed(p, id, s, t)
    BY <1>2, <1>3, <1>8, <1>11 DEF Pushed
  <2> QED
    BY <1>8, <2>1, ChangeRule
<1>14. UNCHANGED <<registry, acceptq, closerq, nextId, admitted, tasks>>
  BY DEF DispatchData, tasks
<1>15. Updates(p, id, s, t, Nothing)
  BY <1>4, <1>9, <1>10, <1>11, <1>12, <1>13, <1>14, BooksSame DEF Updates
<1> QED
  BY <1>15, UpdateRule

(* A step that changes nothing but the frames under way and the tasks.     *)
LEMMA StillRule ==
    ASSUME IInv, NEW p \in Peers, NEW f \in Frames, net' \in NetType,
           UNCHANGED <<registry, acceptq, closerq, nextId, admitted, st>>, Tasks,
           Quiet(p) \/ (Emits(p, f) /\ Joins(p, f)),
           Quiet(Other(p)) \/ Dispatches(Other(p)) \/ Stops(Other(p))
    PROVE  Summary
<1>1. st' \in StType /\ RestType'
  BY TypeFacts DEF RestType, Tasks
<1>2. Aging
  BY Unchanged DEF Aging
<1>3. Books
  BY BooksSame DEF Books
<1> QED
  BY <1>1, <1>2, <1>3, SumRule

(* A SYN arrives for a stream that its receiver does not have.             *)
LEMMA SynFor ==
    ASSUME IInv, NEW p \in Peers, Arrived(p, "syn")
    PROVE  \E id \in Ids :
               /\ id = ArrivedId(p) /\ Head(net[Other(p)]) = Frame("syn", id)
               /\ ~Owns(p, id) /\ ~st[p][id].made /\ st[Other(p)][id].made
               /\ id \notin registry[p]
<1>1. PICK id \in Ids : /\ id = ArrivedId(p) /\ Head(net[Other(p)]) = Frame("syn", id)
                        /\ FrameInv(Other(p), Frame("syn", id))
  BY ArrivedFor
<1>2. SynInv(Other(p), id)
  BY <1>1 DEF FrameInv, Frame
<1>3. ~Owns(p, id) /\ ~st[p][id].made /\ st[Other(p)][id].made
  BY <1>2, PeerFacts, IdFacts DEF SynInv
<1>4. id \notin registry[p]
  BY <1>3, RecordIn
<1> QED
  BY <1>1, <1>3, <1>4

(* The reader task refuses a SYN.                                          *)
LEMMA RefuseStep ==
    ASSUME IInv, NEW p \in Peers, DispatchSyn(p), Refuses(p)
    PROVE  Summary
<1>1. Arrived(p, "syn")
  BY DEF DispatchSyn
<1>2. PICK id \in Ids :
          /\ id = ArrivedId(p) /\ Head(net[Other(p)]) = Frame("syn", id)
          /\ ~Owns(p, id) /\ ~st[p][id].made /\ st[Other(p)][id].made /\ id \notin registry[p]
  BY <1>1, SynFor
<1>3. /\ net' = Sending(Taken(p), p, <<Frame("rst", id)>>)
      /\ UNCHANGED <<registry, acceptq, closerq, nextId, admitted, tasks, st>>
  BY <1>2 DEF DispatchSyn, tasks
<1>4. Frame("rst", id) \in Frames
  BY FrameFacts
<1>5. /\ net' \in NetType /\ Dispatches(Other(p))
      /\ Quiet(p) \/ Emits(p, Frame("rst", id))
  BY <1>1, <1>3, <1>4, TakeStep
<1>6. NoSyn(Other(p), id)'
  <2>1. PICK n \in Seq(Frames) : n = net[Other(p)] /\ n # <<>>
    BY <1>1, PeerFacts, TypeFacts DEF NetType, Arrived
  <2>2. PICK m : m = Tail(n) /\ m = net'[Other(p)]
    BY <1>5, <2>1 DEF Dispatches, Takes
  <2>3. \A i \in 1..Len(n), j \in 1..Len(n) : i < j => OrderInv(n[i], n[j])
    BY <2>1, PeerFacts DEF IInv, NetInv
  <2>4. n[1] = Frame("syn", id)
    BY SMTT(60), <1>2, <2>1
  <2>5. ASSUME NEW i \in 1..Len(m) PROVE m[i] # Frame("syn", id)
    <3>1. i + 1 \in 1..Len(n) /\ m[i] = n[i + 1] /\ 1 < i + 1 /\ 1 \in 1..Len(n)
      BY SMTT(60), <2>1, <2>2
    <3>2. OrderInv(n[1], n[i + 1])
      BY <2>3, <3>1
    <3> QED
      BY SMTT(60), <2>4, <3>1, <3>2 DEF OrderInv, Frame
  <2> QED
    BY <2>2, <2>5 DEF NoSyn
<1>7. RstInv(p, id)'
  BY <1>2, <1>3, <1>6 DEF RstInv, GivenUp
<1>8. Joins(p, Frame("rst", id))
  BY <1>7, FlagJoins
<1> QED
  BY <1>3, <1>4, <1>5, <1>8, StillRule, BooksSame

(* A frame of an established stream arrives at a side that does not have   *)
(* the stream registered: one of the sides has done with it, if no drain   *)
(* of a registry is behind it.                                             *)
LEMMA NotRegistered ==
    ASSUME IInv, NEW p \in Peers, NEW id \in Ids, Steady(p), id \notin registry[p],
           st[Other(p)][id].made, st[Other(p)][id].acked
    PROVE  \/ UserReset(id) \/ Left(Other(p), id)
           \/ st[p][id].handle \in {"failed", "dropped"}
<1>1. PICK s \in StreamRecord, u \in StreamRecord :
          /\ s = st[p][id] /\ u = st[Other(p)][id] /\ Sound(s) /\ Paired(p, id, s, u)
          /\ s.handle # "none" => s.made
  BY SMTT(60), RecordIn
<1>2. s.made
  <2>1. Paired(Other(p), id, u, s)
    BY <1>1, PeerFacts DEF IInv, StreamInv
  <2>2. u.made /\ u.acked
    BY <1>1
  <2>3. Owns(Other(p), id) \/ ~Owns(Other(p), id)
    OBVIOUS
  <2>4. s.made \/ s.handle \in {"open", "dropped"}
    BY <2>1, <2>2, <2>3 DEF Paired
  <2> QED
    BY <1>1, <2>4
<1>3. CASE s.handle \in {"opening", "queued", "open"}
  <2>1. s.reset
    BY <1>1, <1>3 DEF IInv, LiveHandleRegistered, Steady
  <2>2. Ended(p, id, s, u)
    BY <1>1 DEF IInv, EndInv
  <2>3. UserReset(id) \/ GivenUp(Other(p), id)
    BY <2>1, <2>2 DEF Ended
  <2> QED
    BY <2>3 DEF GivenUp, Left
<1>4. CASE s.handle \in {"failed", "dropped"}
  BY <1>1, <1>4
<1>5. s.handle \in {"none", "opening", "queued", "open", "failed", "dropped"} /\ s.handle # "none"
  BY <1>1, <1>2 DEF Sound, StreamRecord
<1> QED
  BY <1>3, <1>4, <1>5

(* An RST for a stream that a drain has removed: the other side has        *)
(* drained its registry too, or gets p's GoAway first.                     *)
LEMMA LateJoins ==
    ASSUME IInv, NEW p \in Peers, NEW id \in Ids, ~Steady(p), net' \in NetType,
           Emits(p, Frame("rst", id)), \A x \in Peers : Drained(x) => Drained(x)',
           reader'[Other(p)] = reader[Other(p)]
    PROVE  Quiet(p) \/ Joins(p, Frame("rst", id))
<1>1. PICK q \in Peers : q = Other(p)
  BY PeerFacts
<1>2. PICK n \in Seq(Frames), m \in Seq(Frames) : n = net[p] /\ m = net'[p]
  BY TypeFacts DEF NetType
<1>3. PICK f : f = Frame("rst", id) /\ f.kind = "rst"
  <2>1. Frame("rst", id).kind = "rst"
    BY DEF Frame
  <2> QED
    BY <2>1
<1>4. Quiet(p) \/ (writer[p] = "running" /\ m = Append(n, f))
  BY <1>2, <1>3 DEF Emits, Quiet
<1>5. ASSUME writer[p] = "running", m = Append(n, f), reader'[q] = "reading", ~Drained(q)'
      PROVE  \E k \in 1..Len(m) : k < Len(m) /\ m[k].kind = "goaway"
  <2>1. Drained(p) /\ reader[q] = "reading"
    BY <1>1, <1>5 DEF Steady
  <2>2. Told(p)
    BY <2>1 DEF Drained, Told
  <2>3. PICK k \in 1..Len(n) : n[k].kind = "goaway"
    BY <1>1, <1>2, <1>5, <2>1, <2>2 DEF IInv, GoAwayInv
  <2>4. k \in 1..Len(m) /\ k < Len(m) /\ m[k] = n[k]
    BY SMTT(60), <1>5
  <2> QED
    BY <2>3, <2>4
<1>6. ASSUME writer[p] = "running", m = Append(n, f) PROVE ~Early(p, Len(net[p]))'
  <2>1. Drained(q)' \/ Drained(p)'
    BY <1>1 DEF Steady
  <2> QED
    BY <1>1, <1>2, <1>5, <1>6, <2>1 DEF Early
<1>7. ASSUME ~Early(p, Len(net[p]))' PROVE Joins(p, f)
  BY <1>3, <1>7 DEF Joins, FrameInv, OrderInv
<1> QED
  BY <1>3, <1>4, <1>6, <1>7

(* The reader task gets a frame for a stream that is not registered.       *)
LEMMA UnknownStep ==
    ASSUME IInv, NEW p \in Peers, NEW kind \in {"ack", "data", "fin", "rst"},
           DispatchUnknown(p, kind)
    PROVE  Summary
<1>1. /\ Arrived(p, kind) /\ ArrivedId(p) \notin registry[p]
      /\ UNCHANGED <<registry, acceptq, closerq, nextId, admitted, tasks, st>>
  BY DEF DispatchUnknown
<1>2. PICK f \in Frames : /\ f.kind = kind /\ f.id = ArrivedId(p)
                          /\ FrameInv(Other(p), f)
  BY <1>1, Arrival
<1>3. PICK id \in Ids : id = f.id
  BY <1>2, FrameParts
<1>4. \/ net' = Taken(p)
      \/ kind \in {"data", "fin"} /\ net' = Sending(Taken(p), p, <<Frame("rst", id)>>)
  BY <1>2, <1>3 DEF DispatchUnknown, IgnoredIfUnknown
<1>5. Frame("rst", id) \in Frames
  BY FrameFacts
<1>6. /\ net' \in NetType /\ Dispatches(Other(p))
      /\ Quiet(p) \/ Emits(p, Frame("rst", id))
      /\ net' = Taken(p) => Quiet(p)
  BY <1>1, <1>4, <1>5, TakeStep
<1>7. Tasks
  BY <1>1, BooksSame
<1>8. CASE kind \in {"data", "fin"} /\ Steady(p)
  <2>1. st[Other(p)][id].made /\ st[Other(p)][id].acked
    BY <1>2, <1>3, <1>8 DEF FrameInv, PayloadInv, FinInv
  <2>2. \/ UserReset(id) \/ Left(Other(p), id)
        \/ st[p][id].handle \in {"failed", "dropped"}
    BY <1>1, <1>2, <1>3, <1>8, <2>1, NotRegistered
  <2>3. RstInv(p, id)'
    BY <1>1, <1>2, <1>3, <2>2 DEF RstInv, UserReset, GivenUp, Left
  <2>4. Joins(p, Frame("rst", id))
    BY <2>3, FlagJoins
  <2> QED
    BY <1>1, <1>5, <1>6, <1>7, <2>4, StillRule
<1>9. CASE ~Steady(p)
  <2>1. /\ \A x \in Peers : Drained(x) => Drained(x)'
        /\ reader'[Other(p)] = reader[Other(p)]
    BY <1>1 DEF tasks, Drained
  <2>2. Quiet(p) \/ (Emits(p, Frame("rst", id)) /\ Joins(p, Frame("rst", id)))
    BY <1>6, <1>9, <2>1, LateJoins
  <2> QED
    BY <1>1, <1>5, <1>6, <1>7, <2>2, StillRule
<1>10. CASE kind \in {"ack", "rst"}
  BY <1>1, <1>4, <1>5, <1>6, <1>7, <1>10, StillRule
<1> QED
  BY <1>8, <1>9, <1>10

(* A record that is made.                                                  *)
LEMMA NewRecord ==
    ASSUME NEW o \in {"opening", "failed", "queued"}
    PROVE  \E t \in StreamRecord :
               /\ t = New(o) /\ t.made /\ t.handle = o /\ (t.acked <=> o = "queued")
               /\ Sound(t) /\ ~t.reset /\ t.readOpen /\ Count(t) = 0 /\ t.wrote = 0
               /\ \A p \in Peers, id \in Ids :
                      Opened(p, id, t) \/ Admitted(p, id, t) => Changes(p, id, Absent, t)
<1>1. Absent \in StreamRecord
  BY SMTT(60), SessionAssumption DEF Absent, StreamRecord
<1>2. PICK b \in BOOLEAN : b = Acked(o)
  BY DEF Acked
<1>3. PICK t \in StreamRecord : t = [Absent EXCEPT !.made = TRUE, !.handle = o, !.acked = b]
  BY <1>1 DEF StreamRecord
<1>4. t = New(o)
  BY <1>2, <1>3 DEF New
<1>5. /\ t.made /\ t.handle = o /\ t.acked = b /\ ~t.reset /\ t.readOpen /\ t.writeOpen
      /\ ~t.userReset /\ t.buf = 0 /\ t.got = 0 /\ t.wrote = 0
  BY <1>3 DEF Absent
<1>6. b <=> o = "queued"
  BY <1>2 DEF Acked
<1>7. Sound(t) /\ Count(t) = 0
  BY SMTT(60), <1>5, <1>6 DEF Sound, Count
<1>8. /\ ~Absent.made /\ Absent.handle = "none" /\ ~Absent.reset /\ ~Absent.acked
      /\ Absent.readOpen /\ Absent.writeOpen /\ ~Absent.userReset /\ Count(Absent) = 0
      /\ Absent.wrote = 0
  BY SMTT(60) DEF Absent, Count
<1>9. Ages(Absent, t)
  BY SMTT(60), <1>5, <1>8 DEF Ages
<1>10. ASSUME NEW p \in Peers, NEW id \in Ids, Opened(p, id, t) \/ Admitted(p, id, t)
       PROVE  Changes(p, id, Absent, t)
  BY <1>5, <1>6, <1>7, <1>8, <1>9, <1>10 DEF Changes
<1> QED
  BY <1>4, <1>5, <1>6, <1>7, <1>10

(* The reader task makes a stream for a SYN.                               *)
LEMMA AdmitStep ==
    ASSUME IInv, NEW p \in Peers, DispatchSyn(p), ~Refuses(p)
    PROVE  Summary
<1>1. Arrived(p, "syn")
  BY DEF DispatchSyn
<1>2. PICK id \in Ids :
          /\ id = ArrivedId(p) /\ Head(net[Other(p)]) = Frame("syn", id)
          /\ ~Owns(p, id) /\ ~st[p][id].made /\ id \notin registry[p]
  BY <1>1, SynFor
<1>3. PICK t \in StreamRecord :
          /\ t = New("queued") /\ t.made /\ t.handle = "queued"
          /\ Admitted(p, id, t) => Changes(p, id, Absent, t)
  BY NewRecord
<1>4. /\ net' = Taken(p) /\ registry' = [registry EXCEPT ![p] = @ \cup {id}]
      /\ acceptq' = [acceptq EXCEPT ![p] = Append(@, id)]
      /\ UNCHANGED <<closerq, nextId, admitted, tasks>>
  BY <1>2 DEF DispatchSyn, tasks
<1>5. Becomes(p, id, t)
  BY <1>2, <1>3 DEF DispatchSyn, Becomes
<1>6. st' \in StType /\ st'[p][id] = t
  BY SMTT(60), <1>5, OneRecord
<1>7. Nothing \in Frames
  BY FrameFacts
<1>8. net' \in NetType /\ From(p, Frame("syn", id)) /\ Quiet(p) /\ Dispatches(Other(p))
  BY <1>1, <1>2, <1>4, <1>7, TakeStep
<1>9. registry' \in [Peers -> SUBSET Ids] /\ id \in registry'[p] /\ Registers /\ Leaves
  BY <1>2, <1>3, <1>4, <1>6, TypeFacts DEF RestType, Registers, Leaves
<1>10. Aging
  <2>1. Admitted(p, id, t)
    BY <1>3, <1>8, <1>9 DEF Admitted
  <2>2. st[p][id] = Absent
    BY SMTT(60), <1>2, RecordIn
  <2> QED
    BY <1>3, <1>5, <2>1, <2>2, OneChanges
<1>11. RestType' /\ Books
  <2>1. Append(acceptq[p], id) \in Seq(Ids)
    BY SMTT(60), TypeFacts DEF RestType
  <2>2. acceptq' \in [Peers -> Seq(Ids)] /\ acceptq'[p] = Append(acceptq[p], id)
    BY <1>4, <2>1, TypeFacts DEF RestType
  <2>3. \A x \in Peers : x # p => acceptq'[x] = acceptq[x]
    BY <1>4, TypeFacts DEF RestType
  <2>4. Accepts
    BY <1>2, <1>3, <1>6, <2>2, <2>3 DEF Accepts
  <2> QED
    BY <1>4, <1>9, <2>2, <2>4, TypeFacts, BooksSame DEF RestType, Books, Tasks
<1> QED
  BY <1>6, <1>7, <1>8, <1>10, <1>11, SumRule

----------------------------------------------------------------------------
\* Session::open and Session::accept.

(* The first half of Session::open, which checks the limit.                *)
LEMMA OpenCheckStep ==
    ASSUME IInv, NEW p \in Peers, OpenCheck(p)
    PROVE  Summary
<1>1. /\ nextId[p] + 2 * admitted[p] \in Ids
      /\ admitted' = [admitted EXCEPT ![p] = @ + 1]
      /\ UNCHANGED <<net, registry, acceptq, closerq, nextId, tasks, st>>
  BY DEF OpenCheck
<1>2. net' \in NetType /\ Quiet(p) /\ Quiet(Other(p)) /\ Nothing \in Frames
  BY <1>1, TypeFacts, FrameFacts DEF Quiet
<1>3. st' \in StType /\ RestType' /\ Tasks
  <2>1. admitted' \in [Peers -> Nat]
    BY SMTT(60), <1>1, TypeFacts DEF RestType
  <2>2. Tasks
    BY <1>1, BooksSame
  <2> QED
    BY <1>1, <2>1, <2>2, TypeFacts DEF RestType, Tasks
<1>4. Aging
  BY <1>1, Unchanged DEF Aging
<1>5. Numbers
  <2>1. PICK k \in 0..Opens(p) : nextId[p] = FirstId(p) + 2 * k /\ k + admitted[p] <= Opens(p)
    BY DEF IInv, IdInv
  <2>2. admitted[p] \in Nat /\ k \in Nat /\ Opens(p) \in Nat /\ FirstId(p) \in Nat
    BY SMTT(60), TypeFacts, IdFacts DEF RestType
  <2>3. /\ nextId[p] + 2 * admitted[p] = FirstId(p) + 2 * (k + admitted[p])
        /\ k + admitted[p] \in Nat
    BY SMTT(60), <2>1, <2>2
  <2>4. k + admitted[p] < Opens(p)
    BY <1>1, <2>3, IdFacts
  <2>5. admitted'[p] = admitted[p] + 1 /\ \A x \in Peers : x # p => admitted'[x] = admitted[x]
    BY <1>1, TypeFacts DEF RestType
  <2>6. k + admitted'[p] <= Opens(p)
    BY SMTT(60), <2>2, <2>4, <2>5
  <2>7. IdInv'
    BY <1>1, <2>1, <2>5, <2>6 DEF IInv, IdInv
  <2> QED
    BY SMTT(60), <1>1, <2>7, TypeFacts DEF Numbers, RestType
<1>6. Books
  BY <1>1, <1>3, <1>5, BooksSame DEF Books
<1> QED
  BY <1>2, <1>3, <1>4, <1>6, SumRule

(* The id of a call of Session::open past the checks is new.               *)
LEMMA NextIsNew ==
    ASSUME IInv, NEW p \in Peers, admitted[p] > 0
    PROVE  \E id \in Ids :
               /\ id = nextId[p] /\ id \in Nat /\ Owns(p, id)
               /\ st[p][id] = Absent /\ ~st[p][id].made /\ ~st[Other(p)][id].made
<1>1. PICK k \in 0..Opens(p) : nextId[p] = FirstId(p) + 2 * k /\ k + admitted[p] <= Opens(p)
  BY DEF IInv, IdInv
<1>2. admitted[p] \in Nat /\ Opens(p) \in Nat
  BY TypeFacts, IdFacts DEF RestType
<1>3. k \in 0..(Opens(p) - 1)
  BY SMTT(60), <1>1, <1>2
<1>4. PICK id \in Ids : id = nextId[p] /\ Owns(p, id) /\ id \in Nat
  BY <1>1, <1>3, IdFacts
<1>5. PICK s \in StreamRecord, u \in StreamRecord :
          /\ s = st[p][id] /\ u = st[Other(p)][id] /\ Paired(p, id, s, u)
          /\ ~s.made => s = Absent
  BY RecordIn
<1>6. ~s.made
  <2>1. id >= nextId[p]
    BY SMTT(60), <1>4
  <2> QED
    BY <1>4, <1>5, <2>1 DEF Paired
<1>7. Paired(Other(p), id, u, s)
  BY <1>5, PeerFacts DEF IInv, StreamInv
<1>8. ~Owns(Other(p), id)
  BY <1>4, IdFacts
<1>9. ~u.made
  BY <1>6, <1>7, <1>8 DEF Paired
<1> QED
  BY <1>4, <1>5, <1>6, <1>9

(* Session::open registers a stream under a new id.                        *)
LEMMA OpenRegisterStep ==
    ASSUME IInv, NEW p \in Peers, OpenRegister(p)
    PROVE  Summary
<1>1. admitted[p] > 0
  BY DEF OpenRegister
<1>2. PICK id \in Ids : /\ id = nextId[p] /\ id \in Nat /\ Owns(p, id)
                        /\ st[p][id] = Absent /\ ~st[p][id].made /\ ~st[Other(p)][id].made
  BY <1>1, NextIsNew
<1>3. PICK o \in {"opening", "failed"} : o = IF SendFails(p) THEN "failed" ELSE "opening"
  OBVIOUS
<1>4. PICK t \in StreamRecord :
          /\ t = New(o) /\ t.made /\ t.handle = o /\ ~t.acked
          /\ Opened(p, id, t) => Changes(p, id, Absent, t)
  BY NewRecord
<1>5. /\ net' = Sending(net, p, <<Frame("syn", id)>>)
      /\ registry' = [registry EXCEPT ![p] = IF o = "failed" THEN @ ELSE @ \cup {id}]
      /\ nextId' = [nextId EXCEPT ![p] = @ + 2]
      /\ admitted' = [admitted EXCEPT ![p] = @ - 1]
      /\ UNCHANGED <<acceptq, closerq, tasks>>
  BY <1>2, <1>3 DEF OpenRegister, IdStep
<1>6. Becomes(p, id, t)
  BY <1>2, <1>3, <1>4 DEF OpenRegister, Becomes
<1>7. /\ st' \in StType /\ st'[p][id] = t
      /\ st'[Other(p)][id] = st[Other(p)][id]
  BY SMTT(60), <1>6, OneRecord
<1>8. Frame("syn", id) \in Frames /\ Frame("syn", id).kind = "syn" /\ Frame("syn", id).id = id
  BY FrameFacts DEF Frame
<1>9. net' \in NetType /\ Emits(p, Frame("syn", id)) /\ Quiet(Other(p))
  BY <1>5, <1>8, SendStep
<1>10. Joins(p, Frame("syn", id))
  <2>1. FrameInv(p, Frame("syn", id))'
    BY <1>2, <1>4, <1>7, <1>8 DEF FrameInv, SynInv
  <2>2. ASSUME NEW j \in 1..Len(net[p]) PROVE OrderInv(net[p][j], Frame("syn", id))
    <3>1. PICK g \in Frames : g = net[p][j] /\ FrameInv(p, g)
      BY UnderWay
    <3>2. g.kind = "syn" => g.id # id
      BY <1>2, <3>1 DEF FrameInv, SynInv
    <3>3. OrderInv(g, Frame("syn", id))
      BY <1>8, <3>2 DEF OrderInv
    <3> QED
      BY <3>1, <3>3
  <2> QED
    BY <1>2, <1>8, <2>1, <2>2 DEF Joins
<1>11. registry' \in [Peers -> SUBSET Ids] /\ Registers /\ Leaves
  BY <1>2, <1>4, <1>5, <1>7, TypeFacts DEF RestType, Registers, Leaves
<1>12. /\ nextId' \in [Peers -> Nat] /\ admitted' \in [Peers -> Nat]
       /\ nextId'[p] = id + 2 /\ admitted'[p] = admitted[p] - 1
       /\ \A x \in Peers : x # p => admitted'[x] = admitted[x] /\ nextId'[x] = nextId[x]
  <2>1. id + 2 \in Nat /\ admitted[p] \in Nat /\ admitted[p] - 1 \in Nat
    BY SMTT(60), <1>1, <1>2, TypeFacts DEF RestType
  <2> QED
    BY <1>2, <1>5, <2>1, TypeFacts DEF RestType
<1>13. Aging
  <2>1. id < nextId'[p]
    BY SMTT(60), <1>2, <1>12
  <2>2. id \in registry'[p] \/ o = "failed"
    BY <1>5, TypeFacts DEF RestType
  <2>3. Opened(p, id, t)
    BY <1>2, <1>4, <2>1, <2>2 DEF Opened
  <2>4. Changes(p, id, Absent, t)
    BY <1>4, <2>3
  <2> QED
    BY <1>2, <1>6, <2>4, OneChanges
<1>14. Numbers
  <2>1. PICK k \in 0..Opens(p) : nextId[p] = FirstId(p) + 2 * k /\ k + admitted[p] <= Opens(p)
    BY DEF IInv, IdInv
  <2>2. /\ admitted[p] \in Nat /\ k \in Nat /\ Opens(p) \in Nat /\ FirstId(p) \in Nat
        /\ \A x \in Peers : nextId[x] \in Nat
    BY SMTT(60), TypeFacts, IdFacts DEF RestType
  <2>3. PICK a \in Nat, n \in Nat, first \in Nat :
            a = admitted[p] /\ n = Opens(p) /\ first = FirstId(p) /\ a > 0 /\ k + a <= n
    BY <1>1, <2>1, <2>2
  <2>4. /\ k + 1 \in 0..n /\ (k + 1) + (a - 1) <= n
        /\ (first + 2 * k) + 2 = first + 2 * (k + 1)
    BY SMTT(60), <2>3
  <2>5. IdInv'
    <3>1. /\ nextId'[p] = FirstId(p) + 2 * (k + 1) /\ k + 1 \in 0..Opens(p)
          /\ (k + 1) + admitted'[p] <= Opens(p)
      BY <1>2, <1>12, <2>1, <2>3, <2>4
    <3> QED
      BY <1>12, <3>1 DEF IInv, IdInv
  <2>6. ASSUME NEW x \in Peers PROVE nextId[x] <= nextId'[x]
    BY SMTT(60), <1>2, <1>12, <2>2
  <2> QED
    BY <2>5, <2>6 DEF Numbers
<1>15. RestType' /\ Books
  BY <1>5, <1>11, <1>12, <1>14, TypeFacts, BooksSame DEF RestType, Books, Tasks
<1> QED
  BY <1>7, <1>8, <1>9, <1>10, <1>13, <1>15, SumRule

(* Session::accept takes the first stream of the queue.                    *)
LEMMA AcceptStep ==
    ASSUME IInv, NEW p \in Peers, Accept(p)
    PROVE  Summary
<1>1. acceptq[p] \in Seq(Ids) /\ acceptq[p] # <<>>
  BY TypeFacts DEF RestType, Accept
<1>2. PICK id \in Ids : id = Head(acceptq[p]) /\ st[p][id].handle = "queued"
  <2>1. Head(acceptq[p]) = acceptq[p][1] /\ 1 \in 1..Len(acceptq[p]) /\ Head(acceptq[p]) \in Ids
    BY SMTT(60), <1>1
  <2> QED
    BY <2>1 DEF IInv, AcceptInv
<1>3. PICK s \in StreamRecord, u \in StreamRecord :
          /\ s = st[p][id] /\ Sound(s) /\ Paired(p, id, s, u) /\ (s.handle # "none" => s.made)
  BY RecordIn
<1>4. s.handle = "queued" /\ ~Owns(p, id)
  BY <1>2, <1>3 DEF Paired
<1>5. PICK h \in {"open", "failed"}, t \in StreamRecord :
          h = (IF SendFails(p) THEN "failed" ELSE "open") /\ t = [s EXCEPT !.handle = h]
  BY DEF StreamRecord
<1>6. Keeps(s, t, "queue") /\ t.handle = h
  <2>1. /\ t.made = s.made /\ t.handle = h /\ t.readOpen = s.readOpen
        /\ t.writeOpen = s.writeOpen /\ t.reset = s.reset /\ t.acked = s.acked
        /\ t.userReset = s.userReset /\ t.buf = s.buf /\ t.got = s.got /\ t.wrote = s.wrote
    BY <1>5 DEF StreamRecord
  <2>2. Count(t) = Count(s) /\ s.wrote <= t.wrote
    BY SMTT(60), <2>1, RecordNumbers DEF Count
  <2> QED
    BY <1>3, <1>4, <2>1, <2>2 DEF Keeps, Ages, Sound
<1>7. /\ net' = Sending(net, p, <<Frame("ack", id)>>)
      /\ acceptq' = [acceptq EXCEPT ![p] = Tail(@)]
      /\ UNCHANGED <<registry, closerq, nextId, admitted, tasks>>
  BY <1>2 DEF Accept
<1>8. Becomes(p, id, t)
  BY <1>2, <1>3, <1>5 DEF Becomes, Accept
<1>9. st' \in StType /\ st'[p][id] = t
  BY SMTT(60), <1>8, OneRecord
<1>10. Frame("ack", id) \in Frames /\ (h = "open" => Joins(p, Frame("ack", id)))
  <2>1. h = "open" => AckInv(p, id)'
    BY <1>4, <1>6, <1>9 DEF AckInv
  <2> QED
    BY <2>1, FlagJoins
<1>11. /\ net' \in NetType /\ Quiet(Other(p))
       /\ Quiet(p) \/ (Emits(p, Frame("ack", id)) /\ Joins(p, Frame("ack", id)))
  <2>1. net' \in NetType /\ Emits(p, Frame("ack", id)) /\ Quiet(Other(p))
    BY <1>7, <1>10, SendStep
  <2>2. h = "failed" => Quiet(p)
    BY <1>5, <2>1 DEF Emits, SendFails, Quiet
  <2> QED
    BY <1>5, <1>10, <2>1, <2>2
<1>12. /\ acceptq' \in [Peers -> Seq(Ids)] /\ acceptq'[p] = Tail(acceptq[p])
       /\ \A x \in Peers : x # p => acceptq'[x] = acceptq[x]
  <2>1. Tail(acceptq[p]) \in Seq(Ids)
    BY SMTT(60), <1>1
  <2> QED
    BY <1>7, <2>1, TypeFacts DEF RestType
<1>13. Aging
  <2>1. Served(p, id)
    BY <1>1, <1>2, <1>12 DEF Served
  <2>2. Changes(p, id, s, t)
    BY <1>6, <2>1, ChangeRule
  <2> QED
    BY <1>3, <1>8, <2>2, OneChanges
<1>14. RestType' /\ Books
  <2>1. Accepts
    BY <1>1, <1>12 DEF Accepts
  <2> QED
    BY <1>7, <1>12, <2>1, TypeFacts, BooksSame DEF RestType, Books, Tasks
<1> QED
  BY <1>9, <1>10, <1>11, <1>13, <1>14, SumRule

----------------------------------------------------------------------------
\* The tasks, the transport, and the end of a session.

(* The writer task goes on to another state.                               *)
LEMMA WriterTasks ==
    ASSUME IInv, NEW p \in Peers, NEW w \in {"broken", "drained", "gone"},
           writer' = [writer EXCEPT ![p] = w], UNCHANGED <<shut, stage, reader>>
    PROVE  Tasks /\ writer'[p] = w
<1>1. TaskType
  BY TypeFacts DEF RestType
<1>2. TaskType' /\ Writers /\ writer'[p] = w
  BY <1>1 DEF TaskType, Writers
<1>3. StageInv'
  BY DEF IInv, StageInv
<1>4. Shuts /\ Stages
  BY DEF Shuts, Stages, Drained, Told
<1> QED
  BY <1>2, <1>3, <1>4 DEF Tasks

(* The writer task drains its queue and closes the transport.              *)
LEMMA WriterDrainStep ==
    ASSUME IInv, NEW p \in Peers, WriterDrain(p)
    PROVE  Summary
<1>1. /\ net' = Sending(net, p, <<[kind |-> "eof"]>>)
      /\ writer' = [writer EXCEPT ![p] = "drained"]
      /\ UNCHANGED <<registry, acceptq, closerq, nextId, admitted, shut, stage, reader, st>>
  BY DEF WriterDrain
<1>2. [kind |-> "eof"] \in Frames /\ Joins(p, [kind |-> "eof"])
  BY IdleJoins
<1>3. net' \in NetType /\ Emits(p, [kind |-> "eof"]) /\ Quiet(Other(p))
  BY <1>1, <1>2, SendStep
<1>4. Tasks
  BY <1>1, WriterTasks
<1> QED
  BY <1>1, <1>2, <1>3, <1>4, StillRule

(* The writer task ends.                                                   *)
LEMMA WriterExitStep ==
    ASSUME IInv, NEW p \in Peers, WriterExit(p)
    PROVE  Summary
<1>1. /\ writer' = [writer EXCEPT ![p] = "gone"]
      /\ UNCHANGED <<net, registry, acceptq, closerq, nextId, admitted, shut, stage, reader, st>>
  BY DEF WriterExit
<1>2. net' \in NetType /\ Quiet(p) /\ Quiet(Other(p)) /\ Nothing \in Frames
  BY <1>1, TypeFacts, FrameFacts DEF Quiet
<1>3. Tasks
  BY <1>1, WriterTasks
<1> QED
  BY <1>1, <1>2, <1>3, StillRule

(* The closer task removes a stream.                                       *)
LEMMA CloserTaskStep ==
    ASSUME IInv, NEW p \in Peers, NEW id \in Ids, CloserTask(p, id)
    PROVE  Summary
<1>1. /\ id \in closerq[p]
      /\ closerq' = [closerq EXCEPT ![p] = @ \ {id}]
      /\ registry' = [registry EXCEPT ![p] = @ \ {id}]
      /\ UNCHANGED <<net, acceptq, nextId, admitted, tasks, st>>
  BY DEF CloserTask
<1>2. net' \in NetType /\ Quiet(p) /\ Quiet(Other(p)) /\ Nothing \in Frames
  BY <1>1, TypeFacts, FrameFacts DEF Quiet
<1>3. registry' \in [Peers -> SUBSET Ids] /\ Registers /\ Leaves
  BY <1>1, TypeFacts DEF RestType, Registers, Leaves
<1>4. closerq' \in [Peers -> SUBSET Ids] /\ Queues
  BY <1>1, TypeFacts DEF RestType, Queues
<1>5. st' \in StType /\ Aging
  BY <1>1, TypeFacts, Unchanged DEF Aging
<1>6. RestType' /\ Books
  BY <1>1, <1>3, <1>4, TypeFacts, BooksSame DEF RestType, Books, Tasks
<1> QED
  BY <1>2, <1>5, <1>6, SumRule

(* Nothing happens.                                                        *)
LEMMA StutterStep ==
    ASSUME IInv, UNCHANGED vars
    PROVE  Summary
<1>1. "client" \in Peers /\ Nothing \in Frames
  BY FrameFacts DEF Peers
<1>2. /\ net' \in NetType /\ Quiet("client") /\ Quiet(Other("client"))
      /\ UNCHANGED <<registry, acceptq, closerq, nextId, admitted, tasks, st>>
  BY TypeFacts DEF vars, Quiet
<1> QED
  BY <1>1, <1>2, StillRule, BooksSame

(* The transport fails.                                                    *)
LEMMA BreakStep ==
    ASSUME IInv, NEW p \in Peers, Break(p)
    PROVE  Summary
<1>1. PICK n \in Seq(Frames) : n = net[p]
  BY TypeFacts DEF NetType
<1>2. PICK k \in 0..Len(n) :
          net' = IF Heard(p) THEN [net EXCEPT ![p] = Append(SubSeq(n, 1, k), Nothing)] ELSE net
  BY <1>1 DEF Break, Nothing
<1>3. /\ writer[p] = "running" /\ writer' = [writer EXCEPT ![p] = "broken"]
      /\ UNCHANGED <<registry, acceptq, closerq, nextId, admitted, shut, stage, reader, st>>
  BY DEF Break
<1>4. st' \in StType /\ RestType' /\ Tasks /\ writer'[p] # "running"
  <2>1. Tasks /\ writer'[p] = "broken"
    BY <1>3, WriterTasks
  <2> QED
    BY <1>3, <2>1, TypeFacts DEF RestType, Tasks
<1>5. Aging
  BY <1>3, Unchanged DEF Aging
<1>6. Books
  BY <1>3, <1>4, BooksSame DEF Books
<1>7. CASE ~Heard(p)
  <2>1. net' \in NetType /\ Quiet(p) /\ Quiet(Other(p)) /\ Nothing \in Frames
    BY <1>2, <1>7, TypeFacts, FrameFacts DEF Quiet
  <2> QED
    BY <1>4, <1>5, <1>6, <2>1, SumRule
<1>8. CASE Heard(p)
  <2>1. PICK m : m = SubSeq(n, 1, k)
    OBVIOUS
  <2>2. m \in Seq(Frames) /\ Len(m) = k /\ \A j \in 1..k : m[j] = n[j]
    BY SMTT(60), <1>2, <2>1
  <2>3. Nothing \in Frames /\ Append(m, Nothing) \in Seq(Frames)
    BY SMTT(60), <2>2, FrameFacts
  <2>4. net' \in NetType /\ net'[p] = Append(m, Nothing) /\ Quiet(Other(p))
    <3>1. net' = [net EXCEPT ![p] = Append(m, Nothing)]
      BY <1>2, <1>8, <2>1
    <3> QED
      BY <2>3, <3>1, TypeFacts, PeerFacts DEF NetType, Quiet
  <2>5. Follows(p, Nothing) /\ Joins(p, Nothing)
    <3>1. PICK l : l = Append(m, Nothing)
      OBVIOUS
    <3>2. \A j \in 1..Len(l) : \/ j + 0 \in 1..Len(n) /\ l[j] = n[j + 0]
                               \/ j = Len(l) /\ l[j] = Nothing
      BY SMTT(60), <1>2, <2>2, <3>1
    <3>3. net'[p] = l
      BY <2>4, <3>1
    <3> QED
      BY <1>1, <1>3, <3>2, <3>3, IdleJoins DEF Follows
  <2>6. Carries(p)
    BY <1>1, <1>4, <2>1, <2>4 DEF Carries
  <2>7. Other(p) \in Peers /\ \A x \in Peers : x = p \/ x = Other(p)
    BY PeerFacts
  <2>8. Follows(Other(p), Nothing) /\ Joins(Other(p), Nothing) /\ Carries(Other(p))
    BY <2>4, <2>7, FollowRule, IdleJoins
  <2>9. NetGrows /\ AllCarry
    BY <2>3, <2>5, <2>6, <2>7, <2>8 DEF NetGrows, AllCarry
  <2> QED
    BY <1>4, <1>5, <1>6, <2>4, <2>9 DEF Summary, Typed
<1> QED
  BY <1>7, <1>8

(* What is reset by an application stays so.                               *)
LEMMA ResetsStay ==
    ASSUME Aging
    PROVE  /\ AnyReset => AnyReset'
           /\ \A id \in Ids : UserReset(id) => UserReset(id)'
<1>1. \A x \in Peers, i \in Ids : st[x][i].userReset => st'[x][i].userReset
  BY DEF Aging, Changes, Ages
<1> QED
  BY <1>1 DEF AnyReset, UserReset

(* A task calls initiate_shutdown, and the reader task may leave its loop. *)
LEMMA SwapTasks ==
    ASSUME IInv, NEW p \in Peers, NEW code \in Codes, Swap(p, code),
           shut[p] = "no" /\ code = "ProtocolError" => AnyReset,
           reader' = reader \/ reader' = [reader EXCEPT ![p] = "out"],
           writer' = writer \/ writer' = [writer EXCEPT ![p] = "failing"]
    PROVE  Tasks
<1>1. TaskType
  BY TypeFacts DEF RestType
<1>2. /\ shut' = [shut EXCEPT ![p] = IF @ = "no" THEN code ELSE @]
      /\ stage' = [stage EXCEPT ![p] = IF @ = "up" THEN "swapped" ELSE @]
  BY DEF Swap
<1>3. TaskType'
  <2>1. shut' \in [Peers -> {"no"} \cup Codes]
    BY <1>1, <1>2 DEF TaskType
  <2>2. stage' \in [Peers -> {"up", "swapped", "told", "drained", "signalled"}]
    BY <1>1, <1>2 DEF TaskType
  <2>3. reader' \in [Peers -> {"reading", "peer_gone", "out"}]
    BY <1>1 DEF TaskType
  <2>4. writer' \in [Peers -> {"running", "broken", "failing", "drained", "gone"}]
    BY <1>1 DEF TaskType
  <2> QED
    BY <2>1, <2>2, <2>3, <2>4 DEF TaskType
<1>4. /\ shut'[p] = (IF shut[p] = "no" THEN code ELSE shut[p]) /\ code # "no"
      /\ \A x \in Peers : x # p => shut'[x] = shut[x]
  BY <1>1, <1>2 DEF TaskType, Codes
<1>5. /\ stage'[p] = (IF stage[p] = "up" THEN "swapped" ELSE stage[p])
      /\ \A x \in Peers : x # p => stage'[x] = stage[x]
  BY <1>1, <1>2 DEF TaskType
<1>6. \A x \in Peers : reader'[x] = reader[x] \/ (x = p /\ reader'[x] = "out")
  BY <1>1 DEF TaskType
<1>7. Writers
  BY <1>1 DEF TaskType, Writers
<1>8. Shuts
  BY <1>4 DEF Shuts
<1>9. Stages
  BY <1>5, <1>6 DEF Stages, Drained, Told
<1>10. StageInv'
  <2>1. \A x \in Peers : shut[x] = "no" => stage[x] = "up" /\ reader[x] = "reading"
    BY DEF IInv, StageInv
  <2>2. shut'[p] # "no"
    BY <1>4
  <2> QED
    BY <1>4, <1>5, <1>6, <2>1, <2>2 DEF StageInv
<1> QED
  BY <1>3, <1>7, <1>8, <1>9, <1>10 DEF Tasks

(* initiate_shutdown goes on, and with its end the reader task leaves its  *)
(* loop.                                                                   *)
LEMMA StageTasks ==
    ASSUME IInv, NEW p \in Peers, NEW t \in {"told", "drained", "signalled"},
           stage[p] # "up", stage' = [stage EXCEPT ![p] = t],
           Drained(p) => t = "signalled", Told(p) \/ Tells(p),
           reader' = reader \/ reader' = [reader EXCEPT ![p] = "out"],
           shut' = shut, writer' = writer
    PROVE  Tasks /\ stage'[p] = t
<1>1. TaskType
  BY TypeFacts DEF RestType
<1>2. stage'[p] = t /\ \A x \in Peers : x # p => stage'[x] = stage[x]
  BY <1>1 DEF TaskType
<1>3. \A x \in Peers : reader'[x] = reader[x] \/ (x = p /\ reader'[x] = "out")
  BY <1>1 DEF TaskType
<1>4. TaskType'
  <2>1. stage' \in [Peers -> {"up", "swapped", "told", "drained", "signalled"}]
    BY <1>1 DEF TaskType
  <2>2. reader' \in [Peers -> {"reading", "peer_gone", "out"}]
    BY <1>1 DEF TaskType
  <2> QED
    BY <1>1, <2>1, <2>2 DEF TaskType
<1>5. Writers /\ Shuts
  BY DEF Writers, Shuts
<1>6. Stages
  <2>1. Drained(p) => Drained(p)'
    BY <1>2 DEF Drained
  <2>2. ASSUME NEW x \in Peers, x # p
        PROVE  (Drained(x) => Drained(x)') /\ (Told(x)' => Told(x))
    BY <1>2, <2>2 DEF Drained, Told
  <2> QED
    BY <1>3, <2>1, <2>2 DEF Stages
<1>7. StageInv'
  <2>1. \A x \in Peers : shut[x] = "no" => stage[x] = "up" /\ reader[x] = "reading"
    BY DEF IInv, StageInv
  <2> QED
    BY <1>2, <1>3, <2>1 DEF StageInv
<1> QED
  BY <1>2, <1>4, <1>5, <1>6, <1>7 DEF Tasks

(* Nobody takes the frames under way to a reader task that is out.         *)
LEMMA StopStep ==
    ASSUME IInv, NEW p \in Peers, NEW n \in NetType, net' = [n EXCEPT ![Other(p)] = <<>>],
           reader' = [reader EXCEPT ![p] = "out"]
    PROVE  net' \in NetType /\ net'[p] = n[p] /\ Stops(Other(p))
<1>1. Other(p) \in Peers /\ Other(p) # p /\ Other(Other(p)) = p /\ <<>> \in Seq(Frames)
  BY SMTT(60), PeerFacts
<1>2. reader'[p] = "out"
  BY TypeFacts DEF RestType, TaskType
<1> QED
  BY <1>1, <1>2 DEF NetType, Stops

(* Session::close and an error of the writer task.                         *)
LEMMA CloseStep ==
    ASSUME IInv, NEW p \in Peers, Close(p) \/ WriterError(p)
    PROVE  Summary
<1>1. PICK code \in Codes : code # "ProtocolError" /\ Swap(p, code)
  BY DEF Close, WriterError, Codes
<1>2. /\ UNCHANGED <<net, registry, acceptq, closerq, nextId, admitted, reader, st>>
      /\ writer' = writer \/ writer' = [writer EXCEPT ![p] = "failing"]
  BY DEF Close, WriterError
<1>3. Tasks
  BY <1>1, <1>2, SwapTasks
<1>4. net' \in NetType /\ Quiet(p) /\ Quiet(Other(p)) /\ Nothing \in Frames
  BY <1>2, TypeFacts, FrameFacts DEF Quiet
<1> QED
  BY <1>2, <1>3, <1>4, StillRule

(* The reader task calls initiate_shutdown.                                *)
LEMMA ReaderEndsStep ==
    ASSUME IInv, NEW p \in Peers, NEW code \in Codes, ReaderEnds(p, code, net),
           code = "ProtocolError" => AnyReset,
           UNCHANGED <<registry, acceptq, closerq, nextId, admitted, writer, st>>
    PROVE  Summary
<1>1. /\ Swap(p, code) /\ reader' = [reader EXCEPT ![p] = "out"]
      /\ net' = [net EXCEPT ![Other(p)] = <<>>]
  BY DEF ReaderEnds
<1>2. Tasks
  BY <1>1, SwapTasks
<1>3. net' \in NetType /\ Quiet(p) /\ Stops(Other(p)) /\ Nothing \in Frames
  BY <1>1, TypeFacts, StopStep, FrameFacts DEF Quiet
<1> QED
  BY <1>2, <1>3, StillRule

(* The reader task gets the end of file, or an error of the transport.     *)
LEMMA LastStep ==
    ASSUME IInv, NEW p \in Peers, NEW kind \in {"eof", "err"}, DispatchLast(p, kind)
    PROVE  Summary
<1>1. PICK code \in Codes : code # "ProtocolError" /\ ReaderEnds(p, code, net)
  BY DEF DispatchLast, Codes
<1>2. UNCHANGED <<registry, acceptq, closerq, nextId, admitted, writer, st>>
  BY DEF DispatchLast
<1> QED
  BY <1>1, <1>2, ReaderEndsStep

(* The reader task gets a GoAway.                                          *)
LEMMA GoAwayStep ==
    ASSUME IInv, NEW p \in Peers, DispatchGoAway(p)
    PROVE  Summary
<1>1. PICK f \in Frames : /\ f = Head(net[Other(p)]) /\ f.kind = "goaway"
                          /\ FrameInv(Other(p), f)
                          /\ reader[p] # "out" /\ net[Other(p)] # <<>>
  BY Arrival DEF DispatchGoAway
<1>2. UNCHANGED <<registry, acceptq, closerq, nextId, admitted, writer, st>>
  BY DEF DispatchGoAway
<1>3. CASE shut[p] = "no"
  <2>1. ReaderEnds(p, f.code, net) /\ f.code \in Codes
    BY <1>1, <1>3, FrameParts DEF DispatchGoAway
  <2>2. f.code = "ProtocolError" => AnyReset
    BY <1>1 DEF FrameInv
  <2> QED
    BY <1>2, <2>1, <2>2, ReaderEndsStep
<1>4. CASE shut[p] # "no"
  <2>1. reader' = [reader EXCEPT ![p] = "peer_gone"] /\ net' = Taken(p) /\ UNCHANGED <<shut, stage>>
    BY <1>4 DEF DispatchGoAway
  <2>2. TaskType
    BY TypeFacts DEF RestType
  <2>3. reader'[p] = "peer_gone" /\ \A x \in Peers : x # p => reader'[x] = reader[x]
    BY <2>1, <2>2 DEF TaskType
  <2>4. Tasks
    <3>1. TaskType' /\ Writers /\ Shuts
      BY <1>2, <2>1, <2>2 DEF TaskType, Writers, Shuts
    <3>2. Stages
      BY <1>1, <2>1, <2>3 DEF Stages, Drained, Told
    <3>3. StageInv'
      BY <1>4, <2>1, <2>3 DEF IInv, StageInv
    <3> QED
      BY <3>1, <3>2, <3>3 DEF Tasks
  <2>5. Other(p) \in Peers /\ Other(p) # p /\ Other(Other(p)) = p
    BY PeerFacts
  <2>6. Tail(net[Other(p)]) \in Seq(Frames)
    BY SMTT(60), <1>1, <2>5, TypeFacts DEF NetType
  <2>7. net' \in NetType /\ Quiet(p) /\ net'[Other(p)] = Tail(net[Other(p)])
    BY <2>1, <2>5, <2>6, TypeFacts DEF Taken, NetType, Quiet
  <2>8. Dispatches(Other(p)) /\ Nothing \in Frames
    BY <1>1, <2>3, <2>5, <2>7, FrameFacts DEF Dispatches, Takes
  <2> QED
    BY <1>2, <2>4, <2>7, <2>8, StillRule
<1> QED
  BY <1>3, <1>4

(* What local_reset makes of a record.                                     *)
LEMMA ResetRecord ==
    ASSUME NEW s \in StreamRecord, Sound(s), s.made, ~s.reset
    PROVE  LocalReset(s) \in StreamRecord /\ Keeps(s, LocalReset(s), "reset") /\ LocalReset(s).reset
<1>1. PICK m \in StreamRecord : m = MarkReset(s)
  BY DEF MarkReset, StreamRecord
<1>2. PICK t \in StreamRecord : t = LocalReset(s) /\ t = [m EXCEPT !.finSent = TRUE]
  BY <1>1 DEF LocalReset, StreamRecord
<1>3. /\ t.reset /\ t.userReset = s.userReset /\ t.made = s.made /\ t.handle = s.handle
      /\ t.acked = s.acked /\ t.wrote = s.wrote /\ t.got = s.got /\ t.buf = s.buf
      /\ ~t.readOpen /\ ~t.writeOpen
  <2>1. /\ m.reset /\ m.userReset = s.userReset /\ m.made = s.made /\ m.handle = s.handle
        /\ m.acked = s.acked /\ m.wrote = s.wrote /\ m.got = s.got /\ m.buf = s.buf
        /\ ~m.readOpen /\ ~m.writeOpen
    BY <1>1 DEF MarkReset, StreamRecord
  <2>2. /\ t.reset = m.reset /\ t.userReset = m.userReset /\ t.made = m.made
        /\ t.handle = m.handle /\ t.acked = m.acked /\ t.wrote = m.wrote /\ t.got = m.got
        /\ t.buf = m.buf /\ t.readOpen = m.readOpen /\ t.writeOpen = m.writeOpen
    BY <1>2 DEF StreamRecord
  <2> QED
    BY <2>1, <2>2
<1>4. Count(t) = Count(s) /\ s.wrote <= t.wrote
  BY SMTT(60), <1>3, RecordNumbers DEF Count
<1>5. Keeps(s, t, "reset")
  BY <1>3, <1>4 DEF Keeps, Ages, Sound
<1> QED
  BY <1>2, <1>3, <1>5

(* A payload for a stream that does not take it: before a drain, an        *)
(* application has reset the stream, and nothing is left to reset.         *)
LEMMA BadDataCause ==
    ASSUME IInv, NEW p \in Peers, NEW id \in Ids, id = ArrivedId(p), Arrived(p, "data"), Steady(p),
           NEW s, s = st[p][id], ~CanRecv(s)
    PROVE  s.reset /\ AnyReset
<1>1. PICK f \in Frames : /\ f = Head(net[Other(p)]) /\ f.kind = "data" /\ f.id = id
                          /\ net[Other(p)] # <<>>
  BY Arrival
<1>2. ~NoData(Other(p), id)
  <2>1. PICK n \in Seq(Frames) : n = net[Other(p)]
    BY PeerFacts, TypeFacts DEF NetType
  <2>2. 1 \in 1..Len(n) /\ n[1] = f
    BY SMTT(60), <1>1, <2>1
  <2> QED
    BY <1>1, <2>1, <2>2 DEF NoData
<1>3. Ended(p, id, s, st[Other(p)][id])
  BY DEF IInv, EndInv
<1>4. s.reset /\ UserReset(id)
  BY <1>2, <1>3 DEF Ended, CanRecv
<1> QED
  BY <1>4 DEF UserReset, AnyReset

(* The reader task gets a payload, for a stream that does not take it.     *)
LEMMA BadDataStep ==
    ASSUME IInv, NEW p \in Peers, DispatchData(p), ~CanRecv(st[p][ArrivedId(p)])
    PROVE  Summary
<1>1. /\ Arrived(p, "data") /\ ArrivedId(p) \in registry[p]
      /\ UNCHANGED <<registry, acceptq, nextId, admitted, writer>>
  BY DEF DispatchData
<1>2. PICK id \in Ids : id = ArrivedId(p)
  BY <1>1, Arrival, FrameParts
<1>3. PICK s \in StreamRecord : s = st[p][id] /\ Sound(s) /\ s.made
  BY <1>1, <1>2, RecordIn
<1>4. /\ ~CanRecv(s) /\ ReaderEnds(p, "ProtocolError", Sending(net, p, RstFrames(s, id)))
      /\ st' = [st EXCEPT ![p][id] = LocalReset(@)]
      /\ closerq' = IF s.reset THEN closerq ELSE ToCloser(p, id)
  BY <1>2, <1>3 DEF DispatchData
<1>5. PICK r \in Frames : r = Frame("rst", id)
  BY FrameFacts
<1>6. PICK n \in NetType : /\ n = Sending(net, p, RstFrames(s, id))
                           /\ s.reset => n[p] = net[p]
                           /\ \/ n[p] = net[p]
                              \/ n[p] = IF writer[p] = "running" /\ Heard(p)
                                        THEN Append(net[p], r) ELSE net[p]
  <2>1. RstFrames(s, id) = <<>> \/ (RstFrames(s, id) = <<r>> /\ ~s.reset)
    BY <1>5 DEF RstFrames
  <2> QED
    BY <2>1, TypeFacts, SendingFacts
<1>7. /\ Swap(p, "ProtocolError") /\ reader' = [reader EXCEPT ![p] = "out"]
      /\ net' = [n EXCEPT ![Other(p)] = <<>>]
  BY <1>4, <1>6 DEF ReaderEnds
<1>8. net' \in NetType /\ net'[p] = n[p] /\ Stops(Other(p))
  BY <1>7, StopStep
<1>9. (s.reset => Quiet(p)) /\ (Quiet(p) \/ Emits(p, r))
  BY <1>6, <1>8 DEF Quiet, Emits
<1>10. Steady(p) => s.reset /\ AnyReset
  BY <1>1, <1>2, <1>3, <1>4, BadDataCause
<1>11. Tasks
  <2>1. shut[p] = "no" => Steady(p)
    BY DEF IInv, StageInv, Steady, Drained
  <2> QED
    BY <1>1, <1>7, <1>10, <2>1, SwapTasks DEF Codes
<1>12. CASE s.reset
  <2>1. Becomes(p, id, s)
    BY <1>3, <1>4, <1>12 DEF Becomes, LocalReset
  <2>2. Changes(p, id, s, s)
    BY <1>3, Unchanged
  <2>3. Updates(p, id, s, s, r)
    BY <1>1, <1>3, <1>4, <1>8, <1>9, <1>11, <1>12, <2>1, <2>2 DEF Updates
  <2> QED
    BY <2>3, UpdateRule
<1>13. CASE ~s.reset
  <2>1. PICK t \in StreamRecord : t = LocalReset(s) /\ Keeps(s, t, "reset") /\ t.reset
    BY <1>3, <1>13, ResetRecord
  <2>2. ~Steady(p)
    BY <1>10, <1>13
  <2>3. Changes(p, id, s, t)
    BY <2>1, <2>2, ChangeRule
  <2>4. Becomes(p, id, t)
    BY <1>3, <1>4, <2>1 DEF Becomes
  <2>5. Quiet(p) \/ (Emits(p, r) /\ Joins(p, r))
    <3>1. \A x \in Peers : Drained(x) => Drained(x)'
      BY <1>11 DEF Tasks, Stages
    <3>2. reader'[Other(p)] = reader[Other(p)]
      BY <1>7, TypeFacts, PeerFacts DEF RestType, TaskType
    <3> QED
      BY <1>5, <1>8, <1>9, <2>2, <3>1, <3>2, LateJoins
  <2>6. closerq' = closerq \/ closerq' = [closerq EXCEPT ![p] = @ \cup {id}]
    BY <1>4 DEF ToCloser
  <2>7. Updates(p, id, s, t, r)
    BY <1>1, <1>3, <1>8, <1>11, <2>1, <2>3, <2>4, <2>5, <2>6 DEF Updates
  <2> QED
    BY <2>7, UpdateRule
<1> QED
  BY <1>12, <1>13

(* initiate_shutdown queues the GoAway.                                    *)
LEMMA SendGoAwayStep ==
    ASSUME IInv, NEW p \in Peers, SendGoAway(p)
    PROVE  Summary
<1>1. /\ stage[p] = "swapped" /\ stage' = [stage EXCEPT ![p] = "told"]
      /\ UNCHANGED <<registry, acceptq, closerq, nextId, admitted, shut, reader, writer, st>>
  BY DEF SendGoAway
<1>2. PICK g : g = [kind |-> "goaway", code |-> shut[p]]
  OBVIOUS
<1>3. shut[p] \in Codes
  BY <1>1, TypeFacts DEF RestType, TaskType, IInv, StageInv
<1>4. g \in Frames /\ g.kind = "goaway" /\ g.code = shut[p]
  BY <1>2, <1>3, FrameFacts
<1>5. net' \in NetType /\ Emits(p, g) /\ Quiet(Other(p))
  BY <1>2, <1>4, SendStep DEF SendGoAway
<1>6. Joins(p, g)
  <2>1. g.code = "ProtocolError" => AnyReset
    BY <1>4 DEF IInv, ProtocolErrorOnlyAfterReset, AnyReset
  <2>2. FrameInv(p, g)'
    BY <1>1, <1>4, <2>1 DEF FrameInv, AnyReset
  <2> QED
    BY <1>4, <2>2 DEF Joins, OrderInv
<1>7. Tasks
  <2>1. Tells(p)
    BY <1>1, <1>4, <1>5 DEF Tells
  <2>2. ~Drained(p) /\ stage[p] # "up"
    BY <1>1 DEF Drained
  <2> QED
    BY <1>1, <2>1, <2>2, StageTasks
<1> QED
  BY <1>1, <1>4, <1>5, <1>6, <1>7, StillRule

(* initiate_shutdown drains the registry.                                  *)
LEMMA DrainStep ==
    ASSUME IInv, NEW p \in Peers, DrainRegistry(p)
    PROVE  Summary
<1>1. /\ stage[p] = "told" /\ stage' = [stage EXCEPT ![p] = "drained"]
      /\ st' = [st EXCEPT ![p] = [id \in Ids |->
                   IF id \in registry[p] THEN ForceClose(@[id]) ELSE @[id]]]
      /\ registry' = [registry EXCEPT ![p] = {}]
      /\ UNCHANGED <<net, acceptq, closerq, nextId, admitted, shut, reader, writer>>
  BY DEF DrainRegistry
<1>2. Tasks /\ Drained(p)'
  <2>1. ~Drained(p) /\ stage[p] # "up" /\ Told(p)
    BY <1>1 DEF Drained, Told
  <2> QED
    BY <1>1, <2>1, StageTasks DEF Drained
<1>3. \A s \in StreamRecord : /\ ForceClose(s) \in StreamRecord
                              /\ ~ForceClose(s).readOpen /\ ~ForceClose(s).writeOpen
  BY DEF StreamRecord, ForceClose
<1>4. /\ st' \in StType
      /\ \A x \in Peers, i \in Ids :
             st'[x][i] = IF x = p /\ i \in registry[p] THEN ForceClose(st[x][i]) ELSE st[x][i]
  BY <1>1, <1>3, TypeFacts DEF StType
<1>5. ASSUME NEW x \in Peers, NEW i \in Ids PROVE Changes(x, i, st[x][i], st'[x][i])
  <2>1. CASE x = p /\ i \in registry[p]
    <3>1. PICK s \in StreamRecord : s = st[x][i] /\ Sound(s) /\ s.made
      BY <2>1, RecordIn
    <3>2. PICK t \in StreamRecord : t = ForceClose(s)
      BY <1>3
    <3>3. /\ t.made = s.made /\ t.handle = s.handle /\ ~t.readOpen /\ ~t.writeOpen
          /\ t.reset = s.reset /\ t.acked = s.acked /\ t.userReset = s.userReset
          /\ t.buf = s.buf /\ t.got = s.got /\ t.wrote = s.wrote
      BY SMTT(60), <3>2 DEF StreamRecord, ForceClose
    <3>4. Keeps(s, t, "read")
      <4>1. Count(t) = Count(s) /\ s.wrote <= t.wrote
        BY SMTT(60), <3>3, RecordNumbers DEF Count
      <4> QED
        BY <3>1, <3>3, <4>1 DEF Keeps, Ages, Sound
    <3>5. st'[x][i] = t
      BY <1>4, <2>1, <3>1, <3>2
    <3>6. Changes(x, i, s, t)
      BY <1>2, <2>1, <3>4, ChangeRule
    <3> QED
      BY <3>1, <3>5, <3>6
  <2>2. CASE ~(x = p /\ i \in registry[p])
    <3>1. st'[x][i] = st[x][i]
      BY <1>4, <2>2
    <3> QED
      BY <3>1, Unchanged
  <2> QED
    BY <2>1, <2>2
<1>6. Aging
  BY <1>5 DEF Aging
<1>7. registry' \in [Peers -> SUBSET Ids] /\ Registers
  BY <1>1, TypeFacts DEF RestType, Registers
<1>8. Leaves
  <2> SUFFICES ASSUME NEW x \in Peers, NEW i \in Ids, i \in registry[x], i \notin registry'[x]
               PROVE  Drained(x)' /\ ~st'[x][i].readOpen /\ ~st'[x][i].writeOpen
    BY DEF Leaves
  <2>1. x = p /\ i \in registry[p]
    BY <1>1, TypeFacts DEF RestType
  <2>2. st'[x][i] = ForceClose(st[x][i]) /\ st[x][i] \in StreamRecord
    BY <1>4, <2>1, TypeFacts DEF StType
  <2> QED
    BY <1>2, <1>3, <2>1, <2>2
<1>9. RestType' /\ Books
  BY <1>1, <1>2, <1>7, <1>8, TypeFacts, BooksSame DEF RestType, Books, Tasks
<1>10. net' \in NetType /\ Quiet(p) /\ Quiet(Other(p)) /\ Nothing \in Frames
  BY <1>1, TypeFacts, FrameFacts DEF Quiet
<1> QED
  BY <1>4, <1>6, <1>9, <1>10, SumRule

(* initiate_shutdown gives the signal.                                     *)
LEMMA SignalStep ==
    ASSUME IInv, NEW p \in Peers, Signal(p)
    PROVE  Summary
<1>1. /\ stage[p] = "drained" /\ stage' = [stage EXCEPT ![p] = "signalled"]
      /\ reader' = [reader EXCEPT ![p] = "out"] /\ net' = [net EXCEPT ![Other(p)] = <<>>]
      /\ closerq' = [closerq EXCEPT ![p] = {}]
      /\ UNCHANGED <<registry, acceptq, nextId, admitted, shut, writer, st>>
  BY DEF Signal
<1>2. Tasks
  <2>1. stage[p] # "up" /\ Told(p)
    BY <1>1 DEF Told
  <2> QED
    BY <1>1, <2>1, StageTasks
<1>3. net' \in NetType /\ Quiet(p) /\ Stops(Other(p)) /\ Nothing \in Frames
  BY <1>1, TypeFacts, StopStep, FrameFacts DEF Quiet
<1>4. closerq' \in [Peers -> SUBSET Ids] /\ Queues
  BY <1>1, TypeFacts DEF RestType, Queues
<1>5. st' \in StType /\ Aging
  BY <1>1, TypeFacts, Unchanged DEF Aging
<1>6. RestType' /\ Books
  BY <1>1, <1>2, <1>4, TypeFacts, BooksSame DEF RestType, Books, Tasks
<1> QED
  BY <1>3, <1>5, <1>6, SumRule

----------------------------------------------------------------------------
(* A step of the reader task.                                              *)
LEMMA DispatchStep ==
    ASSUME IInv, NEW p \in Peers, Dispatch(p)
    PROVE  Summary
<1>1. ASSUME DispatchSyn(p) PROVE Summary
  BY <1>1, AdmitStep, RefuseStep
<1>2. ASSUME NEW kind \in {"ack", "data", "fin", "rst"}, DispatchUnknown(p, kind) PROVE Summary
  BY <1>2, UnknownStep
<1>3. ASSUME DispatchData(p) PROVE Summary
  BY <1>3, PushStep, BadDataStep
<1>4. ASSUME NEW kind \in {"fin", "rst"}, DispatchEnd(p, kind) PROVE Summary
  BY <1>4, FinStep, RstStep
<1>5. ASSUME NEW kind \in {"eof", "err"}, DispatchLast(p, kind) PROVE Summary
  BY <1>5, LastStep
<1> QED
  BY <1>1, <1>2, <1>3, <1>4, <1>5, AckStep, GoAwayStep DEF Dispatch

(* A step of initiate_shutdown.                                            *)
LEMMA InitiateShutdownStep ==
    ASSUME IInv, NEW p \in Peers, InitiateShutdown(p)
    PROVE  Summary
BY SendGoAwayStep, DrainStep, SignalStep DEF InitiateShutdown

(* A step of the session's own calls, of the other tasks or the transport. *)
LEMMA SessionStep ==
    ASSUME IInv, NEW p \in Peers,
           \/ OpenCheck(p) \/ OpenRegister(p) \/ Accept(p) \/ Close(p)
           \/ WriterDrain(p) \/ WriterExit(p) \/ Break(p) \/ WriterError(p)
    PROVE  Summary
BY OpenCheckStep, OpenRegisterStep, AcceptStep, CloseStep, WriterDrainStep, WriterExitStep,
   BreakStep

(* A call on a stream, or its removal.                                     *)
LEMMA StreamStep ==
    ASSUME IInv, NEW p \in Peers, NEW id \in Ids,
           \/ OpenAcked(p, id) \/ OpenFailed(p, id) \/ OpenTimeout(p, id)
           \/ Write(p, id) \/ Read(p, id) \/ Shutdown(p, id)
           \/ Reset(p, id) \/ Drop(p, id) \/ CloserTask(p, id)
    PROVE  Summary
<1>1. ASSUME OpenAcked(p, id) \/ OpenFailed(p, id) \/ OpenTimeout(p, id) PROVE Summary
  BY <1>1, OpenAckedStep, OpenFailedStep, OpenTimeoutStep
<1>2. ASSUME Write(p, id) \/ Read(p, id) \/ Shutdown(p, id) PROVE Summary
  BY <1>2, WriteStep, ReadStep, ShutdownStep
<1>3. ASSUME Reset(p, id) \/ Drop(p, id) \/ CloserTask(p, id) PROVE Summary
  BY <1>3, ResetStep, DropStep, CloserTaskStep
<1> QED
  BY <1>1, <1>2, <1>3

(* What every step does.                                                   *)
LEMMA StepFacts ==
    ASSUME IInv, [Next]_vars
    PROVE  Typed' /\ Aging /\ NetGrows /\ AllCarry /\ Books
<1>1. Summary
  BY DispatchStep, InitiateShutdownStep, SessionStep, StreamStep, StutterStep DEF Next
<1> QED
  BY <1>1 DEF Summary

(* What every step does to the record of a stream.                         *)
LEMMA AgingFacts ==
    ASSUME IInv, [Next]_vars, NEW x \in Peers, NEW i \in Ids
    PROVE  \E s \in StreamRecord, t \in StreamRecord :
               /\ s = st[x][i] /\ t = st'[x][i]
               /\ Sound(s) /\ Ages(s, t) /\ Sound(t) /\ Changes(x, i, s, t)
<1>1. PICK s \in StreamRecord : s = st[x][i] /\ Sound(s)
  BY RecordIn
<1>2. PICK t \in StreamRecord : t = st'[x][i]
  BY StepFacts DEF Typed, StType
<1>3. Changes(x, i, s, t)
  BY <1>1, <1>2, StepFacts DEF Aging
<1>4. Ages(s, t) /\ Sound(t)
  BY <1>3 DEF Changes
<1> QED
  BY <1>1, <1>2, <1>3, <1>4
=============================================================================
