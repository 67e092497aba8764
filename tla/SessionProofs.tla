--------------------------- MODULE SessionProofs ---------------------------
(***************************************************************************)
(* The invariant of SessionSteps is inductive, and what follows from it.   *)
(***************************************************************************)
EXTENDS SessionSteps

\* Zenon proves what needs no arithmetic, and takes its time over a context of this size.
USE ZenonT(60)

(* No SYN of a stream is sent once it is made.                             *)
LEMMA NoSynKept ==
    ASSUME IInv, [Next]_vars, NEW y \in Peers, NEW i \in Ids, st[y][i].made, NoSyn(y, i)
    PROVE  NoSyn(y, i)'
<1>1. PICK f \in Frames : Follows(y, f) /\ Joins(y, f)
  BY StepFacts DEF NetGrows
<1>2. f # Frame("syn", i)
  BY SMTT(60), <1>1 DEF Joins, Frame
<1> QED
  BY <1>1, <1>2 DEF NoSyn, Follows

(* A stream that a side has no use for stays given up.                     *)
LEMMA GivenUpKept ==
    ASSUME IInv, [Next]_vars, NEW x \in Peers, NEW i \in Ids, GivenUp(x, i)
    PROVE  GivenUp(x, i)'
<1>1. PICK y \in Peers : y = Other(x) /\ Other(y) = x
  BY PeerFacts
<1>2. PICK s \in StreamRecord, t \in StreamRecord :
          s = st[x][i] /\ t = st'[x][i] /\ Sound(s) /\ Ages(s, t) /\ Changes(x, i, s, t)
  BY AgingFacts
<1>3. i \notin registry[x] /\ (i \in registry'[x] => ~s.made /\ t.made)
  BY <1>2, StepFacts DEF GivenUp, Books, Registers
<1>4. CASE s.handle \in {"failed", "dropped"}
  <2>1. s.made /\ t.handle \in {"failed", "dropped"}
    BY <1>2, <1>4, NotMade DEF Ages
  <2> QED
    BY <1>2, <1>3, <2>1 DEF GivenUp
<1>5. CASE ~s.made /\ st[y][i].made /\ NoSyn(y, i)
  <2>1. st'[y][i].made /\ NoSyn(y, i)'
    BY SMTT(60), <1>5, AgingFacts, NoSynKept DEF Ages
  <2>2. ~Owns(x, i)
    <3>1. Paired(y, i, st[y][i], s)
      BY <1>1, <1>2 DEF IInv, StreamInv
    <3> QED
      BY <1>1, <1>5, <3>1, IdFacts DEF Paired
  <2>3. ~(Takes(y) /\ Head(net[y]) = Frame("syn", i))
    <3>1. net[y] \in Seq(Frames)
      BY TypeFacts DEF NetType
    <3> QED
      BY SMTT(60), <1>5, <3>1 DEF NoSyn, Takes
  <2>4. ~t.made
    BY <1>1, <1>2, <1>5, <2>2, <2>3 DEF Changes, Opened, Admitted, From
  <2> QED
    BY <1>1, <1>2, <1>3, <2>1, <2>4 DEF GivenUp
<1> QED
  BY <1>1, <1>2, <1>4, <1>5 DEF GivenUp

(* What holds for good of a stream: that an application reset it, that it  *)
(* has left a registry, that it is given up.                               *)
LEMMA ForGood ==
    ASSUME IInv, [Next]_vars, NEW x \in Peers, NEW i \in Ids
    PROVE  /\ UserReset(i) => UserReset(i)'
           /\ AnyReset => AnyReset'
           /\ Left(x, i) => Left(x, i)'
           /\ GivenUp(x, i) => GivenUp(x, i)'
<1>1. (UserReset(i) => UserReset(i)') /\ (AnyReset => AnyReset')
  BY StepFacts, ResetsStay
<1>2. PICK s \in StreamRecord, t \in StreamRecord : s = st[x][i] /\ t = st'[x][i] /\ Ages(s, t)
  BY AgingFacts
<1>3. i \in registry'[x] => i \in registry[x] \/ ~s.made
  BY <1>2, StepFacts DEF Books, Registers
<1>4. Left(x, i) => Left(x, i)'
  BY <1>2, <1>3 DEF Left, Ages
<1> QED
  BY <1>1, <1>4, GivenUpKept

(* The tasks and initiate_shutdown only go forward.                        *)
LEMMA TaskFacts ==
    ASSUME IInv, [Next]_vars, NEW x \in Peers
    PROVE  /\ Drained(x) => Drained(x)'
           /\ Told(x)' => Told(x) \/ Tells(x)
           /\ reader'[x] = "reading" => reader[x] = "reading"
           /\ reader[x] = "out" => reader'[x] = "out"
BY StepFacts DEF Books, Tasks, Stages

(* A side that is steady was so before.                                    *)
LEMMA SteadyKept ==
    ASSUME IInv, [Next]_vars, NEW p \in Peers, Steady(p)'
    PROVE  Steady(p)
<1>1. Other(p) \in Peers
  BY PeerFacts
<1> QED
  BY <1>1, TaskFacts DEF Steady

\* Where the frames under way from x come from: c of them have been dispatched, and f is new.
Origin(x, f, c) ==
    /\ Takes(x) <=> c # 0
    /\ \A j \in 1..Len(net'[x]) :
           \/ j + c \in 1..Len(net[x]) /\ net'[x][j] = net[x][j + c]
           \/ j = Len(net'[x]) /\ net'[x][j] = f /\ writer[x] = "running"

(* Every frame under way was so before the step, or is new.                *)
LEMMA OriginFacts ==
    ASSUME IInv, [Next]_vars, NEW x \in Peers
    PROVE  \E f \in Frames, c \in {0, 1} : Joins(x, f) /\ Origin(x, f, c)
<1>1. CASE Takes(x)
  <2>1. PICK n \in Seq(Frames) : n = net[x]
    BY TypeFacts DEF NetType
  <2>2. \A j \in 1..Len(Tail(n)) : n # <<>> => j + 1 \in 1..Len(n) /\ Tail(n)[j] = n[j + 1]
    BY SMTT(60)
  <2>3. 1 # 0
    BY SMTT(60)
  <2>4. Origin(x, Nothing, 1)
    BY <1>1, <2>1, <2>2, <2>3 DEF Takes, Origin
  <2> QED
    BY <2>4, IdleJoins
<1>2. CASE ~Takes(x)
  <2>1. PICK f \in Frames : Follows(x, f) /\ Joins(x, f)
    BY StepFacts DEF NetGrows
  <2> QED
    BY <1>2, <2>1 DEF Follows, Origin
<1> QED
  BY <1>1, <1>2

(* The frames under way are in order.                                      *)
LEMMA InOrder ==
    ASSUME IInv, NEW x \in Peers
    PROVE  \A i, j \in 1..Len(net[x]) : i < j => OrderInv(net[x][i], net[x][j])
BY DEF IInv, NetInv

----------------------------------------------------------------------------
\* What a frame says stays true until it is dispatched: the one ahead of all others is the
\* one that changes the record it speaks of.

(* The stream of a SYN is not made at the other side.                      *)
LEMMA SynStays ==
    ASSUME IInv, [Next]_vars, NEW x \in Peers, NEW id \in Ids, SynInv(x, id),
           Takes(x) => Head(net[x]) # Frame("syn", id)
    PROVE  SynInv(x, id)'
<1>1. PICK y \in Peers : y = Other(x) /\ Other(y) = x
  BY PeerFacts
<1>2. PICK s \in StreamRecord, t \in StreamRecord : s = st[x][id] /\ t = st'[x][id] /\ Ages(s, t)
  BY AgingFacts
<1>3. PICK u \in StreamRecord, v \in StreamRecord :
          u = st[y][id] /\ v = st'[y][id] /\ Changes(y, id, u, v)
  BY AgingFacts
<1>4. s.made /\ ~u.made /\ Owns(x, id) /\ ~Owns(y, id)
  BY <1>1, <1>2, <1>3, IdFacts DEF SynInv
<1>5. ~v.made
  BY <1>1, <1>3, <1>4 DEF Changes, Opened, Admitted, From
<1>6. t.made
  BY <1>2, <1>4 DEF Ages
<1> QED
  BY <1>1, <1>2, <1>3, <1>4, <1>5, <1>6 DEF SynInv

(* A stream that is accepted, or whose write half is closed, stays so.     *)
LEMMA FlagStays ==
    ASSUME IInv, [Next]_vars, NEW x \in Peers, NEW id \in Ids
    PROVE  (AckInv(x, id) => AckInv(x, id)') /\ (FinInv(x, id) => FinInv(x, id)')
<1>1. PICK s \in StreamRecord, t \in StreamRecord : s = st[x][id] /\ t = st'[x][id] /\ Ages(s, t)
  BY AgingFacts
<1> QED
  BY <1>1 DEF AckInv, FinInv, Ages

(* A payload behind the first is not counted yet.                          *)
LEMMA PayloadStays ==
    ASSUME IInv, [Next]_vars, NEW x \in Peers, NEW id \in Ids, NEW n \in Nat, PayloadInv(x, id, n),
           Takes(x) /\ Head(net[x]).kind = "data" /\ Head(net[x]).id = id =>
               Received(Other(x), id) + 1 < n
    PROVE  PayloadInv(x, id, n)'
<1>1. PICK y \in Peers : y = Other(x) /\ Other(y) = x
  BY PeerFacts
<1>2. PICK s \in StreamRecord, t \in StreamRecord : s = st[x][id] /\ t = st'[x][id] /\ Ages(s, t)
  BY AgingFacts
<1>3. PICK u \in StreamRecord, v \in StreamRecord :
          u = st[y][id] /\ v = st'[y][id] /\ Changes(y, id, u, v)
  BY AgingFacts
<1>4. s.made /\ s.acked /\ Count(u) < n /\ n <= s.wrote
  BY <1>1, <1>2, <1>3 DEF PayloadInv, Received
<1>5. t.made /\ t.acked /\ s.wrote <= t.wrote
  BY <1>2, <1>4 DEF Ages
<1>6. Count(v) < n
  <2>1. CASE Pushed(y, id, u, v)
    <3>1. /\ Takes(x) /\ Head(net[x]).kind = "data" /\ Head(net[x]).id = id
          /\ Count(v) = Count(u) + 1
      BY <1>1, <2>1 DEF Pushed, From
    <3> QED
      BY <1>1, <1>3, <3>1 DEF Received
  <2>2. CASE Count(v) = Count(u)
    BY <1>4, <2>2
  <2> QED
    BY <1>3, <2>1, <2>2 DEF Changes
<1>7. n <= t.wrote
  BY SMTT(60), <1>4, <1>5, RecordNumbers
<1> QED
  BY <1>1, <1>2, <1>3, <1>5, <1>6, <1>7 DEF PayloadInv, Received

(* The cause of an RST remains.                                            *)
LEMMA RstStays ==
    ASSUME IInv, [Next]_vars, NEW x \in Peers, NEW id \in Ids, RstInv(x, id)
    PROVE  RstInv(x, id)'
<1>1. Other(x) \in Peers
  BY PeerFacts
<1> QED
  BY <1>1, ForGood DEF RstInv

(* What a frame says stays true as long as it is under way.                *)
LEMMA FrameKept ==
    ASSUME IInv, [Next]_vars, NEW x \in Peers, NEW k \in 1..Len(net[x]), Takes(x) => k > 1,
           NEW g, g = net[x][k]
    PROVE  FrameInv(x, g)'
<1>1. g \in Frames /\ FrameInv(x, g)
  BY UnderWay
<1>2. PICK h : h = Head(net[x])
  OBVIOUS
<1>3. Takes(x) => OrderInv(h, g) /\ h \in Frames /\ FrameInv(x, h)
  <2>1. net[x] \in Seq(Frames)
    BY TypeFacts DEF NetType
  <2>2. Takes(x) => 1 \in 1..Len(net[x]) /\ h = net[x][1]
    BY SMTT(60), <1>2, <2>1 DEF Takes
  <2> QED
    BY <2>2, UnderWay, InOrder
<1>4. CASE g.kind = "syn"
  <2>1. g.id \in Ids /\ SynInv(x, g.id)
    BY <1>1, <1>4, FrameParts DEF FrameInv
  <2>2. Takes(x) => h # Frame("syn", g.id)
    BY SMTT(60), <1>3, <1>4 DEF OrderInv, Frame
  <2>3. SynInv(x, g.id)'
    BY <1>2, <2>1, <2>2, SynStays
  <2> QED
    BY <1>4, <2>3 DEF FrameInv
<1>5. CASE g.kind \in {"ack", "fin"}
  <2>1. g.id \in Ids
    BY <1>1, <1>5, FrameParts
  <2> QED
    BY <1>1, <1>5, <2>1, FlagStays DEF FrameInv
<1>6. CASE g.kind = "data"
  <2>1. PICK id \in Ids, n \in Nat : id = g.id /\ n = g.n /\ PayloadInv(x, id, n)
    BY SMTT(60), <1>1, <1>6, FrameParts, SessionAssumption DEF FrameInv
  <2>2. ASSUME Takes(x), h.kind = "data", h.id = id PROVE Received(Other(x), id) + 1 < n
    <3>1. h.n < n /\ PayloadInv(x, id, h.n)
      BY <1>3, <1>6, <2>1, <2>2 DEF OrderInv, FrameInv
    <3>2. h.n \in Nat
      BY SMTT(60), <1>3, <2>2, FrameParts, SessionAssumption
    <3>3. Received(Other(x), id) \in Nat
      BY RecordIn, RecordNumbers DEF Received
    <3> QED
      BY SMTT(60), <3>1, <3>2, <3>3 DEF PayloadInv
  <2>3. PayloadInv(x, id, n)'
    BY <1>2, <2>1, <2>2, PayloadStays
  <2> QED
    BY <1>6, <2>1, <2>3 DEF FrameInv
<1>7. CASE g.kind = "goaway"
  <2>1. AnyReset => AnyReset'
    BY StepFacts, ResetsStay
  <2> QED
    BY <1>1, <1>7, <2>1 DEF FrameInv
<1>8. CASE g.kind \in {"rst", "eof", "err"}
  BY <1>8 DEF FrameInv
<1> QED
  BY <1>1, <1>4, <1>5, <1>6, <1>7, <1>8, FrameParts

(* A frame under way after a step speaks the truth.                        *)
LEMMA FrameHolds ==
    ASSUME IInv, [Next]_vars, NEW x \in Peers, NEW i \in 1..Len(net'[x]), NEW g, g = net'[x][i],
           NEW f \in Frames, NEW c \in {0, 1}, Joins(x, f), Origin(x, f, c)
    PROVE  FrameInv(x, g)'
<1>1. CASE g = f
  BY <1>1 DEF Joins
<1>2. CASE i + c \in 1..Len(net[x]) /\ g = net[x][i + c]
  <2>1. PICK k \in 1..Len(net[x]) : k = i + c
    BY <1>2
  <2>2. Takes(x) => k > 1
    BY SMTT(60), <2>1 DEF Origin
  <2> QED
    BY <1>2, <2>1, <2>2, FrameKept
<1> QED
  BY <1>1, <1>2 DEF Origin

(* Two frames under way after a step are in order.                         *)
LEMMA OrderHolds ==
    ASSUME IInv, [Next]_vars, NEW x \in Peers, NEW i \in 1..Len(net'[x]), NEW j \in 1..Len(net'[x]),
           i < j, NEW g \in Frames, g = net'[x][i], NEW h \in Frames, h = net'[x][j],
           NEW f \in Frames, NEW c \in {0, 1}, Joins(x, f), Origin(x, f, c)
    PROVE  OrderInv(g, h)
<1>1. Len(net'[x]) \in Nat /\ Len(net[x]) \in Nat
  <2>1. net[x] \in Seq(Frames) /\ net'[x] \in Seq(Frames)
    BY TypeFacts, StepFacts DEF NetType, Typed
  <2> QED
    BY SMTT(60), <2>1
<1>2. PICK k \in 1..Len(net[x]) : k = i + c /\ g = net[x][k]
  BY SMTT(60), <1>1 DEF Origin
<1>3. CASE h = f
  BY <1>2, <1>3 DEF Joins
<1>4. CASE j + c \in 1..Len(net[x]) /\ h = net[x][j + c]
  <2>1. PICK l \in 1..Len(net[x]) : l = j + c /\ k < l
    BY SMTT(60), <1>1, <1>2, <1>4
  <2> QED
    BY <1>2, <1>4, <2>1, InOrder
<1> QED
  BY <1>3, <1>4 DEF Origin

(* Every step keeps the invariant of the frames under way.                 *)
LEMMA NetInvStep == ASSUME IInv, [Next]_vars PROVE NetInv'
<1> SUFFICES ASSUME NEW x \in Peers, NEW i \in 1..Len(net'[x])
             PROVE  /\ FrameInv(x, net[x][i])'
                    /\ \A j \in 1..Len(net'[x]) : i < j => OrderInv(net'[x][i], net'[x][j])
  BY DEF NetInv
<1>1. PICK f \in Frames, c \in {0, 1} : Joins(x, f) /\ Origin(x, f, c)
  BY OriginFacts
<1>2. \A j \in 1..Len(net'[x]) : net'[x][j] \in Frames
  BY SMTT(60), StepFacts DEF Typed, NetType
<1>3. PICK g \in Frames : g = net'[x][i]
  BY <1>2
<1>4. FrameInv(x, g)'
  BY <1>1, <1>3, FrameHolds
<1>5. ASSUME NEW j \in 1..Len(net'[x]), i < j PROVE OrderInv(g, net'[x][j])
  <2>1. PICK h \in Frames : h = net'[x][j]
    BY <1>2
  <2>2. OrderInv(g, h)
    BY <1>1, <1>3, <1>5, <2>1, OrderHolds
  <2> QED
    BY <2>1, <2>2
<1> QED
  BY <1>3, <1>4, <1>5

(* A frame sent before the drain of a registry was so before the step.     *)
LEMMA EarlyKept ==
    ASSUME IInv, [Next]_vars, NEW x \in Peers, NEW f, NEW c \in {0, 1}, Origin(x, f, c),
           NEW i \in 1..Len(net'[x]), NEW l \in 1..Len(net[x]), l = i + c, Early(x, i)'
    PROVE  Early(x, l)
<1>1. PICK y \in Peers : y = Other(x)
  BY PeerFacts
<1>2. ~Drained(y) /\ (~Drained(x)' => ~Drained(x))
  BY <1>1, TaskFacts DEF Early
<1>3. CASE ~Drained(x)'
  BY <1>1, <1>2, <1>3 DEF Early
<1>4. CASE Drained(x)'
  <2>1. reader'[y] = "reading" /\ \A k \in 1..Len(net'[x]) : k < i => net'[x][k].kind # "goaway"
    BY <1>1, <1>4 DEF Early
  <2>2. reader[y] = "reading"
    BY <2>1, TaskFacts
  <2>3. PICK n \in Seq(Frames), m \in Seq(Frames) : n = net[x] /\ m = net'[x]
    BY TypeFacts, StepFacts DEF Typed, NetType
  <2>4. Len(n) \in Nat /\ Len(m) \in Nat /\ i \in 1..Len(m) /\ l \in 1..Len(n)
    BY SMTT(60), <2>3
  <2>5. ASSUME NEW k \in 1..Len(n), k < l PROVE n[k].kind # "goaway"
    <3>1. CASE c = 1 /\ k = 1
      <4>1. Takes(x) /\ n # <<>> /\ Head(n) = n[k]
        BY SMTT(60), <2>3, <3>1 DEF Origin, Takes
      <4> QED
        BY <1>1, <2>1, <2>3, <4>1 DEF Takes
    <3>2. CASE ~(c = 1 /\ k = 1)
      <4>1. PICK j \in 1..Len(m) : j + c = k /\ j < i /\ j # Len(m)
        BY SMTT(60), <2>4, <2>5, <3>2
      <4>2. m[j] = n[k]
        BY <2>3, <4>1 DEF Origin
      <4> QED
        BY <2>1, <2>3, <4>1, <4>2
    <3> QED
      BY <3>1, <3>2
  <2> QED
    BY <1>1, <1>2, <2>2, <2>3, <2>5 DEF Early
<1> QED
  BY <1>3, <1>4

(* An RST of a side that has not drained its registry keeps its cause, and *)
(* what is written behind it finds the stream reset or removed.            *)
LEMMA ResetKept ==
    ASSUME IInv, [Next]_vars, NEW x \in Peers, NEW l \in 1..Len(net[x]), Early(x, l),
           NEW id \in Ids, net[x][l].kind = "rst", net[x][l].id = id
    PROVE  /\ RstInv(x, id)'
           /\ \A h : Joins(x, h) \/ (\E j \in 1..Len(net[x]) : l < j /\ h = net[x][j]) =>
                         BehindInv(x, id, h)'
<1>1. PICK y \in Peers : y = Other(x)
  BY PeerFacts
<1>2. /\ RstInv(x, id)
      /\ \A j \in 1..Len(net[x]) : l < j => BehindInv(x, id, net[x][j])
  BY DEF IInv, ResetInv
<1>3. ASSUME NEW h, h.kind = "data", h.id = id, Joins(x, h) PROVE UserReset(id) \/ Left(y, id)
  <2>1. st[x][id].handle = "open"
    BY <1>3 DEF Joins
  <2>2. PICK s \in StreamRecord : s = st[x][id] /\ Sound(s)
    BY RecordIn
  <2>3. ~GivenUp(x, id)
    BY <2>1, <2>2, NotMade DEF GivenUp
  <2> QED
    BY <1>1, <1>2, <2>3 DEF RstInv
<1>4. ASSUME NEW h, \E j \in 1..Len(net[x]) : l < j /\ h = net[x][j]
      PROVE  BehindInv(x, id, h)'
  BY <1>1, <1>2, <1>4, ForGood DEF BehindInv
<1>5. ASSUME NEW h, Joins(x, h) PROVE BehindInv(x, id, h)'
  BY <1>1, <1>3, <1>5, ForGood DEF BehindInv
<1> QED
  BY <1>2, <1>4, <1>5, RstStays

(* Every step keeps the invariant of the RSTs under way.                   *)
LEMMA ResetInvStep == ASSUME IInv, [Next]_vars PROVE ResetInv'
<1> SUFFICES ASSUME NEW x \in Peers, NEW i \in 1..Len(net'[x]), Early(x, i)',
                    NEW g, g = net'[x][i], g.kind = "rst"
             PROVE  /\ RstInv(x, g.id)'
                    /\ \A j \in 1..Len(net'[x]) : i < j => BehindInv(x, g.id, net[x][j])'
  BY DEF ResetInv
<1>1. PICK f \in Frames, c \in {0, 1} : Joins(x, f) /\ Origin(x, f, c)
  BY OriginFacts
<1>2. PICK n \in Seq(Frames), m \in Seq(Frames) : n = net[x] /\ m = net'[x]
  BY TypeFacts, StepFacts DEF Typed, NetType
<1>3. Len(n) \in Nat /\ Len(m) \in Nat /\ g \in Frames
  BY SMTT(60), <1>2
<1>4. PICK id \in Ids : id = g.id
  BY <1>3, FrameParts
<1>5. CASE i + c \in 1..Len(n) /\ g = n[i + c]
  <2>1. PICK l \in 1..Len(n) : l = i + c /\ g = n[l]
    BY <1>5
  <2>2. Early(x, l)
    BY <1>1, <1>2, <2>1, EarlyKept
  <2>3. /\ RstInv(x, id)'
        /\ \A h : Joins(x, h) \/ (\E j \in 1..Len(n) : l < j /\ h = n[j]) => BehindInv(x, id, h)'
    BY <1>2, <1>4, <2>1, <2>2, ResetKept
  <2>4. ASSUME NEW j \in 1..Len(m), i < j PROVE BehindInv(x, id, m[j])'
    <3>1. CASE j + c \in 1..Len(n) /\ m[j] = n[j + c]
      <4>1. PICK k \in 1..Len(n) : k = j + c /\ l < k
        BY SMTT(60), <1>3, <2>1, <2>4, <3>1
      <4> QED
        BY <2>3, <3>1, <4>1
    <3>2. CASE m[j] = f
      BY <1>1, <2>3, <3>2
    <3> QED
      BY <1>1, <1>2, <3>1, <3>2 DEF Origin
  <2> QED
    BY <1>2, <1>4, <2>3, <2>4
<1>6. CASE i = Len(m) /\ g = f
  <2>1. RstInv(x, g.id)'
    BY <1>1, <1>2, <1>6 DEF Joins
  <2>2. \A j \in 1..Len(m) : ~(i < j)
    BY SMTT(60), <1>3, <1>6
  <2> QED
    BY <1>2, <2>1, <2>2
<1> QED
  BY <1>1, <1>2, <1>5, <1>6 DEF Origin

(* Every step keeps a GoAway under way until the other side gets it.       *)
LEMMA GoAwayInvStep == ASSUME IInv, [Next]_vars PROVE GoAwayInv'
<1> SUFFICES ASSUME NEW p \in Peers, NEW q \in Peers, q = Other(p), Told(p)',
                    writer'[p] = "running", reader'[q] = "reading"
             PROVE  \E k \in 1..Len(net'[p]) : net'[p][k].kind = "goaway"
  BY PeerFacts DEF GoAwayInv
<1>1. writer[p] = "running" /\ reader[q] = "reading"
  BY StepFacts, TaskFacts DEF Books, Tasks, Writers
<1>2. PICK n \in Seq(Frames) : n = net[p]
  BY TypeFacts DEF NetType
<1>3. CASE Tells(p)
  <2>1. PICK f \in Frames : f.kind = "goaway" /\ net'[p] = Append(n, f)
    BY <1>1, <1>2, <1>3 DEF Tells, Emits, Heard
  <2>2. Len(n) + 1 \in 1..Len(Append(n, f)) /\ Append(n, f)[Len(n) + 1] = f
    BY SMTT(60)
  <2> QED
    BY <2>1, <2>2
<1>4. CASE Told(p)
  <2>1. PICK k \in 1..Len(n) : n[k].kind = "goaway"
    BY <1>1, <1>2, <1>4 DEF IInv, GoAwayInv
  <2>2. CASE \A j \in 1..Len(net[p]) : j \in 1..Len(net'[p]) /\ net'[p][j] = net[p][j]
    BY <1>2, <2>1, <2>2
  <2>3. CASE Dispatches(p)
    <3>1. n # <<>> /\ net'[p] = Tail(n) /\ Head(n).kind # "goaway"
      BY <1>2, <2>3 DEF Dispatches, Takes
    <3>2. k - 1 \in 1..Len(Tail(n)) /\ Tail(n)[k - 1] = n[k]
      BY SMTT(60), <2>1, <3>1
    <3> QED
      BY <2>1, <3>1, <3>2
  <2>4. Carries(p)
    BY StepFacts DEF AllCarry
  <2> QED
    BY <2>2, <2>3, <2>4 DEF Carries
<1> QED
  BY <1>3, <1>4, TaskFacts

(* The frame that a reader task gets.                                      *)
LEMMA FromFacts ==
    ASSUME IInv, NEW x \in Peers, NEW f, From(x, f)
    PROVE  /\ f \in Frames /\ FrameInv(Other(x), f) /\ reader[x] # "out" /\ Takes(Other(x))
           /\ 1 \in 1..Len(net[Other(x)]) /\ net[Other(x)][1] = f
           /\ \A j \in 1..Len(net[Other(x)]) : j > 1 => OrderInv(f, net[Other(x)][j])
<1>1. PICK y \in Peers : y = Other(x)
  BY PeerFacts
<1>2. net[y] \in Seq(Frames)
  BY TypeFacts DEF NetType
<1>3. reader[x] # "out" /\ Takes(y) /\ net[y] # <<>> /\ Head(net[y]) = f
  BY <1>1 DEF From, Takes
<1>4. 1 \in 1..Len(net[y]) /\ net[y][1] = f
  BY SMTT(60), <1>2, <1>3
<1> QED
  BY <1>1, <1>3, <1>4, UnderWay, InOrder

(* The record of a stream and the registry and the queue of removals.      *)
LEMMA RegistryStep ==
    ASSUME IInv, [Next]_vars, NEW p \in Peers, NEW id \in Ids,
           NEW s \in StreamRecord, s = st[p][id], NEW t \in StreamRecord, t = st'[p][id]
    PROVE  /\ ~t.made => id \notin registry'[p] /\ id \notin closerq'[p]
           /\ id \in closerq'[p] => t.reset \/ t.handle = "dropped"
<1>1. Paired(p, id, s, st[Other(p)][id])
  BY DEF IInv, StreamInv
<1>2. Ages(s, t) /\ Sound(t)
  BY AgingFacts
<1>3. id \in closerq'[p] => id \in closerq[p] \/ t.reset \/ t.handle = "dropped"
  BY StepFacts DEF Books, Queues
<1>4. id \in registry'[p] => id \in registry[p] \/ t.made
  BY StepFacts DEF Books, Registers
<1>5. id \in closerq'[p] => t.reset \/ t.handle = "dropped"
  BY <1>1, <1>2, <1>3 DEF Paired, Ages
<1>6. ~t.made => t.handle = "none" /\ ~t.reset /\ ~s.made
  BY <1>2, NotMade DEF Ages
<1> QED
  BY <1>1, <1>4, <1>5, <1>6 DEF Paired

(* A stream that is made for a SYN is the other side's, which has it.      *)
LEMMA AdmittedFacts ==
    ASSUME IInv, NEW p \in Peers, NEW id \in Ids, NEW t, Admitted(p, id, t)
    PROVE  ~Owns(p, id) /\ st[Other(p)][id].made
<1>1. PICK q \in Peers : q = Other(p)
  BY PeerFacts
<1>2. SynInv(q, id)
  BY SMTT(60), <1>1, FromFacts DEF Admitted, FrameInv, Frame
<1> QED
  BY <1>1, <1>2, IdFacts DEF SynInv

(* Which side made a stream, and how far it is.                            *)
LEMMA OwnerStep ==
    ASSUME IInv, [Next]_vars, NEW p \in Peers, NEW id \in Ids,
           NEW s \in StreamRecord, s = st[p][id], NEW t \in StreamRecord, t = st'[p][id]
    PROVE  /\ t.made /\ ~Owns(p, id) => st'[Other(p)][id].made
           /\ Owns(p, id) /\ id >= nextId'[p] => ~t.made
           /\ t.handle = "opening" => Owns(p, id)
           /\ t.handle = "queued" => ~Owns(p, id)
<1>1. PICK q \in Peers : q = Other(p)
  BY PeerFacts
<1>2. PICK u \in StreamRecord, v \in StreamRecord : u = st[q][id] /\ v = st'[q][id] /\ Ages(u, v)
  BY AgingFacts
<1>3. Paired(p, id, s, u)
  BY <1>1, <1>2 DEF IInv, StreamInv
<1>4. Ages(s, t) /\ Changes(p, id, s, t)
  BY AgingFacts
<1>5. /\ id \in Nat /\ nextId[p] \in Nat /\ nextId'[p] \in Nat
      /\ id >= nextId'[p] => id >= nextId[p]
  <2>1. nextId[p] \in Nat
    BY TypeFacts DEF RestType
  <2>2. nextId'[p] \in Nat /\ nextId[p] <= nextId'[p]
    BY StepFacts DEF Typed, RestType, Books, Numbers
  <2> QED
    BY SMTT(60), <2>1, <2>2, IdFacts
<1>6. CASE s.made
  BY <1>1, <1>2, <1>3, <1>4, <1>5, <1>6 DEF Paired, Ages
<1>7. CASE Opened(p, id, t)
  BY SMTT(60), <1>5, <1>7 DEF Opened
<1>8. CASE Admitted(p, id, t)
  <2>1. ~Owns(p, id) /\ u.made
    BY <1>1, <1>2, <1>8, AdmittedFacts
  <2> QED
    BY <1>1, <1>2, <1>8, <2>1 DEF Admitted, Ages
<1>9. CASE ~t.made
  BY <1>4, <1>9, NotMade DEF Changes
<1> QED
  BY <1>4, <1>6, <1>7, <1>8, <1>9 DEF Changes

(* What the two sides know of each other: the opener takes the stream for  *)
(* accepted only when it is, and nobody receives more than was written.    *)
LEMMA PeerStep ==
    ASSUME IInv, [Next]_vars, NEW p \in Peers, NEW id \in Ids,
           NEW s \in StreamRecord, s = st[p][id], NEW t \in StreamRecord, t = st'[p][id],
           NEW u \in StreamRecord, u = st[Other(p)][id],
           NEW v \in StreamRecord, v = st'[Other(p)][id]
    PROVE  /\ Owns(p, id) /\ t.acked => v.handle \in {"open", "dropped"}
           /\ Count(t) <= v.wrote
<1>1. PICK q \in Peers : q = Other(p) /\ Other(q) = p
  BY PeerFacts
<1>2. Ages(u, v)
  BY <1>1, AgingFacts
<1>3. Paired(p, id, s, u)
  BY DEF IInv, StreamInv
<1>4. Changes(p, id, s, t)
  BY AgingFacts
<1>5. Owns(p, id) /\ t.acked => v.handle \in {"open", "dropped"}
  <2>1. ASSUME From(p, Frame("ack", id)) PROVE AckInv(q, id)
    BY SMTT(60), <1>1, <2>1, FromFacts DEF FrameInv, Frame
  <2>2. t.acked => s.acked \/ t.handle = "queued" \/ AckInv(q, id)
    BY <1>4, <2>1 DEF Changes
  <2>3. t.handle = "queued" => ~Owns(p, id)
    BY OwnerStep
  <2>4. AckInv(q, id) => u.handle \in {"open", "dropped"}
    BY <1>1 DEF AckInv
  <2> QED
    BY <1>2, <1>3, <2>2, <2>3, <2>4 DEF Ages, Paired
<1>6. u.wrote <= v.wrote /\ Count(s) <= u.wrote
  BY <1>2, <1>3 DEF Ages, Paired
<1>7. PICK a \in Nat, b \in Nat, c \in Nat : a = Count(s) /\ b = u.wrote /\ c = v.wrote
  BY RecordNumbers
<1>8. ASSUME Count(t) = Count(s) PROVE Count(t) <= v.wrote
  BY SMTT(60), <1>6, <1>7, <1>8
<1>9. ASSUME Pushed(p, id, s, t) PROVE Count(t) <= v.wrote
  <2>1. PICK f : From(p, f) /\ f.kind = "data" /\ f.id = id /\ Count(t) = Count(s) + 1
    BY <1>9 DEF Pushed
  <2>2. f \in Frames /\ FrameInv(q, f)
    BY <1>1, <2>1, FromFacts
  <2>3. f.n \in Nat
    BY SMTT(60), <2>1, <2>2, FrameParts, SessionAssumption
  <2>4. Count(s) < f.n /\ f.n <= u.wrote
    BY <1>1, <2>1, <2>2 DEF FrameInv, PayloadInv, Received
  <2>5. a < f.n /\ f.n <= b /\ b <= c
    BY <1>6, <1>7, <2>4
  <2>6. a + 1 <= c
    BY SMTT(60), <2>3, <2>5
  <2> QED
    BY <1>7, <2>1, <2>6
<1> QED
  BY <1>4, <1>5, <1>8, <1>9 DEF Changes

(* Every step keeps the invariant of the records.                          *)
LEMMA StreamInvStep == ASSUME IInv, [Next]_vars PROVE StreamInv'
<1> SUFFICES ASSUME NEW p \in Peers, NEW id \in Ids
             PROVE  Paired(p, id, st[p][id], st[Other(p)][id])'
  BY DEF StreamInv
<1>1. PICK s \in StreamRecord, t \in StreamRecord : s = st[p][id] /\ t = st'[p][id] /\ Sound(t)
  BY AgingFacts
<1>2. PICK q \in Peers : q = Other(p)
  BY PeerFacts
<1>3. PICK u \in StreamRecord, v \in StreamRecord : u = st[q][id] /\ v = st'[q][id]
  BY AgingFacts
<1>4. /\ ~t.made => id \notin registry'[p] /\ id \notin closerq'[p]
      /\ id \in closerq'[p] => t.reset \/ t.handle = "dropped"
  BY <1>1, RegistryStep
<1>5. /\ t.made /\ ~Owns(p, id) => v.made
      /\ Owns(p, id) /\ id >= nextId'[p] => ~t.made
      /\ t.handle = "opening" => Owns(p, id)
      /\ t.handle = "queued" => ~Owns(p, id)
  BY <1>1, <1>2, <1>3, OwnerStep
<1>6. /\ Owns(p, id) /\ t.acked => v.handle \in {"open", "dropped"}
      /\ Count(t) <= v.wrote
  BY <1>1, <1>2, <1>3, PeerStep
<1> QED
  BY <1>1, <1>2, <1>3, <1>4, <1>5, <1>6 DEF Paired

(* A stream stays in the accept queue until it is served.                  *)
LEMMA QueuedStays ==
    ASSUME IInv, [Next]_vars, NEW p \in Peers, NEW id \in Ids, st[p][id].handle = "queued",
           ~Served(p, id)
    PROVE  st'[p][id].handle = "queued"
<1>1. PICK s \in StreamRecord, t \in StreamRecord :
          s = st[p][id] /\ t = st'[p][id] /\ Changes(p, id, s, t)
  BY AgingFacts
<1> QED
  BY <1>1 DEF Changes

(* Every step keeps the accept queue in order.                             *)
LEMMA AcceptInvStep == ASSUME IInv, [Next]_vars PROVE AcceptInv'
<1> SUFFICES ASSUME NEW p \in Peers
             PROVE  \A i \in 1..Len(acceptq'[p]) :
                        /\ st'[p][acceptq'[p][i]].handle = "queued"
                        /\ \A j \in 1..Len(acceptq'[p]) : i # j => acceptq'[p][i] # acceptq'[p][j]
  BY DEF AcceptInv
<1>1. PICK a \in Seq(Ids) : a = acceptq[p]
  BY TypeFacts DEF RestType
<1>2. PICK b : b = acceptq'[p]
  OBVIOUS
<1>3. \A k \in 1..Len(a) : /\ a[k] \in Ids /\ st[p][a[k]].handle = "queued"
                           /\ \A j \in 1..Len(a) : k # j => a[k] # a[j]
  BY SMTT(60), <1>1 DEF IInv, AcceptInv
<1>4. ASSUME NEW k \in 1..Len(a), st'[p][a[k]].handle # "queued"
      PROVE  a # <<>> /\ a[k] = a[1] /\ b = Tail(a)
  <2>1. Served(p, a[k])
    BY <1>3, <1>4, QueuedStays
  <2> QED
    BY SMTT(60), <1>1, <1>2, <2>1 DEF Served
<1>5. \/ b = a \/ (a # <<>> /\ b = Tail(a))
      \/ \E id \in Ids : b = Append(a, id) /\ ~st[p][id].made /\ st'[p][id].handle = "queued"
  BY <1>1, <1>2, StepFacts DEF Books, Accepts
<1> SUFFICES \A i \in 1..Len(b) : /\ st'[p][b[i]].handle = "queued"
                                  /\ \A j \in 1..Len(b) : i # j => b[i] # b[j]
  BY <1>2
<1>6. CASE a # <<>> /\ b = Tail(a)
  <2>1. /\ \A k \in 1..Len(b) : k + 1 \in 1..Len(a) /\ b[k] = a[k + 1] /\ k + 1 # 1
        /\ 1 \in 1..Len(a) /\ Len(b) \in Nat
    BY SMTT(60), <1>6
  <2>2. \A k \in 1..Len(b) : st'[p][b[k]].handle = "queued"
    BY SMTT(60), <1>3, <1>4, <2>1
  <2>3. \A k, j \in 1..Len(b) : k # j => b[k] # b[j]
    BY SMTT(60), <1>3, <2>1
  <2> QED
    BY <2>2, <2>3
<1>7. CASE ~(a # <<>> /\ b = Tail(a)) /\ b = a
  BY <1>3, <1>4, <1>7
<1>8. ASSUME ~(a # <<>> /\ b = Tail(a)), NEW id \in Ids, b = Append(a, id), ~st[p][id].made,
             st'[p][id].handle = "queued"
      PROVE  \A i \in 1..Len(b) : /\ st'[p][b[i]].handle = "queued"
                                  /\ \A j \in 1..Len(b) : i # j => b[i] # b[j]
  <2>1. \A k \in 1..Len(b) : (k \in 1..Len(a) /\ b[k] = a[k]) \/ (k = Len(b) /\ b[k] = id)
    BY SMTT(60), <1>8
  <2>2. st[p][id].handle # "queued"
    BY SMTT(60), <1>8, RecordIn DEF Absent
  <2>3. \A k \in 1..Len(b) : st'[p][b[k]].handle = "queued"
    BY <1>4, <1>8, <2>1
  <2>4. \A k, j \in 1..Len(b) : k # j => b[k] # b[j]
    BY <1>3, <2>1, <2>2
  <2> QED
    BY <2>3, <2>4
<1> QED
  BY <1>5, <1>6, <1>7, <1>8

(* Every step keeps the streams in use registered or closed.               *)
LEMMA ShutInvStep == ASSUME IInv, [Next]_vars PROVE ShutInv'
<1> SUFFICES ASSUME NEW p \in Peers, NEW id \in Ids, NEW t, t = st'[p][id],
                    t.handle \in {"opening", "queued", "open"}
             PROVE  id \in registry'[p] \/ (~t.readOpen /\ ~t.writeOpen)
  BY DEF ShutInv
<1>1. PICK s \in StreamRecord :
          s = st[p][id] /\ Sound(s) /\ Ages(s, t) /\ Sound(t) /\ Changes(p, id, s, t)
  BY AgingFacts
<1>2. t.made
  BY <1>1, NotMade
<1>3. CASE ~s.made
  BY <1>1, <1>2, <1>3 DEF Changes, Opened, Admitted
<1>4. CASE s.made
  <2>1. s.handle \in {"opening", "queued", "open"}
    BY <1>1, <1>4 DEF Ages
  <2>2. id \in registry[p] \/ (~s.readOpen /\ ~s.writeOpen)
    BY <1>1, <2>1 DEF IInv, ShutInv
  <2>3. id \in registry[p] /\ id \notin registry'[p] =>
            id \in closerq[p] \/ (~t.readOpen /\ ~t.writeOpen)
    BY StepFacts DEF Books, Leaves
  <2>4. Paired(p, id, s, st[Other(p)][id])
    BY <1>1 DEF IInv, StreamInv
  <2>5. id \in closerq[p] => ~s.readOpen /\ ~s.writeOpen
    BY <1>1, <2>1, <2>4 DEF Paired, Sound
  <2> QED
    BY <1>1, <2>2, <2>3, <2>5 DEF Ages
<1> QED
  BY <1>3, <1>4

(* Every step keeps the streams in use registered or reset, until the      *)
(* drain.                                                                  *)
LEMMA LiveStep == ASSUME IInv, [Next]_vars PROVE LiveHandleRegistered'
<1> SUFFICES ASSUME NEW p \in Peers, NEW id \in Ids, ~Drained(p)', NEW t, t = st'[p][id],
                    t.handle \in {"opening", "queued", "open"}
             PROVE  id \in registry'[p] \/ t.reset
  BY DEF LiveHandleRegistered
<1>1. PICK s \in StreamRecord :
          s = st[p][id] /\ Sound(s) /\ Ages(s, t) /\ Sound(t) /\ Changes(p, id, s, t)
  BY AgingFacts
<1>2. t.made
  BY <1>1, NotMade
<1>3. CASE ~s.made
  BY <1>1, <1>2, <1>3 DEF Changes, Opened, Admitted
<1>4. CASE s.made
  <2>1. s.handle \in {"opening", "queued", "open"}
    BY <1>1, <1>4 DEF Ages
  <2>2. ~Drained(p)
    BY TaskFacts
  <2>3. id \in registry[p] \/ s.reset
    BY <1>1, <2>1, <2>2 DEF IInv, LiveHandleRegistered
  <2>4. id \in registry[p] /\ id \notin registry'[p] => id \in closerq[p]
    BY StepFacts DEF Books, Leaves
  <2>5. Paired(p, id, s, st[Other(p)][id])
    BY <1>1 DEF IInv, StreamInv
  <2>6. id \in closerq[p] => s.reset
    BY <2>1, <2>5 DEF Paired
  <2> QED
    BY <1>1, <2>3, <2>4, <2>6 DEF Ages
<1> QED
  BY <1>3, <1>4

(* A session ends with a protocol error only when a stream was reset.      *)
LEMMA CodeStep == ASSUME IInv, [Next]_vars PROVE ProtocolErrorOnlyAfterReset'
<1> SUFFICES ASSUME NEW p \in Peers, shut'[p] = "ProtocolError" PROVE AnyReset'
  BY DEF ProtocolErrorOnlyAfterReset, AnyReset
<1>1. AnyReset => AnyReset'
  BY StepFacts, ResetsStay
<1>2. shut[p] = "ProtocolError" \/ AnyReset
  BY StepFacts DEF Books, Tasks, Shuts
<1> QED
  BY <1>1, <1>2 DEF IInv, ProtocolErrorOnlyAfterReset, AnyReset

----------------------------------------------------------------------------
\* A payload is never behind the frame that ends its stream, and never lost before it.

(* No payload of a stream is under way once it is given up, or its write   *)
(* half closed, and those under way have been dispatched.                  *)
LEMMA NoDataKept ==
    ASSUME IInv, [Next]_vars, NEW q \in Peers, NEW id \in Ids, NoData(q, id),
           st[q][id].handle # "open" \/ ~st[q][id].writeOpen
    PROVE  NoData(q, id)'
<1>1. PICK f \in Frames : Follows(q, f) /\ Joins(q, f)
  BY StepFacts DEF NetGrows
<1>2. f.kind = "data" => f.id # id
  BY <1>1 DEF Joins
<1> QED
  BY <1>1, <1>2 DEF NoData, Follows

(* An RST that a steady side gets has a cause.                             *)
LEMMA RstFacts ==
    ASSUME IInv, NEW p \in Peers, NEW id \in Ids, From(p, Frame("rst", id)), Steady(p)
    PROVE  /\ RstInv(Other(p), id)
           /\ \A j \in 1..Len(net[Other(p)]) :
                  j > 1 => BehindInv(Other(p), id, net[Other(p)][j])
<1>1. PICK q \in Peers : q = Other(p) /\ Other(q) = p
  BY PeerFacts
<1>2. PICK f : f = Frame("rst", id) /\ f.kind = "rst" /\ f.id = id
  <2>1. Frame("rst", id).kind = "rst" /\ Frame("rst", id).id = id
    BY DEF Frame
  <2> QED
    BY <2>1
<1>3. 1 \in 1..Len(net[q]) /\ net[q][1] = f
  BY <1>1, <1>2, FromFacts
<1>4. PICK n \in Seq(Frames) : n = net[q]
  BY TypeFacts DEF NetType
<1>5. \A k \in 1..Len(n) : ~(k < 1) /\ (k > 1 => 1 < k)
  BY SMTT(60)
<1>6. Early(q, 1)
  BY <1>1, <1>4, <1>5 DEF Early, Steady
<1> QED
  BY <1>1, <1>2, <1>3, <1>4, <1>5, <1>6 DEF IInv, ResetInv

(* Nor is one behind the FIN or the RST that ends the stream.              *)
LEMMA NoDataBehind ==
    ASSUME IInv, NEW p \in Peers, NEW id \in Ids, NEW k \in {"fin", "rst"}, From(p, Frame(k, id)),
           k = "rst" => Steady(p) /\ ~UserReset(id) /\ id \in registry[p]
    PROVE  NoData(Other(p), id)'
<1>1. PICK q \in Peers : q = Other(p) /\ Other(q) = p
  BY PeerFacts
<1>2. PICK f : f = Frame(k, id) /\ f.kind = k /\ f.id = id
  <2>1. Frame(k, id).kind = k /\ Frame(k, id).id = id
    BY DEF Frame
  <2> QED
    BY <2>1
<1>3. Takes(q)
  BY <1>1, FromFacts
<1>4. ASSUME NEW j \in 1..Len(net[q]), j > 1, net[q][j].kind = "data" PROVE net[q][j].id # id
  <2>1. CASE k = "fin"
    <3>1. OrderInv(f, net[q][j])
      BY <1>1, <1>2, <1>4, FromFacts
    <3> QED
      BY <1>2, <1>4, <2>1, <3>1 DEF OrderInv
  <2>2. CASE k = "rst"
    <3>1. BehindInv(q, id, net[q][j])
      BY <1>1, <1>4, <2>2, RstFacts
    <3> QED
      BY <1>1, <1>4, <2>2, <3>1 DEF BehindInv, Left
  <2> QED
    BY <2>1, <2>2
<1>5. PICK n \in Seq(Frames) : n = net[q]
  BY TypeFacts DEF NetType
<1>6. \A j \in 1..Len(Tail(n)) :
          n # <<>> => j + 1 \in 1..Len(n) /\ Tail(n)[j] = n[j + 1] /\ j + 1 > 1
  BY SMTT(60)
<1>7. n # <<>> /\ net'[q] = Tail(n)
  BY <1>3, <1>5 DEF Takes
<1>8. \A j \in 1..Len(Tail(n)) : Tail(n)[j].kind = "data" => Tail(n)[j].id # id
  BY <1>4, <1>5, <1>6, <1>7
<1> QED
  BY <1>1, <1>7, <1>8 DEF NoData

(* How a stream comes to be reset before the drain.                        *)
LEMMA ResetEnds ==
    ASSUME IInv, [Next]_vars, NEW p \in Peers, NEW id \in Ids, Steady(p)', st'[p][id].reset
    PROVE  UserReset(id)' \/ (GivenUp(Other(p), id)' /\ NoData(Other(p), id)')
<1>1. PICK q \in Peers : q = Other(p) /\ Other(q) = p
  BY PeerFacts
<1>2. PICK s \in StreamRecord, t \in StreamRecord :
          s = st[p][id] /\ t = st'[p][id] /\ Changes(p, id, s, t)
  BY AgingFacts
<1>3. CASE UserReset(id)
  BY <1>3, ForGood
<1>4. CASE s.reset /\ ~UserReset(id)
  <2>1. Ended(p, id, s, st[q][id])
    BY <1>1, <1>2, SteadyKept DEF IInv, EndInv
  <2>2. GivenUp(q, id) /\ NoData(q, id)
    BY <1>1, <1>4, <2>1 DEF Ended
  <2>3. st[q][id].handle # "open"
    <3>1. PICK u : u = st[q][id] /\ Sound(u)
      BY <1>1, RecordIn
    <3> QED
      BY <2>2, <3>1, NotMade DEF GivenUp
  <2> QED
    BY <1>1, <2>2, <2>3, NoDataKept, ForGood
<1>5. CASE t.userReset
  BY <1>2, <1>5 DEF UserReset
<1>6. CASE From(p, Frame("rst", id)) /\ id \in registry[p] /\ ~UserReset(id)
  <2>1. RstInv(q, id)
    BY <1>1, <1>6, SteadyKept, RstFacts
  <2>2. GivenUp(q, id)
    BY <1>1, <1>6, <2>1 DEF RstInv, Left
  <2> QED
    BY <1>1, <1>6, <2>2, SteadyKept, NoDataBehind, ForGood
<1> QED
  BY <1>2, <1>3, <1>4, <1>5, <1>6, SteadyKept DEF Changes

(* A FIN comes behind every payload: when it is dispatched, all that was   *)
(* written has been received.                                              *)
LEMMA FinCounts ==
    ASSUME IInv, NEW p \in Peers, NEW id \in Ids, From(p, Frame("fin", id)), id \in registry[p],
           NEW s \in StreamRecord, s = st[p][id], NEW u \in StreamRecord, u = st[Other(p)][id]
    PROVE  s.made /\ ~u.writeOpen /\ Count(s) = u.wrote
<1>1. PICK q \in Peers : q = Other(p) /\ Other(q) = p
  BY PeerFacts
<1>2. PICK f : f = Frame("fin", id)
  OBVIOUS
<1>3. /\ FrameInv(q, f) /\ reader[p] # "out" /\ 1 \in 1..Len(net[q]) /\ net[q][1] = f
      /\ \A j \in 1..Len(net[q]) : j > 1 => OrderInv(f, net[q][j])
  BY <1>1, <1>2, FromFacts
<1>4. f.kind = "fin" /\ f.id = id
  BY <1>2 DEF Frame
<1>5. ~u.writeOpen
  BY <1>1, <1>3, <1>4 DEF FrameInv, FinInv
<1>6. Paired(p, id, s, u)
  BY DEF IInv, StreamInv
<1>7. s.made /\ Count(s) <= u.wrote
  BY <1>6 DEF Paired
<1>8. HasFin(q, id)
  BY <1>2, <1>3 DEF HasFin, Fin
<1>9. \A n \in Count(s) + 1 .. u.wrote : \E i \in 1..Len(net[q]) : net[q][i] = Payload(id, n)
  BY <1>1, <1>3, <1>8 DEF IInv, DataInv, Received
<1>10. ASSUME NEW i \in 1..Len(net[q]), NEW n PROVE net[q][i] # Payload(id, n)
  <2>1. Payload(id, n).kind = "data" /\ Payload(id, n).id = id
    BY DEF Payload
  <2>2. CASE i = 1
    BY <1>3, <1>4, <2>1, <2>2
  <2>3. CASE i > 1
    <3>1. OrderInv(f, net[q][i])
      BY <1>3, <2>3
    <3> QED
      BY <1>4, <2>1, <3>1 DEF OrderInv
  <2> QED
    BY SMTT(60), <2>2, <2>3
<1>11. PICK a \in Nat, b \in Nat : a = Count(s) /\ b = u.wrote
  BY RecordNumbers
<1>12. ~(a + 1 \in a + 1 .. b)
  BY <1>9, <1>10, <1>11
<1>13. a = b
  BY SMTT(60), <1>7, <1>11, <1>12
<1> QED
  BY <1>5, <1>7, <1>11, <1>13

(* How a read half comes to be closed: what the two sides then know.       *)
LEMMA FinEnds ==
    ASSUME IInv, [Next]_vars, NEW p \in Peers, NEW id \in Ids, Steady(p)',
           NEW t, t = st'[p][id], NEW v, v = st'[Other(p)][id], ~t.readOpen, ~t.reset
    PROVE  t.made /\ ~v.writeOpen /\ NoData(Other(p), id)' /\ Count(t) = v.wrote
<1>1. PICK q \in Peers : q = Other(p) /\ Other(q) = p
  BY PeerFacts
<1>2. PICK s \in StreamRecord : s = st[p][id] /\ Ages(s, t) /\ Changes(p, id, s, t)
  BY AgingFacts
<1>3. PICK u \in StreamRecord : u = st[q][id] /\ Ages(u, v) /\ Changes(q, id, u, v)
  BY SMTT(60), <1>1, AgingFacts
<1>4. Steady(p) /\ ~Drained(p)' /\ ~s.reset
  BY <1>2, SteadyKept DEF Ages, Steady
<1>5. ASSUME s.made, ~u.writeOpen, Count(s) = u.wrote, NoData(q, id)', ~Pushed(p, id, s, t)
      PROVE  t.made /\ ~v.writeOpen /\ NoData(q, id)' /\ Count(t) = v.wrote
  <2>1. t.made /\ ~v.writeOpen
    BY <1>2, <1>3, <1>5 DEF Ages
  <2>2. Count(t) = Count(s)
    BY <1>2, <1>5 DEF Changes
  <2>3. v.wrote = u.wrote
    BY <1>3, <1>5 DEF Changes, Sent
  <2> QED
    BY <1>5, <2>1, <2>2, <2>3
<1>6. CASE ~s.readOpen
  <2>1. Ended(p, id, s, u)
    BY <1>1, <1>2, <1>3, <1>4 DEF IInv, EndInv
  <2>2. s.made /\ ~u.writeOpen /\ NoData(q, id) /\ Count(s) = u.wrote
    BY <1>1, <1>4, <1>6, <2>1 DEF Ended
  <2>3. NoData(q, id)'
    BY <1>3, <2>2, NoDataKept
  <2>4. ASSUME Pushed(p, id, s, t) PROVE FALSE
    <3>1. PICK f : From(p, f) /\ f.kind = "data" /\ f.id = id
      BY <2>4 DEF Pushed
    <3>2. 1 \in 1..Len(net[q]) /\ net[q][1] = f
      BY <1>1, <3>1, FromFacts
    <3> QED
      BY <2>2, <3>1, <3>2 DEF NoData
  <2> QED
    BY <1>1, <1>5, <2>2, <2>3, <2>4
<1>7. CASE From(p, Frame("fin", id)) /\ id \in registry[p]
  <2>1. NoData(q, id)'
    BY <1>1, <1>7, NoDataBehind
  <2>2. s.made /\ ~u.writeOpen /\ Count(s) = u.wrote
    <3>1. s = st[p][id] /\ u = st[Other(p)][id]
      BY <1>1, <1>2, <1>3
    <3> QED
      BY SMTT(60), <1>7, <3>1, FinCounts
  <2>3. ~Pushed(p, id, s, t)
    BY SMTT(60), <1>7 DEF Pushed, From, Frame
  <2> QED
    BY <1>1, <1>5, <2>1, <2>2, <2>3
<1> QED
  BY <1>2, <1>4, <1>6, <1>7 DEF Changes

(* Every step keeps what is known of the streams that are reset or whose   *)
(* read half is closed.                                                    *)
LEMMA EndInvStep == ASSUME IInv, [Next]_vars PROVE EndInv'
<1> SUFFICES ASSUME NEW p \in Peers, NEW id \in Ids, Steady(p)'
             PROVE  Ended(p, id, st[p][id], st[Other(p)][id])'
  BY DEF EndInv
<1>1. st'[p][id].reset => UserReset(id)' \/ (GivenUp(Other(p), id)' /\ NoData(Other(p), id)')
  BY ResetEnds
<1>2. ~st'[p][id].readOpen /\ ~st'[p][id].reset =>
          /\ st'[p][id].made /\ ~st'[Other(p)][id].writeOpen
          /\ NoData(Other(p), id)' /\ Count(st'[p][id]) = st'[Other(p)][id].wrote
  BY SMTT(60), FinEnds
<1> QED
  BY <1>1, <1>2 DEF Ended

\* The payload n of a stream is under way from q.
Waits(q, id, n) == \E i \in 1..Len(net[q]) : net[q][i] = Payload(id, n)

(* A payload stays under way when the first frame is dispatched: it is     *)
(* behind that one, or counted.                                            *)
LEMMA DispatchKeeps ==
    ASSUME IInv, NEW q \in Peers, NEW p \in Peers, p = Other(q), NEW id \in Ids, id \in registry[p],
           NEW n \in Nat, NEW a \in Nat, a = Received(p, id), Received(p, id)' < n,
           Dispatches(q), Waits(q, id, n), a + 1 < n => Waits(q, id, a + 1)
    PROVE  Waits(q, id, n)'
<1>1. PICK f \in Seq(Frames) : f = net[q]
  BY TypeFacts DEF NetType
<1>2. f # <<>> /\ net'[q] = Tail(f)
  BY <1>1 DEF Dispatches, Takes
<1>3. PICK k \in 1..Len(f) : f[k] = Payload(id, n)
  BY <1>1 DEF Waits
<1>4. CASE k # 1
  <2>1. k - 1 \in 1..Len(Tail(f)) /\ Tail(f)[k - 1] = f[k]
    BY SMTT(60), <1>2, <1>4
  <2> QED
    BY <1>2, <1>3, <2>1 DEF Waits
<1>5. CASE k = 1
  <2>1. Payload(id, n).kind = "data" /\ Payload(id, n).id = id /\ Payload(id, n).n = n
    BY DEF Payload
  <2>2. Head(f) = Payload(id, n)
    BY SMTT(60), <1>2, <1>3, <1>5
  <2>3. Count(st'[p][id]) = Count(st[p][id]) + 1
    BY <1>1, <2>1, <2>2 DEF Dispatches
  <2>4. a + 1 < n
    BY <2>3 DEF Received
  <2>5. PICK m \in Nat : m = a + 1
    BY SMTT(60)
  <2>6. PICK j \in 1..Len(f) : f[j] = Payload(id, m)
    BY <1>1, <2>4, <2>5 DEF Waits
  <2>7. Payload(id, m).kind = "data" /\ Payload(id, m).id = id /\ Payload(id, m).n = m
    BY DEF Payload
  <2>8. n # m
    BY SMTT(60), <2>4, <2>5
  <2>9. j # 1
    BY <1>3, <1>5, <2>1, <2>6, <2>7, <2>8
  <2>10. 1 \in 1..Len(f) /\ 1 < j
    BY SMTT(60), <2>9
  <2>11. OrderInv(Payload(id, n), Payload(id, m))
    BY <1>1, <1>3, <1>5, <2>6, <2>10, InOrder
  <2>12. n < m
    BY <2>1, <2>7, <2>11 DEF OrderInv
  <2> QED
    BY SMTT(60), <2>4, <2>5, <2>12
<1> QED
  BY <1>4, <1>5

(* What the transport loses when it breaks is behind what it delivers: a   *)
(* payload ahead of a FIN that arrives does.                               *)
LEMMA BreakKeeps ==
    ASSUME IInv, NEW q \in Peers, NEW id \in Ids, NEW n \in Nat, NEW c \in 0..Len(net[q]),
           net'[q] = Append(SubSeq(net[q], 1, c), Nothing), HasFin(q, id)', Waits(q, id, n)
    PROVE  Waits(q, id, n)'
<1>1. PICK f \in Seq(Frames) : f = net[q]
  BY TypeFacts DEF NetType
<1>2. PICK g : g = net'[q]
  OBVIOUS
<1>3. PICK k \in 1..Len(f) : f[k] = Payload(id, n)
  BY <1>1 DEF Waits
<1>4. PICK j \in 1..Len(g) : g[j] = Fin(id)
  BY <1>2 DEF HasFin
<1>5. /\ \A i \in 1..c : i \in 1..Len(g) /\ g[i] = f[i] /\ i \in 1..Len(f)
      /\ Len(g) = c + 1 /\ g[c + 1] = Nothing
  <2>1. /\ SubSeq(f, 1, c) \in Seq(Frames) /\ Len(SubSeq(f, 1, c)) = c
        /\ \A i \in 1..c : SubSeq(f, 1, c)[i] = f[i]
    BY SMTT(60), <1>1
  <2> QED
    BY SMTT(60), <1>1, <1>2, <2>1
<1>6. /\ Fin(id).kind = "fin" /\ Fin(id).id = id /\ Nothing.kind = "err"
      /\ Payload(id, n).kind = "data" /\ Payload(id, n).id = id
  BY DEF Fin, Frame, Nothing, Payload
<1>7. c \in Nat /\ j # c + 1
  BY SMTT(60), <1>1, <1>4, <1>5, <1>6
<1>8. j \in 1..c
  BY SMTT(60), <1>5, <1>7
<1>9. f[j] = Fin(id) /\ j \in 1..Len(f) /\ k # j
  BY <1>3, <1>4, <1>5, <1>6, <1>8
<1>10. ASSUME j < k PROVE FALSE
  <2>1. OrderInv(Fin(id), Payload(id, n))
    BY <1>1, <1>3, <1>9, <1>10, InOrder
  <2> QED
    BY <1>6, <2>1 DEF OrderInv
<1>11. k \in 1..c
  BY SMTT(60), <1>8, <1>9, <1>10
<1> QED
  BY <1>2, <1>3, <1>5, <1>11 DEF Waits

(* A payload that is under way when a step begins, and that the step does  *)
(* not count, still is when it ends.                                       *)
LEMMA WaitsKept ==
    ASSUME IInv, [Next]_vars, NEW q \in Peers, NEW p \in Peers, p = Other(q), NEW id \in Ids,
           reader'[p] # "out", id \in registry[p], writer'[q] = "running" \/ HasFin(q, id)',
           NEW n \in Nat, NEW a \in Nat, a = Received(p, id), Received(p, id)' < n,
           Waits(q, id, n), a + 1 < n => Waits(q, id, a + 1)
    PROVE  Waits(q, id, n)'
<1>1. Carries(q)
  BY StepFacts DEF AllCarry
<1>2. CASE \A k \in 1..Len(net[q]) : k \in 1..Len(net'[q]) /\ net'[q][k] = net[q][k]
  BY <1>2 DEF Waits
<1>3. CASE Dispatches(q)
  BY <1>3, DispatchKeeps
<1>4. ASSUME writer'[q] # "running", NEW k \in 0..Len(net[q]),
             net'[q] = Append(SubSeq(net[q], 1, k), Nothing)
      PROVE  Waits(q, id, n)'
  BY <1>4, BreakKeeps
<1> QED
  BY <1>1, <1>2, <1>3, <1>4 DEF Carries

(* A FIN is sent by a writer task that is running.                         *)
LEMMA ReachStep ==
    ASSUME IInv, [Next]_vars, NEW q \in Peers, NEW id \in Ids,
           writer'[q] = "running" \/ HasFin(q, id)'
    PROVE  writer[q] = "running" \/ HasFin(q, id)
<1>1. CASE writer'[q] = "running"
  BY <1>1, StepFacts DEF Books, Tasks, Writers
<1>2. CASE HasFin(q, id)'
  <2>1. PICK f \in Frames : Follows(q, f)
    BY StepFacts DEF NetGrows
  <2> QED
    BY <1>2, <2>1 DEF HasFin, Follows
<1> QED
  BY <1>1, <1>2

(* The payload that is written is sent, unless the writer task is gone.    *)
LEMMA SentWaits ==
    ASSUME IInv, [Next]_vars, NEW q \in Peers, NEW p \in Peers, p = Other(q), NEW id \in Ids,
           reader[p] # "out", writer[q] = "running" \/ HasFin(q, id),
           NEW u \in StreamRecord, u = st[q][id], NEW v \in StreamRecord, Sent(q, id, u, v)
    PROVE  Waits(q, id, v.wrote)'
<1>1. u.writeOpen /\ Emits(q, Payload(id, v.wrote))
  BY DEF Sent
<1>2. ASSUME NEW j \in 1..Len(net[q]), net[q][j] = Fin(id) PROVE FALSE
  <2>1. FrameInv(q, Fin(id))
    BY <1>2, UnderWay
  <2>2. Fin(id).kind = "fin" /\ Fin(id).id = id
    BY DEF Fin, Frame
  <2> QED
    BY <1>1, <2>1, <2>2 DEF FrameInv, FinInv
<1>3. writer[q] = "running"
  BY <1>2 DEF HasFin
<1>4. PICK f \in Seq(Frames) : f = net[q]
  BY TypeFacts DEF NetType
<1>5. PICK g : g = Payload(id, v.wrote)
  OBVIOUS
<1>6. net'[q] = Append(f, g)
  BY <1>1, <1>3, <1>4, <1>5 DEF Emits, Heard
<1>7. Len(f) + 1 \in 1..Len(Append(f, g)) /\ Append(f, g)[Len(f) + 1] = g
  BY SMTT(60)
<1> QED
  BY <1>5, <1>6, <1>7 DEF Waits

(* Nothing is written on a stream that the other side has not made yet.    *)
LEMMA NotWritten ==
    ASSUME IInv, NEW p \in Peers, NEW id \in Ids, NEW s \in StreamRecord, s = st[p][id], ~s.made,
           NEW u \in StreamRecord, u = st[Other(p)][id]
    PROVE  u.wrote = 0 /\ u.handle # "open"
<1>1. PICK q \in Peers : q = Other(p) /\ Other(q) = p
  BY PeerFacts
<1>2. Paired(q, id, u, s)
  BY <1>1 DEF IInv, StreamInv
<1>3. Sound(s)
  BY SMTT(60), RecordIn
<1>4. s.handle = "none"
  BY <1>3, NotMade
<1>5. ~u.acked
  BY <1>2, <1>4, NotMade DEF Paired
<1>6. ~(u.wrote > 0) /\ u.handle # "open"
  BY <1>2, <1>5 DEF Paired, Sound
<1>7. u.wrote \in Nat
  BY RecordNumbers
<1> QED
  BY SMTT(60), <1>6, <1>7

(* Every payload of a registered stream stays under way until it is        *)
(* counted.                                                                *)
LEMMA DataInvStep == ASSUME IInv, [Next]_vars PROVE DataInv'
<1> SUFFICES ASSUME NEW p \in Peers, NEW id \in Ids, reader'[p] # "out", id \in registry'[p],
                    writer'[Other(p)] = "running" \/ HasFin(Other(p), id)',
                    NEW n \in Received(p, id)' + 1 .. st'[Other(p)][id].wrote
             PROVE  Waits(Other(p), id, n)'
  BY DEF DataInv, Waits
<1>1. PICK q \in Peers : q = Other(p) /\ p = Other(q)
  BY PeerFacts
<1>2. PICK s \in StreamRecord, t \in StreamRecord :
          s = st[p][id] /\ t = st'[p][id] /\ Changes(p, id, s, t)
  BY AgingFacts
<1>3. PICK u \in StreamRecord, v \in StreamRecord :
          u = st[q][id] /\ v = st'[q][id] /\ Changes(q, id, u, v)
  BY AgingFacts
<1>4. PICK a \in Nat, b \in Nat : a = Count(s) /\ b = Count(t)
  BY RecordNumbers
<1>5. PICK c \in Nat, d \in Nat : c = u.wrote /\ d = v.wrote
  BY RecordNumbers
<1>6. n \in b + 1 .. d
  BY <1>1, <1>2, <1>3, <1>4, <1>5 DEF Received
<1>7. b = a \/ b = a + 1
  BY <1>2, <1>4 DEF Changes, Pushed
<1>8. d = c \/ (Sent(q, id, u, v) /\ d = c + 1 /\ u.handle = "open")
  BY <1>3, <1>5 DEF Changes, Sent
<1>9. reader[p] # "out" /\ (writer[q] = "running" \/ HasFin(q, id))
  BY <1>1, TaskFacts, ReachStep
<1>10. CASE id \notin registry[p]
  <2>1. ~s.made
    BY <1>2, <1>10, StepFacts DEF Books, Registers
  <2>2. c = 0 /\ u.handle # "open"
    BY <1>1, <1>2, <1>3, <1>5, <2>1, NotWritten
  <2> QED
    BY SMTT(60), <1>6, <1>8, <2>2
<1>11. CASE id \in registry[p]
  <2>1. \A m \in a + 1 .. c : Waits(q, id, m)
    BY <1>1, <1>2, <1>3, <1>4, <1>5, <1>9, <1>11 DEF IInv, DataInv, Received, Waits
  <2>2. CASE n <= c
    <3>1. n \in Nat /\ b < n /\ n \in a + 1 .. c /\ (a + 1 < n => a + 1 \in a + 1 .. c)
      BY SMTT(60), <1>6, <1>7, <2>2
    <3>2. Waits(q, id, n) /\ (a + 1 < n => Waits(q, id, a + 1))
      BY <2>1, <3>1
    <3>3. a = Received(p, id) /\ Received(p, id)' < n
      BY <1>2, <1>4, <3>1 DEF Received
    <3>4. Waits(q, id, n)'
      BY <1>1, <1>11, <3>1, <3>2, <3>3, WaitsKept
    <3> QED
      BY <1>1, <3>4
  <2>3. CASE ~(n <= c)
    <3>1. Sent(q, id, u, v) /\ n = d
      BY SMTT(60), <1>6, <1>8, <2>3
    <3>2. Waits(q, id, v.wrote)'
      BY <1>1, <1>3, <1>9, <3>1, SentWaits
    <3> QED
      BY <1>1, <1>5, <3>1, <3>2
  <2> QED
    BY <2>2, <2>3
<1> QED
  BY <1>10, <1>11

----------------------------------------------------------------------------

(* Two sessions start with nothing registered and nothing under way.       *)
LEMMA InitInv == Init => IInv
<1> SUFFICES ASSUME Init PROVE IInv
  OBVIOUS
<1>1. Absent \in StreamRecord
  BY SMTT(60), SessionAssumption DEF Absent, StreamRecord
<1>2. Typed
  BY SMTT(60), <1>1, IdFacts DEF Init, Typed, NetType, StType, RestType, TaskType, Codes
<1>3. \A p \in Peers : /\ net[p] = <<>> /\ acceptq[p] = <<>> /\ registry[p] = {} /\ closerq[p] = {}
                       /\ shut[p] = "no" /\ stage[p] = "up" /\ reader[p] = "reading"
                       /\ nextId[p] = FirstId(p) /\ admitted[p] = 0
                       /\ \A id \in Ids : st[p][id] = Absent
  BY DEF Init
<1>4. /\ ~Absent.made /\ Absent.handle = "none" /\ ~Absent.acked /\ ~Absent.reset
      /\ Absent.readOpen /\ Absent.wrote = 0 /\ Count(Absent) = 0 /\ Sound(Absent)
      /\ Count(Absent) <= Absent.wrote
  BY SMTT(60) DEF Absent, Count, Sound
<1>5. IdInv
  <2>1. \A p \in Peers : 0 \in 0..Opens(p) /\ FirstId(p) + 2 * 0 = FirstId(p) /\ 0 + 0 <= Opens(p)
    BY SMTT(60), IdFacts
  <2> QED
    BY <1>3, <2>1 DEF IdInv
<1>6. StreamInv
  <2>1. ASSUME NEW p \in Peers, NEW id \in Ids PROVE Paired(p, id, Absent, Absent)
    BY <1>3, <1>4 DEF Paired
  <2> QED
    BY <1>3, <2>1, PeerFacts DEF StreamInv
<1>7. NetInv /\ ResetInv /\ AcceptInv
  BY SMTT(60), <1>3 DEF NetInv, ResetInv, AcceptInv
<1>8. StageInv /\ GoAwayInv
  BY <1>3 DEF StageInv, GoAwayInv, Told
<1>9. ShutInv /\ LiveHandleRegistered /\ ProtocolErrorOnlyAfterReset
  BY <1>3, <1>4 DEF ShutInv, LiveHandleRegistered, ProtocolErrorOnlyAfterReset
<1>10. EndInv /\ DataInv
  BY <1>3, <1>4 DEF EndInv, Ended, DataInv
<1> QED
  BY <1>2, <1>5, <1>6, <1>7, <1>8, <1>9, <1>10 DEF IInv

(* Every step keeps the invariant.                                         *)
LEMMA StepInv == ASSUME IInv, [Next]_vars PROVE IInv'
<1>1. Typed' /\ IdInv' /\ StageInv'
  BY StepFacts DEF Books, Numbers, Tasks
<1>2. StreamInv' /\ NetInv' /\ ResetInv' /\ GoAwayInv' /\ AcceptInv' /\ ShutInv'
  BY StreamInvStep, NetInvStep, ResetInvStep, GoAwayInvStep, AcceptInvStep, ShutInvStep
<1>3. EndInv' /\ DataInv' /\ LiveHandleRegistered' /\ ProtocolErrorOnlyAfterReset'
  BY EndInvStep, DataInvStep, LiveStep, CodeStep
<1> QED
  BY <1>1, <1>2, <1>3 DEF IInv

(* The invariant holds throughout.                                         *)
THEOREM Invariance == Spec => []IInv
BY InitInv, StepInv, PTL DEF Spec

----------------------------------------------------------------------------

(* No counter of payloads passes the bound on writes, and every id is one  *)
(* of a call of open().                                                    *)
THEOREM Types == Spec => []TypeOK
<1>1. ASSUME IInv, NEW p \in Peers
      PROVE  nextId[p] \in {FirstId(p) + 2 * k : k \in 0..Opens(p)} /\ admitted[p] \in 0..Opens(p)
  <2>1. PICK k \in 0..Opens(p) : nextId[p] = FirstId(p) + 2 * k /\ k + admitted[p] <= Opens(p)
    BY <1>1 DEF IInv, IdInv
  <2>2. admitted[p] \in Nat /\ Opens(p) \in Nat
    BY <1>1, IdFacts, TypeFacts DEF RestType
  <2> QED
    BY SMTT(60), <2>1, <2>2
<1>2. IInv => TypeOK
  <2> SUFFICES ASSUME IInv PROVE TypeOK
    OBVIOUS
  <2>1. net \in NetType /\ st \in StType /\ RestType
    BY TypeFacts
  <2> QED
    BY <1>1, <2>1 DEF NetType, StType, RestType, TaskType, Frames, TypeOK
<1> QED
  BY <1>2, Invariance, PTL

(* open() returns a Stream only when accept() of the other side has taken  *)
(* it: an ACK is sent by accept() alone.                                   *)
THEOREM Handshake == Spec => []HandshakeSound
<1>1. IInv => HandshakeSound
  <2> SUFFICES ASSUME IInv, NEW p \in Peers, NEW id \in Ids, st[p][id].handle = "open", Owns(p, id)
               PROVE  st[Other(p)][id].handle \in {"open", "dropped"}
    BY DEF HandshakeSound
  <2>1. Paired(p, id, st[p][id], st[Other(p)][id])
    BY DEF IInv, StreamInv
  <2> QED
    BY <2>1 DEF Paired, Sound
<1> QED
  BY <1>1, Invariance, PTL

(* A session that is up is steady.                                         *)
LEMMA UpIsSteady ==
    ASSUME IInv, NEW p \in Peers, shut[p] = "no"
    PROVE  Steady(p)
BY DEF IInv, StageInv, Steady, Drained

(* A stream is reset only for a reason on one of the two sides.            *)
THEOREM ResetCause == Spec => []ResetHasCause
<1>1. IInv => ResetHasCause
  <2> SUFFICES ASSUME IInv, NEW p \in Peers, NEW id \in Ids, st[p][id].reset, shut[p] = "no"
               PROVE  \/ st[p][id].userReset \/ st[Other(p)][id].userReset
                      \/ ~st[Other(p)][id].made
                      \/ st[Other(p)][id].handle \in {"failed", "dropped"}
    BY DEF ResetHasCause
  <2>1. Ended(p, id, st[p][id], st[Other(p)][id])
    BY UpIsSteady DEF IInv, EndInv
  <2>2. UserReset(id) \/ GivenUp(Other(p), id)
    BY <2>1 DEF Ended
  <2> QED
    BY <2>2, PeerFacts DEF UserReset, GivenUp
<1> QED
  BY <1>1, Invariance, PTL

(* The reader task finds every stream that is in use and not reset.        *)
THEOREM LiveRegistered == Spec => []LiveHandleRegistered
<1>1. IInv => LiveHandleRegistered
  BY DEF IInv
<1> QED
  BY <1>1, Invariance, PTL

(* After the drain of initiate_shutdown, what an application holds or      *)
(* waits for is closed in both halves, unless it was registered since.     *)
THEOREM Unblocked == Spec => []UnblockedByShutdown
<1>1. IInv => UnblockedByShutdown
  BY DEF IInv, ShutInv, UnblockedByShutdown
<1> QED
  BY <1>1, Invariance, PTL

(* A FIN closes the read half when every payload that was written has been *)
(* received, whatever the transport loses.                                 *)
THEOREM DataBeforeFin == Spec => []FinAfterData
<1>1. IInv => FinAfterData
  BY UpIsSteady DEF IInv, EndInv, Ended, FinAfterData, Count
<1> QED
  BY <1>1, Invariance, PTL

(* Without a reset by an application, no session ends with a protocol      *)
(* error: the peer of this code never sends what dispatch refuses.         *)
THEOREM NoProtocolError == Spec => []ProtocolErrorOnlyAfterReset
<1>1. IInv => ProtocolErrorOnlyAfterReset
  BY DEF IInv
<1> QED
  BY <1>1, Invariance, PTL

(* A half that is closed, and a reset, stay so: no id is used twice.       *)
THEOREM Closed == Spec => ClosedForGood
<1> DEFINE Lasts == \A p \in Peers, id \in Ids :
               LET s == st[p][id]
                   t == st'[p][id]
               IN  /\ s.reset => t.reset
                   /\ s.made /\ ~s.readOpen => ~t.readOpen
                   /\ s.made /\ ~s.writeOpen => ~t.writeOpen
<1>1. IInv /\ [Next]_vars => [Lasts]_vars
  <2> SUFFICES ASSUME IInv, [Next]_vars, NEW p \in Peers, NEW id \in Ids
               PROVE  /\ st[p][id].reset => st'[p][id].reset
                      /\ st[p][id].made /\ ~st[p][id].readOpen => ~st'[p][id].readOpen
                      /\ st[p][id].made /\ ~st[p][id].writeOpen => ~st'[p][id].writeOpen
    OBVIOUS
  <2> QED
    BY SMTT(60), AgingFacts DEF Ages
<1>2. ClosedForGood <=> [][Lasts]_vars
  BY DEF ClosedForGood
<1> HIDE DEF Lasts
<1> QED
  BY <1>1, <1>2, Invariance, PTL DEF Spec

(* Each payload that the peer has written on a registered stream, and that *)
(* is not received, is under way, as long as the reader task reads and the *)
(* peer's writer task runs or its FIN is on its way.                       *)
THEOREM NothingLost == Spec => []DataInv
<1>1. IInv => DataInv
  BY DEF IInv
<1> QED
  BY <1>1, Invariance, PTL
=============================================================================
