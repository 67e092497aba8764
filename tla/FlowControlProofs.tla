------------------------- MODULE FlowControlProofs -------------------------
(***************************************************************************)
(* Proofs about FlowControl, for all window sizes, frame sizes and lengths *)
(* of the transfer.                                                        *)
(***************************************************************************)
EXTENDS FlowControl, SequenceTheorems, TLAPS

USE SMTT(60)

\* The FIN is the last frame, and nothing follows it.
FinInv ==
    /\ ~failed
    /\ ~readOpen => finSent /\ wire = <<>>
    /\ \A i \in 1..Len(wire) : wire[i].fin =>
          finSent /\ i = Len(wire) /\ wire[i].from = wire[i].to

\* The tally never rests at or above the threshold.
TallyInv == pending < Threshold

IInv == TypeOK /\ CreditConserved /\ FinInv /\ TallyInv

----------------------------------------------------------------------------
\* Queueing a frame that starts where the chain ends extends the chain.
LEMMA ChainAppend ==
    ASSUME NEW S, NEW q \in Seq(S), NEW f \in S, NEW a \in Int, NEW b \in Int,
           \A g \in S : g.from \in Int /\ g.to \in Int,
           Chain(q, a, b), f.from = b, f.from <= f.to
    PROVE  Chain(Append(q, f), a, f.to)
<1> DEFINE r == Append(q, f)
<1>1. /\ r \in Seq(S) /\ Len(r) = Len(q) + 1
      /\ \A i \in 1..Len(q) : r[i] = q[i]
      /\ r[Len(r)] = f
  BY AppendProperties
<1> HIDE DEF r
<1>2. \A i \in 1..Len(q) : q[i] \in S
  BY ElementOfSeq
<1>3. Len(q) \in Nat
  BY LenProperties
<1>4. \A i \in 1..Len(q) : q[i].to <= b
  <2>1. CASE q = <<>>
    BY <2>1
  <2>2. CASE q # <<>>
    <3>1. Len(q) \in 1..Len(q) /\ b <= b
      BY <2>2, <1>3, EmptySeq
    <3>2. q[Len(q)].to = b
      BY ZenonT(60), <2>2 DEF Chain
    <3> TAKE i \in 1..Len(q)
    <3>3. CASE i = Len(q)
      BY ZenonT(60), <3>1, <3>2, <3>3
    <3>4. CASE i # Len(q)
      <4>1. i < Len(q)
        BY <3>4, <1>3
      <4>2. /\ q[i].to <= q[Len(q)].from /\ q[Len(q)].from <= b
            /\ q[i].to \in Int /\ q[Len(q)].from \in Int
        BY ZenonT(60), <3>1, <3>2, <4>1, <1>2 DEF Chain
      <4> QED BY <4>2
    <3> QED BY <3>3, <3>4
  <2> QED BY <2>1, <2>2
<1>5. \A i \in 1..Len(r) : r[i].from <= r[i].to
  <2> TAKE i \in 1..Len(r)
  <2>1. i = Len(r) \/ i \in 1..Len(q)
    BY <1>1, <1>3
  <2> QED BY ZenonT(60), <2>1, <1>1 DEF Chain
<1>6. ASSUME NEW i \in 1..Len(r), NEW j \in 1..Len(r), i < j
      PROVE  r[i].to <= r[j].from
  <2>1. i \in 1..Len(q) /\ r[i] = q[i]
    BY <1>1, <1>3, <1>6
  <2>2. CASE j = Len(r)
    BY <2>1, <2>2, <1>1, <1>4
  <2>3. CASE j # Len(r)
    <3>1. j \in 1..Len(q) /\ r[j] = q[j]
      BY <2>3, <1>1, <1>3
    <3> QED BY <2>1, <3>1, <1>6 DEF Chain
  <2> QED BY <2>2, <2>3
<1>7. \A i \in 1..(Len(r) - 1) : r[i].to = r[i + 1].from
  <2> TAKE i \in 1..(Len(r) - 1)
  <2>1. CASE i = Len(q)
    BY <2>1, <1>1, <1>3, EmptySeq DEF Chain
  <2>2. CASE i # Len(q)
    <3>1. i \in 1..(Len(q) - 1) /\ i \in 1..Len(q) /\ i + 1 \in 1..Len(q)
      BY <2>2, <1>1, <1>3
    <3>2. q[i].to = q[i + 1].from
      BY <3>1 DEF Chain
    <3> QED BY ZenonT(60), <3>1, <3>2, <1>1
  <2> QED BY <2>1, <2>2
<1>8. r # <<>> /\ r[1].from = a
  <2>1. r # <<>> /\ (q = <<>> => 1 = Len(r)) /\ (q # <<>> => 1 \in 1..Len(q))
    BY <1>1, <1>3, EmptySeq
  <2> QED BY ZenonT(60), <2>1, <1>1 DEF Chain
<1>9. Chain(r, a, f.to)
  BY <1>1, <1>5, <1>6, <1>7, <1>8 DEF Chain
<1> QED BY <1>9 DEF r

\* Dispatching the first frame of a chain leaves the chain that starts where
\* the frame ended.
LEMMA ChainTail ==
    ASSUME NEW S, NEW q \in Seq(S), NEW a \in Int, NEW b \in Int,
           \A g \in S : g.from \in Int /\ g.to \in Int,
           q # <<>>, Chain(q, a, b)
    PROVE  /\ Head(q) \in S /\ Head(q).from = a
           /\ a <= Head(q).to /\ Head(q).to <= b
           /\ Chain(Tail(q), Head(q).to, b)
<1> DEFINE r == Tail(q)
<1>1. /\ Len(q) \in Nat /\ Len(q) > 0
      /\ r \in Seq(S) /\ Len(r) = Len(q) - 1
      /\ \A i \in 1..Len(r) : r[i] = q[i + 1]
      /\ Head(q) = q[1]
  BY HeadTailProperties, EmptySeq, LenProperties
<1> HIDE DEF r
<1>2. \A i \in 1..Len(q) : q[i] \in S
  BY ElementOfSeq
<1>3. Head(q) \in S /\ Head(q).from = a /\ a <= Head(q).to
  BY <1>1, <1>2 DEF Chain
<1>4. Head(q).to <= b
  BY <1>1, <1>2 DEF Chain
<1>5. \A i \in 1..Len(r) : i + 1 \in 1..Len(q)
  BY <1>1
<1>a. \A i \in 1..Len(r) : r[i].from <= r[i].to
  BY ZenonT(60), <1>1, <1>5 DEF Chain
<1>b. ASSUME NEW i \in 1..Len(r), NEW j \in 1..Len(r), i < j
      PROVE  r[i].to <= r[j].from
  <2>1. i + 1 < j + 1 /\ i + 1 \in 1..Len(q) /\ j + 1 \in 1..Len(q)
    BY <1>b, <1>5
  <2>2. q[i + 1].to <= q[j + 1].from
    BY <2>1 DEF Chain
  <2> QED BY ZenonT(60), <2>2, <1>1
<1>c. ASSUME NEW i \in 1..(Len(r) - 1)
      PROVE  r[i].to = r[i + 1].from
  <2>1. i + 1 \in 1..(Len(q) - 1) /\ i \in 1..Len(r) /\ i + 1 \in 1..Len(r)
    BY <1>1
  <2>2. q[i + 1].to = q[(i + 1) + 1].from
    BY <2>1 DEF Chain
  <2> QED BY ZenonT(60), <2>1, <2>2, <1>1
<1>6. IF r = <<>> THEN Head(q).to = b ELSE r[1].from = Head(q).to /\ r[Len(r)].to = b
  <2>1. CASE r = <<>>
    <3>1. Len(q) = 1
      BY <2>1, <1>1, EmptySeq
    <3> QED BY <2>1, <3>1, <1>1 DEF Chain
  <2>2. CASE r # <<>>
    <3>1. Len(r) > 0
      BY <2>2, <1>1, EmptySeq
    <3>2. /\ 1 \in 1..Len(r) /\ Len(r) \in 1..Len(r)
          /\ 1 \in 1..(Len(q) - 1) /\ Len(r) + 1 = Len(q)
      BY <3>1, <1>1
    <3> QED BY ZenonT(60), <2>2, <3>2, <1>1 DEF Chain
  <2> QED BY <2>1, <2>2
<1>7. Chain(r, Head(q).to, b)
  BY <1>a, <1>b, <1>c, <1>6 DEF Chain
<1> QED BY <1>3, <1>4, <1>7 DEF r

\* A chain of frames never runs backwards.
LEMMA ChainLe ==
    ASSUME NEW S, NEW q \in Seq(S), NEW a \in Int, NEW b \in Int,
           \A g \in S : g.from \in Int /\ g.to \in Int,
           Chain(q, a, b)
    PROVE  a <= b
<1>1. CASE q = <<>>
  BY <1>1 DEF Chain
<1>2. CASE q # <<>>
  BY <1>2, ChainTail, HeadTailProperties
<1> QED BY <1>1, <1>2

----------------------------------------------------------------------------
\* Every queued frame carries an interval of stream positions.
LEMMA Frames ==
    /\ \A f \in DataFrame : f.from \in Int /\ f.to \in Int /\ f.fin \in BOOLEAN
    /\ \A u \in UpdateFrame : u.from \in Int /\ u.to \in Int
BY ConfigAssumption DEF DataFrame, UpdateFrame

\* on_consume emits at half a window or less, but never at zero.
LEMMA ThresholdType == Threshold \in Nat /\ 1 <= Threshold /\ Threshold <= RecvInit
BY ConfigAssumption DEF Threshold, Greatest

\* The invariant holds of a stream that was just established.
LEMMA InitIInv == Init => IInv
<1> SUFFICES ASSUME Init PROVE IInv
  OBVIOUS
<1>1. TypeOK
  <2>1. wire \in Seq(DataFrame) /\ updates \in Seq(UpdateFrame)
    BY EmptySeq DEF Init
  <2>2. /\ available \in 0..MaxCredit
        /\ sent \in 0..Total /\ received \in 0..Total /\ consumed \in 0..Total
        /\ pending \in 0..Total
    BY ConfigAssumption DEF Init
  <2> QED BY ZenonT(60), <2>1, <2>2 DEF Init, TypeOK
<1>2. CreditConserved
  BY ConfigAssumption DEF Init, CreditConserved, Chain, Returned
<1>3. FinInv /\ TallyInv
  BY ThresholdType DEF Init, FinInv, TallyInv
<1> QED BY <1>1, <1>2, <1>3 DEF IInv

\* poll_write keeps the invariant: the bytes it queues leave the send window.
LEMMA WriteIInv ==
    ASSUME IInv, NEW n \in 1..Total, Write(n)
    PROVE  IInv'
<1> DEFINE t == Take(n)
           f == [from |-> sent, to |-> sent + t, fin |-> FALSE]
<1> USE ConfigAssumption
<1>1. t \in Nat /\ t > 0 /\ t <= available /\ t <= Total - sent
  BY DEF Take, Least, Write, IInv, TypeOK
<1>2. f \in DataFrame /\ f.from = sent /\ f.to = sent + t /\ f.fin = FALSE
  BY <1>1 DEF IInv, TypeOK, DataFrame
<1>3. available' = available - t /\ sent' = sent + t /\ wire' = Append(wire, f)
  BY DEF Write
<1> HIDE DEF t, f
<1>4. TypeOK'
  BY <1>1, <1>2, <1>3 DEF IInv, TypeOK, Write
<1>5. Returned' = Returned
  BY <1>1, <1>3 DEF Returned, IInv, TypeOK
<1>6. Chain(wire', received', sent')
  <2>1. Chain(Append(wire, f), received, f.to)
    BY <1>1, <1>2, Frames, ChainAppend DEF IInv, TypeOK, CreditConserved
  <2> QED BY <2>1, <1>2, <1>3 DEF Write
<1>7. CreditConserved'
  BY <1>5, <1>6 DEF CreditConserved, IInv, Write
<1>8. FinInv'
  <2>1. readOpen /\ ~finSent /\ ~failed
    BY DEF Write, WriteOpen, IInv, FinInv, TypeOK
  <2>2. \A i \in 1..Len(wire') : ~wire'[i].fin
    BY <2>1, <1>2, <1>3, AppendProperties DEF IInv, TypeOK, FinInv
  <2> QED BY <2>1, <2>2 DEF FinInv, Write
<1>9. TallyInv'
  BY DEF TallyInv, IInv, Write, Threshold
<1> QED BY <1>4, <1>7, <1>8, <1>9 DEF IInv

\* poll_shutdown keeps the invariant: the FIN goes behind all data.
LEMMA ShutdownIInv ==
    ASSUME IInv, Shutdown
    PROVE  IInv'
<1> DEFINE f == [from |-> sent, to |-> sent, fin |-> TRUE]
<1> USE ConfigAssumption
<1>1. f \in DataFrame /\ f.from = sent /\ f.to = sent
  BY DEF IInv, TypeOK, DataFrame
<1>2. wire' = Append(wire, f) /\ finSent' = TRUE
  BY DEF Shutdown
<1> HIDE DEF f
<1>3. TypeOK'
  BY <1>1, <1>2 DEF IInv, TypeOK, Shutdown
<1>4. Chain(wire', received', sent')
  <2>1. Chain(Append(wire, f), received, f.to)
    BY <1>1, Frames, ChainAppend DEF IInv, TypeOK, CreditConserved
  <2> QED BY <2>1, <1>1, <1>2 DEF Shutdown
<1>5. CreditConserved'
  BY <1>4 DEF CreditConserved, Returned, IInv, Shutdown
<1>6. FinInv'
  <2>1. readOpen /\ ~finSent /\ ~failed
    BY DEF Shutdown, WriteOpen, IInv, FinInv, TypeOK
  <2>2. \A i \in 1..Len(wire) : ~wire[i].fin
    BY <2>1 DEF IInv, FinInv
  <2>3. \A i \in 1..Len(wire') : wire'[i].fin => i = Len(wire') /\ wire'[i].from = wire'[i].to
    BY <2>2, <1>1, <1>2, AppendProperties DEF IInv, TypeOK
  <2> QED BY <2>1, <2>3, <1>2 DEF FinInv, Shutdown
<1>7. TallyInv'
  BY DEF TallyInv, IInv, Shutdown, Threshold
<1> QED BY <1>3, <1>5, <1>6, <1>7 DEF IInv

\* grant keeps the invariant: the delta of a WindowUpdate returns as credit.
LEMMA DispatchWindowUpdateIInv ==
    ASSUME IInv, DispatchWindowUpdate
    PROVE  IInv'
<1> DEFINE u == Head(updates)
<1> USE ConfigAssumption
<1>1. /\ u \in UpdateFrame /\ u.from = Returned
      /\ Returned <= u.to /\ u.to <= consumed - pending
      /\ Chain(Tail(updates), u.to, consumed - pending)
  <2>1. Returned \in Int /\ consumed - pending \in Int /\ updates \in Seq(UpdateFrame)
    BY DEF IInv, TypeOK, Returned
  <2> QED BY <2>1, Frames, ChainTail DEF DispatchWindowUpdate, IInv, CreditConserved
<1>2. u.to \in Int /\ u.from \in Int
  BY <1>1, Frames
<1>3. /\ updates' = Tail(updates) /\ Tail(updates) \in Seq(UpdateFrame)
      /\ available' = Least(available + (u.to - u.from), MaxCredit)
  BY HeadTailProperties DEF DispatchWindowUpdate, Granted, Length, IInv, TypeOK
<1> HIDE DEF u
<1>4. received <= sent
  BY ChainLe, Frames DEF IInv, TypeOK, CreditConserved
<1>5. available + (u.to - u.from) <= SendInit
  BY <1>1, <1>2, <1>4 DEF Returned, IInv, TypeOK, CreditConserved
<1>6. available' = available + (u.to - u.from)
  BY <1>2, <1>3, <1>5 DEF Least, IInv, TypeOK
<1>7. TypeOK'
  <2>1. available \in 0..MaxCredit
    BY DEF IInv, TypeOK
  <2>2. available' \in 0..MaxCredit
    BY <2>1, <1>1, <1>2, <1>5, <1>6
  <2>3. updates' \in Seq(UpdateFrame)
    BY <1>3
  <2> QED BY ZenonT(60), <2>2, <2>3 DEF IInv, TypeOK, DispatchWindowUpdate
<1>8. Returned' = u.to
  <2>1. available \in Int /\ sent \in Int /\ sent' = sent
    BY DEF DispatchWindowUpdate, IInv, TypeOK
  <2> QED BY <2>1, <1>1, <1>2, <1>6 DEF Returned
<1>9. CreditConserved'
  <2>1. 0 <= u.to
    <3>1. 0 <= Returned /\ Returned \in Int
      BY DEF IInv, TypeOK, CreditConserved, Returned
    <3> QED BY <3>1, <1>1, <1>2
  <2> QED BY ZenonT(60), <2>1, <1>1, <1>3, <1>8 DEF CreditConserved, DispatchWindowUpdate, IInv
<1>10. FinInv' /\ TallyInv'
  BY DEF FinInv, TallyInv, IInv, DispatchWindowUpdate, Threshold
<1> QED BY <1>7, <1>9, <1>10 DEF IInv

\* handle_data keeps the invariant: it appends the next bytes of the stream
\* and finds the read half open.
LEMMA DispatchDataIInv ==
    ASSUME IInv, DispatchData
    PROVE  IInv'
<1> DEFINE f == Head(wire)
<1> USE ConfigAssumption
<1>1. /\ f \in DataFrame /\ f.from = received
      /\ received <= f.to /\ f.to <= sent
      /\ Chain(Tail(wire), f.to, sent)
  BY Frames, ChainTail DEF DispatchData, IInv, TypeOK, CreditConserved
<1>2. f.to \in Int /\ f.from \in Int /\ f.fin \in BOOLEAN
  BY <1>1, Frames
<1>3. readOpen
  BY DEF DispatchData, IInv, FinInv, TypeOK
<1>4. /\ wire' = Tail(wire) /\ Tail(wire) \in Seq(DataFrame)
      /\ f = wire[1] /\ Len(wire) \in Nat /\ Len(wire) > 0
      /\ Len(Tail(wire)) = Len(wire) - 1
      /\ \A i \in 1..Len(Tail(wire)) : Tail(wire)[i] = wire[i + 1]
  BY HeadTailProperties, LenProperties, EmptySeq DEF DispatchData, IInv, TypeOK
<1>5. failed' = FALSE /\ received' = received + (f.to - f.from) /\ readOpen' = ~f.fin
  BY ZenonT(60), <1>2, <1>3 DEF DispatchData, EndsRead, Length
<1> HIDE DEF f
<1>6. received' = f.to
  BY <1>1, <1>2, <1>5 DEF IInv, TypeOK
<1>7. TypeOK'
  <2>1. received' \in 0..Total
    BY <1>1, <1>2, <1>6 DEF IInv, TypeOK
  <2>2. readOpen' \in BOOLEAN /\ failed' \in BOOLEAN /\ wire' \in Seq(DataFrame)
    BY ZenonT(60), <1>2, <1>4, <1>5
  <2> QED BY <2>1, <2>2 DEF IInv, TypeOK, DispatchData
<1>8. CreditConserved'
  <2>1. consumed \in Int /\ received \in Int /\ consumed <= received
    BY DEF IInv, TypeOK, CreditConserved
  <2>2. consumed <= f.to
    BY <2>1, <1>1, <1>2
  <2>3. Returned' = Returned
    BY DEF Returned, DispatchData
  <2> QED BY ZenonT(60), <2>2, <2>3, <1>1, <1>4, <1>6 DEF CreditConserved, DispatchData, IInv
<1>9. FinInv'
  <2>1. ~readOpen' => finSent /\ wire' = <<>>
    <3> SUFFICES ASSUME f.fin PROVE finSent /\ wire' = <<>>
      BY ZenonT(60), <1>2, <1>5
    <3>1. 1 \in 1..Len(wire) /\ wire[1].fin
      BY <1>4
    <3>2. finSent /\ Len(wire) = 1
      BY <3>1 DEF IInv, FinInv
    <3> QED BY <3>2, <1>4, EmptySeq
  <2>2. ASSUME NEW i \in 1..Len(wire'), wire'[i].fin
        PROVE  finSent /\ i = Len(wire') /\ wire'[i].from = wire'[i].to
    <3>1. i + 1 \in 1..Len(wire) /\ wire'[i] = wire[i + 1]
      BY <1>4
    <3>2. wire[i + 1].fin
      BY <3>1, <2>2
    <3>3. finSent /\ i + 1 = Len(wire) /\ wire[i + 1].from = wire[i + 1].to
      BY <3>1, <3>2 DEF IInv, FinInv
    <3> QED BY <3>1, <3>3, <1>4
  <2> QED BY <2>1, <2>2, <1>5 DEF FinInv, DispatchData
<1>10. TallyInv'
  BY DEF TallyInv, IInv, DispatchData, Threshold
<1> QED BY <1>7, <1>8, <1>9, <1>10 DEF IInv

\* poll_read keeps the invariant: on_consume tallies or acknowledges the bytes.
LEMMA ReadIInv ==
    ASSUME IInv, NEW room \in 1..Total, Read(room)
    PROVE  IInv'
<1> DEFINE n == Least(room, received - consumed)
           u == [from |-> consumed - pending, to |-> consumed + n]
<1> USE ConfigAssumption, ThresholdType
<1>1. n \in Nat /\ n > 0 /\ n <= received - consumed
  BY DEF Read, Least, IInv, TypeOK, CreditConserved
<1>2. /\ consumed' = consumed + n
      /\ pending' = IF pending + n >= Threshold THEN 0 ELSE pending + n
      /\ updates' = IF pending + n >= Threshold THEN Append(updates, u) ELSE updates
  BY DEF Read, PendingAfter
<1>3. Returned <= consumed - pending
  BY ChainLe, Frames DEF IInv, TypeOK, CreditConserved, Returned
<1>4. u \in UpdateFrame /\ u.from = consumed - pending /\ u.to = consumed + n
  BY <1>1, <1>3 DEF IInv, TypeOK, CreditConserved, UpdateFrame, Returned
<1> HIDE DEF n, u
<1>5. TypeOK'
  <2>1. consumed' \in 0..Total /\ pending' \in 0..Total
    BY <1>1, <1>2, <1>3 DEF IInv, TypeOK, CreditConserved, Returned
  <2>2. updates' \in Seq(UpdateFrame)
    BY <1>2, <1>4, AppendProperties DEF IInv, TypeOK
  <2> QED BY <2>1, <2>2 DEF IInv, TypeOK, Read
<1>6. Chain(updates', Returned', consumed' - pending')
  <2>1. Returned' = Returned /\ Returned \in Int
    BY DEF Returned, Read, IInv, TypeOK
  <2>2. CASE pending + n >= Threshold
    <3>1. Chain(Append(updates, u), Returned, u.to)
      BY <2>1, <1>1, <1>4, Frames, ChainAppend DEF IInv, TypeOK, CreditConserved
    <3>2. consumed' - pending' = u.to
      BY <2>2, <1>1, <1>2, <1>4 DEF IInv, TypeOK
    <3> QED BY <2>1, <2>2, <3>1, <3>2, <1>2
  <2>3. CASE ~(pending + n >= Threshold)
    <3>1. consumed' - pending' = consumed - pending /\ updates' = updates
      BY <2>3, <1>1, <1>2 DEF IInv, TypeOK
    <3> QED BY <2>1, <3>1 DEF IInv, CreditConserved
  <2> QED BY <2>2, <2>3
<1>7. CreditConserved'
  <2>1. 0 <= Returned' /\ 0 <= pending' /\ consumed' <= received'
    <3>1. /\ consumed \in Int /\ received \in Int /\ pending \in Int
          /\ 0 <= Returned /\ 0 <= pending
      BY DEF IInv, TypeOK, CreditConserved
    <3>2. Returned' = Returned /\ received' = received
      BY DEF Returned, Read
    <3> QED BY <3>1, <3>2, <1>1, <1>2
  <2>2. Chain(wire', received', sent')
    BY DEF IInv, CreditConserved, Read
  <2> QED BY <2>1, <2>2, <1>6 DEF CreditConserved
<1>8. FinInv'
  BY DEF FinInv, IInv, Read
<1>9. TallyInv'
  <2>1. Threshold' = Threshold
    BY DEF Threshold
  <2> QED BY <2>1, <1>1, <1>2 DEF TallyInv, IInv, TypeOK
<1> QED BY <1>5, <1>7, <1>8, <1>9 DEF IInv

\* A poll_read that reports end of file moves no byte.
LEMMA ReadEofIInv ==
    ASSUME IInv, ReadEof
    PROVE  IInv'
<1>1. TypeOK'
  BY DEF IInv, TypeOK, ReadEof
<1>2. CreditConserved' /\ TallyInv'
  BY DEF IInv, CreditConserved, Returned, TallyInv, Threshold, ReadEof
<1>3. FinInv'
  BY DEF IInv, FinInv, ReadEof
<1> QED BY <1>1, <1>2, <1>3 DEF IInv

\* Every step of the two ends keeps the invariant.
LEMMA StepIInv == IInv /\ [Next]_vars => IInv'
<1> SUFFICES ASSUME IInv, [Next]_vars PROVE IInv'
  OBVIOUS
<1>1. CASE \E n \in 1..Total : Write(n)
  BY <1>1, WriteIInv
<1>2. CASE Shutdown
  BY <1>2, ShutdownIInv
<1>3. CASE DispatchWindowUpdate
  BY <1>3, DispatchWindowUpdateIInv
<1>4. CASE DispatchData
  BY <1>4, DispatchDataIInv
<1>5. CASE \E room \in 1..Total : Read(room)
  BY <1>5, ReadIInv
<1>6. CASE ReadEof
  BY <1>6, ReadEofIInv
<1>7. CASE UNCHANGED vars
  BY <1>7 DEF vars, IInv, TypeOK, CreditConserved, Returned, FinInv, TallyInv, Threshold
<1> QED BY <1>1, <1>2, <1>3, <1>4, <1>5, <1>6, <1>7 DEF Next

\* The invariant holds throughout.
LEMMA Invariance == Spec => []IInv
BY InitIInv, StepIInv, PTL DEF Spec

----------------------------------------------------------------------------
(* Type correctness: no counter of either window leaves its range, so the  *)
(* u32 arithmetic of poll_acquire and grant does not wrap.                 *)
THEOREM TypeCorrect == Spec => []TypeOK
BY Invariance, PTL DEF IInv

(* The two windows, the buffer and the frames in flight account for every  *)
(* byte, whatever the configurations of the two ends.                      *)
THEOREM Conservation == Spec => []CreditConserved
BY Invariance, PTL DEF IInv

(* Written and unread bytes stay within the window the writing end started *)
(* with.                                                                   *)
THEOREM Outstanding == Spec => []OutstandingBounded
<1>1. IInv => OutstandingBounded
  <2> SUFFICES ASSUME IInv PROVE OutstandingBounded
    OBVIOUS
  <2>1. Returned <= consumed - pending
    BY ConfigAssumption, ChainLe, Frames DEF IInv, TypeOK, CreditConserved, Returned
  <2> QED BY <2>1, ConfigAssumption DEF OutstandingBounded, Returned, IInv, TypeOK
<1> QED BY <1>1, Invariance, PTL

(* The reading end buffers no more than its own configured window as soon  *)
(* as the writing end's window is not larger.                              *)
THEOREM Buffer == SendInit <= RecvInit => (Spec => []BufferWithinWindow)
<1> SUFFICES ASSUME SendInit <= RecvInit PROVE Spec => []BufferWithinWindow
  OBVIOUS
<1>1. IInv => BufferWithinWindow
  <2> SUFFICES ASSUME IInv PROVE BufferWithinWindow
    OBVIOUS
  <2>1. Returned <= consumed - pending /\ received <= sent
    BY ConfigAssumption, ChainLe, Frames DEF IInv, TypeOK, CreditConserved, Returned
  <2> QED BY <2>1, ConfigAssumption DEF BufferWithinWindow, Returned, IInv, TypeOK
<1> QED BY <1>1, Invariance, PTL

(* Flow control never stalls as soon as the writing end's window reaches   *)
(* the threshold of the reading end, in particular when both are equal.    *)
THEOREM StallFree == Threshold <= SendInit => (Spec => []NoStall)
<1> SUFFICES ASSUME Threshold <= SendInit PROVE Spec => []NoStall
  OBVIOUS
<1>1. IInv => NoStall
  <2> SUFFICES ASSUME IInv, available = 0, wire = <<>>, updates = <<>>,
                      ~(consumed < received)
               PROVE  FALSE
    BY DEF NoStall
  <2>1. received = sent /\ Returned = consumed - pending
    BY DEF IInv, CreditConserved, Chain
  <2>2. pending = SendInit
    BY <2>1, ConfigAssumption DEF Returned, IInv, TypeOK, CreditConserved
  <2> QED BY <2>2, ThresholdType, ConfigAssumption DEF IInv, TallyInv
<1> QED BY <1>1, Invariance, PTL

(* A stream nobody resets never fails the session with "data after FIN".   *)
THEOREM NoFailure == Spec => []NoProtocolError
BY Invariance, PTL DEF IInv, FinInv, NoProtocolError

(* The read half closes only after the last byte has arrived.              *)
THEOREM FinOrder == Spec => []FinAfterData
<1>1. IInv => FinAfterData
  BY DEF IInv, FinInv, CreditConserved, Chain, FinAfterData
<1> QED BY <1>1, Invariance, PTL
=============================================================================
