--------------------------- MODULE OpeningProofs ---------------------------
(***************************************************************************)
(* Safety of open() against the reader task and the shutdown, for any      *)
(* number of tasks that call it and for the whole id space.                *)
(***************************************************************************)
EXTENDS Opening, TLAPS, FiniteSetTheorems

USE ZenonT(60)

\* The allocator hands out its own ids upwards; the peer's have the other parity.
Numbering ==
    /\ Owns(next) /\ ~Owns(peerNext)
    /\ \A i \in registry : Owns(i) => i < next
    /\ \A o \in Openers :
          /\ pc[o] = "exchanging" => Owns(cur[o]) /\ cur[o] + 2 <= MaxId /\ cur[o] <= next
          /\ HasId(o) => cur[o] \in Ids
    /\ pc["reader"] \in {"inserting", "resetting"} => cur["reader"] \in Ids
    /\ pc["reader"] = "inserting" => ~Owns(cur["reader"])
    /\ IdsUnique

\* What a step does that hands out no id and registers no stream.
NoNewId ==
    /\ next' = next /\ peerNext' = peerNext /\ registry' \subseteq registry
    /\ \A o \in Openers :
          /\ HasId(o)' => HasId(o) /\ cur'[o] = cur[o]
          /\ pc'[o] = "exchanging" => \/ pc[o] = "exchanging" /\ cur'[o] = cur[o]
                                      \/ cur'[o] = next /\ next + 2 <= MaxId
          /\ pc'[o] = "inserting" => pc[o] = "inserting"
          /\ pc'[o] = "duplicate" => pc[o] = "duplicate"
    /\ \/ pc'["reader"] = pc["reader"] /\ cur'["reader"] = cur["reader"]
       \/ pc'["reader"] = "resetting" /\ cur'["reader"] \in Ids
       \/ pc'["reader"] \notin {"inserting", "resetting"}

\* Why a stream is shut, and where the shutdown stands.
Ending ==
    /\ pc["shutdown"] \in {"idle", "draining", "forcing", "forced"}
    /\ pc["shutdown"] # "idle" \/ signalled \/ writerGone => closing
    /\ shut \subseteq resets \/ closing
    /\ OutcomeTrue

\* The call has been woken, or is about to be.
Told(o) ==
    \/ cur[o] \in woken
    \/ pc["reader"] \in {"waking", "resetting"} /\ cur["reader"] = cur[o]
    \/ pc["shutdown"] = "forced" /\ cur["shutdown"] = cur[o]

\* From its registration on, a call that does not see a flag will be woken for it.
Waking ==
    \A o \in Openers :
        /\ pc[o] \in {"acked2", "reset2", "open2", "parked"} => cur[o] \in waker \cup woken
        /\ pc[o] \in {"reset2", "open2"} /\ cur[o] \in acked => Told(o)
        /\ pc[o] = "parked" /\ cur[o] \in acked \cup shut => Told(o)

IInv == TypeOK /\ Numbering /\ Ending /\ Waking /\ RegistryAccounted

Busy == {x \in Actors : Counted(x)}
Own == {i \in registry : Owns(i)}
Passing == {o \in Openers : Passed(o)}
Drained == closing /\ pc["shutdown"] # "draining"

\* What a step does to the registry and to those about to register.
CapChange ==
    \/ registry' \subseteq registry /\ Busy' \subseteq Busy
    \/ ~Full /\ registry' = registry
    \/ \E x \in Busy, i \in Ids : registry' = registry \cup {i} /\ Busy' = Busy \ {x}

\* The same for our own streams once the registry is drained.
LateChange ==
    Drained' =>
        \/ Drained /\ Own' \subseteq Own /\ Passing' \subseteq Passing
        \/ Own' = {}
        \/ /\ Drained
           /\ \E o \in Passing, i \in Ids : Own' \subseteq Own \cup {i} /\ Passing' = Passing \ {o}

(* The callers, the reader task and the shutdown are distinct actors.      *)
LEMMA ActorFacts ==
    /\ "reader" \in Actors /\ "shutdown" \in Actors /\ Openers \subseteq Actors
    /\ "reader" \notin Openers /\ "shutdown" \notin Openers
BY OpeningAssumption DEF Actors, Wakers

(* A number of one parity is not of the other, and two steps keep parity.  *)
LEMMA Parity ==
    ASSUME NEW i \in Nat
    PROVE  /\ Owns(i) => Owns(i + 2)
           /\ i # 0 /\ ~Owns(i) => ~Owns(i + 2)
BY OpeningAssumption, SMT DEF Owns

(* The session starts in the inductive invariant.                          *)
LEMMA InitIInv == Init => IInv
<1> SUFFICES ASSUME Init PROVE IInv
  OBVIOUS
<1>1. \A x \in Actors : pc[x] = "idle" /\ cur[x] = 0
  BY DEF Init
<1>2. TypeOK
  <2>1. pc \in [Actors -> Places] /\ cur \in [Actors -> Ids \cup {0}]
    BY DEF Init, Places
  <2>2. next \in 1..MaxId /\ peerNext \in Nat \ {0}
    BY SMTT(60), OpeningAssumption DEF Init
  <2> QED
    BY <2>1, <2>2 DEF Init, TypeOK
<1>3. Numbering
  <2>1. Owns(next) /\ ~Owns(peerNext)
    BY SMTT(60), OpeningAssumption DEF Init, Owns
  <2> QED
    BY <1>1, <2>1, ActorFacts DEF Init, Numbering, IdsUnique, HasId, Looking
<1>4. Ending /\ Waking /\ RegistryAccounted
  BY <1>1, ActorFacts DEF Init, Ending, OutcomeTrue, Waking, RegistryAccounted
<1> QED
  BY <1>2, <1>3, <1>4 DEF IInv

(* Two calls work on two streams.                                          *)
LEMMA OwnStreams ==
    ASSUME IInv
    PROVE  \A o, p \in Openers : HasId(o) /\ HasId(p) /\ o # p => cur[o] # cur[p]
BY DEF IInv, Numbering, IdsUnique

(* A step that hands out no id keeps the numbering.                        *)
LEMMA NumberingKept == ASSUME IInv, NoNewId PROVE Numbering'
<1>1. next <= next
  BY SMTT(60) DEF IInv, TypeOK
<1>2. IdsUnique'
  BY DEF IInv, Numbering, NoNewId, IdsUnique
<1> QED
  BY <1>1, <1>2 DEF IInv, Numbering, NoNewId

(* Every step keeps the types: in particular the allocator stays within the *)
(* id space.                                                               *)
LEMMA TypeStep == ASSUME IInv, [Next]_vars PROVE TypeOK'
<1>0. TypeOK /\ Numbering
  BY DEF IInv, TypeOK
<1> USE <1>0, ActorFacts
    DEF TypeOK, Places, Looking, Move, Goto, idVars, regVars, flagVars, wakeVars, drainVars,
        endVars
<1>1. ASSUME NEW o \in Openers, OpenCheck(o) PROVE TypeOK'
  BY <1>1 DEF OpenCheck, Refuses
<1>2. ASSUME NEW o \in Openers, OpenCount(o) PROVE TypeOK'
  BY <1>2 DEF OpenCount, Full
<1>3. ASSUME NEW o \in Openers, AllocLoad(o) PROVE TypeOK'
  <2>1. next \in Ids
    BY SMTT(60), OpeningAssumption DEF Ids
  <2> QED
    BY <1>3, <2>1 DEF AllocLoad, WorkOn
<1>4. ASSUME NEW o \in Openers, AllocExchange(o) PROVE TypeOK'
  <2>1. pc[o] = "exchanging" => cur[o] + 2 \in 1..MaxId
    BY SMTT(60), OpeningAssumption DEF Numbering, Ids
  <2> QED
    BY <1>4, <2>1 DEF AllocExchange, WorkOn
<1>5. ASSUME NEW o \in Openers, OpenInsert(o) PROVE TypeOK'
  BY <1>5 DEF OpenInsert, Numbering, HasId
<1>6. ASSUME NEW o \in Openers, OpenSyn(o) PROVE TypeOK'
  BY <1>6 DEF OpenSyn
<1>7. ASSUME NEW o \in Openers, LookAgain(o) PROVE TypeOK'
  BY <1>7 DEF LookAgain, Look, Established
<1>8. ASSUME NEW o \in Openers, Register(o) PROVE TypeOK'
  BY <1>8 DEF Register, Numbering, HasId, AfterRegister
<1>9. ASSUME NEW o \in Openers, Repoll(o) PROVE TypeOK'
  BY <1>9 DEF Repoll
<1>10. ASSUME NEW o \in Openers, OpenUndo(o) PROVE TypeOK'
  BY <1>10 DEF OpenUndo, Leave, Forget, WorkOn, Unregistered
<1>11. ASSUME NEW o \in Openers, Deadline(o) PROVE TypeOK'
  BY <1>11 DEF Deadline
<1>12. ASSUME NEW o \in Openers, Cancel(o) PROVE TypeOK'
  BY <1>12 DEF Cancel, Forget
<1>13. ASSUME NEW o \in Openers, DropStream(o) PROVE TypeOK'
  BY <1>13 DEF DropStream, Numbering, HasId, Leave, Forget, WorkOn
<1>14. ASSUME NEW i \in Ids, ReaderAck(i) PROVE TypeOK'
  BY <1>14 DEF ReaderAck, Answer, WorkOn, Followed
<1>15. ASSUME NEW i \in Ids, ReaderRst(i) PROVE TypeOK'
  BY <1>15 DEF ReaderRst, Answer, WorkOn, Followed
<1>16. ASSUME NEW i \in Ids, DropPeerStream(i) PROVE TypeOK'
  BY <1>16 DEF DropPeerStream
<1>17. ASSUME NEW i \in Ids, CloserTask(i) PROVE TypeOK'
  BY <1>17 DEF CloserTask
<1>18. CASE ReaderSyn
  <2>1. peerNext + 2 \in Nat \ {0} /\ (peerNext <= MaxPeerId => peerNext \in Ids)
    BY SMTT(60), OpeningAssumption DEF Ids
  <2>2. peerNext' \in Nat \ {0}
    BY <1>18, <2>1 DEF ReaderSyn
  <2>3. pc' \in [Actors -> Places] /\ cur' \in [Actors -> Ids \cup {0}]
    BY SMTT(60), <1>18, <2>1 DEF ReaderSyn, WorkOn
  <2> QED
    BY <1>18, <2>2, <2>3 DEF ReaderSyn
<1>19. CASE ReaderInsert
  BY <1>19 DEF ReaderInsert, WorkOn, Numbering
<1>20. CASE ReaderWake
  BY <1>20 DEF ReaderWake, Numbering, WorkOn, Wake
<1>21. CASE Initiate
  BY <1>21 DEF Initiate
<1>22. CASE ReaderGoAway
  BY <1>22 DEF ReaderGoAway
<1>23. CASE Drain
  BY <1>23 DEF Drain
<1>24. CASE ForceClose
  <2>1. PICK i \in doomed : /\ doomed' = doomed \ {i}
                            /\ shut' = shut \cup ({i} \cap Followed)
                            /\ cur' = [cur EXCEPT !["shutdown"] = i]
    BY <1>24 DEF ForceClose, WorkOn
  <2>2. shut' \subseteq Ids /\ cur' \in [Actors -> Ids \cup {0}]
    BY <2>1
  <2> QED
    BY <1>24, <2>1, <2>2 DEF ForceClose
<1>25. CASE ForceWake
  BY <1>25 DEF ForceWake, WorkOn, Wake
<1>26. CASE Signal
  BY <1>26 DEF Signal
<1>27. CASE WriterExit
  BY <1>27 DEF WriterExit
<1>28. CASE UNCHANGED vars
  BY <1>28 DEF vars
<1> QED
  BY <1>1, <1>2, <1>3, <1>4, <1>5, <1>6, <1>7, <1>8, <1>9, <1>10, <1>11, <1>12, <1>13, <1>14,
     <1>15, <1>16, <1>17, <1>18, <1>19, <1>20, <1>21, <1>22, <1>23, <1>24, <1>25, <1>26, <1>27, <1>28
  DEF Next, OpenStep, ShutdownStep

(* Every step keeps the numbering: an id is handed out once, by the one     *)
(* exchange that finds the allocator at it.                                *)
LEMMA NumberingStep == ASSUME IInv, [Next]_vars PROVE Numbering'
<1>0. /\ pc \in [Actors -> Places] /\ cur \in [Actors -> Ids \cup {0}]
      /\ next \in 1..MaxId /\ peerNext \in Nat \ {0} /\ registry \subseteq Ids /\ Numbering
  BY DEF IInv, TypeOK
<1> USE <1>0, ActorFacts
    DEF HasId, Looking, Move, Goto, idVars, regVars, flagVars, wakeVars, drainVars, endVars
<1>1. ASSUME NEW o \in Openers, OpenCheck(o) PROVE NoNewId
  BY <1>1 DEF OpenCheck, Refuses, NoNewId
<1>2. ASSUME NEW o \in Openers, OpenCount(o) PROVE NoNewId
  BY <1>2 DEF OpenCount, Full, NoNewId
<1>3. ASSUME NEW o \in Openers, AllocLoad(o) PROVE NoNewId
  <2>1. ~Exhausted => next + 2 <= MaxId
    BY SMTT(60), OpeningAssumption DEF Exhausted
  <2> QED
    BY <1>3, <2>1 DEF AllocLoad, WorkOn, NoNewId
<1>4. ASSUME NEW o \in Openers, AllocExchange(o) PROVE Numbering'
  <2>1. CASE pc'[o] = "loading"
    <3>1. NoNewId
      BY <1>4, <2>1 DEF AllocExchange, WorkOn, NoNewId
    <3> QED
      BY <3>1, NumberingKept
  <2>2. CASE pc'[o] # "loading"
    <3>1. /\ next = cur[o] /\ next' = next + 2 /\ peerNext' = peerNext /\ registry' = registry
          /\ cur' = cur /\ pc'["reader"] = pc["reader"]
          /\ pc[o] = "exchanging" /\ pc'[o] = "inserting"
          /\ \A q \in Openers \ {o} : pc'[q] = pc[q]
      BY <1>4, <2>2 DEF AllocExchange, CanExchange
    <3>2. HasId(o)' /\ ~HasId(o) /\ \A q \in Openers \ {o} : HasId(q)' <=> HasId(q)
      BY <3>1
    <3>3. next' <= MaxId
      BY <3>1 DEF Numbering
    <3>4. /\ next \in Ids /\ next < next'
          /\ \A i \in Ids \cup {0} : /\ i < next => i < next' /\ i # next
                                     /\ i <= next => i <= next'
      BY SMTT(60), <3>1, OpeningAssumption DEF Ids
    <3> HIDE DEF HasId, Looking
    <3>5. Owns(next) /\ Owns(next') /\ next \notin registry
      <4>1. next \in Nat
        BY SMTT(60)
      <4> QED
        BY <3>1, <3>4, <4>1, Parity DEF Numbering
    <3>6. IdsUnique'
      <4> SUFFICES ASSUME NEW q \in Openers, HasId(q)'
                   PROVE  /\ pc'[q] # "duplicate"
                          /\ Owns(cur[q]) /\ cur[q] < next'
                          /\ \A p \in Openers \ {q} : HasId(p)' => cur[p] # cur[q]
                          /\ pc'[q] = "inserting" => cur[q] \notin registry
        BY <3>1, <3>3 DEF IdsUnique
      <4>1. CASE q = o
        BY <3>1, <3>2, <3>4, <3>5, <4>1 DEF Numbering, IdsUnique
      <4>2. CASE q # o
        <5>1. HasId(q) /\ cur[q] \in Ids /\ cur[q] < next
          BY <3>2, <4>2 DEF Numbering, IdsUnique
        <5>2. cur[q] < next' /\ cur[q] # next
          BY <3>4, <5>1
        <5> QED
          BY <3>1, <3>2, <4>2, <5>1, <5>2 DEF Numbering, IdsUnique
      <4> QED
        BY <4>1, <4>2
    <3>7. ASSUME NEW q \in Openers
          PROVE  /\ pc'[q] = "exchanging" => Owns(cur[q]) /\ cur[q] + 2 <= MaxId /\ cur[q] <= next'
                 /\ HasId(q)' => cur[q] \in Ids
      <4>1. CASE q = o
        BY <3>1, <3>4, <4>1
      <4>2. CASE q # o
        BY <3>1, <3>2, <3>4, <4>2 DEF Numbering
      <4> QED
        BY <4>1, <4>2
    <3>8. \A i \in registry : Owns(i) => i < next'
      BY <3>4 DEF Numbering
    <3> QED
      BY <3>1, <3>4, <3>5, <3>6, <3>7, <3>8 DEF Numbering
  <2> QED
    BY <2>1, <2>2
<1>5. ASSUME NEW o \in Openers, OpenInsert(o) PROVE Numbering'
  <2>1. HasId(o) /\ cur[o] \notin registry
    BY <1>5 DEF OpenInsert, Numbering, IdsUnique
  <2>2. /\ next' = next /\ peerNext' = peerNext /\ registry' = registry \cup {cur[o]}
        /\ cur' = cur /\ pc'["reader"] = pc["reader"]
        /\ pc'[o] = "syn" /\ \A q \in Openers \ {o} : pc'[q] = pc[q]
    BY <1>5, <2>1 DEF OpenInsert
  <2>3. \A q \in Openers : HasId(q)' <=> HasId(q)
    BY <2>1, <2>2
  <2> QED
    BY <2>1, <2>2, <2>3 DEF Numbering, IdsUnique
<1>6. ASSUME NEW o \in Openers, OpenSyn(o) PROVE NoNewId
  BY <1>6 DEF OpenSyn, NoNewId
<1>7. ASSUME NEW o \in Openers, LookAgain(o) PROVE NoNewId
  BY <1>7 DEF LookAgain, Look, Established, NoNewId
<1>8. ASSUME NEW o \in Openers, Register(o) PROVE NoNewId
  BY <1>8 DEF Register, AfterRegister, NoNewId
<1>9. ASSUME NEW o \in Openers, Repoll(o) PROVE NoNewId
  BY <1>9 DEF Repoll, NoNewId
<1>10. ASSUME NEW o \in Openers, OpenUndo(o) PROVE NoNewId
  BY <1>10 DEF OpenUndo, Leave, Forget, WorkOn, Unregistered, NoNewId
<1>11. ASSUME NEW o \in Openers, Deadline(o) PROVE NoNewId
  BY <1>11 DEF Deadline, NoNewId
<1>12. ASSUME NEW o \in Openers, Cancel(o) PROVE NoNewId
  BY <1>12 DEF Cancel, Forget, NoNewId
<1>13. ASSUME NEW o \in Openers, DropStream(o) PROVE NoNewId
  BY <1>13 DEF DropStream, Leave, Forget, WorkOn, NoNewId
<1>14. ASSUME NEW i \in Ids, ReaderAck(i) PROVE NoNewId
  BY <1>14 DEF ReaderAck, Answer, WorkOn, Followed, NoNewId
<1>15. ASSUME NEW i \in Ids, ReaderRst(i) PROVE NoNewId
  BY <1>15 DEF ReaderRst, Answer, WorkOn, Followed, NoNewId
<1>16. ASSUME NEW i \in Ids, DropPeerStream(i) PROVE NoNewId
  BY <1>16 DEF DropPeerStream, NoNewId
<1>17. ASSUME NEW i \in Ids, CloserTask(i) PROVE NoNewId
  BY <1>17 DEF CloserTask, NoNewId
<1>18. CASE ReaderSyn
  <2>1. ~Owns(peerNext + 2) /\ (peerNext <= MaxPeerId => peerNext \in Ids)
    BY SMTT(60), Parity, OpeningAssumption DEF Numbering, Ids
  <2>2. /\ next' = next /\ registry' = registry /\ peerNext' = peerNext + 2
        /\ \A q \in Openers : pc'[q] = pc[q] /\ cur'[q] = cur[q]
        /\ \/ pc' = pc /\ cur' = cur
           \/ pc'["reader"] = "inserting" /\ cur'["reader"] = peerNext /\ peerNext \in Ids
    BY <1>18, <2>1 DEF ReaderSyn, WorkOn
  <2>3. \A q \in Openers : HasId(q)' <=> HasId(q)
    BY <2>2
  <2> QED
    BY <2>1, <2>2, <2>3 DEF Numbering, IdsUnique
<1>19. CASE ReaderInsert
  <2>1. ~Owns(cur["reader"])
    BY <1>19 DEF ReaderInsert, Numbering
  <2>2. /\ next' = next /\ peerNext' = peerNext /\ registry' = registry \cup {cur["reader"]}
        /\ \A q \in Openers : pc'[q] = pc[q] /\ cur'[q] = cur[q]
        /\ pc'["reader"] = "idle"
    BY <1>19 DEF ReaderInsert, WorkOn
  <2>3. \A q \in Openers : HasId(q)' <=> HasId(q)
    BY <2>2
  <2> HIDE DEF HasId, Looking
  <2>4. IdsUnique'
    <3> SUFFICES ASSUME NEW q \in Openers, HasId(q)
                 PROVE  /\ pc[q] # "duplicate"
                        /\ Owns(cur[q]) /\ cur[q] < next /\ next <= MaxId
                        /\ \A p \in Openers \ {q} : HasId(p) => cur[p] # cur[q]
                        /\ pc[q] = "inserting" => cur[q] \notin registry'
      BY <2>2, <2>3 DEF IdsUnique
    <3> QED
      BY <2>1, <2>2 DEF Numbering, IdsUnique
  <2> QED
    BY <2>1, <2>2, <2>3, <2>4 DEF Numbering
<1>20. ASSUME ReaderWake PROVE NoNewId
  BY <1>20 DEF ReaderWake, WorkOn, Wake, NoNewId
<1>21. ASSUME Initiate PROVE NoNewId
  BY <1>21 DEF Initiate, NoNewId
<1>22. ASSUME ReaderGoAway PROVE NoNewId
  BY <1>22 DEF ReaderGoAway, NoNewId
<1>23. ASSUME Drain PROVE NoNewId
  BY <1>23 DEF Drain, NoNewId
<1>24. ASSUME ForceClose PROVE NoNewId
  BY <1>24 DEF ForceClose, WorkOn, Followed, NoNewId
<1>25. ASSUME ForceWake PROVE NoNewId
  BY <1>25 DEF ForceWake, WorkOn, Wake, NoNewId
<1>26. ASSUME Signal PROVE NoNewId
  BY <1>26 DEF Signal, NoNewId
<1>27. ASSUME WriterExit PROVE NoNewId
  BY <1>27 DEF WriterExit, NoNewId
<1>28. ASSUME UNCHANGED vars PROVE NoNewId
  BY <1>28 DEF vars, NoNewId
<1> QED
  BY <1>1, <1>2, <1>3, <1>4, <1>5, <1>6, <1>7, <1>8, <1>9, <1>10, <1>11, <1>12, <1>13, <1>14,
     <1>15, <1>16, <1>17, <1>18, <1>19, <1>20, <1>21, <1>22, <1>23, <1>24, <1>25, <1>26, <1>27, <1>28, NumberingKept
  DEF Next, OpenStep, ShutdownStep

(* Every step keeps what open() reports true.                              *)
LEMMA EndingStep == ASSUME IInv, [Next]_vars PROVE Ending'
<1>0. pc \in [Actors -> Places] /\ cur \in [Actors -> Ids \cup {0}] /\ Ending
  BY DEF IInv, TypeOK
<1> USE <1>0, ActorFacts
    DEF Ending, OutcomeTrue, HasId, Looking, Move, Goto, idVars, regVars, flagVars, wakeVars,
        drainVars, endVars
<1>1. ASSUME NEW o \in Openers, OpenCheck(o) PROVE Ending'
  BY <1>1 DEF OpenCheck, Refuses
<1>2. ASSUME NEW o \in Openers, OpenCount(o) PROVE Ending'
  BY <1>2 DEF OpenCount, Full
<1>3. ASSUME NEW o \in Openers, AllocLoad(o) PROVE Ending'
  BY <1>3 DEF AllocLoad, Exhausted, WorkOn
<1>4. ASSUME NEW o \in Openers, AllocExchange(o) PROVE Ending'
  BY <1>4 DEF AllocExchange, CanExchange, WorkOn
<1>5. ASSUME NEW o \in Openers, OpenInsert(o) PROVE Ending'
  BY <1>5 DEF OpenInsert
<1>6. ASSUME NEW o \in Openers, OpenSyn(o) PROVE Ending'
  BY <1>6 DEF OpenSyn
<1>7. ASSUME NEW o \in Openers, LookAgain(o) PROVE Ending'
  BY <1>7 DEF LookAgain, Look, Established
<1>8. ASSUME NEW o \in Openers, Register(o) PROVE Ending'
  BY <1>8 DEF Register, AfterRegister
<1>9. ASSUME NEW o \in Openers, Repoll(o) PROVE Ending'
  BY <1>9 DEF Repoll
<1>10. ASSUME NEW o \in Openers, OpenUndo(o) PROVE Ending'
  BY <1>10, OwnStreams DEF OpenUndo, Leave, Forget, WorkOn, Unregistered
<1>11. ASSUME NEW o \in Openers, Deadline(o) PROVE Ending'
  BY <1>11 DEF Deadline
<1>12. ASSUME NEW o \in Openers, Cancel(o) PROVE Ending'
  BY <1>12, OwnStreams DEF Cancel, Forget
<1>13. ASSUME NEW o \in Openers, DropStream(o) PROVE Ending'
  BY <1>13, OwnStreams DEF DropStream, Leave, Forget, WorkOn
<1>14. ASSUME NEW i \in Ids, ReaderAck(i) PROVE Ending'
  BY <1>14 DEF ReaderAck, Answer, WorkOn, Followed
<1>15. ASSUME NEW i \in Ids, ReaderRst(i) PROVE Ending'
  BY <1>15 DEF ReaderRst, Answer, WorkOn, Followed
<1>16. ASSUME NEW i \in Ids, DropPeerStream(i) PROVE Ending'
  BY <1>16 DEF DropPeerStream
<1>17. ASSUME NEW i \in Ids, CloserTask(i) PROVE Ending'
  BY <1>17 DEF CloserTask
<1>18. CASE ReaderSyn
  BY <1>18 DEF ReaderSyn, WorkOn
<1>19. CASE ReaderInsert
  BY <1>19 DEF ReaderInsert, WorkOn
<1>20. CASE ReaderWake
  BY <1>20 DEF ReaderWake, WorkOn, Wake
<1>21. CASE Initiate
  BY <1>21 DEF Initiate
<1>22. CASE ReaderGoAway
  BY <1>22 DEF ReaderGoAway
<1>23. CASE Drain
  BY <1>23 DEF Drain
<1>24. CASE ForceClose
  BY <1>24 DEF ForceClose, WorkOn, Followed
<1>25. CASE ForceWake
  BY <1>25 DEF ForceWake, WorkOn, Wake
<1>26. CASE Signal
  BY <1>26 DEF Signal
<1>27. CASE WriterExit
  BY <1>27 DEF WriterExit
<1>28. CASE UNCHANGED vars
  BY <1>28 DEF vars
<1> QED
  BY <1>1, <1>2, <1>3, <1>4, <1>5, <1>6, <1>7, <1>8, <1>9, <1>10, <1>11, <1>12, <1>13, <1>14,
     <1>15, <1>16, <1>17, <1>18, <1>19, <1>20, <1>21, <1>22, <1>23, <1>24, <1>25, <1>26, <1>27, <1>28
  DEF Next, OpenStep, ShutdownStep

(* Every step keeps the promise to wake a call that has registered: who    *)
(* sets a flag after it wakes it.                                          *)
LEMMA WakingStep == ASSUME IInv, [Next]_vars PROVE Waking'
<1>0. pc \in [Actors -> Places] /\ cur \in [Actors -> Ids \cup {0}] /\ Waking /\ Ending
  BY DEF IInv, TypeOK
<1> USE <1>0, ActorFacts
    DEF Waking, Told, HasId, Looking, Move, Goto, idVars, regVars, flagVars, wakeVars,
        drainVars, endVars
<1>1. ASSUME NEW o \in Openers, OpenCheck(o) PROVE Waking'
  BY <1>1 DEF OpenCheck, Refuses
<1>2. ASSUME NEW o \in Openers, OpenCount(o) PROVE Waking'
  BY <1>2 DEF OpenCount, Full
<1>3. ASSUME NEW o \in Openers, AllocLoad(o) PROVE Waking'
  BY <1>3 DEF AllocLoad, Exhausted, WorkOn
<1>4. ASSUME NEW o \in Openers, AllocExchange(o) PROVE Waking'
  BY <1>4 DEF AllocExchange, CanExchange, WorkOn
<1>5. ASSUME NEW o \in Openers, OpenInsert(o) PROVE Waking'
  BY <1>5 DEF OpenInsert
<1>6. ASSUME NEW o \in Openers, OpenSyn(o) PROVE Waking'
  BY <1>6 DEF OpenSyn
<1>7. ASSUME NEW o \in Openers, LookAgain(o) PROVE Waking'
  BY <1>7 DEF LookAgain, Look, Established
<1>8. ASSUME NEW o \in Openers, Register(o) PROVE Waking'
  BY <1>8 DEF Register, AfterRegister
<1>9. ASSUME NEW o \in Openers, Repoll(o) PROVE Waking'
  BY <1>9, OwnStreams DEF Repoll
<1>10. ASSUME NEW o \in Openers, OpenUndo(o) PROVE Waking'
  BY <1>10, OwnStreams DEF OpenUndo, Leave, Forget, WorkOn, Unregistered
<1>11. ASSUME NEW o \in Openers, Deadline(o) PROVE Waking'
  BY <1>11 DEF Deadline
<1>12. ASSUME NEW o \in Openers, Cancel(o) PROVE Waking'
  BY <1>12, OwnStreams DEF Cancel, Forget
<1>13. ASSUME NEW o \in Openers, DropStream(o) PROVE Waking'
  BY <1>13, OwnStreams DEF DropStream, Leave, Forget, WorkOn
<1>14. ASSUME NEW i \in Ids, ReaderAck(i) PROVE Waking'
  BY <1>14 DEF ReaderAck, Answer, WorkOn, Followed
<1>15. ASSUME NEW i \in Ids, ReaderRst(i) PROVE Waking'
  BY <1>15 DEF ReaderRst, Answer, WorkOn, Followed
<1>16. ASSUME NEW i \in Ids, DropPeerStream(i) PROVE Waking'
  BY <1>16 DEF DropPeerStream
<1>17. ASSUME NEW i \in Ids, CloserTask(i) PROVE Waking'
  BY <1>17 DEF CloserTask
<1>18. CASE ReaderSyn
  BY <1>18 DEF ReaderSyn, WorkOn
<1>19. CASE ReaderInsert
  BY <1>19 DEF ReaderInsert, WorkOn
<1>20. CASE ReaderWake
  BY <1>20 DEF ReaderWake, WorkOn, Wake
<1>21. CASE Initiate
  BY <1>21 DEF Initiate
<1>22. CASE ReaderGoAway
  BY <1>22 DEF ReaderGoAway, Ending
<1>23. CASE Drain
  BY <1>23 DEF Drain
<1>24. CASE ForceClose
  BY <1>24 DEF ForceClose, WorkOn, Followed
<1>25. CASE ForceWake
  BY <1>25 DEF ForceWake, WorkOn, Wake
<1>26. CASE Signal
  BY <1>26 DEF Signal
<1>27. CASE WriterExit
  BY <1>27 DEF WriterExit
<1>28. CASE UNCHANGED vars
  BY <1>28 DEF vars
<1> QED
  BY <1>1, <1>2, <1>3, <1>4, <1>5, <1>6, <1>7, <1>8, <1>9, <1>10, <1>11, <1>12, <1>13, <1>14,
     <1>15, <1>16, <1>17, <1>18, <1>19, <1>20, <1>21, <1>22, <1>23, <1>24, <1>25, <1>26, <1>27, <1>28
  DEF Next, OpenStep, ShutdownStep

(* Every step keeps the registry accounted for.                            *)
LEMMA AccountedStep == ASSUME IInv, [Next]_vars PROVE RegistryAccounted'
<1>0. pc \in [Actors -> Places] /\ cur \in [Actors -> Ids \cup {0}] /\ RegistryAccounted /\ Numbering
  BY DEF IInv, TypeOK
<1> USE <1>0, ActorFacts
    DEF RegistryAccounted, HasId, Looking, Move, Goto, idVars, regVars, flagVars, wakeVars,
        drainVars, endVars
<1>1. ASSUME NEW o \in Openers, OpenCheck(o) PROVE RegistryAccounted'
  BY <1>1 DEF OpenCheck, Refuses
<1>2. ASSUME NEW o \in Openers, OpenCount(o) PROVE RegistryAccounted'
  BY <1>2 DEF OpenCount, Full
<1>3. ASSUME NEW o \in Openers, AllocLoad(o) PROVE RegistryAccounted'
  BY SMTT(60), <1>3 DEF AllocLoad, Exhausted, WorkOn
<1>4. ASSUME NEW o \in Openers, AllocExchange(o) PROVE RegistryAccounted'
  BY SMTT(60), <1>4 DEF AllocExchange, CanExchange, WorkOn
<1>5. ASSUME NEW o \in Openers, OpenInsert(o) PROVE RegistryAccounted'
  BY SMTT(60), <1>5 DEF OpenInsert
<1>6. ASSUME NEW o \in Openers, OpenSyn(o) PROVE RegistryAccounted'
  BY <1>6 DEF OpenSyn
<1>7. ASSUME NEW o \in Openers, LookAgain(o) PROVE RegistryAccounted'
  BY SMTT(60), <1>7 DEF LookAgain, Look, Established
<1>8. ASSUME NEW o \in Openers, Register(o) PROVE RegistryAccounted'
  BY <1>8 DEF Register, AfterRegister
<1>9. ASSUME NEW o \in Openers, Repoll(o) PROVE RegistryAccounted'
  BY <1>9 DEF Repoll
<1>10. ASSUME NEW o \in Openers, OpenUndo(o) PROVE RegistryAccounted'
  BY <1>10 DEF OpenUndo, Leave, Forget, WorkOn, Unregistered
<1>11. ASSUME NEW o \in Openers, Deadline(o) PROVE RegistryAccounted'
  BY <1>11 DEF Deadline
<1>12. ASSUME NEW o \in Openers, Cancel(o) PROVE RegistryAccounted'
  BY <1>12 DEF Cancel, Forget
<1>13. ASSUME NEW o \in Openers, DropStream(o) PROVE RegistryAccounted'
  BY <1>13 DEF DropStream, Leave, Forget, WorkOn
<1>14. ASSUME NEW i \in Ids, ReaderAck(i) PROVE RegistryAccounted'
  BY <1>14 DEF ReaderAck, Answer, WorkOn, Followed
<1>15. ASSUME NEW i \in Ids, ReaderRst(i) PROVE RegistryAccounted'
  BY <1>15 DEF ReaderRst, Answer, WorkOn, Followed
<1>16. ASSUME NEW i \in Ids, DropPeerStream(i) PROVE RegistryAccounted'
  BY <1>16 DEF DropPeerStream
<1>17. ASSUME NEW i \in Ids, CloserTask(i) PROVE RegistryAccounted'
  BY <1>17 DEF CloserTask
<1>18. CASE ReaderSyn
  BY SMTT(60), <1>18 DEF ReaderSyn, WorkOn
<1>19. CASE ReaderInsert
  BY <1>19 DEF ReaderInsert, WorkOn, Numbering
<1>20. CASE ReaderWake
  BY <1>20 DEF ReaderWake, WorkOn, Wake
<1>21. CASE Initiate
  BY <1>21 DEF Initiate
<1>22. CASE ReaderGoAway
  BY SMTT(60), <1>22 DEF ReaderGoAway
<1>23. CASE Drain
  BY <1>23 DEF Drain
<1>24. CASE ForceClose
  BY <1>24 DEF ForceClose, WorkOn, Followed
<1>25. CASE ForceWake
  BY <1>25 DEF ForceWake, WorkOn, Wake
<1>26. CASE Signal
  BY <1>26 DEF Signal
<1>27. CASE WriterExit
  BY <1>27 DEF WriterExit
<1>28. CASE UNCHANGED vars
  BY <1>28 DEF vars
<1> QED
  BY <1>1, <1>2, <1>3, <1>4, <1>5, <1>6, <1>7, <1>8, <1>9, <1>10, <1>11, <1>12, <1>13, <1>14,
     <1>15, <1>16, <1>17, <1>18, <1>19, <1>20, <1>21, <1>22, <1>23, <1>24, <1>25, <1>26, <1>27, <1>28
  DEF Next, OpenStep, ShutdownStep

(* A step adds to the registry only what was about to be registered, and   *)
(* lets another one come near only while the registry is not full.         *)
LEMMA CapCases == ASSUME IInv, [Next]_vars PROVE CapChange
<1>0. pc \in [Actors -> Places] /\ cur \in [Actors -> Ids \cup {0}] /\ Numbering
  BY DEF IInv, TypeOK
<1> USE <1>0, ActorFacts
    DEF CapChange, Busy, Counted, Move, Goto, idVars, regVars, flagVars, wakeVars, drainVars,
        endVars
<1>1. ASSUME NEW o \in Openers, OpenCheck(o) PROVE CapChange
  BY <1>1 DEF OpenCheck, Refuses
<1>2. ASSUME NEW o \in Openers, OpenCount(o) PROVE CapChange
  BY <1>2 DEF OpenCount, Full
<1>3. ASSUME NEW o \in Openers, AllocLoad(o) PROVE CapChange
  BY <1>3 DEF AllocLoad, Exhausted, WorkOn
<1>4. ASSUME NEW o \in Openers, AllocExchange(o) PROVE CapChange
  BY <1>4 DEF AllocExchange, CanExchange, WorkOn
<1>5. ASSUME NEW o \in Openers, OpenInsert(o) PROVE CapChange
  BY <1>5 DEF OpenInsert, Numbering, HasId
<1>6. ASSUME NEW o \in Openers, OpenSyn(o) PROVE CapChange
  BY <1>6 DEF OpenSyn
<1>7. ASSUME NEW o \in Openers, LookAgain(o) PROVE CapChange
  BY <1>7 DEF LookAgain, Look, Established
<1>8. ASSUME NEW o \in Openers, Register(o) PROVE CapChange
  BY <1>8 DEF Register, AfterRegister
<1>9. ASSUME NEW o \in Openers, Repoll(o) PROVE CapChange
  BY <1>9 DEF Repoll
<1>10. ASSUME NEW o \in Openers, OpenUndo(o) PROVE CapChange
  BY <1>10 DEF OpenUndo, Leave, Forget, WorkOn, Unregistered
<1>11. ASSUME NEW o \in Openers, Deadline(o) PROVE CapChange
  BY <1>11 DEF Deadline
<1>12. ASSUME NEW o \in Openers, Cancel(o) PROVE CapChange
  BY <1>12 DEF Cancel, Forget
<1>13. ASSUME NEW o \in Openers, DropStream(o) PROVE CapChange
  BY <1>13 DEF DropStream, Leave, Forget, WorkOn
<1>14. ASSUME NEW i \in Ids, ReaderAck(i) PROVE CapChange
  BY <1>14 DEF ReaderAck, Answer, WorkOn, Followed
<1>15. ASSUME NEW i \in Ids, ReaderRst(i) PROVE CapChange
  BY <1>15 DEF ReaderRst, Answer, WorkOn, Followed
<1>16. ASSUME NEW i \in Ids, DropPeerStream(i) PROVE CapChange
  BY <1>16 DEF DropPeerStream
<1>17. ASSUME NEW i \in Ids, CloserTask(i) PROVE CapChange
  BY <1>17 DEF CloserTask
<1>18. CASE ReaderSyn
  BY <1>18 DEF ReaderSyn, WorkOn
<1>19. CASE ReaderInsert
  BY <1>19 DEF ReaderInsert, Numbering, WorkOn
<1>20. CASE ReaderWake
  BY <1>20 DEF ReaderWake, WorkOn, Wake
<1>21. CASE Initiate
  BY <1>21 DEF Initiate
<1>22. CASE ReaderGoAway
  BY <1>22 DEF ReaderGoAway
<1>23. CASE Drain
  BY <1>23 DEF Drain
<1>24. CASE ForceClose
  BY <1>24 DEF ForceClose, WorkOn, Followed
<1>25. CASE ForceWake
  BY <1>25 DEF ForceWake, WorkOn, Wake
<1>26. CASE Signal
  BY <1>26 DEF Signal
<1>27. CASE WriterExit
  BY <1>27 DEF WriterExit
<1>28. CASE UNCHANGED vars
  BY <1>28 DEF vars
<1> QED
  BY <1>1, <1>2, <1>3, <1>4, <1>5, <1>6, <1>7, <1>8, <1>9, <1>10, <1>11, <1>12, <1>13, <1>14,
     <1>15, <1>16, <1>17, <1>18, <1>19, <1>20, <1>21, <1>22, <1>23, <1>24, <1>25, <1>26, <1>27, <1>28
  DEF Next, OpenStep, ShutdownStep

(* Once the registry is drained, a step adds to our own streams only that  *)
(* of a call that was past the check, and lets no other call pass it.      *)
LEMMA LateCases == ASSUME IInv, [Next]_vars PROVE LateChange
<1>0. pc \in [Actors -> Places] /\ cur \in [Actors -> Ids \cup {0}] /\ Numbering /\ Ending
  BY DEF IInv, TypeOK
<1> USE <1>0, ActorFacts
    DEF LateChange, Drained, Own, Passing, Passed, Counted, Move, Goto, idVars, regVars,
        flagVars, wakeVars, drainVars, endVars
<1>1. ASSUME NEW o \in Openers, OpenCheck(o) PROVE LateChange
  BY <1>1 DEF OpenCheck, Refuses
<1>2. ASSUME NEW o \in Openers, OpenCount(o) PROVE LateChange
  BY <1>2 DEF OpenCount, Full
<1>3. ASSUME NEW o \in Openers, AllocLoad(o) PROVE LateChange
  BY <1>3 DEF AllocLoad, Exhausted, WorkOn
<1>4. ASSUME NEW o \in Openers, AllocExchange(o) PROVE LateChange
  BY <1>4 DEF AllocExchange, CanExchange, WorkOn
<1>5. ASSUME NEW o \in Openers, OpenInsert(o) PROVE LateChange
  BY <1>5 DEF OpenInsert, Numbering, HasId
<1>6. ASSUME NEW o \in Openers, OpenSyn(o) PROVE LateChange
  BY <1>6 DEF OpenSyn
<1>7. ASSUME NEW o \in Openers, LookAgain(o) PROVE LateChange
  BY <1>7 DEF LookAgain, Look, Established
<1>8. ASSUME NEW o \in Openers, Register(o) PROVE LateChange
  BY <1>8 DEF Register, AfterRegister
<1>9. ASSUME NEW o \in Openers, Repoll(o) PROVE LateChange
  BY <1>9 DEF Repoll
<1>10. ASSUME NEW o \in Openers, OpenUndo(o) PROVE LateChange
  BY <1>10 DEF OpenUndo, Leave, Forget, WorkOn, Unregistered
<1>11. ASSUME NEW o \in Openers, Deadline(o) PROVE LateChange
  BY <1>11 DEF Deadline
<1>12. ASSUME NEW o \in Openers, Cancel(o) PROVE LateChange
  BY <1>12 DEF Cancel, Forget
<1>13. ASSUME NEW o \in Openers, DropStream(o) PROVE LateChange
  BY <1>13 DEF DropStream, Leave, Forget, WorkOn
<1>14. ASSUME NEW i \in Ids, ReaderAck(i) PROVE LateChange
  BY <1>14 DEF ReaderAck, Answer, WorkOn, Followed
<1>15. ASSUME NEW i \in Ids, ReaderRst(i) PROVE LateChange
  BY <1>15 DEF ReaderRst, Answer, WorkOn, Followed
<1>16. ASSUME NEW i \in Ids, DropPeerStream(i) PROVE LateChange
  BY <1>16 DEF DropPeerStream
<1>17. ASSUME NEW i \in Ids, CloserTask(i) PROVE LateChange
  BY <1>17 DEF CloserTask
<1>18. CASE ReaderSyn
  BY <1>18 DEF ReaderSyn, WorkOn
<1>19. CASE ReaderInsert
  BY <1>19 DEF ReaderInsert, Numbering, WorkOn
<1>20. CASE ReaderWake
  BY <1>20 DEF ReaderWake, WorkOn, Wake
<1>21. CASE Initiate
  BY <1>21 DEF Initiate, Ending
<1>22. CASE ReaderGoAway
  BY <1>22 DEF ReaderGoAway, Ending
<1>23. CASE Drain
  BY <1>23 DEF Drain
<1>24. CASE ForceClose
  BY <1>24 DEF ForceClose, WorkOn, Followed
<1>25. CASE ForceWake
  BY <1>25 DEF ForceWake, WorkOn, Wake
<1>26. CASE Signal
  BY <1>26 DEF Signal
<1>27. CASE WriterExit
  BY <1>27 DEF WriterExit
<1>28. CASE UNCHANGED vars
  BY <1>28 DEF vars
<1> QED
  BY <1>1, <1>2, <1>3, <1>4, <1>5, <1>6, <1>7, <1>8, <1>9, <1>10, <1>11, <1>12, <1>13, <1>14,
     <1>15, <1>16, <1>17, <1>18, <1>19, <1>20, <1>21, <1>22, <1>23, <1>24, <1>25, <1>26, <1>27, <1>28
  DEF Next, OpenStep, ShutdownStep

(* There are finitely many ids and actors.                                 *)
LEMMA FiniteFacts == IsFiniteSet(Ids) /\ IsFiniteSet(Actors)
<1>1. IsFiniteSet(Ids)
  BY SMTT(60), FS_Interval, OpeningAssumption DEF Ids
<1>2. IsFiniteSet({"reader"}) /\ Wakers = {"reader"} \cup {"shutdown"}
  BY FS_Singleton DEF Wakers
<1>3. IsFiniteSet(Wakers)
  BY <1>2, FS_AddElement
<1> QED
  BY <1>1, <1>3, FS_Union, OpeningAssumption DEF Actors

(* A sum of two cardinalities does not grow when one set loses an element  *)
(* and the other gains at most one.                                        *)
LEMMA Exchanged ==
    ASSUME NEW S, NEW T, NEW U, NEW x \in T, NEW i, NEW n \in Nat,
           IsFiniteSet(S), IsFiniteSet(T), U \subseteq S \cup {i},
           Cardinality(S) + Cardinality(T) <= n
    PROVE  Cardinality(U) + Cardinality(T \ {x}) <= n
<1>1. /\ IsFiniteSet(S \cup {i}) /\ Cardinality(S) \in Nat /\ Cardinality(T) \in Nat
      /\ Cardinality(S \cup {i}) = IF i \in S THEN Cardinality(S) ELSE Cardinality(S) + 1
  BY FS_AddElement, FS_CardinalityType
<1>2. IsFiniteSet(U) /\ Cardinality(U) <= Cardinality(S \cup {i}) /\ Cardinality(U) \in Nat
  BY <1>1, FS_Subset, FS_CardinalityType
<1>3. Cardinality(T \ {x}) = Cardinality(T) - 1
  BY FS_RemoveElement
<1> QED
  BY SMTT(60), <1>1, <1>2, <1>3

(* Nor when both sets shrink.                                              *)
LEMMA Shrunk ==
    ASSUME NEW S, NEW T, NEW U, NEW V, NEW n \in Nat, IsFiniteSet(S), IsFiniteSet(T),
           U \subseteq S, V \subseteq T, Cardinality(S) + Cardinality(T) <= n
    PROVE  Cardinality(U) + Cardinality(V) <= n
<1>1. /\ Cardinality(S) \in Nat /\ Cardinality(T) \in Nat
      /\ IsFiniteSet(U) /\ IsFiniteSet(V)
      /\ Cardinality(U) <= Cardinality(S) /\ Cardinality(V) <= Cardinality(T)
  BY FS_Subset, FS_CardinalityType
<1>2. Cardinality(U) \in Nat /\ Cardinality(V) \in Nat
  BY <1>1, FS_CardinalityType
<1> QED
  BY SMTT(60), <1>1, <1>2

(* Every step keeps the overshoot of the cap within its bound.             *)
LEMMA CapStep == ASSUME IInv, IInv', CapOvershoot, [Next]_vars PROVE CapOvershoot'
<1> DEFINE n == MaxStreams + Cardinality(Openers)
<1>1. Cardinality(Openers) \in Nat /\ n \in Nat
  BY SMTT(60), OpeningAssumption, FS_CardinalityType
<1>2. /\ IsFiniteSet(registry) /\ IsFiniteSet(Busy) /\ IsFiniteSet(registry') /\ IsFiniteSet(Busy')
      /\ Cardinality(registry) + Cardinality(Busy) <= n
  <2>1. registry \subseteq Ids /\ registry' \subseteq Ids /\ Busy \subseteq Actors /\ Busy' \subseteq Actors
    BY DEF IInv, TypeOK, Busy
  <2>2. Cardinality(registry) + Cardinality(Busy) <= n
    BY DEF CapOvershoot, Busy
  <2> QED
    BY <2>1, <2>2, FiniteFacts, FS_Subset
<1> HIDE DEF n
<1>3. SUFFICES Cardinality(registry') + Cardinality(Busy') <= n
  BY DEF CapOvershoot, Busy, n
<1>4. CASE registry' \subseteq registry /\ Busy' \subseteq Busy
  BY <1>1, <1>2, <1>4, Shrunk
<1>5. CASE ~Full /\ registry' = registry
  <2>1. Busy' \subseteq Openers \cup {"reader"}
    BY DEF IInv, Ending, Busy, Counted, Actors, Wakers
  <2>2. /\ IsFiniteSet(Openers \cup {"reader"})
        /\ Cardinality(Openers \cup {"reader"}) <= Cardinality(Openers) + 1
    BY SMTT(60), <1>1, FS_AddElement, OpeningAssumption
  <2>3. Cardinality(Busy') <= Cardinality(Openers) + 1 /\ Cardinality(Busy') \in Nat
    <3>1. Cardinality(Busy') <= Cardinality(Openers \cup {"reader"}) /\ Cardinality(Busy') \in Nat
      BY <2>1, <2>2, <1>2, FS_Subset, FS_CardinalityType
    <3>2. Cardinality(Openers \cup {"reader"}) \in Nat
      BY <2>2, FS_CardinalityType
    <3> QED
      BY SMTT(60), <3>1, <3>2, <2>2, <1>1
  <2>4. Cardinality(registry) \in Nat /\ Cardinality(registry) < MaxStreams
    BY SMTT(60), <1>2, <1>5, FS_CardinalityType, OpeningAssumption DEF Full
  <2> QED
    BY SMTT(60), <1>1, <1>5, <2>3, <2>4, OpeningAssumption DEF n
<1>6. ASSUME NEW x \in Busy, NEW i \in Ids, registry' = registry \cup {i}, Busy' = Busy \ {x}
      PROVE  Cardinality(registry') + Cardinality(Busy') <= n
  BY <1>1, <1>2, <1>6, Exchanged
<1> QED
  BY <1>4, <1>5, <1>6, CapCases DEF CapChange

(* Every step keeps the number of late streams within its bound.           *)
LEMMA LateStep == ASSUME IInv, IInv', LateStreams, [Next]_vars PROVE LateStreams'
<1> DEFINE n == Cardinality(Openers)
<1>1. n \in Nat
  BY OpeningAssumption, FS_CardinalityType
<1>2. /\ IsFiniteSet(Own) /\ IsFiniteSet(Passing) /\ IsFiniteSet(Passing')
      /\ Passing' \subseteq Openers
      /\ Drained => Cardinality(Own) + Cardinality(Passing) <= n
  <2>1. Own \subseteq Ids /\ Passing \subseteq Openers /\ Passing' \subseteq Openers
    BY DEF IInv, TypeOK, Own, Passing
  <2>2. Drained => Cardinality(Own) + Cardinality(Passing) <= n
    BY DEF LateStreams, Own, Passing, Drained
  <2> QED
    BY <2>1, <2>2, FiniteFacts, FS_Subset, OpeningAssumption
<1>3. SUFFICES ASSUME Drained' PROVE Cardinality(Own') + Cardinality(Passing') <= n
  BY DEF LateStreams, Own, Passing, Drained
<1>4. CASE Own' = {}
  <2>1. Cardinality(Passing') <= n /\ Cardinality(Passing') \in Nat
    BY <1>2, FS_Subset, FS_CardinalityType, OpeningAssumption
  <2> QED
    BY SMTT(60), <1>1, <1>4, <2>1, FS_EmptySet
<1> HIDE DEF n
<1>5. CASE Drained /\ Own' \subseteq Own /\ Passing' \subseteq Passing
  BY <1>1, <1>2, <1>5, Shrunk
<1>6. ASSUME Drained, NEW o \in Passing, NEW i \in Ids,
             Own' \subseteq Own \cup {i}, Passing' = Passing \ {o}
      PROVE  Cardinality(Own') + Cardinality(Passing') <= n
  BY SMTT(60), <1>1, <1>2, <1>6, Exchanged
<1> QED
  BY <1>3, <1>4, <1>5, <1>6, LateCases DEF LateChange

(* IInv holds in every state the session reaches.                          *)
THEOREM Invariance == Spec => []IInv
<1>1. IInv /\ [Next]_vars => IInv'
  BY TypeStep, NumberingStep, EndingStep, WakingStep, AccountedStep DEF IInv
<1> QED
  BY InitIInv, <1>1, PTL DEF Spec

(* The variables keep their types: the allocator stays within the ids.     *)
THEOREM TypeCorrect == Spec => []TypeOK
<1>1. IInv => TypeOK
  BY DEF IInv
<1> QED
  BY Invariance, <1>1, PTL

(* However many tasks call open() at once, no two streams get the same id, *)
(* and insert never refuses one.                                           *)
THEOREM IdsAreUnique == Spec => []IdsUnique
<1>1. IInv => IdsUnique
  BY DEF IInv, Numbering
<1> QED
  BY Invariance, <1>1, PTL

(* open() reports what happened to its stream.                             *)
THEOREM OutcomesTrue == Spec => []OutcomeTrue
<1>1. IInv => OutcomeTrue
  BY DEF IInv, Ending
<1> QED
  BY Invariance, <1>1, PTL

(* wait_acked loses no wake-up.                                            *)
THEOREM OpenIsWoken == Spec => []NoLostWakeup
<1>1. IInv => NoLostWakeup
  BY DEF IInv, Waking, Told, NoLostWakeup, Wakers
<1> QED
  BY Invariance, <1>1, PTL

(* Every registered stream of ours has someone to remove it, or its call   *)
(* was cancelled.                                                          *)
THEOREM Accounted == Spec => []RegistryAccounted
<1>1. IInv => RegistryAccounted
  BY DEF IInv
<1> QED
  BY Invariance, <1>1, PTL

(* The cap is exceeded by at most one stream for each task that calls      *)
(* open(), for every cap and every number of tasks.                        *)
THEOREM CapBound == Spec => []CapOvershoot
<1>1. Init => CapOvershoot
  <2> SUFFICES ASSUME Init PROVE CapOvershoot
    OBVIOUS
  <2>1. registry = {} /\ {x \in Actors : Counted(x)} = {}
    BY DEF Init, Counted
  <2>2. Cardinality(Openers) \in Nat
    BY OpeningAssumption, FS_CardinalityType
  <2> QED
    BY SMTT(60), <2>1, <2>2, FS_EmptySet, OpeningAssumption DEF CapOvershoot
<1>2. IInv /\ IInv' /\ CapOvershoot /\ [Next]_vars => CapOvershoot'
  BY CapStep
<1> QED
  BY Invariance, <1>1, <1>2, PTL DEF Spec

(* At most one stream for each task that calls open() is left open by the  *)
(* shutdown.                                                               *)
THEOREM LateBound == Spec => []LateStreams
<1>1. Init => LateStreams
  BY DEF Init, LateStreams
<1>2. IInv /\ IInv' /\ LateStreams /\ [Next]_vars => LateStreams'
  BY LateStep
<1> QED
  BY Invariance, <1>1, <1>2, PTL DEF Spec
=============================================================================
