--------------------------- MODULE PollReadProofs ---------------------------
(***************************************************************************)
(* Proofs about PollRead, for any number of payloads.                      *)
(***************************************************************************)
EXTENDS PollRead, TLAPS

USE ZenonT(60)

\* Payloads in the buffer, in the reader task's hands and still to come.
Payloads ==
    buf + (IF rpc = "push" THEN 1 ELSE 0) + (IF inbound > 0 THEN inbound ELSE 0)

TInv == TypeOK /\ Payloads <= MaxData

\* The values the count of payloads to come takes: all of them, one less, none
\* after the last frame.
LEMMA Inbound ==
    /\ MaxData \in -1..MaxData
    /\ -1 \in -1..MaxData
    /\ \A n \in -1..MaxData : n > 0 => n - 1 \in -1..MaxData
BY SMTT(60), MaxDataAssumption

\* A new stream is well-typed.
LEMMA InitType == Init => TInv
<1> SUFFICES ASSUME Init PROVE TInv
    OBVIOUS
<1>1. buf \in 0..MaxData /\ inbound \in -1..MaxData /\ Payloads <= MaxData
    BY SMTT(60), MaxDataAssumption, Inbound DEF Init, Payloads
<1> QED BY <1>1 DEF Init, TInv, TypeOK

\* Every atomic operation of poll_read and of the calls that signal it keeps
\* the types and the number of payloads.
LEMMA StepType == TInv /\ [Next]_vars => TInv'
<1> SUFFICES ASSUME TInv, [Next]_vars PROVE TInv'
    OBVIOUS
<1> USE MaxDataAssumption DEF TInv, TypeOK, Payloads
<1>1. CASE Poll
    BY <1>1 DEF Poll, OwnerOnly
<1>2. CASE LoadReset
    BY <1>2 DEF LoadReset, OwnerOnly, Return
<1>3. CASE Drain
    BY SMTT(60), <1>3 DEF Drain, OwnerOnly, Return, ReadInto
<1>4. CASE LoadReadOpen
    BY <1>4 DEF LoadReadOpen, OwnerOnly, Return
<1>5. CASE Register
    BY <1>5 DEF Register, OwnerOnly, AfterRegister
<1>6. CASE SecondLook
    BY SMTT(60), <1>6 DEF SecondLook, OwnerOnly
<1>7. CASE ReceiveData
    <2>1. inbound' \in -1..MaxData
        BY <1>7, Inbound DEF ReceiveData
    <2>2. Payloads' <= MaxData
        BY SMTT(60), <1>7 DEF ReceiveData
    <2> QED BY <1>7, <2>1, <2>2 DEF ReceiveData, OtherOnly, NoWake
<1>8. CASE PushData
    BY SMTT(60), <1>8 DEF PushData, OtherOnly, NoWake
<1>9. CASE RemoteFin
    <2>1. inbound' \in -1..MaxData
        BY <1>9, Inbound DEF RemoteFin
    <2>2. Payloads' <= MaxData
        BY SMTT(60), <1>9 DEF RemoteFin
    <2> QED BY <1>9, <2>1, <2>2 DEF RemoteFin, OtherOnly, NoWake
<1>10. CASE RemoteReset
    BY SMTT(60), <1>10 DEF RemoteReset, OtherOnly, NoWake
<1>11. CASE MarkedReset
    BY <1>11 DEF MarkedReset, OtherOnly, NoWake
<1>12. CASE ReaderWake
    BY <1>12 DEF ReaderWake, OtherOnly, Wake
<1>13. CASE ForceClose
    BY <1>13 DEF ForceClose, OtherOnly, NoWake
<1>14. CASE ForceWake
    BY <1>14 DEF ForceWake, OtherOnly, Wake
<1>15. CASE UNCHANGED vars
    BY SMTT(60), <1>15 DEF vars
<1> QED
    BY <1>1, <1>2, <1>3, <1>4, <1>5, <1>6, <1>7, <1>8, <1>9, <1>10, <1>11, <1>12,
       <1>13, <1>14, <1>15 DEF Next, OwnerStep, Finish

(* The state poll_read looks at stays well-typed: the buffer never holds   *)
(* more than the peer sent and read_into never takes more than there is.   *)
THEOREM TypeCorrect == Spec => []TypeOK
<1>1. TInv => TypeOK
    BY DEF TInv
<1> QED BY <1>1, InitType, StepType, PTL DEF Spec

----------------------------------------------------------------------------
Registered == {"empty?", "reopen?", "rereset?", "parked"}

Answered == WakePending \/ notified

\* Why no wake-up is lost.  Once registered, the waker is in the slot or the
\* task is scheduled.  What the second look has passed by, and is there
\* nevertheless, was put there by a call that has yet to wake or has woken.
WakeInv ==
    /\ opc \in Registered => waker \/ notified
    /\ opc \in Registered \ {"empty?"} /\ buf > 0 => Answered
    /\ opc \in {"rereset?", "parked"} /\ ~readOpen => Answered
    /\ opc = "parked" /\ reset => Answered

\* Every atomic operation keeps the account of who will wake the reader.
LEMMA StepWake == TypeOK /\ WakeInv /\ [Next]_vars => WakeInv'
<1> SUFFICES ASSUME TypeOK, WakeInv, [Next]_vars PROVE WakeInv'
    OBVIOUS
<1> USE DEF WakeInv, Registered, Answered, WakePending
<1>1. CASE Poll
    BY <1>1 DEF Poll, OwnerOnly
<1>2. CASE LoadReset
    BY <1>2 DEF LoadReset, OwnerOnly, Return
<1>3. CASE Drain
    BY <1>3 DEF Drain, OwnerOnly, Return
<1>4. CASE LoadReadOpen
    BY <1>4 DEF LoadReadOpen, OwnerOnly, Return
<1>5. CASE Register
    BY <1>5 DEF Register, OwnerOnly, AfterRegister
<1>6. CASE SecondLook
    BY <1>6 DEF SecondLook, OwnerOnly
<1>7. CASE ReceiveData
    BY <1>7 DEF ReceiveData, OtherOnly, NoWake
<1>8. CASE PushData
    BY <1>8 DEF PushData, OtherOnly, NoWake
<1>9. CASE RemoteFin
    BY <1>9 DEF RemoteFin, OtherOnly, NoWake
<1>10. CASE RemoteReset
    BY <1>10 DEF RemoteReset, OtherOnly, NoWake
<1>11. CASE MarkedReset
    BY <1>11 DEF MarkedReset, OtherOnly, NoWake
<1>12. CASE ReaderWake
    BY <1>12 DEF ReaderWake, OtherOnly, Wake
<1>13. CASE ForceClose
    BY <1>13 DEF ForceClose, OtherOnly, NoWake
<1>14. CASE ForceWake
    BY <1>14 DEF ForceWake, OtherOnly, Wake
<1>15. CASE UNCHANGED vars
    BY <1>15 DEF vars
<1> QED
    BY <1>1, <1>2, <1>3, <1>4, <1>5, <1>6, <1>7, <1>8, <1>9, <1>10, <1>11, <1>12,
       <1>13, <1>14, <1>15 DEF Next, OwnerStep, Finish

(* The second look of poll_read is enough against all three of its         *)
(* signallers: a parked reader is never forgotten.                         *)
THEOREM WakeupSafe == Spec => []NoLostWakeup
<1>1. Init => WakeInv
    BY DEF Init, WakeInv, Registered
<1>2. WakeInv => NoLostWakeup
    BY DEF WakeInv, Registered, Answered, NoLostWakeup, Readable
<1> QED BY <1>1, <1>2, StepWake, TypeCorrect, PTL DEF Spec
=============================================================================
