-------------------------- MODULE SendWindowProofs --------------------------
(***************************************************************************)
(* Proofs about SendWindow, for any credit limit, any number of concurrent *)
(* grants and closes and any amounts.                                      *)
(***************************************************************************)
EXTENDS SendWindow, TLAPS

USE ZenonT(60)

Phase == {"closed?", "load", "cas", "parked"}

\* Why no wake-up is lost.  Once the owner has registered, its waker stays
\* in the slot until a wake moves it to the scheduler; a close it cannot
\* have seen on the second look, and credit granted after that look, come
\* from a call that has yet to wake.
WakeInv ==
    /\ opc = "parked" => rechecking
    /\ rechecking /\ opc \in Phase => waker \/ notified
    /\ rechecking /\ opc \in Phase \ {"closed?"} /\ closed => WakePending \/ notified
    /\ opc = "parked" /\ available > 0 => WakePending \/ notified

\* A new window is well-typed.
LEMMA InitType == Init => TypeOK
<1> SUFFICES ASSUME Init PROVE TypeOK
  OBVIOUS
<1>1. /\ available \in 0..MaxCredit /\ desired \in 1..MaxDesired /\ ocur \in 0..MaxCredit
      /\ 1 \in 1..MaxDelta /\ 0 \in 0..MaxCredit /\ taken \in Nat /\ offered \in Nat
  BY SMTT(60), WindowAssumption DEF Init
<1> QED BY <1>1 DEF Init, TypeOK

\* Every atomic operation of poll_acquire, grant and close keeps the types.
LEMMA StepType == TypeOK /\ [Next]_vars => TypeOK'
<1> SUFFICES ASSUME TypeOK, [Next]_vars PROVE TypeOK'
  OBVIOUS
<1> USE WindowAssumption DEF TypeOK
<1>1. ASSUME NEW n \in 1..MaxDesired, PollAcquire(n) \/ PollAnyway(n) PROVE TypeOK'
  BY <1>1 DEF PollAcquire, PollAnyway, StartPoll, granters
<1>2. CASE PollWoken
  BY <1>2 DEF PollWoken, StartPoll, granters
<1>3. CASE LoadClosed
  BY <1>3 DEF LoadClosed, granters
<1>4. CASE LoadAvailable
  BY <1>4 DEF LoadAvailable, OnEmpty, granters
<1>5. CASE TakeOk
  BY SMTT(60), <1>5 DEF TakeOk, CanExchange, Lesser, granters
<1>6. CASE TakeFail
  BY <1>6 DEF TakeFail, granters
<1>7. CASE Register
  BY <1>7 DEF Register, granters
<1>8. ASSUME NEW g \in Granters, NEW d \in 1..MaxDelta, Grant(g, d) PROVE TypeOK'
  BY <1>8 DEF Grant, owner
<1>9. ASSUME NEW g \in Granters, GrantOk(g) PROVE TypeOK'
  BY SMTT(60), <1>9 DEF GrantOk, CanExchange, Sum, Lesser, owner
<1>10. ASSUME NEW g \in Granters, GrantFail(g) PROVE TypeOK'
  BY <1>10 DEF GrantFail, owner
<1>11. ASSUME NEW g \in Granters, GrantWake(g) PROVE TypeOK'
  BY <1>11 DEF GrantWake, Wake, owner
<1>12. ASSUME NEW c \in Closers, Close(c) PROVE TypeOK'
  BY <1>12 DEF Close, owner, granters
<1>13. ASSUME NEW c \in Closers, CloseWake(c) PROVE TypeOK'
  BY <1>13 DEF CloseWake, Wake, owner, granters
<1>14. CASE UNCHANGED vars
  BY <1>14 DEF vars
<1> QED BY <1>1, <1>2, <1>3, <1>4, <1>5, <1>6, <1>7, <1>8, <1>9, <1>10, <1>11, <1>12,
           <1>13, <1>14 DEF Next, OwnerStep

(* The window's state stays within its types: available never exceeds     *)
(* u32::MAX and never goes below zero, whatever the interleaving.          *)
THEOREM TypeCorrect == Spec => []TypeOK
BY InitType, StepType, PTL DEF Spec

----------------------------------------------------------------------------
\* Every atomic operation keeps the account of the credit: an exchange only
\* succeeds on the value it was computed from.
LEMMA StepCredit == TypeOK /\ CreditExact /\ [Next]_vars => CreditExact'
<1> SUFFICES ASSUME TypeOK, CreditExact, [Next]_vars PROVE CreditExact'
  OBVIOUS
<1> USE WindowAssumption DEF TypeOK, CreditExact
<1>1. CASE TakeOk
  BY SMTT(60), <1>1 DEF TakeOk, CanExchange, Lesser
<1>2. ASSUME NEW g \in Granters, GrantOk(g) PROVE CreditExact'
  <2>1. available = gcur[g] /\ delta[g] \in Nat
    BY SMTT(60), <1>2 DEF GrantOk, CanExchange
  <2>2. /\ available' = IF available + delta[g] <= MaxCredit THEN available + delta[g]
                        ELSE MaxCredit
        /\ offered' = offered + delta[g] /\ taken' = taken
    BY <1>2, <2>1 DEF GrantOk, Sum, Lesser
  <2> QED BY SMTT(60), <2>1, <2>2
<1>3. CASE UNCHANGED <<available, taken, offered>>
  BY <1>3
<1>4. [Next]_vars => \/ TakeOk \/ (\E g \in Granters : GrantOk(g))
                     \/ UNCHANGED <<available, taken, offered>>
  BY DEF Next, OwnerStep, PollAcquire, PollWoken, PollAnyway, StartPoll, LoadClosed,
         LoadAvailable, TakeFail, Register, Grant, GrantFail, GrantWake, Close, CloseWake, vars
<1> QED BY <1>1, <1>2, <1>3, <1>4

(* Credit is neither created nor lost by the lock-free take and grant.     *)
THEOREM CreditIsExact == Spec => []CreditExact
<1>1. Init => CreditExact
  BY SMTT(60), WindowAssumption DEF Init, CreditExact
<1> QED BY <1>1, StepCredit, TypeCorrect, PTL DEF Spec

----------------------------------------------------------------------------
\* Every atomic operation keeps the account of who will wake the owner.
LEMMA StepWake == TypeOK /\ WakeInv /\ [Next]_vars => WakeInv'
<1> SUFFICES ASSUME TypeOK, WakeInv, [Next]_vars PROVE WakeInv'
  OBVIOUS
<1> USE WindowAssumption DEF TypeOK, WakeInv, Phase
<1>1. ASSUME NEW n \in 1..MaxDesired, PollAcquire(n) \/ PollAnyway(n) PROVE WakeInv'
  BY <1>1 DEF PollAcquire, PollAnyway, StartPoll
<1>2. CASE PollWoken
  BY <1>2 DEF PollWoken, StartPoll
<1>3. CASE LoadClosed
  BY <1>3 DEF LoadClosed, WakePending, granters
<1>4. CASE LoadAvailable
  BY SMTT(60), <1>4 DEF LoadAvailable, OnEmpty, WakePending, granters
<1>5. CASE TakeOk
  BY <1>5 DEF TakeOk
<1>6. CASE TakeFail
  BY <1>6 DEF TakeFail, WakePending, granters
<1>7. CASE Register
  BY <1>7 DEF Register
<1>8. ASSUME NEW g \in Granters, NEW d \in 1..MaxDelta, Grant(g, d) PROVE WakeInv'
  <2>1. WakePending => WakePending'
    BY <1>8 DEF Grant, WakePending
  <2> QED BY <1>8, <2>1 DEF Grant, owner
<1>9. ASSUME NEW g \in Granters, GrantOk(g) PROVE WakeInv'
  <2>1. WakePending'
    BY <1>9 DEF GrantOk, WakePending
  <2> QED BY <1>9, <2>1 DEF GrantOk, owner
<1>10. ASSUME NEW g \in Granters, GrantFail(g) PROVE WakeInv'
  BY <1>10 DEF GrantFail, WakePending, owner
<1>11. ASSUME NEW g \in Granters, GrantWake(g) PROVE WakeInv'
  BY <1>11 DEF GrantWake, Wake, owner
<1>12. ASSUME NEW c \in Closers, Close(c) PROVE WakeInv'
  <2>1. WakePending'
    BY <1>12 DEF Close, WakePending
  <2> QED BY <1>12, <2>1 DEF Close, owner
<1>13. ASSUME NEW c \in Closers, CloseWake(c) PROVE WakeInv'
  BY <1>13 DEF CloseWake, Wake, owner
<1>14. CASE UNCHANGED vars
  BY <1>14 DEF vars, WakePending
<1> QED BY <1>1, <1>2, <1>3, <1>4, <1>5, <1>6, <1>7, <1>8, <1>9, <1>10, <1>11, <1>12,
           <1>13, <1>14 DEF Next, OwnerStep

(* Registering before the second look is enough: a parked writer is never  *)
(* forgotten by a grant or a close, however many run at once.              *)
THEOREM WakeupSafe == Spec => []NoLostWakeup
<1>1. Init => WakeInv
  BY DEF Init, WakeInv, Phase
<1>2. TypeOK /\ WakeInv => NoLostWakeup
  BY DEF TypeOK, WakeInv, NoLostWakeup, Phase
<1> QED BY <1>1, <1>2, StepWake, TypeCorrect, PTL DEF Spec

----------------------------------------------------------------------------
(* The compare-and-exchange loops make every call take effect atomically:  *)
(* the window implements the credit counter.                               *)
THEOREM Refinement == Spec => ImplementsCredit
<1> USE WindowAssumption
<1>1. Init => Counter!Init
  BY DEF Init, Counter!Init
<1>2. TypeOK /\ [Next]_vars => [Counter!Next]_<<available, closed>>
  <2> SUFFICES ASSUME TypeOK, [Next]_vars, ~UNCHANGED <<available, closed>>
               PROVE  Counter!Next
    OBVIOUS
  <2>1. \/ TakeOk \/ (\E g \in Granters : GrantOk(g)) \/ (\E c \in Closers : Close(c))
    BY DEF Next, OwnerStep, PollAcquire, PollWoken, PollAnyway, StartPoll, LoadClosed,
           LoadAvailable, TakeFail, Register, Grant, GrantFail, GrantWake, CloseWake, vars
  <2>2. CASE TakeOk
    <3>1. Counter!Acquire(desired)
      BY SMTT(60), <2>2 DEF TypeOK, TakeOk, CanExchange, Lesser, Counter!Acquire, Counter!Smaller
    <3>2. desired \in 1..MaxDesired
      BY DEF TypeOK
    <3> QED BY <3>1, <3>2 DEF Counter!Next
  <2>3. ASSUME NEW g \in Granters, GrantOk(g) PROVE Counter!Next
    <3>1. Counter!Grant(delta[g])
      BY <2>3 DEF TypeOK, GrantOk, CanExchange, Sum, Lesser, Counter!Grant, Counter!Smaller
    <3>2. delta[g] \in 1..MaxDelta
      BY DEF TypeOK
    <3> QED BY <3>1, <3>2 DEF Counter!Next
  <2>4. ASSUME NEW c \in Closers, Close(c) PROVE Counter!Next
    BY <2>4 DEF Close, Counter!Close, Counter!Next
  <2> QED BY <2>1, <2>2, <2>3, <2>4
<1> QED BY <1>1, <1>2, TypeCorrect, PTL DEF Spec, ImplementsCredit, Counter!Spec
=============================================================================
