----------------------------- MODULE SendWindow -----------------------------
(***************************************************************************)
(* The send window of one stream (flow/window.rs), one atomic operation of *)
(* the code per step.  The owner is the task that polls poll_write on the  *)
(* Stream: it is the only caller of poll_acquire.  A granter is a call of  *)
(* grant by another task (the reader dispatching a WindowUpdate), a closer *)
(* a call of close (remote_reset, local_reset, force_close).               *)
(*                                                                         *)
(* The AtomicWaker (external) holds the owner's waker or nothing; wake     *)
(* takes it and schedules the owner's task.                                *)
(***************************************************************************)
EXTENDS Integers

CONSTANTS
    Initial,    \* the window's initial credit
    MaxCredit,  \* u32::MAX
    MaxDesired, \* bound: the most one poll_acquire asks for
    Granters,   \* concurrent calls of grant
    Closers,    \* concurrent calls of close
    MaxDelta,   \* bound: the largest delta of a grant
    MaxOffered  \* bound: no grant starts that would take the sum granted past it

ASSUME WindowAssumption ==
    /\ Initial \in Nat /\ MaxCredit \in Nat /\ Initial <= MaxCredit
    /\ MaxDesired \in Nat \ {0} /\ MaxDelta \in Nat \ {0} /\ MaxOffered \in Nat

VARIABLES
    available,  \* SendWindow.available
    closed,     \* SendWindow.closed
    waker,      \* SendWindow.waker holds the owner's waker
    notified,   \* the owner's task is scheduled to poll again
    opc,        \* where the owner is in poll_acquire
    desired,    \* its argument
    rechecking, \* it has registered its waker
    ocur,       \* cur of try_take
    gpc,        \* where each granter is in grant
    delta,      \* its argument
    gcur,       \* its cur
    cpc,        \* where each closer is in close
    taken,      \* history: the credit acquired
    offered     \* history: the credit granted

owner == <<opc, desired, rechecking, ocur>>
granters == <<gpc, delta, gcur>>
vars == <<available, closed, waker, notified, opc, desired, rechecking, ocur,
          gpc, delta, gcur, cpc, taken, offered>>

Lesser(a, b) == IF a <= b THEN a ELSE b

Init ==
    /\ available = Initial /\ closed = FALSE
    /\ waker = FALSE /\ notified = FALSE
    /\ opc = "idle" /\ desired = 1 /\ rechecking = FALSE /\ ocur = 0
    /\ gpc = [g \in Granters |-> "idle"]
    /\ delta = [g \in Granters |-> 1]
    /\ gcur = [g \in Granters |-> 0]
    /\ cpc = [c \in Closers |-> "idle"]
    /\ taken = 0 /\ offered = 0

----------------------------------------------------------------------------
\* The owner.

StartPoll ==
    /\ opc' = "closed?" /\ rechecking' = FALSE
    /\ notified' = FALSE
    /\ UNCHANGED <<available, closed, waker, ocur, granters, cpc, taken, offered>>

\* The application writes: a first call of poll_acquire.
PollAcquire(n) ==
    /\ opc = "idle"
    /\ desired' = n
    /\ StartPoll

\* The runtime polls the parked task again because it was woken.
PollWoken ==
    /\ opc = "parked" /\ notified
    /\ desired' = desired
    /\ StartPoll

\* The task is polled for another reason (a select! over other futures), or
\* the application gives the write up and writes something else.
PollAnyway(n) ==
    /\ opc = "parked"
    /\ desired' = n
    /\ StartPoll

\* Both loads of closed: before the fast path and after registering.
LoadClosed ==
    /\ opc = "closed?"
    /\ opc' = IF closed THEN "idle" ELSE "load"
    /\ UNCHANGED <<available, closed, waker, notified, desired, rechecking, ocur,
                   granters, cpc, taken, offered>>

NoRecheck == "parked"

\* Where try_take returning None leads: to registering, then to Pending.
OnEmpty == IF rechecking THEN "parked" ELSE "register"

\* try_take: load available.
LoadAvailable ==
    /\ opc = "load"
    /\ ocur' = available
    /\ opc' = IF available = 0 THEN OnEmpty ELSE "cas"
    /\ UNCHANGED <<available, closed, waker, notified, desired, rechecking,
                   granters, cpc, taken, offered>>

NoCompare(cur) == TRUE

\* compare_exchange_weak may succeed when available still is what was loaded.
CanExchange(cur) == available = cur

\* try_take: the compare_exchange_weak succeeds.
TakeOk ==
    LET n == Lesser(ocur, desired)
    IN  /\ opc = "cas"
        /\ CanExchange(ocur)
        /\ available' = ocur - n
        /\ taken' = taken + n
        /\ opc' = "idle"
        /\ UNCHANGED <<closed, waker, notified, desired, rechecking, ocur, granters,
                       cpc, offered>>

\* try_take: the exchange fails, for another value or spuriously; loop.
TakeFail ==
    /\ opc = "cas"
    /\ opc' = "load"
    /\ UNCHANGED <<available, closed, waker, notified, desired, rechecking, ocur,
                   granters, cpc, taken, offered>>

\* waker.register, before the second look.
Register ==
    /\ opc = "register"
    /\ waker' = TRUE
    /\ rechecking' = TRUE
    /\ opc' = "closed?"
    /\ UNCHANGED <<available, closed, notified, desired, ocur, granters, cpc,
                   taken, offered>>

----------------------------------------------------------------------------
\* The other tasks.

\* AtomicWaker::wake: take the waker, if there is one, and schedule the task.
Wake ==
    /\ waker' = FALSE
    /\ notified' = (notified \/ waker)

\* grant(d), d > 0: load available.
Grant(g, d) ==
    /\ gpc[g] = "idle"
    /\ offered + d <= MaxOffered
    /\ delta' = [delta EXCEPT ![g] = d]
    /\ gcur' = [gcur EXCEPT ![g] = available]
    /\ gpc' = [gpc EXCEPT ![g] = "cas"]
    /\ UNCHANGED <<available, closed, waker, notified, owner, cpc, taken, offered>>

SumUnbounded(cur, d) == cur + d

\* saturating_add.
Sum(cur, d) == Lesser(cur + d, MaxCredit)

\* grant: the compare_exchange_weak succeeds.
GrantOk(g) ==
    /\ gpc[g] = "cas"
    /\ CanExchange(gcur[g])
    /\ available' = Sum(gcur[g], delta[g])
    /\ offered' = offered + delta[g]
    /\ gpc' = [gpc EXCEPT ![g] = "wake"]
    /\ UNCHANGED <<closed, waker, notified, owner, delta, gcur, cpc, taken>>

\* grant: the exchange fails; take the value it reports and loop.
GrantFail(g) ==
    /\ gpc[g] = "cas"
    /\ gcur' = [gcur EXCEPT ![g] = available]
    /\ UNCHANGED <<available, closed, waker, notified, owner, gpc, delta, cpc, taken, offered>>

GrantWake(g) ==
    /\ gpc[g] = "wake"
    /\ Wake
    /\ gpc' = [gpc EXCEPT ![g] = "idle"]
    /\ UNCHANGED <<available, closed, owner, delta, gcur, cpc, taken, offered>>

\* close: store closed.
Close(c) ==
    /\ cpc[c] = "idle"
    /\ closed' = TRUE
    /\ cpc' = [cpc EXCEPT ![c] = "wake"]
    /\ UNCHANGED <<available, waker, notified, owner, granters, taken, offered>>

CloseWake(c) ==
    /\ cpc[c] = "wake"
    /\ Wake
    /\ cpc' = [cpc EXCEPT ![c] = "done"]
    /\ UNCHANGED <<available, closed, owner, granters, taken, offered>>

----------------------------------------------------------------------------
OwnerStep == LoadClosed \/ LoadAvailable \/ TakeOk \/ TakeFail \/ Register

Next ==
    \/ \E n \in 1..MaxDesired : PollAcquire(n)
    \/ PollWoken
    \/ \E n \in 1..MaxDesired : PollAnyway(n)
    \/ OwnerStep
    \/ \E g \in Granters : \/ \E d \in 1..MaxDelta : Grant(g, d)
                           \/ GrantOk(g) \/ GrantFail(g) \/ GrantWake(g)
    \/ \E c \in Closers : Close(c) \/ CloseWake(c)

Spec == Init /\ [][Next]_vars

\* A call that has begun goes on, a woken task is polled, and a
\* compare_exchange_weak does not fail spuriously for ever.
FairSpec ==
    /\ Spec
    /\ WF_vars(PollWoken) /\ WF_vars(OwnerStep) /\ SF_vars(TakeOk)
    /\ \A g \in Granters : SF_vars(GrantOk(g)) /\ WF_vars(GrantWake(g))
    /\ \A c \in Closers : WF_vars(CloseWake(c))

----------------------------------------------------------------------------
TypeOK ==
    /\ available \in 0..MaxCredit /\ closed \in BOOLEAN
    /\ waker \in BOOLEAN /\ notified \in BOOLEAN
    /\ opc \in {"idle", "closed?", "load", "cas", "register", "parked"}
    /\ desired \in 1..MaxDesired /\ rechecking \in BOOLEAN /\ ocur \in 0..MaxCredit
    /\ gpc \in [Granters -> {"idle", "cas", "wake"}]
    /\ delta \in [Granters -> 1..MaxDelta]
    /\ gcur \in [Granters -> 0..MaxCredit]
    /\ cpc \in [Closers -> {"idle", "wake", "done"}]
    /\ taken \in Nat /\ offered \in Nat

(* No credit appears or gets lost however try_take and the grants          *)
(* interleave: what was acquired and what is left is what was there and    *)
(* what was granted, less only what saturation at u32::MAX cuts off.       *)
CreditExact ==
    /\ taken + available <= Initial + offered
    /\ Initial + offered <= MaxCredit => taken + available = Initial + offered

\* A call of grant or close that has changed the window and not yet woken.
WakePending == (\E g \in Granters : gpc[g] = "wake") \/ (\E c \in Closers : cpc[c] = "wake")

(* No wake-up gets lost between the first look, the registration and the   *)
(* second look of poll_acquire: a parked owner whose task is not scheduled *)
(* has its waker in the slot, and if there is credit or the window is      *)
(* closed, a wake is still to come.                                        *)
NoLostWakeup ==
    opc = "parked" /\ ~notified =>
        waker /\ (available > 0 \/ closed => WakePending)

(* A writer parked for credit is polled and served once credit is granted  *)
(* or the window closed.                                                   *)
ParkedIsServed == (opc = "parked" /\ (available > 0 \/ closed)) ~> opc = "idle"

Counter == INSTANCE Credit WITH credit <- available

(* Every call of poll_acquire, grant and close takes effect in one step:   *)
(* the window implements an atomic credit counter.                         *)
ImplementsCredit == Counter!Spec
=============================================================================
