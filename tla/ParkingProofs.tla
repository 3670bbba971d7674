--------------------------- MODULE ParkingProofs ---------------------------
(***************************************************************************)
(* Proofs about the thread parker, for any set of unparkers: its inductive *)
(* invariant, the absence of panics and of lost wake-ups, and that every   *)
(* step is a step of the abstract token or leaves it alone.                *)
(***************************************************************************)
EXTENDS Parking, TLAPS

USE DEF States, Timeouts, ParkPoints, UnparkPoints

\* The owner's steps change neither the unparkers nor their answers, and each
\* of them preserves the invariant.
LEMMA OwnerStepInv ==
    ASSUME IInv, ParkStep \/ ParkSpurious \/ (\E t \in Timeouts : Park(t))
    PROVE  IInv'
<1> USE NobodyAssumption DEF IInv, TypeOK, NoPanic, LockInv, AnnouncedInv,
                             BeforeWaitInv, NoLostWakeup
<1>1. ASSUME NEW t \in Timeouts, Park(t) PROVE IInv'
  BY <1>1 DEF Park
<1>2. CASE ParkEntry
  BY <1>2 DEF ParkEntry
<1>3. CASE ParkLock
  BY <1>3 DEF ParkLock
<1>4. CASE ParkAnnounce
  BY <1>4 DEF ParkAnnounce
<1>5. CASE ParkConsume
  BY <1>5 DEF ParkConsume
<1>6. CASE ParkWait
  BY <1>6 DEF ParkWait
<1>7. CASE ParkTimeout \/ ParkSpurious
  BY <1>7 DEF ParkTimeout, ParkSpurious
<1>8. CASE ParkRelock
  BY <1>8 DEF ParkRelock
<1>9. CASE ParkRecheck
  BY <1>9 DEF ParkRecheck
<1>10. CASE ParkTimedRecheck
  BY <1>10 DEF ParkTimedRecheck
<1>11. QED
  BY <1>1, <1>2, <1>3, <1>4, <1>5, <1>6, <1>7, <1>8, <1>9, <1>10 DEF ParkStep

\* An unparker's swap leaves it with the duty to notify exactly when it found
\* the owner PARKED; the mutex keeps that duty alive until the owner waits.
LEMMA UnparkerStepInv ==
    ASSUME IInv, NEW u \in Unparkers,
           Unpark(u) \/ UnparkLock(u) \/ UnparkNotify(u)
    PROVE  IInv'
<1> USE NobodyAssumption DEF IInv, TypeOK, NoPanic, LockInv, AnnouncedInv,
                             BeforeWaitInv, NoLostWakeup
<1>1. CASE Unpark(u)
  BY <1>1 DEF Unpark
<1>2. CASE UnparkLock(u)
  BY <1>2 DEF UnparkLock
<1>3. CASE UnparkNotify(u)
  BY <1>3 DEF UnparkNotify
<1>4. QED
  BY <1>1, <1>2, <1>3

\* IInv is an invariant of the parker.
THEOREM ParkingInvariant == Spec => []IInv
<1>1. Init => IInv
  BY NobodyAssumption DEF Init, IInv, TypeOK, NoPanic, LockInv, AnnouncedInv,
                          BeforeWaitInv, NoLostWakeup
<1>2. IInv /\ [Next]_vars => IInv'
  <2> SUFFICES ASSUME IInv, [Next]_vars PROVE IInv'
    OBVIOUS
  <2>1. CASE Next
    BY <2>1, OwnerStepInv, UnparkerStepInv DEF Next
  <2>2. CASE UNCHANGED vars
    BY <2>2 DEF vars, IInv, TypeOK, NoPanic, LockInv, AnnouncedInv,
                BeforeWaitInv, NoLostWakeup
  <2>3. QED
    BY <2>1, <2>2
<1>3. QED
  BY <1>1, <1>2, PTL DEF Spec

\* The parker's variables keep their types.
THEOREM ParkingTypeCorrect == Spec => []TypeOK
<1>1. IInv => TypeOK
  BY DEF IInv
<1>2. QED
  BY <1>1, ParkingInvariant, PTL

\* None of the panic branches of park() is ever taken.
THEOREM ParkNeverPanics == Spec => []NoPanic
<1>1. IInv => NoPanic
  BY DEF IInv
<1>2. QED
  BY <1>1, ParkingInvariant, PTL

\* A sleeping owner with a notification pending always has an unparker on its
\* way to notify_one.
THEOREM UnparkNeverLost == Spec => []NoLostWakeup
<1>1. IInv => NoLostWakeup
  BY DEF IInv
<1>2. QED
  BY <1>1, ParkingInvariant, PTL

\* Every step of the parker, read through the refinement mapping, is a step of
\* the abstract token or changes nothing of it.
LEMMA TokenStep ==
    ASSUME IInv, [Next]_vars
    PROVE  [Token!Next]_(Token!tokenVars)
<1> USE DEF IInv, TypeOK, NoPanic, AnnouncedInv
<1>1. ASSUME NEW t \in Timeouts, Park(t) PROVE Token!BeginPark(t)
  BY <1>1 DEF Park, Token!BeginPark
<1>2. CASE ParkEntry
  <2>1. CASE state = "NOTIFIED"
    BY <1>2, <2>1 DEF ParkEntry, Token!TakeToken, Token!Next
  <2>2. CASE state # "NOTIFIED" /\ timeout = "zero"
    BY <1>2, <2>2 DEF ParkEntry, Token!GiveUp, Token!Next
  <2>3. CASE state # "NOTIFIED" /\ timeout # "zero"
    BY <1>2, <2>3 DEF ParkEntry, Token!tokenVars
  <2>4. QED
    BY <2>1, <2>2, <2>3
<1>3. CASE ParkLock \/ ParkAnnounce \/ ParkWait \/ ParkTimeout \/ ParkSpurious
           \/ ParkRelock
  BY <1>3 DEF ParkLock, ParkAnnounce, ParkWait, ParkTimeout, ParkSpurious,
              ParkRelock, Token!tokenVars
<1>4. CASE ParkConsume
  BY <1>4 DEF ParkConsume, Token!TakeToken, Token!Next
<1>5. CASE ParkRecheck
  <2>1. CASE state = "NOTIFIED"
    BY <1>5, <2>1 DEF ParkRecheck, Token!TakeToken, Token!Next
  <2>2. CASE state # "NOTIFIED"
    BY <1>5, <2>2 DEF ParkRecheck, Token!tokenVars
  <2>3. QED
    BY <2>1, <2>2
<1>6. CASE ParkTimedRecheck
  <2>1. CASE state = "NOTIFIED"
    BY <1>6, <2>1 DEF ParkTimedRecheck, Token!TakeToken, Token!Next
  <2>2. CASE state # "NOTIFIED"
    BY <1>6, <2>2 DEF ParkTimedRecheck, Token!GiveUp, Token!Next
  <2>3. QED
    BY <2>1, <2>2
<1>7. ASSUME NEW u \in Unparkers, Unpark(u) PROVE Token!Unpark(u)
  BY <1>7 DEF Unpark, Token!Unpark
<1>8. ASSUME NEW u \in Unparkers, UnparkLock(u) \/ UnparkNotify(u)
      PROVE  UNCHANGED Token!tokenVars
  BY <1>8 DEF UnparkLock, UnparkNotify, Token!tokenVars
<1>9. CASE UNCHANGED vars
  BY <1>9 DEF vars, Token!tokenVars
<1>10. QED
  BY <1>1, <1>2, <1>3, <1>4, <1>5, <1>6, <1>7, <1>8, <1>9
     DEF Next, ParkStep, Token!Next, Token!Timeouts

\* Parking implements the safety part of ParkToken: park() returns true exactly
\* when it consumes a token and false only when there is none.
THEOREM ParkingImplementsToken == Spec => ImplementsTokenSafety
<1>1. Init => Token!Init
  BY DEF Init, Token!Init
<1>2. IInv /\ [Next]_vars => [Token!Next]_(Token!tokenVars)
  BY TokenStep
<1>3. QED
  BY <1>1, <1>2, ParkingInvariant, PTL
     DEF Spec, ImplementsTokenSafety, Token!Safety
=============================================================================
