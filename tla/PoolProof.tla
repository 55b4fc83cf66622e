------------------------------ MODULE PoolProof ------------------------------
(***************************************************************************)
(* For any number of requests, threads and connections: the limits of the  *)
(* two pools hold, no connection outlives its request, and below Threads + *)
(* Connections requests nobody depends on a checkout timing out.           *)
(***************************************************************************)
EXTENDS Pool, FiniteSetTheorems, TLAPS

(* Subsets of the requests are finite, so that their sizes can be compared. *)
LEMMA FinitePart ==
    ASSUME NEW S, S \subseteq Request
    PROVE  IsFiniteSet(S) /\ Cardinality(S) \in Nat
BY PoolAssumption, FS_Subset, FS_CardinalityType

(* Adding one request makes a set at most one larger. *)
LEMMA OneMore ==
    ASSUME NEW S, S \subseteq Request, NEW r \in Request, NEW n \in Nat,
           Cardinality(S) < n
    PROVE  Cardinality(S \cup {r}) <= n
<1>1. IsFiniteSet(S) /\ Cardinality(S) \in Nat
  BY FinitePart
<1>2. Cardinality(S \cup {r}) = IF r \in S THEN Cardinality(S)
                                          ELSE Cardinality(S) + 1
  BY <1>1, FS_AddElement
<1>. QED
  BY <1>1, <1>2

(* Taking one request away makes a set no larger. *)
LEMMA OneLess ==
    ASSUME NEW S, S \subseteq Request, NEW r, NEW n \in Nat,
           Cardinality(S) <= n
    PROVE  Cardinality(S \ {r}) <= n
<1>1. IsFiniteSet(S) /\ S \ {r} \subseteq S
  BY FinitePart
<1>2. Cardinality(S \ {r}) <= Cardinality(S)
  BY <1>1, FS_Subset
<1>. QED
  BY <1>2, FinitePart

LEMMA Limits == Threads \in Nat /\ Connections \in Nat \ {0}
BY PoolAssumption DEF Connections

(* The lengths of the plans. *)
LEMMA PlanLength == \A r \in Request : Len(Plan[Kind[r]]) \in Nat \ {0}
BY PoolAssumption DEF Plan

---------------------------------------------------------------------------
(* The variables keep their types. *)
THEOREM PoolTypes == Spec => []TypeOK
<1>1. Init => TypeOK
  BY DEF Init, TypeOK
<1>2. TypeOK /\ [Next]_vars => TypeOK'
  BY DEF TypeOK, Next, vars, Turn, RequestStep, TakeThread, Checkout,
         CheckoutTimeout, Commit, Return, Raise, Close, Done
<1>. QED
  BY <1>1, <1>2, PTL DEF Spec

(* The pools' limits, and the connection of every ended request returned. *)
THEOREM PoolAccounted == Spec => []Accounted
<1>1. Init => Accounted
  <2>1. Cardinality({}) = 0
    BY FS_EmptySet
  <2>. QED
    BY <2>1, Limits, PlanLength DEF Init, Accounted
<1>2. TypeOK /\ Accounted /\ [Next]_vars => Accounted'
  <2>. SUFFICES ASSUME TypeOK, Accounted, [Next]_vars
                PROVE  Accounted'
    OBVIOUS
  <2>. USE DEF TypeOK, Accounted
  <2>1. ASSUME NEW r \in Request, TakeThread(r)
        PROVE  Accounted'
    <3>1. Cardinality(running') <= Threads
      BY <2>1, OneMore, Limits DEF TakeThread, ThreadFree
    <3>. QED
      BY <2>1, <3>1 DEF TakeThread, WaitsForThread, Started
  <2>2. ASSUME NEW r \in Request, Checkout(r)
        PROVE  Accounted'
    <3>1. Cardinality(holding') <= Connections
      BY <2>2, OneMore, Limits DEF Checkout, ConnectionFree
    <3>. QED
      BY <2>2, <3>1 DEF Checkout, WaitsForConnection
  <2>3. ASSUME NEW r \in Request, CheckoutTimeout(r)
        PROVE  Accounted'
    <3>1. Cardinality(running') <= Threads
      BY <2>3, OneLess, Limits DEF CheckoutTimeout
    <3>. QED
      BY <2>3, <3>1 DEF CheckoutTimeout
  <2>4. ASSUME NEW r \in Request, Commit(r)
        PROVE  Accounted'
    <3>1. Cardinality(holding') <= Connections
      BY <2>4, OneLess, Limits DEF Commit
    <3>. QED
      BY <2>4, <3>1 DEF Commit
  <2>5. ASSUME NEW r \in Request, Return(r)
        PROVE  Accounted'
    <3>1. Cardinality(running') <= Threads
      BY <2>5, OneLess, Limits DEF Return
    <3>2. \A q \in Request : outcome'[q] = "open" => at'[q] < Len(Plan[Kind[q]])
      BY <2>5, PlanLength DEF Return
    <3>. QED
      BY <2>5, <3>1, <3>2 DEF Return
  <2>6. ASSUME NEW r \in Request, Raise(r)
        PROVE  Accounted'
    <3>1. Cardinality(running') <= Threads
      BY <2>6, OneLess, Limits DEF Raise
    <3>. QED
      BY <2>6, <3>1 DEF Raise
  <2>7. ASSUME NEW r \in Request, Close(r)
        PROVE  Accounted'
    <3>1. Cardinality(holding') <= Connections
      BY <2>7, OneLess, Limits DEF Close
    <3>. QED
      BY <2>7, <3>1 DEF Close
  <2>8. CASE UNCHANGED vars
    BY <2>8 DEF vars
  <2>. QED
    BY <2>1, <2>2, <2>3, <2>4, <2>5, <2>6, <2>7, <2>8
       DEF Next, Turn, RequestStep, Done
<1>. QED
  BY <1>1, <1>2, PoolTypes, PTL DEF Spec

---------------------------------------------------------------------------
(* With too few requests to fill both pools, someone can always go on: if  *)
(* not, those with a thread and those with a connection would be disjoint  *)
(* and as many as both pools together.                                     *)
LEMMA Counting ==
    ASSUME TypeOK, Accounted,
           \A r \in Request : ~CanProceed(r),
           NEW q \in Request, outcome[q] # "ended"
    PROVE  Cardinality(InFlight) >= Threads + Connections
<1>. USE DEF TypeOK, Accounted
<1>0. \A S : S = {} => Cardinality(S) = 0
  BY FS_EmptySet, Zenon
<1>1. \A r \in Request : outcome[r] # "closing"
  BY DEF CanProceed
<1>2. \A r \in Request : outcome[r] = "open" => Started(r)
  BY DEF Started
<1>3. \A r \in running : WaitsForConnection(r) /\ ~ConnectionFree
  BY DEF CanProceed
<1>4. \A r \in Request : outcome[r] = "open" /\ r \notin running => ~ThreadFree
  BY <1>2 DEF CanProceed, WaitsForThread
<1>5. running \cap holding = {}
  BY <1>3 DEF WaitsForConnection
<1>6. /\ Cardinality(running) \in Nat /\ Cardinality(holding) \in Nat
      /\ IsFiniteSet(running) /\ IsFiniteSet(holding)
  BY FinitePart
<1>7. \A r \in holding : outcome[r] = "open" /\ r \notin running
  BY <1>1, <1>5
<1>8. ~ConnectionFree => holding # {}
  BY <1>0, Limits DEF ConnectionFree
<1>9. ~ThreadFree => running # {}
  BY <1>0, PoolAssumption DEF ThreadFree
<1>10. ~ThreadFree /\ ~ConnectionFree
  <2>1. outcome[q] = "open"
    BY <1>1
  <2>2. CASE q \in running
    BY <2>2, <1>3, <1>4, <1>7, <1>8
  <2>3. CASE q \notin running
    BY <2>1, <2>3, <1>3, <1>4, <1>9
  <2>. QED
    BY <2>2, <2>3
<1>11. Cardinality(running) = Threads /\ Cardinality(holding) = Connections
  BY <1>6, <1>10, Limits DEF ThreadFree, ConnectionFree
<1>12. Cardinality(running \cup holding)
         = Cardinality(running) + Cardinality(holding)
  <2>1. Cardinality(running \cup holding)
          = Cardinality(running) + Cardinality(holding)
              - Cardinality(running \cap holding)
    BY <1>6, FS_Union
  <2>. QED
    BY <2>1, <1>0, <1>5, <1>6
<1>13. running \cup holding \subseteq InFlight
  BY <1>7 DEF InFlight
<1>14. IsFiniteSet(InFlight) /\ Cardinality(InFlight) \in Nat
  BY FinitePart DEF InFlight
<1>15. Cardinality(running \cup holding) <= Cardinality(InFlight)
  BY <1>13, <1>14, FS_Subset
<1>. QED
  BY <1>11, <1>12, <1>14, <1>15, Limits, PoolAssumption, FS_CardinalityType

(* Fewer requests in flight than threads and connections never stall. *)
THEOREM PoolNoStall == Spec => []NoStall
<1>1. TypeOK /\ Accounted => NoStall
  <2>. SUFFICES ASSUME TypeOK, Accounted,
                       Cardinality(InFlight) < Threads + Connections,
                       NEW q \in Request, outcome[q] # "ended",
                       \A r \in Request : ~CanProceed(r)
                PROVE  FALSE
    BY DEF NoStall, InFlight
  <2>1. Cardinality(InFlight) >= Threads + Connections
    BY Counting
  <2>2. Cardinality(InFlight) \in Nat
    BY FinitePart DEF InFlight
  <2>. QED
    BY <2>1, <2>2, Limits, PoolAssumption
<1>. QED
  BY <1>1, PoolTypes, PoolAccounted, PTL
=============================================================================
