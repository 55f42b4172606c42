-------------------------- MODULE IrqDeferredProofs --------------------------
(***************************************************************************)
(* Theorems about the bottom-half queue, for every set of works, every     *)
(* ring capacity and every dispatch budget.                                *)
(***************************************************************************)
EXTENDS IrqDeferred, TLAPS

(* The remainder of a number that is at most one turn away from the ring. *)
LEMMA RingTurn ==
  /\ \A x \in Int : 0 <= x /\ x < Capacity => x % Capacity = x
  /\ \A x \in Int : Capacity <= x /\ x < 2 * Capacity => x % Capacity = x - Capacity
  /\ \A x \in Int : -Capacity <= x /\ x < 0 => x % Capacity = x + Capacity
<1>1. ASSUME NEW x \in Int, 0 <= x, x < Capacity
      PROVE  x % Capacity = x
  BY <1>1, CapacityAssumption, Z3
<1>2. ASSUME NEW x \in Int, Capacity <= x, x < 2 * Capacity
      PROVE  x % Capacity = x - Capacity
  BY <1>2, CapacityAssumption, Z3
<1>3. ASSUME NEW x \in Int, -Capacity <= x, x < 0
      PROVE  x % Capacity = x + Capacity
  BY <1>3, CapacityAssumption, Z3
<1> QED BY <1>1, <1>2, <1>3

(* The same for each expression the queue computes. *)
LEMMA DistanceValue ==
  \A h, i \in Slots :
     Distance(h, i) = IF h <= i THEN i - h ELSE i - h + Capacity
BY RingTurn, CapacityAssumption DEF Slots, Distance

(* The next slot of the ring, without the modulus. *)
LEMMA SuccessorValue ==
  \A i \in Slots : Successor(i) = IF i = Capacity - 1 THEN 0 ELSE i + 1
BY RingTurn, CapacityAssumption DEF Slots, Successor

(* The k-th slot after the head, without the modulus. *)
LEMMA PlaceValue ==
  \A h \in Slots, k \in 0..Capacity :
     Place(h, k) = IF h + k < Capacity THEN h + k ELSE h + k - Capacity
BY RingTurn, CapacityAssumption DEF Slots, Place

(* How the three expressions combine. *)
LEMMA RingGeometry ==
  /\ \A h, i \in Slots : Distance(h, i) \in Slots
  /\ \A h \in Slots, k \in Slots :
        /\ Place(h, k) \in Slots
        /\ Place(h, k + 1) = Successor(Place(h, k))
        /\ Place(h, k + 1) = Place(Successor(h), k)
        /\ \A i \in Slots : Distance(h, i) = k <=> i = Place(h, k)
  /\ \A i \in Slots : Successor(i) \in Slots
<1> USE CapacityAssumption DEF Slots
<1>1. ASSUME NEW h \in Slots, NEW i \in Slots
      PROVE  Distance(h, i) \in Slots
  BY DistanceValue
<1>2. ASSUME NEW i \in Slots PROVE Successor(i) \in Slots
  BY SuccessorValue
<1>3. ASSUME NEW h \in Slots, NEW k \in Slots
      PROVE  /\ Place(h, k) \in Slots
             /\ Place(h, k + 1) = Successor(Place(h, k))
             /\ Place(h, k + 1) = Place(Successor(h), k)
  <2>1. Place(h, k) = IF h + k < Capacity THEN h + k ELSE h + k - Capacity
    BY PlaceValue
  <2>2. Place(h, k + 1) = IF h + k + 1 < Capacity THEN h + k + 1
                          ELSE h + k + 1 - Capacity
    BY PlaceValue
  <2>3. Place(h, k) \in Slots
    BY <2>1
  <2>4. Place(h, k + 1) = Successor(Place(h, k))
    BY <2>1, <2>2, <2>3, SuccessorValue
  <2>5. Place(h, k + 1) = Place(Successor(h), k)
    <3>1. Successor(h) = IF h = Capacity - 1 THEN 0 ELSE h + 1
      BY SuccessorValue
    <3>2. Successor(h) \in Slots
      BY <3>1
    <3>3. Place(Successor(h), k) = IF Successor(h) + k < Capacity
                                   THEN Successor(h) + k
                                   ELSE Successor(h) + k - Capacity
      BY <3>2, PlaceValue
    <3> QED BY <3>1, <3>3, <2>2
  <2> QED BY <2>3, <2>4, <2>5
<1>4. ASSUME NEW h \in Slots, NEW k \in Slots, NEW i \in Slots
      PROVE  Distance(h, i) = k <=> i = Place(h, k)
  <2>1. Place(h, k) = IF h + k < Capacity THEN h + k ELSE h + k - Capacity
    BY PlaceValue
  <2>2. Distance(h, i) = IF h <= i THEN i - h ELSE i - h + Capacity
    BY DistanceValue
  <2> QED BY <2>1, <2>2
<1> QED BY <1>1, <1>2, <1>3, <1>4

-----------------------------------------------------------------------------
(* What the ring must satisfy whatever the flags of the works say. *)
RingType ==
  /\ entries \in [Slots -> Works \cup {NoWork}]
  /\ head \in Slots /\ tail \in Slots /\ count \in 0..Usable

RingShape ==
  /\ tail = Place(head, count)
  /\ \A i \in Slots : Offset(i) < count <=> entries[i] # NoWork
  /\ \A i, j \in Slots : entries[i] = entries[j] /\ entries[i] # NoWork => i = j

InRing(w) == \E i \in Slots : entries[i] = w

(* A push puts a work that was not in the ring into its first free slot. *)
LEMMA PushKeepsRing ==
  ASSUME RingType, RingShape, NEW w \in Works, ~InRing(w), count < Usable,
         Push(w)
  PROVE  RingType' /\ RingShape' /\ \A v \in Works : InRing(v)' <=> v = w \/ InRing(v)
<1> USE CapacityAssumption, NoWorkAssumption DEF Usable
<1>1. RingType'
  BY SuccessorValue DEF RingType, Push, Slots
<1>2. tail' = Place(head', count')
  BY RingGeometry DEF RingType, RingShape, Push, Slots
<1>3. \A i \in Slots : Offset(i) = count <=> i = tail
  <2>1. count \in Slots
    BY DEF RingType, Slots
  <2> QED BY <2>1, RingGeometry DEF RingType, RingShape, Offset
<1>4. entries[tail] = NoWork
  BY <1>3 DEF RingType, RingShape, Slots
<1>5. \A i \in Slots : Offset(i)' < count' <=> entries'[i] # NoWork
  <2> TAKE i \in Slots
  <2>1. Offset(i)' = Offset(i) /\ Offset(i) \in Int
    BY RingGeometry DEF Push, Offset, RingType, Slots
  <2>2. CASE i = tail
    BY <2>1, <2>2, <1>3 DEF RingType, Push
  <2>3. CASE i # tail
    BY <2>1, <2>3, <1>3 DEF RingType, RingShape, Push
  <2> QED BY <2>2, <2>3
<1>6. \A i, j \in Slots : entries'[i] = entries'[j] /\ entries'[i] # NoWork => i = j
  BY DEF RingType, RingShape, Push, InRing
<1>7. \A v \in Works : InRing(v)' <=> v = w \/ InRing(v)
  BY <1>4 DEF RingType, Push, InRing
<1> QED BY <1>1, <1>2, <1>5, <1>6, <1>7 DEF RingShape

(* A pop empties the slot at head and leaves the other works in place. *)
LEMMA PopKeepsRing ==
  ASSUME RingType, RingShape, count > 0,
         entries' = [entries EXCEPT ![head] = NoWork],
         head' = Successor(head), count' = count - 1, tail' = tail
  PROVE  /\ RingType' /\ RingShape'
         /\ entries[head] \in Works
         /\ \A v \in Works : InRing(v)' <=> v # entries[head] /\ InRing(v)
<1> USE CapacityAssumption, NoWorkAssumption DEF Usable
<1>1. RingType'
  BY SuccessorValue DEF RingType, Slots
<1>2. tail' = Place(head', count')
  BY RingGeometry DEF RingType, RingShape, Slots
<1>3. Offset(head) = 0 /\ entries[head] # NoWork
  BY DistanceValue DEF RingType, RingShape, Offset, Slots
<1>4. \A i \in Slots : Offset(i)' < count' <=> entries'[i] # NoWork
  <2> TAKE i \in Slots
  <2>1. CASE i = head
    <3>1. Offset(i)' = Capacity - 1
      BY <2>1, DistanceValue, SuccessorValue DEF RingType, Offset, Slots
    <3> QED BY <3>1, <2>1 DEF RingType
  <2>2. CASE i # head
    <3>1. Offset(i)' = Offset(i) - 1
      BY <2>2, DistanceValue, SuccessorValue, SMTT(30) DEF RingType, Offset, Slots
    <3>2. Offset(i) \in Int
      BY RingGeometry DEF Offset, RingType, Slots
    <3> QED BY <3>1, <3>2, <2>2 DEF RingType, RingShape
  <2> QED BY <2>1, <2>2
<1>5. \A i, j \in Slots : entries'[i] = entries'[j] /\ entries'[i] # NoWork => i = j
  BY DEF RingType, RingShape
<1>6. \A v \in Works : InRing(v)' <=> v # entries[head] /\ InRing(v)
  BY DEF RingType, RingShape, InRing
<1> QED BY <1>1, <1>2, <1>3, <1>4, <1>5, <1>6 DEF RingShape, RingType

(* A cancel closes the gap left by a work of the ring. *)
LEMMA CompactKeepsRing ==
  ASSUME RingType, RingShape, NEW w \in Works, InRing(w), CompactRing(w)
  PROVE  RingType' /\ RingShape' /\ \A v \in Works : InRing(v)' <=> v # w /\ InRing(v)
<1> USE CapacityAssumption, NoWorkAssumption DEF Usable
<1> DEFINE gap == PositionOf(w)
<1>1. PICK g \in Slots : entries[g] = w
  BY DEF InRing
<1>2. Offset(g) \in 0..(count - 1) /\ Place(head, Offset(g)) = g
  <2>1. Offset(g) \in Slots /\ Place(head, Offset(g)) = g
    BY RingGeometry DEF RingType, Offset
  <2>2. Offset(g) < count
    BY <1>1 DEF RingShape
  <2> QED BY <2>1, <2>2 DEF RingType, Slots
<1>3. gap \in 0..(count - 1) /\ entries[Place(head, gap)] = w
  BY <1>1, <1>2 DEF PositionOf
<1>4. count \in Slots /\ count > 0 /\ gap \in Slots /\ count - 1 \in Slots
  BY <1>3 DEF RingType, Slots
<1>5. Place(head, gap) = g /\ Offset(g) = gap
  <2>1. Place(head, gap) \in Slots
    BY <1>4, RingGeometry DEF RingType
  <2>2. Place(head, gap) = g
    BY <2>1, <1>1, <1>3 DEF RingShape
  <2> QED BY <2>2, <1>4, RingGeometry DEF RingType, Offset
<1> HIDE DEF gap
<1>6. ASSUME NEW i \in Slots
      PROVE  /\ Offset(i) \in Slots /\ Offset(i)' = Offset(i)
             /\ Offset(i) < count - 1 =>
                  Successor(i) \in Slots /\ Offset(Successor(i)) = Offset(i) + 1
  <2>1. Offset(i) \in Slots /\ Offset(i)' = Offset(i)
    BY RingGeometry DEF RingType, Offset, CompactRing
  <2>2. Successor(i) \in Slots
    BY RingGeometry
  <2>3. ASSUME Offset(i) < count - 1
        PROVE  Offset(Successor(i)) = Offset(i) + 1
    <3>1. Offset(i) + 1 \in Slots
      BY <2>1, <2>3, <1>4 DEF Slots
    <3>2. Place(head, Offset(i)) = i
      BY <2>1, RingGeometry DEF RingType, Offset
    <3>3. Successor(i) = Place(head, Offset(i) + 1)
      BY <2>1, <3>2, RingGeometry DEF RingType
    <3> QED BY <3>1, <3>3, <2>2, RingGeometry DEF RingType, Offset
  <2> QED BY <2>1, <2>2, <2>3
<1>7. \A i \in Slots :
         entries'[i] = IF Offset(i) < gap \/ Offset(i) >= count THEN entries[i]
                       ELSE IF Offset(i) = count - 1 THEN NoWork
                       ELSE entries[Successor(i)]
  BY DEF CompactRing, gap
<1>8. RingType'
  BY <1>4, RingGeometry DEF RingType, CompactRing, Slots
<1>9. tail' = Place(head', count')
  BY DEF CompactRing
<1>10. \A i \in Slots : Offset(i)' < count' <=> entries'[i] # NoWork
  <2> TAKE i \in Slots
  <2>1. /\ Offset(i) \in Int /\ Offset(i)' = Offset(i) /\ count' = count - 1
        /\ count \in Int /\ gap \in Int /\ gap < count
    BY <1>3, <1>4, <1>6 DEF CompactRing, Slots
  <2>2. CASE Offset(i) < gap \/ Offset(i) >= count
    BY <2>1, <2>2, <1>7 DEF RingShape
  <2>3. CASE Offset(i) = count - 1 /\ ~(Offset(i) < gap)
    BY <2>1, <2>3, <1>7
  <2>4. CASE Offset(i) < count - 1 /\ ~(Offset(i) < gap)
    <3>1. entries'[i] = entries[Successor(i)]
      BY <2>1, <2>4, <1>7
    <3>2. Successor(i) \in Slots /\ Offset(Successor(i)) < count
      BY <2>1, <2>4, <1>6
    <3> QED BY <2>1, <2>4, <3>1, <3>2 DEF RingShape
  <2> QED BY <2>1, <2>2, <2>3, <2>4
<1>11. ASSUME NEW i \in Slots, entries'[i] # NoWork
       PROVE  \/ Offset(i) < gap /\ entries'[i] = entries[i]
              \/ /\ gap <= Offset(i) /\ Offset(i) < count - 1
                 /\ entries'[i] = entries[Successor(i)]
                 /\ Successor(i) \in Slots
                 /\ Offset(Successor(i)) = Offset(i) + 1
  <2>1. /\ Offset(i) \in Int /\ Offset(i)' = Offset(i) /\ count' = count - 1
        /\ count \in Int /\ gap \in Int
    BY <1>3, <1>4, <1>6 DEF CompactRing, Slots
  <2>2. Offset(i) < count - 1
    BY <2>1, <1>10, <1>11
  <2> QED BY <2>1, <2>2, <1>6, <1>7
<1>12. \A i, j \in Slots : Offset(i) = Offset(j) => i = j
  <2> TAKE i, j \in Slots
  <2>1. Place(head, Offset(i)) = i /\ Place(head, Offset(j)) = j
    BY RingGeometry DEF RingType, Offset
  <2> QED BY <2>1
<1>13. \A i, j \in Slots : entries'[i] = entries'[j] /\ entries'[i] # NoWork => i = j
  <2> SUFFICES ASSUME NEW i \in Slots, NEW j \in Slots,
                      entries'[i] = entries'[j], entries'[i] # NoWork
               PROVE  i = j
    OBVIOUS
  <2>1. Offset(i) \in Int /\ Offset(j) \in Int /\ gap \in Int
    BY <1>4, <1>6 DEF Slots
  <2>2. CASE entries'[i] = entries[i] /\ entries'[j] = entries[j]
    BY <2>2 DEF RingShape
  <2>3. CASE /\ entries'[i] = entries[Successor(i)] /\ Successor(i) \in Slots
             /\ entries'[j] = entries[Successor(j)] /\ Successor(j) \in Slots
             /\ Offset(Successor(i)) = Offset(i) + 1
             /\ Offset(Successor(j)) = Offset(j) + 1
    <3>1. Successor(i) = Successor(j)
      BY <2>3 DEF RingShape
    <3> QED BY <2>1, <2>3, <3>1, <1>12
  <2>4. ASSUME NEW a \in Slots, NEW b \in Slots, entries'[a] = entries'[b],
               entries'[a] # NoWork,
               Offset(a) < gap /\ entries'[a] = entries[a],
               gap <= Offset(b), entries'[b] = entries[Successor(b)],
               Successor(b) \in Slots, Offset(Successor(b)) = Offset(b) + 1
        PROVE  FALSE
    <3>1. a = Successor(b)
      BY <2>4 DEF RingShape
    <3> QED BY <3>1, <2>4, <1>4, <1>6 DEF Slots
  <2> QED BY <2>1, <2>2, <2>3, <2>4, <1>11
<1>14. \A v \in Works : InRing(v)' <=> v # w /\ InRing(v)
  <2> TAKE v \in Works
  <2>1. ASSUME NEW i \in Slots, entries'[i] = v
        PROVE  v # w /\ InRing(v)
    BY <2>1, <1>1, <1>5, <1>6, <1>11, <1>12 DEF RingShape, InRing, Slots
  <2>2. ASSUME NEW i \in Slots, entries[i] = v, v # w
        PROVE  InRing(v)'
    <3>1. Offset(i) < count /\ Offset(i) # gap
      BY <2>2, <1>5, <1>12, <1>1 DEF RingShape
    <3>2. CASE Offset(i) < gap
      BY <2>2, <3>2, <1>7 DEF InRing
    <3>3. CASE Offset(i) > gap
      <4>1. Offset(i) - 1 \in Slots /\ Offset(i) \in Slots
        BY <3>3, <1>4, <1>6 DEF Slots
      <4> DEFINE p == Place(head, Offset(i) - 1)
      <4>2. p \in Slots /\ Offset(p) = Offset(i) - 1
        BY <4>1, RingGeometry DEF RingType, Offset
      <4>3. Successor(p) = Place(head, Offset(i))
        BY <4>1, RingGeometry DEF RingType, Slots
      <4>4. Successor(p) = i
        BY <4>1, <4>3, RingGeometry DEF RingType, Offset
      <4> HIDE DEF p
      <4>5. entries'[p] = v
        BY <2>2, <3>1, <3>3, <4>1, <4>2, <4>4, <1>4, <1>7 DEF Slots
      <4> QED BY <4>2, <4>5 DEF InRing
    <3> QED BY <3>1, <3>2, <3>3, <1>4, <1>6 DEF Slots
  <2> QED BY <2>1, <2>2 DEF InRing
<1> QED BY <1>8, <1>9, <1>10, <1>13, <1>14 DEF RingShape

-----------------------------------------------------------------------------
(* The dispatcher holds a work exactly while it is inside a callback, and  *)
(* it enters one only while its budget lasts.                              *)
CallbackHasWork ==
  IF pc = "callback" THEN current \in Works /\ processed < Budget
  ELSE current = NoWork

(* A work in the ring is never marked cancelled, so the dispatcher never   *)
(* skips the one it takes out.                                             *)
QueuedIsLive == \A w \in Works : work[w].queued => ~work[w].cancelled

IInv ==
  /\ TypeOK /\ RingIsExact /\ OneCallback
  /\ CallbackHasWork /\ QueuedIsLive /\ NoLostEvent

(* What the lemmas on the ring alone need of the invariant. *)
LEMMA RingPartOfIInv ==
  ASSUME IInv
  PROVE  RingType /\ RingShape /\ \A w \in Works : InRing(w) <=> work[w].queued
BY DEF IInv, TypeOK, RingIsExact, RingType, RingShape, InRing

(* irq_deferred_service_init. *)
LEMMA InitIInv == Init => IInv
<1> USE CapacityAssumption, BudgetAssumption, NoWorkAssumption
<1> SUFFICES ASSUME Init PROVE IInv
  OBVIOUS
<1>1. TypeOK
  <2>1. 0 \in Slots /\ 0 \in 0..Usable /\ 0 \in 0..Budget
    BY DEF Slots, Usable
  <2>2. work \in [Works -> Flags]
    BY DEF Init, Flags
  <2> QED BY <2>1, <2>2 DEF Init, TypeOK
<1>2. RingIsExact
  <2>1. tail = Place(head, count)
    BY PlaceValue DEF Init, Slots
  <2>2. \A i \in Slots : ~(Offset(i) < count)
    <3> TAKE i \in Slots
    <3>1. Offset(i) \in Slots
      BY RingGeometry, <1>1 DEF TypeOK, Offset
    <3> QED BY <3>1 DEF Init, Slots
  <2> QED BY <2>1, <2>2 DEF Init, RingIsExact
<1>3. OneCallback /\ CallbackHasWork /\ QueuedIsLive /\ NoLostEvent
  BY DEF Init, OneCallback, CallbackHasWork, QueuedIsLive, NoLostEvent
<1> QED BY <1>1, <1>2, <1>3 DEF IInv

(* One accepted request, whatever the context it is made from. *)
LEMMA ScheduleOnKeepsIInv ==
  ASSUME IInv, NEW w \in Works, ScheduleOn(w), kick' \in BOOLEAN,
         notifying' \in BOOLEAN, quiescing' \in BOOLEAN, missed' \in BOOLEAN
  PROVE  IInv'
<1> DEFINE enters == ~work[w].queued /\ ~work[w].running
<1>1. RingType /\ RingShape /\ \A v \in Works : InRing(v) <=> work[v].queued
  BY RingPartOfIInv
<1>2. /\ RingType' /\ RingShape'
      /\ \A v \in Works : InRing(v)' <=> InRing(v) \/ (enters /\ v = w)
  <2>1. CASE enters
    BY <1>1, <2>1, PushKeepsRing DEF ScheduleOn
  <2>2. CASE ~enters
    BY <1>1, <2>2 DEF ScheduleOn, ring, RingType, RingShape, InRing, Offset
  <2> QED BY <2>1, <2>2
<1>3. work \in [Works -> Flags]
  BY DEF IInv, TypeOK
<1>4. work'[w] \in Flags /\ \A v \in Works : v # w => work'[v] = work[v]
  BY <1>3 DEF ScheduleOn, ScheduledFlags, Flags
<1>5. /\ work'[w].running = work[w].running
      /\ work'[w].queued <=> (work[w].queued \/ enters)
      /\ work'[w].queued \/ (work'[w].running /\ work'[w].rerun)
      /\ enters => ~work'[w].cancelled
      /\ ~enters => work'[w].cancelled = work[w].cancelled
  BY <1>3 DEF ScheduleOn, ScheduledFlags, Flags
<1>6. work' \in [Works -> Flags]
  BY <1>3, <1>4 DEF ScheduleOn
<1>7. TypeOK'
  BY <1>2, <1>6 DEF IInv, TypeOK, RingType, ScheduleOn
<1>8. RingIsExact'
  <2>1. \A v \in Works : work'[v].queued <=> InRing(v)'
    BY <1>1, <1>2, <1>4, <1>5
  <2>2. \A v \in Works : ~(work'[v].queued /\ work'[v].running)
    BY <1>4, <1>5 DEF IInv, RingIsExact
  <2> QED BY <1>2, <2>1, <2>2 DEF RingIsExact, RingShape, InRing
<1>9. OneCallback' /\ CallbackHasWork'
  BY <1>4, <1>5 DEF IInv, OneCallback, CallbackHasWork, ScheduleOn
<1>10. NoLostEvent'
  BY <1>4, <1>5 DEF IInv, NoLostEvent, ScheduleOn
<1>11. QueuedIsLive'
  BY <1>4, <1>5 DEF IInv, QueuedIsLive
<1> QED BY <1>7, <1>8, <1>9, <1>10, <1>11 DEF IInv

(* irq_deferred_cancel compacts the ring. *)
LEMMA CancelKeepsIInv ==
  ASSUME IInv, NEW w \in Works, Cancel(w)
  PROVE  IInv'
<1>1. RingType /\ RingShape /\ \A v \in Works : InRing(v) <=> work[v].queued
  BY RingPartOfIInv
<1>2. /\ RingType' /\ RingShape'
      /\ \A v \in Works : InRing(v)' <=> InRing(v) /\ v # w
  <2>1. CASE work[w].queued
    BY <1>1, <2>1, CompactKeepsRing DEF Cancel
  <2>2. CASE ~work[w].queued
    BY <1>1, <2>2 DEF Cancel, ring, RingType, RingShape, InRing, Offset
  <2> QED BY <2>1, <2>2
<1>3. work \in [Works -> Flags]
  BY DEF IInv, TypeOK
<1>4. work' \in [Works -> Flags] /\ \A v \in Works : v # w => work'[v] = work[v]
  BY <1>3 DEF Cancel, Flags
<1>5. work'[w].running = work[w].running /\ ~work'[w].queued
  BY <1>3 DEF Cancel, Flags
<1>6. TypeOK'
  BY <1>2, <1>4 DEF IInv, TypeOK, RingType, Cancel, gate
<1>7. RingIsExact'
  <2>1. \A v \in Works : work'[v].queued <=> InRing(v)'
    BY <1>1, <1>2, <1>4, <1>5
  <2>2. \A v \in Works : ~(work'[v].queued /\ work'[v].running)
    BY <1>4, <1>5 DEF IInv, RingIsExact
  <2> QED BY <1>2, <2>1, <2>2 DEF RingIsExact, RingShape, InRing
<1>8. OneCallback' /\ CallbackHasWork'
  BY <1>4, <1>5 DEF IInv, OneCallback, CallbackHasWork, Cancel
<1>9. NoLostEvent' /\ QueuedIsLive'
  BY <1>4, <1>5 DEF IInv, TypeOK, NoLostEvent, QueuedIsLive, Cancel
<1> QED BY <1>6, <1>7, <1>8, <1>9 DEF IInv

(* The dispatcher takes the head out. *)
LEMMA PopKeepsIInv ==
  ASSUME IInv, DispatchPop
  PROVE  IInv'
<1> DEFINE w == entries[head]
           runs == w # NoWork /\ ~work[w].cancelled
<1>1. RingType /\ RingShape /\ \A v \in Works : InRing(v) <=> work[v].queued
  BY RingPartOfIInv
<1>2. /\ RingType' /\ RingShape' /\ w \in Works
      /\ \A v \in Works : InRing(v)' <=> v # w /\ InRing(v)
  BY <1>1, PopKeepsRing DEF DispatchPop
<1>3. work \in [Works -> Flags]
  BY DEF IInv, TypeOK
<1>4. /\ work' \in [Works -> Flags] /\ \A v \in Works : v # w => work'[v] = work[v]
      /\ ~work'[w].queued /\ (work'[w].running <=> runs) /\ ~work'[w].cancelled
  BY <1>2, <1>3 DEF DispatchPop, Flags
<1>5. TypeOK'
  BY <1>2, <1>4 DEF IInv, TypeOK, RingType, DispatchPop, gate
<1>6. RingIsExact'
  <2>1. \A v \in Works : work'[v].queued <=> InRing(v)'
    BY <1>1, <1>2, <1>4
  <2>2. \A v \in Works : ~(work'[v].queued /\ work'[v].running)
    BY <1>4 DEF IInv, RingIsExact
  <2> QED BY <1>2, <2>1, <2>2 DEF RingIsExact, RingShape, InRing
<1>7. OneCallback' /\ CallbackHasWork'
  <2>1. \A v \in Works : ~work[v].running
    BY DEF IInv, OneCallback, DispatchPop
  <2>2. IF runs THEN pc' = "callback" /\ current' = w
        ELSE pc' = "loop" /\ current' = NoWork
    BY DEF DispatchPop
  <2>3. processed' = processed /\ processed < Budget
    BY DEF DispatchPop
  <2> QED BY <2>1, <2>2, <2>3, <1>2, <1>4 DEF OneCallback, CallbackHasWork
<1>8. NoLostEvent'
  <2>1. runs
    BY <1>1, <1>2, NoWorkAssumption DEF IInv, QueuedIsLive, RingType, InRing
  <2>2. owed' = owed \ {w}
    BY <2>1 DEF DispatchPop
  <2> QED BY <2>1, <2>2, <1>2, <1>4 DEF IInv, NoLostEvent, TypeOK
<1>9. QueuedIsLive'
  BY <1>4 DEF IInv, QueuedIsLive
<1> QED BY <1>5, <1>6, <1>7, <1>8, <1>9 DEF IInv

(* The callback has returned: the work is idle or queued again. *)
LEMMA FinishKeepsIInv ==
  ASSUME IInv, DispatchFinish
  PROVE  IInv'
<1> DEFINE w == current
           again == work[w].rerun /\ ~work[w].cancelled
           pushes == again /\ count < Usable
<1>1. RingType /\ RingShape /\ \A v \in Works : InRing(v) <=> work[v].queued
  BY RingPartOfIInv
<1>2. w \in Works /\ work[w].running /\ ~work[w].queued
  BY DEF IInv, CallbackHasWork, OneCallback, RingIsExact, DispatchFinish
<1>3. /\ RingType' /\ RingShape'
      /\ \A v \in Works : InRing(v)' <=> InRing(v) \/ (pushes /\ v = w)
  <2>1. CASE pushes
    BY <1>1, <1>2, <2>1, PushKeepsRing DEF DispatchFinish
  <2>2. CASE ~pushes
    BY <1>1, <2>2 DEF DispatchFinish, ring, RingType, RingShape, InRing, Offset
  <2> QED BY <2>1, <2>2
<1>4. work \in [Works -> Flags]
  BY DEF IInv, TypeOK
<1>5. /\ work' \in [Works -> Flags] /\ \A v \in Works : v # w => work'[v] = work[v]
      /\ (work'[w].queued <=> pushes) /\ ~work'[w].running /\ ~work'[w].cancelled
  BY <1>2, <1>4 DEF DispatchFinish, Flags
<1>6. TypeOK'
  <2>1. processed' \in 0..Budget
    BY BudgetAssumption DEF IInv, TypeOK, CallbackHasWork, DispatchFinish
  <2> QED BY <2>1, <1>3, <1>5 DEF IInv, TypeOK, RingType, DispatchFinish, gate
<1>7. RingIsExact'
  <2>1. \A v \in Works : work'[v].queued <=> InRing(v)'
    BY <1>1, <1>2, <1>3, <1>5
  <2>2. \A v \in Works : ~(work'[v].queued /\ work'[v].running)
    BY <1>5 DEF IInv, RingIsExact
  <2> QED BY <1>3, <2>1, <2>2 DEF RingIsExact, RingShape, InRing
<1>8. OneCallback' /\ CallbackHasWork'
  BY <1>2, <1>5 DEF IInv, OneCallback, CallbackHasWork, DispatchFinish
<1>9. NoLostEvent' /\ QueuedIsLive'
  <2>1. owed' = IF pushes THEN owed ELSE owed \ {w}
    BY DEF DispatchFinish
  <2> QED BY <2>1, <1>2, <1>5 DEF IInv, TypeOK, NoLostEvent, QueuedIsLive
<1> QED BY <1>6, <1>7, <1>8, <1>9 DEF IInv

(* Every step of the queue, of its callers and of the dispatcher keeps the *)
(* inductive invariant.                                                    *)
LEMMA NextKeepsIInv == IInv /\ [Next]_vars => IInv'
<1> SUFFICES ASSUME IInv, [Next]_vars PROVE IInv'
  OBVIOUS
<1>1. ASSUME NEW w \in Works, WorkInit(w) PROVE IInv'
  <2>1. work \in [Works -> Flags]
    BY DEF IInv, TypeOK
  <2>2. /\ work' \in [Works -> Flags] /\ \A v \in Works : v # w => work'[v] = work[v]
        /\ ~work'[w].queued /\ ~work'[w].running /\ ~work'[w].cancelled
    BY <1>1, <2>1 DEF WorkInit, Flags
  <2>3. w \notin owed
    BY <1>1 DEF WorkInit, IInv, NoLostEvent
  <2>4. TypeOK'
    BY <1>1, <2>2 DEF WorkInit, IInv, TypeOK, ring, gate
  <2>5. RingIsExact'
    <3>1. \A v \in Works : work'[v].queued <=> work[v].queued
      BY <1>1, <2>2 DEF WorkInit
    <3>2. \A v \in Works : ~(work'[v].queued /\ work'[v].running)
      BY <2>2 DEF IInv, RingIsExact
    <3>3. UNCHANGED <<entries, head, tail, count>>
      BY <1>1 DEF WorkInit, ring
    <3> QED BY <3>1, <3>2, <3>3 DEF IInv, RingIsExact, Offset
  <2>6. OneCallback' /\ CallbackHasWork'
    BY <1>1, <2>2 DEF WorkInit, IInv, OneCallback, CallbackHasWork
  <2>7. NoLostEvent' /\ QueuedIsLive'
    BY <1>1, <2>2, <2>3 DEF WorkInit, IInv, TypeOK, NoLostEvent, QueuedIsLive
  <2> QED BY <2>4, <2>5, <2>6, <2>7 DEF IInv
<1>2. ASSUME NEW w \in Works, Cancel(w) PROVE IInv'
  BY <1>2, CancelKeepsIInv
<1>3. ASSUME NEW w \in Works, ScheduleFromIrq(w) \/ ScheduleFromPoll(w) PROVE IInv'
  <2>1. /\ kick' \in BOOLEAN /\ notifying' \in BOOLEAN
        /\ quiescing' \in BOOLEAN /\ missed' \in BOOLEAN
    BY <1>3 DEF ScheduleFromIrq, ScheduleFromPoll, ScheduleKworker, gate, IInv, TypeOK
  <2> QED BY <1>3, <2>1, ScheduleOnKeepsIInv DEF ScheduleFromIrq, ScheduleFromPoll
<1>4. CASE DispatchPop
  BY <1>4, PopKeepsIInv
<1>5. CASE DispatchFinish
  BY <1>5, FinishKeepsIInv
<1>6. CASE Notify \/ DispatchStart \/ DispatchEnd \/ PowerSteps \/ UNCHANGED vars
  <2> USE DEF Notify, DispatchStart, DispatchEnd, PowerSteps, Quiesce,
              SetQuiescing, ScheduleKworker, gate, vars
  <2>1. /\ UNCHANGED <<entries, head, tail, count, work, current, owed>>
        /\ (pc' = "callback") <=> (pc = "callback")
        /\ pc = "callback" => processed' = processed
    BY <1>6 DEF ring
  <2>2. TypeOK'
    <3>1. /\ kick' \in BOOLEAN /\ notifying' \in BOOLEAN
          /\ quiescing' \in BOOLEAN /\ missed' \in BOOLEAN
      BY <1>6 DEF IInv, TypeOK
    <3>2. pc' \in {"idle", "loop", "callback"} /\ processed' \in 0..Budget
      BY <1>6, BudgetAssumption DEF IInv, TypeOK
    <3> QED BY <2>1, <3>1, <3>2 DEF IInv, TypeOK
  <2>3. RingIsExact'
    BY <2>1 DEF IInv, RingIsExact, Offset
  <2>4. OneCallback' /\ CallbackHasWork' /\ NoLostEvent' /\ QueuedIsLive'
    BY <2>1 DEF IInv, OneCallback, CallbackHasWork, NoLostEvent, QueuedIsLive
  <2> QED BY <2>2, <2>3, <2>4 DEF IInv
<1> QED BY <1>1, <1>2, <1>3, <1>4, <1>5, <1>6 DEF Next, Callbacks

-----------------------------------------------------------------------------
(* The types, the exact ring, the single callback and the accepted events  *)
(* that are never forgotten: irq_deferred_schedule_on, _cancel_on and      *)
(* _dispatch_on keep them for every number of works, every capacity and    *)
(* every budget.                                                           *)
THEOREM QueueIsCorrect ==
  Spec => [](TypeOK /\ RingIsExact /\ OneCallback /\ NoLostEvent)
<1>1. IInv => TypeOK /\ RingIsExact /\ OneCallback /\ NoLostEvent
  BY DEF IInv
<1> QED BY InitIInv, NextKeepsIInv, <1>1, PTL DEF Spec

(* While a work waits, kernel_irq_work is pending, or running, or about to *)
(* be notified: only a refusal or a drop by the power gate of the          *)
(* workqueue, not yet made good by a later event, leaves it waiting alone. *)
THEOREM KworkerDoesNotStall == Spec => []NoStall
<1>1. Init => NoStall
  BY DEF Init, NoStall
<1>2. IInv /\ NoStall /\ [Next]_vars => NoStall'
  <2> SUFFICES ASSUME IInv, NoStall, [Next]_vars PROVE NoStall'
    OBVIOUS
  <2>1. count \in Nat
    BY CapacityAssumption DEF IInv, TypeOK, Usable
  <2>2. ASSUME NEW w \in Works, WorkInit(w) PROVE NoStall'
    BY <2>2 DEF WorkInit, NoStall, ring, gate
  <2>3. ASSUME NEW w \in Works, Cancel(w) PROVE NoStall'
    BY <2>1, <2>3 DEF Cancel, CompactRing, NoStall, ring, gate
  <2>4. ASSUME NEW w \in Works, ScheduleFromIrq(w) \/ ScheduleFromPoll(w)
        PROVE  NoStall'
    BY <2>4 DEF ScheduleFromIrq, ScheduleFromPoll, ScheduleKworker, NoStall
  <2>5. CASE DispatchStart \/ DispatchPop \/ DispatchFinish \/ Notify
    BY <2>5 DEF DispatchStart, DispatchPop, DispatchFinish, Notify,
                ScheduleKworker, NoStall
  <2>6. CASE DispatchEnd
    BY <2>1, <2>6 DEF DispatchEnd, ScheduleKworker, NoStall, ring
  <2>8. CASE PowerSteps
    BY <2>8 DEF PowerSteps, Quiesce, SetQuiescing, NoStall, ring
  <2>7. CASE UNCHANGED vars
    BY <2>7 DEF vars, NoStall
  <2> QED BY <2>2, <2>3, <2>4, <2>5, <2>6, <2>7, <2>8 DEF Next, Callbacks
<1> QED BY InitIInv, NextKeepsIInv, <1>1, <1>2, PTL DEF Spec
-----------------------------------------------------------------------------
(* The ring, read from head, as a sequence. *)
OrderIsSeq ==
  /\ RingOrder \in Seq(Works) /\ Len(RingOrder) = count
  /\ \A i \in 1..count : /\ Place(head, i - 1) \in Slots
                         /\ RingOrder[i] = entries[Place(head, i - 1)]

(* The works in order are a sequence of distinct works... *)
LEMMA RingOrderIsSeq == RingType /\ RingShape => OrderIsSeq
<1> USE CapacityAssumption DEF Usable
<1> SUFFICES ASSUME RingType, RingShape PROVE OrderIsSeq
  OBVIOUS
<1>1. ASSUME NEW i \in 1..count
      PROVE  Place(head, i - 1) \in Slots /\ entries[Place(head, i - 1)] \in Works
  <2>1. i - 1 \in Slots /\ i - 1 < count
    BY DEF RingType, Slots
  <2>2. Place(head, i - 1) \in Slots /\ Offset(Place(head, i - 1)) = i - 1
    BY <2>1, RingGeometry DEF RingType, Offset
  <2> QED BY <2>1, <2>2 DEF RingType, RingShape
<1>2. count \in Nat
  BY DEF RingType
<1>3. RingOrder \in [1..count -> Works]
  BY <1>1 DEF RingOrder
<1> QED BY <1>1, <1>2, <1>3 DEF RingOrder, OrderIsSeq

(* ... and so they are after a step. *)
LEMMA NextRingOrderIsSeq == RingType' /\ RingShape' => OrderIsSeq'
BY RingOrderIsSeq, PTL

(* A push appends. *)
LEMMA PushAppends ==
  ASSUME RingType, RingShape, NEW w \in Works, ~InRing(w), count < Usable,
         Push(w)
  PROVE  RingOrder' = Append(RingOrder, w)
<1> USE CapacityAssumption DEF Usable
<1>1. RingType' /\ RingShape'
  BY PushKeepsRing
<1>2. /\ RingOrder \in Seq(Works) /\ Len(RingOrder) = count
      /\ \A i \in 1..count : /\ Place(head, i - 1) \in Slots
                             /\ RingOrder[i] = entries[Place(head, i - 1)]
  BY RingOrderIsSeq DEF OrderIsSeq
<1>3. /\ RingOrder' \in Seq(Works) /\ Len(RingOrder') = count + 1
      /\ \A i \in 1..(count + 1) : RingOrder'[i] = entries'[Place(head, i - 1)]
  BY <1>1, NextRingOrderIsSeq DEF OrderIsSeq, Push
<1>4. count \in Nat /\ count \in Slots /\ tail = Place(head, count)
  BY DEF RingType, RingShape, Slots
<1>5. ASSUME NEW i \in 1..count PROVE RingOrder'[i] = RingOrder[i]
  <2>1. i - 1 \in Slots /\ i - 1 # count
    BY <1>4 DEF Slots, RingType
  <2>2. Place(head, i - 1) # tail
    BY <2>1, <1>2, <1>4, RingGeometry DEF RingType
  <2>3. i \in 1..(count + 1)
    BY <1>4
  <2>4. Place(head, i - 1) \in Slots
    BY <1>2
  <2> QED BY <2>2, <2>3, <2>4, <1>2, <1>3, <1>4 DEF Push, RingType
<1>6. RingOrder'[count + 1] = w
  <2>1. RingOrder'[count + 1] = entries'[Place(head, count)]
    BY <1>3, <1>4
  <2> QED BY <2>1, <1>4 DEF Push, RingType
<1> QED BY <1>2, <1>3, <1>4, <1>5, <1>6

(* A pop takes the first one. *)
LEMMA PopIsTail ==
  ASSUME RingType, RingShape, count > 0,
         entries' = [entries EXCEPT ![head] = NoWork],
         head' = Successor(head), count' = count - 1, tail' = tail
  PROVE  /\ RingOrder # <<>> /\ entries[head] = Head(RingOrder)
         /\ RingOrder' = Tail(RingOrder)
<1> USE CapacityAssumption DEF Usable
<1>1. RingType' /\ RingShape'
  BY PopKeepsRing
<1>2. /\ RingOrder \in Seq(Works) /\ Len(RingOrder) = count
      /\ \A i \in 1..count : /\ Place(head, i - 1) \in Slots
                             /\ RingOrder[i] = entries[Place(head, i - 1)]
  BY RingOrderIsSeq DEF OrderIsSeq
<1>3. /\ RingOrder' \in Seq(Works) /\ Len(RingOrder') = count - 1
      /\ \A i \in 1..(count - 1) : RingOrder'[i] = entries'[Place(Successor(head), i - 1)]
  BY <1>1, NextRingOrderIsSeq DEF OrderIsSeq
<1>4. count \in Nat /\ Place(head, 0) = head
  BY PlaceValue DEF RingType, Slots
<1>5. RingOrder[1] = entries[head]
  <2>1. 1 \in 1..count /\ 1 - 1 = 0
    BY <1>4
  <2> QED BY <2>1, <1>2, <1>4
<1>6. ASSUME NEW i \in 1..(count - 1) PROVE RingOrder'[i] = RingOrder[i + 1]
  <2>1. i - 1 \in Slots /\ i \in Slots /\ i + 1 \in 1..count /\ (i - 1) + 1 = i
    BY <1>4 DEF RingType, Slots
  <2>2. Place(Successor(head), i - 1) = Place(head, i)
    BY <2>1, RingGeometry DEF RingType
  <2>3. Place(head, i) # head /\ Place(head, i) \in Slots
    <3>1. Place(head, i) = IF head + i < Capacity THEN head + i
                           ELSE head + i - Capacity
      BY <2>1, PlaceValue DEF RingType, Slots
    <3> QED BY <3>1, <2>1 DEF RingType, Slots
  <2>4. RingOrder[i + 1] = entries[Place(head, i)]
    BY <2>1, <1>2
  <2> QED BY <2>2, <2>3, <2>4, <1>3 DEF RingType
<1> QED BY <1>2, <1>3, <1>4, <1>5, <1>6

(* A cancel closes one gap: the works behind it move one place forward. *)
LEMMA CompactCloses ==
  ASSUME RingType, RingShape, NEW w \in Works, InRing(w), CompactRing(w)
  PROVE  \E k \in 1..Len(RingOrder) :
            RingOrder' = [j \in 1..(Len(RingOrder) - 1) |->
                            IF j < k THEN RingOrder[j] ELSE RingOrder[j + 1]]
<1> USE CapacityAssumption DEF Usable
<1> DEFINE gap == PositionOf(w)
<1>1. RingType' /\ RingShape'
  BY CompactKeepsRing
<1>2. /\ RingOrder \in Seq(Works) /\ Len(RingOrder) = count
      /\ \A i \in 1..count : /\ Place(head, i - 1) \in Slots
                             /\ RingOrder[i] = entries[Place(head, i - 1)]
  BY RingOrderIsSeq DEF OrderIsSeq
<1>3. gap \in 0..(count - 1)
  <2>1. PICK g \in Slots : entries[g] = w
    BY DEF InRing
  <2>2. Offset(g) \in Slots /\ Place(head, Offset(g)) = g
    BY RingGeometry DEF RingType, Offset
  <2>3. Offset(g) < count
    BY <2>1, NoWorkAssumption DEF RingShape
  <2>4. Offset(g) \in 0..(count - 1) /\ entries[Place(head, Offset(g))] = w
    BY <2>1, <2>2, <2>3 DEF RingType, Slots
  <2> QED BY <2>4 DEF PositionOf
<1>4. \A i \in Slots :
         entries'[i] = IF Offset(i) < gap \/ Offset(i) >= count THEN entries[i]
                       ELSE IF Offset(i) = count - 1 THEN NoWork
                       ELSE entries[Successor(i)]
  BY DEF CompactRing
<1> HIDE DEF gap
<1>5. count \in Nat /\ count <= Capacity - 1 /\ count' = count - 1 /\ head' = head
  BY DEF RingType, CompactRing
<1>6. ASSUME NEW j \in 1..(count - 1)
      PROVE  RingOrder'[j] = IF j < gap + 1 THEN RingOrder[j] ELSE RingOrder[j + 1]
  <2>1. j - 1 \in Slots /\ j \in 1..count /\ j + 1 \in 1..count /\ (j - 1) + 1 = j
    BY <1>5 DEF Slots
  <2> DEFINE p == Place(head, j - 1)
  <2>2. p \in Slots /\ Offset(p) = j - 1 /\ Successor(p) = Place(head, j)
    BY <2>1, RingGeometry DEF RingType, Offset
  <2>3. RingOrder'[j] = entries'[p]
    BY <1>1, <1>5, NextRingOrderIsSeq DEF OrderIsSeq
  <2>4. RingOrder[j] = entries[p] /\ RingOrder[j + 1] = entries[Successor(p)]
    BY <2>1, <2>2, <1>2
  <2> HIDE DEF p
  <2> QED BY <2>2, <2>3, <2>4, <1>3, <1>4, <1>5
<1>7. RingOrder' \in Seq(Works) /\ Len(RingOrder') = count - 1
  BY <1>1, <1>5, NextRingOrderIsSeq DEF OrderIsSeq
<1>8. RingOrder' = [j \in 1..(Len(RingOrder) - 1) |->
                      IF j < gap + 1 THEN RingOrder[j] ELSE RingOrder[j + 1]]
  BY <1>2, <1>6, <1>7
<1>9. gap + 1 \in 1..Len(RingOrder)
  BY <1>2, <1>3, <1>5
<1> QED BY <1>8, <1>9

(* Steps that leave the ring and the callback alone do not show outside. *)
LEMMA HiddenStep ==
  ASSUME UNCHANGED <<entries, head, count, current>>
  PROVE  UNCHANGED Abstract!absVars
BY DEF Abstract!absVars, RingOrder

(* Each step of the implementation is a step of the bounded FIFO, or is    *)
(* not visible in it.                                                      *)
LEMMA StepSimulation ==
  IInv /\ [Next]_vars => [Abstract!Next]_Abstract!absVars
<1> SUFFICES ASSUME IInv, [Next]_vars
             PROVE  Abstract!Next \/ UNCHANGED Abstract!absVars
  OBVIOUS
<1>1. RingType /\ RingShape /\ \A v \in Works : InRing(v) <=> work[v].queued
  BY RingPartOfIInv
<1>2. /\ Len(RingOrder) = count
      /\ \A i \in 1..count : /\ Place(head, i - 1) \in Slots
                             /\ RingOrder[i] = entries[Place(head, i - 1)]
  BY <1>1, RingOrderIsSeq DEF OrderIsSeq
<1>3. ASSUME NEW w \in Works, ScheduleOn(w)
      PROVE  Abstract!Next \/ UNCHANGED Abstract!absVars
  <2>1. CASE ~work[w].queued /\ ~work[w].running
    <3>1. ~InRing(w) /\ count < Usable /\ Push(w)
      BY <1>1, <1>3, <2>1 DEF ScheduleOn
    <3>2. RingOrder' = Append(RingOrder, w)
      BY <1>1, <3>1, PushAppends
    <3>3. w \notin Abstract!Waiting
      BY <1>2, <3>1 DEF Abstract!Waiting, InRing
    <3>4. w # current
      BY <2>1, NoWorkAssumption DEF IInv, CallbackHasWork, OneCallback
    <3>5. current' = current
      BY <1>3 DEF ScheduleOn
    <3>6. Abstract!Accept(w)
      BY <1>2, <3>1, <3>2, <3>3, <3>4, <3>5 DEF Abstract!Accept
    <3> QED BY <3>6 DEF Abstract!Next
  <2>2. CASE ~(~work[w].queued /\ ~work[w].running)
    BY <1>3, <2>2, HiddenStep DEF ScheduleOn, ring
  <2> QED BY <2>1, <2>2
<1>4. ASSUME NEW w \in Works, Cancel(w)
      PROVE  Abstract!Next \/ UNCHANGED Abstract!absVars
  <2>1. CASE work[w].queued
    <3>1. InRing(w) /\ CompactRing(w) /\ current' = current
      BY <1>1, <1>4, <2>1 DEF Cancel
    <3>2. \E k \in 1..Len(RingOrder) : Abstract!Withdraw(k)
      BY <1>1, <3>1, CompactCloses DEF Abstract!Withdraw
    <3> QED BY <3>2 DEF Abstract!Next
  <2>2. CASE ~work[w].queued
    BY <1>4, <2>2, HiddenStep DEF Cancel, ring
  <2> QED BY <2>1, <2>2
<1>5. ASSUME DispatchPop PROVE Abstract!Next
  <2>1. current = NoWork
    BY <1>5 DEF IInv, CallbackHasWork, DispatchPop
  <2>2. entries[head] \in Works /\ ~work[entries[head]].cancelled
    <3>1. entries[head] \in Works
      BY <1>1, <1>5, PopKeepsRing DEF DispatchPop
    <3> QED BY <3>1, <1>1 DEF IInv, QueuedIsLive, InRing, RingType
  <2>3. current' = entries[head]
    BY <1>5, <2>2, NoWorkAssumption DEF DispatchPop
  <2>4. /\ RingOrder # <<>> /\ entries[head] = Head(RingOrder)
        /\ RingOrder' = Tail(RingOrder)
    BY <1>1, <1>5, PopIsTail DEF DispatchPop
  <2> QED BY <2>1, <2>3, <2>4 DEF Abstract!Next, Abstract!Start
<1>6. ASSUME DispatchFinish PROVE Abstract!Next
  <2> DEFINE pushes == work[current].rerun /\ ~work[current].cancelled /\ count < Usable
  <2>1. current \in Works /\ current # NoWork /\ ~InRing(current) /\ current' = NoWork
    BY <1>1, <1>6, NoWorkAssumption
       DEF IInv, CallbackHasWork, OneCallback, RingIsExact, DispatchFinish
  <2>2. CASE pushes
    <3>1. Push(current)
      BY <1>6, <2>2 DEF DispatchFinish
    <3>2. RingOrder' = Append(RingOrder, current)
      BY <1>1, <2>1, <2>2, <3>1, PushAppends
    <3> QED BY <1>2, <2>1, <2>2, <3>2 DEF Abstract!Next, Abstract!Complete
  <2>3. CASE ~pushes
    <3>1. RingOrder' = RingOrder
      BY <1>6, <2>3 DEF DispatchFinish, ring, RingOrder
    <3> QED BY <2>1, <3>1 DEF Abstract!Next, Abstract!Complete
  <2> QED BY <2>2, <2>3
<1>7. CASE \/ Notify \/ DispatchStart \/ DispatchEnd \/ PowerSteps
           \/ UNCHANGED vars \/ \E w \in Works : WorkInit(w)
  BY <1>7, HiddenStep DEF Notify, DispatchStart, DispatchEnd, PowerSteps,
                          Quiesce, SetQuiescing, WorkInit, vars, ring
<1> QED BY <1>3, <1>4, <1>5, <1>6, <1>7
        DEF Next, Callbacks, ScheduleFromIrq, ScheduleFromPoll

(* An accepted irq_deferred_schedule is not forgotten before its callback  *)
(* starts: through every later schedule, cancel of another work, dispatch  *)
(* and rerun the work is in the ring or has its rerun noted.               *)
THEOREM NoEventIsForgotten == Spec => []NoLostEvent
BY QueueIsCorrect, PTL

(* The ring of irq_deferred.c, with its wrap-around, its compaction on     *)
(* cancel and its reruns, implements the bounded FIFO of distinct works:   *)
(* works are taken out in the order in which they were accepted, whatever  *)
(* is withdrawn between.                                                   *)
THEOREM RingImplementsFifo == Spec => ImplementsFifo
<1>1. Init => Abstract!Init
  <2> SUFFICES ASSUME Init PROVE RingOrder = <<>> /\ current = NoWork
    BY DEF Abstract!Init
  <2>1. count = 0 /\ current = NoWork
    BY DEF Init
  <2> QED BY <2>1 DEF RingOrder
<1> QED BY InitIInv, NextKeepsIInv, StepSimulation, <1>1, PTL
        DEF Spec, ImplementsFifo, Abstract!Spec
=============================================================================
