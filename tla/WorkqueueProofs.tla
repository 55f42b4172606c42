--------------------------- MODULE WorkqueueProofs ---------------------------
(***************************************************************************)
(* Theorems about the kernel workqueue, for every number of works of both  *)
(* priorities, every budget and every delay.                               *)
(***************************************************************************)
EXTENDS Workqueue, KernelListsProofs

WorkStates == {"IDLE", "READY", "DELAYED", "RUNNING"}

ListTypes == [high : Seq(HighWorks), normal : Seq(NormalWorks),
              delayed : Seq(Works), st : [Works -> WorkStates],
              left : [Works -> Times]]

(* Every work is in the one list its state names, once. *)
Linked(l) ==
  /\ l \in ListTypes
  /\ Distinct(l.high) /\ Distinct(l.normal) /\ Distinct(l.delayed)
  /\ Members(l.high) \cup Members(l.normal) = {w \in Works : l.st[w] = "READY"}
  /\ Members(l.delayed) = {w \in Works : l.st[w] = "DELAYED"}

Others ==
  /\ registered \subseteq Works /\ owed \subseteq Works
  /\ rerunLeft \in [Works -> Times] /\ due \in [Works -> Times]
  /\ rerun \in [Works -> {"no", "now", "later"}]
  /\ cancelled \in [Works -> BOOLEAN]
  /\ quiescing \in BOOLEAN /\ signalled \in BOOLEAN /\ executed \in BOOLEAN
  /\ pc \in {"boot", "loop", "high", "normal", "callback", "timeout",
             "snapshot", "block", "asleep"}
  /\ budget \in 0..(HighBudget + NormalBudget)
  /\ sleep \in Never..MaxDelay

(* What is asked of one work: the queued works are owed, so a new request  *)
(* finds the earliest deadline in due; a rerun is owed unless the callback *)
(* was cancelled, and a cancelled callback owes nothing.                   *)
Kept(w) ==
  /\ st[w] # "IDLE" => w \in registered
  /\ rerun[w] # "no" => st[w] = "RUNNING"
  /\ st[w] \in {"READY", "DELAYED"} => w \in owed
  /\ st[w] = "RUNNING" /\ rerun[w] # "no" /\ ~cancelled[w] => w \in owed
  /\ st[w] = "RUNNING" /\ w \in owed => ~cancelled[w]
  /\ w \in owed => Pending(w)

OneRuns ==
  /\ \A v, w \in Works : st[v] = "RUNNING" /\ st[w] = "RUNNING" => v = w
  /\ pc = "callback" <=> \E w \in Works : st[w] = "RUNNING"

(* NoOversleep, from the moment the kworker looks at the lists: only a     *)
(* request makes a work READY, and it is noticed; the delayed list does    *)
(* not grow while the kworker waits, so its timeout stays right.           *)
Awake ==
  /\ pc = "asleep" \/ (pc = "block" /\ ~signalled)
       => high = <<>> /\ normal = <<>>
  /\ pc \in {"snapshot", "block", "asleep"} /\ delayed # <<>> => sleep # Never

IInv ==
  /\ Linked(Lists) /\ Others
  /\ \A w \in Works : Kept(w)
  /\ OneRuns /\ Awake

-----------------------------------------------------------------------------
(* Numbers that stand for times. *)
LEMMA TimeTypes ==
  /\ Times \subseteq Int /\ 0 \in Times /\ 0..MaxDelay \subseteq Times
  /\ \A n \in Times : Nearer(n) \in Times
  /\ \A n \in Times : n <= 0 => Nearer(n) <= 0
BY DelayAssumption DEF Times, Nearer

(* The members of a list have its type. *)
LEMMA MembersType ==
  ASSUME NEW S, NEW s \in Seq(S)
  PROVE  Members(s) \subseteq S
BY DEF Members

(* The fields of a record of lists. *)
LEMMA FieldTypes ==
  ASSUME NEW l, Linked(l)
  PROVE  /\ l.high \in Seq(HighWorks) /\ l.normal \in Seq(NormalWorks)
         /\ l.delayed \in Seq(Works) /\ l.st \in [Works -> WorkStates]
         /\ l.left \in [Works -> Times]
         /\ Members(l.high) \subseteq HighWorks
         /\ Members(l.normal) \subseteq NormalWorks
         /\ Members(l.high) \subseteq Works /\ Members(l.normal) \subseteq Works
<1>1. /\ l.high \in Seq(HighWorks) /\ l.normal \in Seq(NormalWorks)
      /\ l.delayed \in Seq(Works) /\ l.st \in [Works -> WorkStates]
      /\ l.left \in [Works -> Times]
  BY DEF Linked, ListTypes
<1> QED BY <1>1, MembersType DEF Works

(* workqueue_list_remove unlinks one work from wherever it is. *)
LEMMA RemoveKeepsLinks ==
  ASSUME NEW l, Linked(l), NEW w \in Works
  PROVE  LET m == ListRemove(l, w)
         IN /\ Linked(m)
            /\ m.st = [l.st EXCEPT ![w] = "IDLE"]
            /\ m.left = [l.left EXCEPT ![w] = 0]
            /\ Members(m.high) = Members(l.high) \ {w}
            /\ Members(m.normal) = Members(l.normal) \ {w}
            /\ Members(m.delayed) = Members(l.delayed) \ {w}
<1> DEFINE m == ListRemove(l, w)
           only == {w}
<1>0. l \in ListTypes /\ "IDLE" \in WorkStates /\ 0 \in Times
  BY TimeTypes DEF Linked, WorkStates
<1>1. /\ m.high = Without(l.high, only) /\ m.normal = Without(l.normal, only)
      /\ m.delayed = Without(l.delayed, only)
      /\ m.st = [l.st EXCEPT ![w] = "IDLE"] /\ m.left = [l.left EXCEPT ![w] = 0]
      /\ (/\ m.high \in Seq(HighWorks) /\ m.normal \in Seq(NormalWorks)
          /\ m.delayed \in Seq(Works)) => m \in ListTypes
  <2> DEFINE a == Without(l.high, only)
             b == Without(l.normal, only)
             c == Without(l.delayed, only)
  <2>1. m = [l EXCEPT !.high = a, !.normal = b, !.delayed = c,
                      !.st[w] = "IDLE", !.left[w] = 0]
    BY DEF ListRemove
  <2> HIDE DEF m, a, b, c
  <2>2. /\ m.high = a /\ m.normal = b /\ m.delayed = c
        /\ m.st = [l.st EXCEPT ![w] = "IDLE"] /\ m.left = [l.left EXCEPT ![w] = 0]
        /\ a \in Seq(HighWorks) /\ b \in Seq(NormalWorks) /\ c \in Seq(Works)
                 => m \in ListTypes
    BY <1>0, <2>1 DEF ListTypes
  <2> QED BY <2>2 DEF a, b, c
<1> HIDE DEF m, only
<1>2. /\ m.high \in Seq(HighWorks) /\ m.normal \in Seq(NormalWorks)
      /\ m.delayed \in Seq(Works)
      /\ Members(m.high) = Members(l.high) \ only
      /\ Members(m.normal) = Members(l.normal) \ only
      /\ Members(m.delayed) = Members(l.delayed) \ only
      /\ Distinct(m.high) /\ Distinct(m.normal) /\ Distinct(m.delayed)
  BY <1>1, FieldTypes, WithoutMembers DEF Linked
<1>4. m \in ListTypes
  BY <1>1, <1>2
<1>5. \A v \in Works : m.st[v] = IF v = w THEN "IDLE" ELSE l.st[v]
  BY <1>1, FieldTypes
<1>6. Members(m.high) \cup Members(m.normal) = {v \in Works : m.st[v] = "READY"}
  BY <1>2, <1>5 DEF Linked, only
<1>7. Members(m.delayed) = {v \in Works : m.st[v] = "DELAYED"}
  BY <1>2, <1>5 DEF Linked, only
<1> QED BY <1>1, <1>2, <1>4, <1>6, <1>7 DEF Linked, m, only

(* workqueue_ready_append links a work that is in no list. *)
LEMMA AppendKeepsLinks ==
  ASSUME NEW l, Linked(l), NEW w \in Works, l.st[w] \in {"IDLE", "RUNNING"}
  PROVE  LET m == ReadyAppend(l, w)
         IN /\ Linked(m) /\ m.left = l.left /\ m.delayed = l.delayed
            /\ m.st = [l.st EXCEPT ![w] = "READY"]
<1> DEFINE m == ReadyAppend(l, w)
<1>1. /\ m.high = IF w \in HighWorks THEN Append(l.high, w) ELSE l.high
      /\ m.normal = IF w \in HighWorks THEN l.normal ELSE Append(l.normal, w)
      /\ m.delayed = l.delayed
      /\ m.st = [l.st EXCEPT ![w] = "READY"] /\ m.left = l.left
      /\ m = [high |-> m.high, normal |-> m.normal, delayed |-> m.delayed,
              st |-> m.st, left |-> m.left]
  BY DEF ReadyAppend, Linked, ListTypes
<1> HIDE DEF m
<1>2. w \notin Members(l.high) /\ w \notin Members(l.normal)
  BY DEF Linked
<1>3. /\ m.high \in Seq(HighWorks) /\ m.normal \in Seq(NormalWorks)
      /\ Members(m.high) \cup Members(m.normal)
           = (Members(l.high) \cup Members(l.normal)) \cup {w}
      /\ Distinct(m.high) /\ Distinct(m.normal)
  <2>1. CASE w \in HighWorks
    BY <1>1, <1>2, <2>1, FieldTypes, AppendMembers DEF Linked
  <2>2. CASE w \in NormalWorks /\ w \notin HighWorks
    BY <1>1, <1>2, <2>2, FieldTypes, AppendMembers DEF Linked
  <2> QED BY <2>1, <2>2 DEF Works
<1>4. m.st \in [Works -> WorkStates]
  BY <1>1, FieldTypes DEF WorkStates
<1>5. m \in ListTypes
  BY <1>1, <1>3, <1>4, FieldTypes DEF ListTypes
<1>6. \A v \in Works : m.st[v] = IF v = w THEN "READY" ELSE l.st[v]
  BY <1>1, FieldTypes
<1>7. Members(m.high) \cup Members(m.normal) = {v \in Works : m.st[v] = "READY"}
  BY <1>3, <1>6 DEF Linked
<1>8. Members(m.delayed) = {v \in Works : m.st[v] = "DELAYED"}
  BY <1>1, <1>6 DEF Linked
<1> QED BY <1>1, <1>3, <1>5, <1>7, <1>8 DEF Linked, m

(* workqueue_delayed_insert links a work that is in no list. *)
LEMMA InsertKeepsLinks ==
  ASSUME NEW l, Linked(l), NEW w \in Works, l.st[w] \in {"IDLE", "RUNNING"},
         NEW n \in Times
  PROVE  LET m == DelayedInsert(l, w, n)
         IN /\ Linked(m) /\ m.left = [l.left EXCEPT ![w] = n]
            /\ m.st = [l.st EXCEPT ![w] = "DELAYED"]
            /\ m.high = l.high /\ m.normal = l.normal
<1> DEFINE m == DelayedInsert(l, w, n)
           later == {i \in DOMAIN l.delayed :
                       Remaining(l.left[l.delayed[i]]) > Remaining(n)}
           place == IF later = {} THEN Len(l.delayed) + 1
                    ELSE CHOOSE i \in later : \A j \in later : i <= j
           s == l.delayed
<1>0. l \in ListTypes /\ "DELAYED" \in WorkStates
  BY DEF Linked, WorkStates
<1>1. /\ m.high = l.high /\ m.normal = l.normal
      /\ m.delayed = SubSeq(s, 1, place - 1) \o <<w>> \o SubSeq(s, place, Len(s))
      /\ m.st = [l.st EXCEPT ![w] = "DELAYED"]
      /\ m.left = [l.left EXCEPT ![w] = n]
      /\ m.delayed \in Seq(Works) => m \in ListTypes
  <2> DEFINE c == SubSeq(s, 1, place - 1) \o <<w>> \o SubSeq(s, place, Len(s))
  <2>1. m = [l EXCEPT !.delayed = c, !.left[w] = n, !.st[w] = "DELAYED"]
    BY DEF DelayedInsert
  <2> HIDE DEF m, c, s, place, later
  <2>2. /\ m.high = l.high /\ m.normal = l.normal /\ m.delayed = c
        /\ m.st = [l.st EXCEPT ![w] = "DELAYED"]
        /\ m.left = [l.left EXCEPT ![w] = n]
        /\ c \in Seq(Works) => m \in ListTypes
    BY <1>0, <2>1 DEF ListTypes
  <2> QED BY <2>2 DEF c
<1>2. s \in Seq(Works) /\ Len(s) \in Nat /\ DOMAIN s = 1..Len(s)
  BY FieldTypes
<1>3. place \in 1..(Len(s) + 1)
  <2>1. CASE later = {}
    BY <2>1, <1>2
  <2>2. CASE later # {}
    <3>1. later \in SUBSET Nat /\ later \subseteq 1..Len(s)
      BY <1>2
    <3>2. place = CHOOSE i \in later : \A j \in later : i <= j
      BY <2>2
    <3> HIDE DEF later, s, place
    <3>3. \E i \in later : \A j \in later : i <= j
      BY <2>2, <3>1, LeastNumber
    <3>4. place \in later
      BY <3>2, <3>3
    <3> QED BY <3>1, <3>4, <1>2
  <2> QED BY <2>1, <2>2
<1> HIDE DEF m, place, later, s
<1>4. PICK k \in 0..Len(s) : k = place - 1 /\ k + 1 = place
  BY <1>2, <1>3
<1>5. m.delayed = SubSeq(s, 1, k) \o <<w>> \o SubSeq(s, k + 1, Len(s))
  BY <1>1, <1>4
<1>6. w \notin Members(s) /\ Distinct(s)
  BY DEF Linked, s
<1>7. /\ m.delayed \in Seq(Works) /\ Distinct(m.delayed)
      /\ Members(m.delayed) = Members(s) \cup {w}
  BY <1>2, <1>5, <1>6, InsertMembers
<1>9. m \in ListTypes
  BY <1>1, <1>7
<1>10. \A v \in Works : m.st[v] = IF v = w THEN "DELAYED" ELSE l.st[v]
  BY <1>1, FieldTypes
<1>11. Members(m.high) \cup Members(m.normal) = {v \in Works : m.st[v] = "READY"}
  BY <1>1, <1>10 DEF Linked
<1>12. Members(m.delayed) = {v \in Works : m.st[v] = "DELAYED"}
  BY <1>7, <1>10 DEF Linked, s
<1>13. Distinct(m.high) /\ Distinct(m.normal)
  BY <1>1 DEF Linked
<1> QED BY <1>1, <1>7, <1>9, <1>11, <1>12, <1>13 DEF Linked, m

(* workqueue_promote_due moves the works gone, all due, to the ready lists. *)
LEMMA PromoteKeepsLinks ==
  ASSUME NEW l, Linked(l)
  PROVE  LET m == PromoteDue(l)
         IN /\ Linked(m)
            /\ \E G \in SUBSET Works :
                 /\ \A w \in G : l.st[w] = "DELAYED" /\ l.left[w] <= 0
                 /\ m.st = [w \in Works |-> IF w \in G THEN "READY" ELSE l.st[w]]
                 /\ m.left = [w \in Works |-> IF w \in G THEN 0 ELSE l.left[w]]
            /\ Members(m.delayed) \subseteq Members(l.delayed)
<1> DEFINE m == PromoteDue(l)
           s == l.delayed
           prefix == {k \in 0..Len(s) : \A i \in 1..k : l.left[s[i]] <= 0}
           n == DuePrefix(l)
           gone == SubSeq(s, 1, n)
           rest == SubSeq(s, n + 1, Len(s))
           G == Members(gone)
<1>1. s \in Seq(Works) /\ Len(s) \in Nat /\ DOMAIN s = 1..Len(s)
  BY FieldTypes
<1>2. n \in 0..Len(s) /\ \A i \in 1..n : l.left[s[i]] <= 0
  <2>1. n = CHOOSE k \in prefix : \A j \in prefix : j <= k
    BY DEF DuePrefix
  <2>2. prefix \in SUBSET (0..Len(s)) /\ 0 \in prefix
    BY <1>1
  <2>3. \A k \in prefix : k \in 0..Len(s) /\ \A i \in 1..k : l.left[s[i]] <= 0
    OBVIOUS
  <2> HIDE DEF prefix, n, s
  <2>4. \E k \in prefix : \A j \in prefix : j <= k
    BY <1>1, <2>2, GreatestNumber
  <2>5. n \in prefix
    BY <2>1, <2>4
  <2> QED BY <2>3, <2>5
<1>3. /\ gone \in Seq(Works) /\ rest \in Seq(Works)
      /\ Len(gone) = n /\ \A i \in 1..n : gone[i] = s[i]
      /\ Members(s) = G \cup Members(rest)
      /\ Distinct(gone) /\ Distinct(rest) /\ G \cap Members(rest) = {}
  <2> HIDE DEF n, s
  <2>1. Distinct(s)
    BY DEF Linked, s
  <2> QED BY <1>1, <1>2, <2>1, SplitMembers
<1>4. /\ m.high = l.high \o Without(gone, NormalWorks)
      /\ m.normal = l.normal \o Without(gone, HighWorks)
      /\ m.delayed = rest
      /\ m.st = [w \in Works |-> IF \E i \in 1..n : gone[i] = w
                                 THEN "READY" ELSE l.st[w]]
      /\ m.left = [w \in Works |-> IF \E i \in 1..n : gone[i] = w
                                   THEN 0 ELSE l.left[w]]
      /\ (/\ m.high \in Seq(HighWorks) /\ m.normal \in Seq(NormalWorks)
          /\ m.delayed \in Seq(Works) /\ m.st \in [Works -> WorkStates]
          /\ m.left \in [Works -> Times]) => m \in ListTypes
  <2> DEFINE a == l.high \o Without(gone, NormalWorks)
             b == l.normal \o Without(gone, HighWorks)
             x == [w \in Works |-> IF \E i \in 1..n : gone[i] = w
                                   THEN "READY" ELSE l.st[w]]
             y == [w \in Works |-> IF \E i \in 1..n : gone[i] = w
                                   THEN 0 ELSE l.left[w]]
  <2>1. m = [l EXCEPT !.delayed = rest, !.high = a, !.normal = b, !.st = x,
                      !.left = y]
    BY DEF PromoteDue
  <2>2. l \in ListTypes
    BY DEF Linked
  <2> HIDE DEF m, a, b, x, y, rest, gone, n, s
  <2>3. /\ m.high = a /\ m.normal = b /\ m.delayed = rest /\ m.st = x /\ m.left = y
        /\ a \in Seq(HighWorks) /\ b \in Seq(NormalWorks) /\ rest \in Seq(Works)
             /\ x \in [Works -> WorkStates] /\ y \in [Works -> Times]
             => m \in ListTypes
    BY <2>1, <2>2 DEF ListTypes
  <2> QED BY <2>3 DEF a, b, x, y
<1> HIDE DEF m, s, n, gone, rest
<1>5. \A w : (\E i \in 1..n : gone[i] = w) <=> w \in G
  BY <1>3 DEF Members
<1> HIDE DEF G
<1>6. G \in SUBSET Works /\ \A w \in G : l.st[w] = "DELAYED" /\ l.left[w] <= 0
  <2>1. G \subseteq Members(s) /\ Members(s) \subseteq Works
    BY <1>1, <1>3, MembersType
  <2>2. \A w \in G : l.left[w] <= 0
    BY <1>2, <1>3, <1>5
  <2> QED BY <2>1, <2>2 DEF Linked, s
<1>7. /\ m.st = [w \in Works |-> IF w \in G THEN "READY" ELSE l.st[w]]
      /\ m.left = [w \in Works |-> IF w \in G THEN 0 ELSE l.left[w]]
  BY <1>4, <1>5
<1>8. m.st \in [Works -> WorkStates] /\ m.left \in [Works -> Times]
  BY <1>7, FieldTypes, TimeTypes DEF WorkStates
<1> DEFINE goneHigh == Without(gone, NormalWorks)
           goneNormal == Without(gone, HighWorks)
<1>9. /\ goneHigh \in Seq(Works) /\ Members(goneHigh) = G \ NormalWorks
      /\ Distinct(goneHigh)
      /\ goneNormal \in Seq(Works) /\ Members(goneNormal) = G \ HighWorks
      /\ Distinct(goneNormal)
  BY <1>3, WithoutMembers DEF G
<1> HIDE DEF goneHigh, goneNormal
<1>10. goneHigh \in Seq(HighWorks) /\ goneNormal \in Seq(NormalWorks)
  <2>1. ASSUME NEW S, NEW t \in Seq(Works), Members(t) \subseteq S PROVE t \in Seq(S)
    <3>1. Len(t) \in Nat /\ t = [i \in 1..Len(t) |-> t[i]] /\ DOMAIN t = 1..Len(t)
      OBVIOUS
    <3>2. \A i \in 1..Len(t) : t[i] \in S
      BY <3>1, <2>1 DEF Members
    <3> QED BY <3>1, <3>2
  <2> QED BY <2>1, <1>6, <1>9 DEF Works
<1>11. G \cap (Members(l.high) \cup Members(l.normal)) = {}
  BY <1>6 DEF Linked
<1>12. /\ m.high \in Seq(HighWorks) /\ Distinct(m.high)
       /\ Members(m.high) = Members(l.high) \cup (G \ NormalWorks)
  <2>1. Distinct(l.high) /\ Members(l.high) \cap Members(goneHigh) = {}
    BY <1>9, <1>11 DEF Linked
  <2> QED BY <1>4, <1>9, <1>10, <2>1, FieldTypes, ConcatMembers DEF goneHigh
<1>13. /\ m.normal \in Seq(NormalWorks) /\ Distinct(m.normal)
       /\ Members(m.normal) = Members(l.normal) \cup (G \ HighWorks)
  <2>1. Distinct(l.normal) /\ Members(l.normal) \cap Members(goneNormal) = {}
    BY <1>9, <1>11 DEF Linked
  <2> QED BY <1>4, <1>9, <1>10, <2>1, FieldTypes, ConcatMembers DEF goneNormal
<1>14. m \in ListTypes
  BY <1>3, <1>4, <1>8, <1>12, <1>13
<1>15. Members(m.high) \cup Members(m.normal) = {v \in Works : m.st[v] = "READY"}
  <2>1. (G \ NormalWorks) \cup (G \ HighWorks) = G
    BY PriorityAssumption
  <2>2. \A v \in Works : m.st[v] = "READY" <=> v \in G \/ l.st[v] = "READY"
    BY <1>7
  <2> QED BY <2>1, <2>2, <1>6, <1>12, <1>13 DEF Linked
<1>16. Members(m.delayed) = Members(l.delayed) \ G
  BY <1>3, <1>4 DEF s
<1>17. Members(m.delayed) = {v \in Works : m.st[v] = "DELAYED"}
  BY <1>6, <1>7, <1>16 DEF Linked
<1>18. Linked(m)
  BY <1>3, <1>4, <1>12, <1>13, <1>14, <1>15, <1>17 DEF Linked
<1> QED BY <1>6, <1>7, <1>16, <1>18 DEF m

(* A work that is in no list starts or ends. *)
LEMMA TurnKeepsLinks ==
  ASSUME NEW l, Linked(l), NEW w \in Works, l.st[w] \in {"IDLE", "RUNNING"},
         NEW x \in {"IDLE", "RUNNING"}
  PROVE  LET m == [l EXCEPT !.st[w] = x]
         IN /\ Linked(m) /\ m.left = l.left /\ m.st = [l.st EXCEPT ![w] = x]
            /\ m.high = l.high /\ m.normal = l.normal /\ m.delayed = l.delayed
<1> DEFINE m == [l EXCEPT !.st[w] = x]
<1>1. l \in ListTypes /\ x \in WorkStates
  BY DEF Linked, WorkStates
<1>2. /\ m \in ListTypes /\ m.left = l.left /\ m.st = [l.st EXCEPT ![w] = x]
      /\ m.high = l.high /\ m.normal = l.normal /\ m.delayed = l.delayed
  BY <1>1 DEF ListTypes
<1> HIDE DEF m
<1>3. \A v \in Works : m.st[v] = IF v = w THEN x ELSE l.st[v]
  BY <1>2, FieldTypes
<1>4. Linked(m)
  BY <1>2, <1>3 DEF Linked
<1> QED BY <1>2, <1>4 DEF m

(* The part of workqueue_schedule_on that changes the lists. *)
LEMMA RescheduleKeepsLinks ==
  ASSUME NEW l, Linked(l), NEW w \in Works, NEW d \in 0..MaxDelay
  PROVE  LET m == Rescheduled(l, w, d)
         IN /\ Linked(m)
            /\ \A v \in Works \ {w} : m.st[v] = l.st[v] /\ m.left[v] = l.left[v]
            /\ l.st[w] \in {"READY", "RUNNING"} => m = l
            /\ l.st[w] \in {"IDLE", "DELAYED"} /\ d = 0 => m.st[w] = "READY"
            /\ l.st[w] = "IDLE" /\ d > 0 => m.st[w] = "DELAYED" /\ m.left[w] = d
            /\ l.st[w] = "DELAYED" /\ d > 0 /\ d < l.left[w]
                 => m.st[w] = "DELAYED" /\ m.left[w] = d
            /\ l.st[w] = "DELAYED" /\ d > 0 /\ ~(d < l.left[w]) => m = l
            /\ d = 0 => Members(m.delayed) \subseteq Members(l.delayed)
<1> DEFINE m == Rescheduled(l, w, d)
           r == ListRemove(l, w)
<1>0. d \in Times /\ l.left[w] \in Times
  BY FieldTypes, TimeTypes
<1>1. d \in Times /\ d \in Int /\ (d = 0 \/ d > 0) /\ l.left[w] \in Int
  <2>1. MaxDelay \in Nat
    BY DelayAssumption
  <2>2. d \in Int /\ (d = 0 \/ d > 0)
    BY <2>1
  <2>3. l.left[w] \in Int
    BY <1>0, TimeTypes
  <2> QED BY <1>0, <2>2, <2>3
<1>2. l.st[w] \in WorkStates
  BY FieldTypes
<1>3. /\ Linked(r) /\ r.st = [l.st EXCEPT ![w] = "IDLE"]
      /\ r.left = [l.left EXCEPT ![w] = 0]
      /\ Members(r.delayed) = Members(l.delayed) \ {w}
  BY RemoveKeepsLinks
<1>4. r.st[w] = "IDLE" /\ \A v \in Works \ {w} : r.st[v] = l.st[v] /\ r.left[v] = l.left[v]
  BY <1>3, FieldTypes
<1>5. CASE l.st[w] \in {"READY", "RUNNING"}
  BY <1>5 DEF Rescheduled
<1>6. CASE l.st[w] = "IDLE" /\ d = 0
  <2>1. m = ReadyAppend(l, w)
    BY <1>6 DEF Rescheduled
  <2> HIDE DEF m
  <2>2. /\ Linked(m) /\ m.left = l.left /\ m.delayed = l.delayed
        /\ m.st = [l.st EXCEPT ![w] = "READY"]
    BY <1>6, <2>1, AppendKeepsLinks
  <2> QED BY <1>6, <2>2, FieldTypes DEF m
<1>7. CASE l.st[w] = "IDLE" /\ d > 0
  <2>1. m = DelayedInsert(l, w, d)
    BY <1>7 DEF Rescheduled
  <2> HIDE DEF m
  <2>2. /\ Linked(m) /\ m.left = [l.left EXCEPT ![w] = d]
        /\ m.st = [l.st EXCEPT ![w] = "DELAYED"]
    BY <1>1, <1>7, <2>1, InsertKeepsLinks
  <2> QED BY <1>7, <2>2, FieldTypes DEF m
<1>8. CASE l.st[w] = "DELAYED" /\ d = 0
  <2>1. m = ReadyAppend(r, w)
    BY <1>8 DEF Rescheduled
  <2> HIDE DEF m, r
  <2>2. /\ Linked(m) /\ m.left = r.left /\ m.delayed = r.delayed
        /\ m.st = [r.st EXCEPT ![w] = "READY"]
    BY <1>3, <1>4, <2>1, AppendKeepsLinks
  <2>3. r.st \in [Works -> WorkStates]
    BY <1>3, FieldTypes
  <2> QED BY <1>3, <1>4, <1>8, <2>2, <2>3 DEF m
<1>9. CASE l.st[w] = "DELAYED" /\ d > 0 /\ d < l.left[w]
  <2>1. m = DelayedInsert(r, w, d)
    BY <1>9 DEF Rescheduled
  <2> HIDE DEF m, r
  <2>2. /\ Linked(m) /\ m.left = [r.left EXCEPT ![w] = d]
        /\ m.st = [r.st EXCEPT ![w] = "DELAYED"]
    <3>1. r.st[w] \in {"IDLE", "RUNNING"} /\ Linked(r)
      BY <1>3, <1>4
    <3> QED BY <1>0, <3>1, <2>1, InsertKeepsLinks
  <2>3. r.st \in [Works -> WorkStates] /\ r.left \in [Works -> Times]
    BY <1>3, FieldTypes
  <2> QED BY <1>3, <1>4, <1>9, <2>2, <2>3 DEF m
<1>10. CASE l.st[w] = "DELAYED" /\ d > 0 /\ ~(d < l.left[w])
  BY <1>10 DEF Rescheduled
<1> QED BY <1>1, <1>2, <1>5, <1>6, <1>7, <1>8, <1>9, <1>10 DEF WorkStates

-----------------------------------------------------------------------------
(* The lists after a step that installs m. *)
LEMMA InstallLinks ==
  ASSUME NEW m, Linked(m), Install(m)
  PROVE  /\ Linked(Lists)'
         /\ high' = m.high /\ normal' = m.normal /\ delayed' = m.delayed
         /\ st' = m.st /\ left' = m.left
<1>1. /\ high' = m.high /\ normal' = m.normal /\ delayed' = m.delayed
      /\ st' = m.st /\ left' = m.left
  BY DEF Install
<1>2. Lists' \in ListTypes
  BY <1>1, FieldTypes DEF Lists, ListTypes
<1> QED BY <1>1, <1>2 DEF Lists, Linked

(* The lists as the variables. *)
LEMMA ListFields ==
  /\ Lists.high = high /\ Lists.normal = normal /\ Lists.delayed = delayed
  /\ Lists.st = st /\ Lists.left = left
BY DEF Lists

(* The types of the lists after a step. *)
LEMMA NextTypes ==
  ASSUME Linked(Lists)'
  PROVE  /\ high' \in Seq(HighWorks) /\ normal' \in Seq(NormalWorks)
         /\ delayed' \in Seq(Works) /\ st' \in [Works -> WorkStates]
         /\ left' \in [Works -> Times]
BY DEF Lists, Linked, ListTypes

(* The types, for the steps below. *)
LEMMA Types ==
  ASSUME Linked(Lists), Others
  PROVE  TypeOK
BY FieldTypes, ListFields DEF Others, TypeOK, WorkStates

(* A work that a step does not touch, but may promote. *)
LEMMA UntouchedIsKept ==
  ASSUME NEW w \in Works, Kept(w),
         rerun'[w] = rerun[w], rerunLeft'[w] = rerunLeft[w],
         cancelled'[w] = cancelled[w], due'[w] = due[w],
         w \in owed' <=> w \in owed, w \in registered => w \in registered',
         \/ st'[w] = st[w] /\ left'[w] = left[w]
         \/ st[w] = "DELAYED" /\ left[w] <= 0 /\ st'[w] = "READY"
  PROVE  Kept(w)'
BY DEF Kept, Pending

(* Init makes the invariant true. *)
LEMMA InitIInv == Init => IInv
<1> SUFFICES ASSUME Init PROVE IInv
  OBVIOUS
<1> USE DEF Init
<1>1. Members(<<>>) = {} /\ Distinct(<<>>)
  BY DEF Members, Distinct
<1>2. Linked(Lists)
  <2>1. Lists \in ListTypes
    BY TimeTypes DEF Lists, ListTypes, WorkStates
  <2> QED BY <1>1, <2>1, ListFields DEF Linked
<1>3. Others
  <2>1. Never \in Never..MaxDelay /\ 0 \in 0..(HighBudget + NormalBudget)
    BY DelayAssumption, BudgetAssumption DEF Never
  <2> QED BY <2>1, TimeTypes DEF Others
<1>4. \A w \in Works : Kept(w)
  BY DEF Kept
<1>5. OneRuns /\ Awake
  BY DEF OneRuns, Awake
<1> QED BY <1>2, <1>3, <1>4, <1>5 DEF IInv

(* The lists once the due works are promoted, and each work in them. *)
LEMMA PromotedLists ==
  ASSUME Linked(Lists)
  PROVE  LET m == PromoteDue(Lists)
         IN /\ Linked(m) /\ Members(m.delayed) \subseteq Members(delayed)
            /\ \A w \in Works : \/ m.st[w] = st[w] /\ m.left[w] = left[w]
                                \/ /\ st[w] = "DELAYED" /\ left[w] <= 0
                                   /\ m.st[w] = "READY"
<1> DEFINE m == PromoteDue(Lists)
<1>1. /\ Linked(m) /\ Members(m.delayed) \subseteq Members(Lists.delayed)
      /\ \E G \in SUBSET Works :
           /\ \A v \in G : Lists.st[v] = "DELAYED" /\ Lists.left[v] <= 0
           /\ m.st = [v \in Works |-> IF v \in G THEN "READY" ELSE Lists.st[v]]
           /\ m.left = [v \in Works |-> IF v \in G THEN 0 ELSE Lists.left[v]]
  BY PromoteKeepsLinks
<1> HIDE DEF m
<1>2. Linked(m) /\ Members(m.delayed) \subseteq Members(delayed)
  BY <1>1, ListFields
<1>3. PICK G \in SUBSET Works :
        /\ \A v \in G : st[v] = "DELAYED" /\ left[v] <= 0
        /\ m.st = [v \in Works |-> IF v \in G THEN "READY" ELSE st[v]]
        /\ m.left = [v \in Works |-> IF v \in G THEN 0 ELSE left[v]]
  BY <1>1, ListFields
<1> QED BY <1>2, <1>3 DEF m

(* A request, of whatever origin. *)
LEMMA ScheduleOnKeeps ==
  ASSUME IInv, NEW w \in Works, NEW d \in 0..MaxDelay, ScheduleOn(w, d),
         d = 0 \/ pc \in {"boot", "callback"}
  PROVE  IInv'
<1> DEFINE m == PromoteDue(Lists)
           r == Rescheduled(m, w, d)
<1>0. Linked(Lists) /\ Others /\ Kept(w) /\ st \in [Works -> WorkStates]
      /\ left \in [Works -> Times]
  <2>1. Linked(Lists) /\ Others /\ Kept(w)
    BY DEF IInv
  <2> QED BY <2>1, FieldTypes, ListFields
<1>1. /\ Linked(m) /\ Members(m.delayed) \subseteq Members(delayed)
      /\ \A v \in Works : \/ m.st[v] = st[v] /\ m.left[v] = left[v]
                          \/ /\ st[v] = "DELAYED" /\ left[v] <= 0
                             /\ m.st[v] = "READY"
  BY PromotedLists DEF IInv
<1> HIDE DEF m
<1>2. /\ Linked(r)
      /\ \A v \in Works \ {w} : r.st[v] = m.st[v] /\ r.left[v] = m.left[v]
      /\ m.st[w] \in {"READY", "RUNNING"} => r = m
      /\ m.st[w] \in {"IDLE", "DELAYED"} /\ d = 0 => r.st[w] = "READY"
      /\ m.st[w] = "IDLE" /\ d > 0 => r.st[w] = "DELAYED" /\ r.left[w] = d
      /\ m.st[w] = "DELAYED" /\ d > 0 /\ d < m.left[w]
           => r.st[w] = "DELAYED" /\ r.left[w] = d
      /\ m.st[w] = "DELAYED" /\ d > 0 /\ ~(d < m.left[w]) => r = m
      /\ d = 0 => Members(r.delayed) \subseteq Members(m.delayed)
  BY <1>1, RescheduleKeepsLinks
<1>3. Install(r)
  BY DEF ScheduleOn, m
<1> HIDE DEF r
<1>4. /\ Linked(Lists)' /\ st' = r.st /\ left' = r.left /\ delayed' = r.delayed
  BY <1>2, <1>3, InstallLinks
<1>5. /\ d \in Int /\ d >= 0 /\ d \in Times /\ left[w] \in Int /\ due[w] \in Int
      /\ rerunLeft[w] \in Int /\ m.left[w] \in Int
  <2>1. m.left[w] \in Times /\ left[w] \in Times /\ due[w] \in Times
        /\ rerunLeft[w] \in Times /\ d \in Times
    BY <1>0, <1>1, FieldTypes, TimeTypes DEF Others
  <2>2. MaxDelay \in Nat
    BY DelayAssumption
  <2>3. d \in Int /\ d >= 0
    BY <2>2
  <2> QED BY <2>1, <2>3, TimeTypes
<1>6. /\ rerun' = IF st[w] = "RUNNING" THEN [rerun EXCEPT ![w] = RerunAfter(w, d)[1]]
                  ELSE rerun
      /\ rerunLeft' = IF st[w] = "RUNNING"
                      THEN [rerunLeft EXCEPT ![w] = RerunAfter(w, d)[2]]
                      ELSE rerunLeft
      /\ cancelled' = [cancelled EXCEPT ![w] = st[w] = "RUNNING" /\ cancelled[w]]
      /\ owed' = IF st[w] = "RUNNING" /\ cancelled[w] THEN owed ELSE owed \cup {w}
      /\ due' = [due EXCEPT ![w] = IF w \in owed /\ due[w] < d THEN due[w] ELSE d]
      /\ signalled' = (pc = "block")
      /\ pc' = (IF pc = "asleep" THEN "snapshot" ELSE pc)
      /\ w \in registered /\ ~quiescing
      /\ UNCHANGED <<registered, quiescing, budget, executed, sleep>>
  BY DEF ScheduleOn, Notify
<1>7. /\ RerunAfter(w, d)[1] \in {"no", "now", "later"}
      /\ RerunAfter(w, d)[2] \in Times
  BY <1>0, <1>5 DEF RerunAfter, Others
<1>8. Others'
  <2>1. rerun' \in [Works -> {"no", "now", "later"}] /\ rerunLeft' \in [Works -> Times]
    BY <1>0, <1>6, <1>7 DEF Others
  <2>2. due' \in [Works -> Times] /\ cancelled' \in [Works -> BOOLEAN]
    BY <1>0, <1>5, <1>6 DEF Others
  <2> QED BY <1>0, <1>6, <2>1, <2>2 DEF Others
<1>9. ASSUME NEW v \in Works \ {w} PROVE Kept(v)'
  <2>1. Kept(v)
    BY DEF IInv
  <2>2. /\ rerun'[v] = rerun[v] /\ rerunLeft'[v] = rerunLeft[v]
        /\ cancelled'[v] = cancelled[v] /\ due'[v] = due[v]
        /\ (v \in owed' <=> v \in owed) /\ registered' = registered
    BY <1>0, <1>6 DEF Others
  <2>3. \/ st'[v] = st[v] /\ left'[v] = left[v]
        \/ st[v] = "DELAYED" /\ left[v] <= 0 /\ st'[v] = "READY"
    BY <1>1, <1>2, <1>4
  <2> QED BY <2>1, <2>2, <2>3, UntouchedIsKept
<1>10. Kept(w)'
  <2>1. /\ cancelled'[w] = (st[w] = "RUNNING" /\ cancelled[w])
        /\ due'[w] = IF w \in owed /\ due[w] < d THEN due[w] ELSE d
        /\ w \in registered'
        /\ w \in owed' <=> w \in owed \/ ~(st[w] = "RUNNING" /\ cancelled[w])
    BY <1>0, <1>6 DEF Others
  <2>2. CASE st[w] = "RUNNING"
    <3>1. st'[w] = "RUNNING"
      BY <2>2, <1>1, <1>2, <1>4
    <3>2. rerun'[w] = RerunAfter(w, d)[1] /\ rerunLeft'[w] = RerunAfter(w, d)[2]
      BY <2>2, <1>0, <1>6 DEF Others
    <3>3. cancelled[w] \in BOOLEAN /\ rerun[w] \in {"no", "now", "later"}
      BY <1>0 DEF Others
    <3>4. w \in owed' => ~cancelled[w]
      BY <2>1, <2>2, <1>0 DEF Kept
    <3>5. ASSUME ~cancelled[w] PROVE Pending(w)'
      <4>1. CASE rerun[w] = "no"
        <5>1. w \notin owed
          BY <4>1, <2>2, <1>0 DEF Kept, Pending
        <5> QED BY <4>1, <5>1, <2>1, <3>1, <3>2, <1>5 DEF Pending, RerunAfter
      <4>2. CASE rerun[w] = "now"
        <5>1. w \in owed /\ due[w] <= 0
          BY <4>2, <3>5, <2>2, <1>0 DEF Kept, Pending
        <5> QED BY <4>2, <5>1, <2>1, <3>1, <3>2, <1>5 DEF Pending, RerunAfter
      <4>3. CASE rerun[w] = "later"
        <5>1. w \in owed /\ due[w] = rerunLeft[w]
          BY <4>3, <3>5, <2>2, <1>0 DEF Kept, Pending
        <5> QED BY <4>3, <5>1, <2>1, <3>1, <3>2, <1>5 DEF Pending, RerunAfter
      <4> QED BY <4>1, <4>2, <4>3, <3>3
    <3> QED BY <2>1, <2>2, <3>1, <3>3, <3>4, <3>5 DEF Kept
  <2>3. CASE st[w] # "RUNNING"
    <3>1. rerun'[w] = rerun[w] /\ rerun[w] = "no" /\ w \in owed'
      BY <2>1, <2>3, <1>0, <1>6 DEF Kept
    <3>2. CASE st[w] = "IDLE"
      <4>1. w \notin owed
        BY <3>2, <1>0 DEF Kept, Pending
      <4>2. due'[w] = d /\ m.st[w] = "IDLE"
        BY <4>1, <2>1, <1>1, <3>2
      <4>3. \/ d = 0 /\ st'[w] = "READY"
            \/ d > 0 /\ st'[w] = "DELAYED" /\ left'[w] = d
        BY <4>2, <1>2, <1>4, <1>5
      <4> QED BY <3>1, <4>2, <4>3, <2>1, <1>5 DEF Kept, Pending
    <3>3. CASE st[w] = "READY"
      <4>1. w \in owed /\ due[w] <= 0
        BY <3>3, <1>0 DEF Kept, Pending
      <4>2. st'[w] = "READY"
        BY <3>3, <1>1, <1>2, <1>4
      <4>3. due'[w] <= 0
        BY <4>1, <2>1, <1>5
      <4> QED BY <3>1, <4>2, <4>3, <2>1 DEF Kept, Pending
    <3>4. CASE st[w] = "DELAYED"
      <4>1. w \in owed /\ due[w] = left[w]
        BY <3>4, <1>0 DEF Kept, Pending
      <4>2. CASE m.st[w] = "READY" /\ left[w] <= 0
        <5>1. st'[w] = "READY"
          BY <4>2, <1>2, <1>4
        <5>2. due'[w] <= 0
          BY <4>1, <4>2, <2>1, <1>5
        <5> QED BY <3>1, <5>1, <5>2, <2>1 DEF Kept, Pending
      <4>3. CASE m.st[w] = "DELAYED" /\ m.left[w] = left[w]
        <5>1. CASE d = 0
          <6>1. st'[w] = "READY"
            BY <4>3, <5>1, <1>2, <1>4
          <6>2. due'[w] <= 0
            BY <5>1, <2>1, <1>5
          <6> QED BY <3>1, <6>1, <6>2, <2>1 DEF Kept, Pending
        <5>2. CASE d > 0 /\ d < left[w]
          <6>1. st'[w] = "DELAYED" /\ left'[w] = d
            BY <4>3, <5>2, <1>2, <1>4
          <6>2. due'[w] = d
            BY <5>2, <4>1, <2>1, <1>5
          <6> QED BY <3>1, <6>1, <6>2, <2>1 DEF Kept, Pending
        <5>3. CASE d > 0 /\ ~(d < left[w])
          <6>1. st'[w] = "DELAYED" /\ left'[w] = left[w]
            BY <4>3, <5>3, <1>2, <1>4
          <6>2. due'[w] = left[w]
            BY <5>3, <4>1, <2>1, <1>5
          <6> QED BY <3>1, <6>1, <6>2, <2>1 DEF Kept, Pending
        <5> QED BY <5>1, <5>2, <5>3, <1>5
      <4> QED BY <4>2, <4>3, <3>4, <1>1
    <3> QED BY <3>2, <3>3, <3>4, <2>3, <1>0 DEF WorkStates
  <2> QED BY <2>2, <2>3
<1>11. \A v \in Works : st'[v] = "RUNNING" <=> st[v] = "RUNNING"
  <2>1. \A v \in Works : m.st[v] = "RUNNING" <=> st[v] = "RUNNING"
    BY <1>1
  <2>2. m.st[w] \in WorkStates
    BY <1>1, FieldTypes
  <2>3. st'[w] = "RUNNING" <=> m.st[w] = "RUNNING"
    BY <1>2, <1>4, <1>5, <2>2 DEF WorkStates
  <2> QED BY <2>1, <2>3, <1>2, <1>4
<1>12. OneRuns'
  BY <1>6, <1>11 DEF IInv, OneRuns
<1>13. Awake'
  <2>1. ASSUME pc' \in {"snapshot", "block", "asleep"}, delayed' # <<>>
        PROVE  sleep' # Never
    <3>1. d = 0 /\ pc \in {"snapshot", "block", "asleep"}
      BY <2>1, <1>6
    <3>2. Members(delayed') \subseteq Members(delayed)
      BY <3>1, <1>1, <1>2, <1>4
    <3>3. delayed \in Seq(Works) /\ delayed' \in Seq(Works)
      BY <1>0, <1>2, <1>4, FieldTypes, ListFields
    <3>4. delayed # <<>>
      BY <2>1, <3>2, <3>3, EmptyList
    <3> QED BY <3>1, <3>4, <1>6 DEF IInv, Awake
  <2> QED BY <2>1, <1>6 DEF Awake
<1> QED BY <1>4, <1>8, <1>9, <1>10, <1>12, <1>13 DEF IInv

(* A step that leaves the lists and the works alone. *)
LEMMA QuietStepKeeps ==
  ASSUME IInv, UNCHANGED <<lists, workVars, owed, due>>,
         Others', registered \subseteq registered',
         pc' = "callback" <=> pc = "callback", Awake'
  PROVE  IInv'
<1>1. /\ high' = high /\ normal' = normal /\ delayed' = delayed /\ st' = st
      /\ left' = left /\ rerun' = rerun /\ rerunLeft' = rerunLeft
      /\ cancelled' = cancelled /\ owed' = owed /\ due' = due
  BY DEF lists, workVars
<1>2. Lists' = Lists
  BY <1>1 DEF Lists
<1>3. Linked(Lists)'
  BY <1>2 DEF IInv, Linked
<1>4. ASSUME NEW w \in Works PROVE Kept(w)'
  BY <1>1 DEF IInv, Kept, Pending
<1>5. OneRuns'
  BY <1>1 DEF IInv, OneRuns
<1> QED BY <1>3, <1>4, <1>5 DEF IInv

(* cancel_work. *)
LEMMA CancelKeeps ==
  ASSUME IInv, NEW w \in Works, Cancel(w)
  PROVE  IInv'
<1>0. Linked(Lists) /\ Others /\ Kept(w) /\ st \in [Works -> WorkStates]
      /\ left \in [Works -> Times]
  <2>1. Linked(Lists) /\ Others /\ Kept(w)
    BY DEF IInv
  <2> QED BY <2>1, FieldTypes, ListFields
<1>1. /\ cancelled' = [cancelled EXCEPT ![w] = cancelled[w] \/ st[w] = "RUNNING"]
      /\ rerun' = [rerun EXCEPT ![w] = "no"]
      /\ rerunLeft' = [rerunLeft EXCEPT ![w] = 0]
      /\ owed' = owed \ {w} /\ due' = [due EXCEPT ![w] = 0]
      /\ UNCHANGED <<registered, quiescing, pc, budget, executed, sleep, signalled>>
  BY DEF Cancel, loopVars
<1>2. /\ Linked(Lists)'
      /\ \A v \in Works \ {w} : st'[v] = st[v] /\ left'[v] = left[v]
      /\ st[w] \in {"READY", "DELAYED"} => st'[w] = "IDLE"
      /\ st[w] \notin {"READY", "DELAYED"} => st'[w] = st[w]
      /\ Members(high') \subseteq Members(high)
      /\ Members(normal') \subseteq Members(normal)
      /\ Members(delayed') \subseteq Members(delayed)
  <2>1. CASE st[w] \in {"READY", "DELAYED"}
    <3> DEFINE m == ListRemove(Lists, w)
    <3>1. Install(m)
      BY <2>1 DEF Cancel
    <3>2. /\ Linked(m)
          /\ m.st = [Lists.st EXCEPT ![w] = "IDLE"]
          /\ m.left = [Lists.left EXCEPT ![w] = 0]
          /\ Members(m.high) = Members(Lists.high) \ {w}
          /\ Members(m.normal) = Members(Lists.normal) \ {w}
          /\ Members(m.delayed) = Members(Lists.delayed) \ {w}
      BY <1>0, RemoveKeepsLinks
    <3> HIDE DEF m
    <3>3. /\ Linked(Lists)' /\ high' = m.high /\ normal' = m.normal
          /\ delayed' = m.delayed /\ st' = m.st /\ left' = m.left
      BY <3>1, <3>2, InstallLinks
    <3>4. \A v \in Works \ {w} : st'[v] = st[v] /\ left'[v] = left[v]
      BY <3>2, <3>3, <1>0, ListFields
    <3>5. st'[w] = "IDLE"
      BY <3>2, <3>3, <1>0, ListFields
    <3>6. /\ Members(high') \subseteq Members(high)
          /\ Members(normal') \subseteq Members(normal)
          /\ Members(delayed') \subseteq Members(delayed)
      BY <3>2, <3>3, ListFields
    <3> QED BY <2>1, <3>3, <3>4, <3>5, <3>6
  <2>2. CASE st[w] \notin {"READY", "DELAYED"}
    <3>1. high' = high /\ normal' = normal /\ delayed' = delayed /\ st' = st
          /\ left' = left
      BY <2>2 DEF Cancel, lists
    <3>2. Lists' = Lists
      BY <3>1 DEF Lists
    <3> QED BY <2>2, <3>1, <3>2, <1>0 DEF Linked
  <2> QED BY <2>1, <2>2
<1>3. Others'
  <2>1. /\ cancelled' \in [Works -> BOOLEAN] /\ rerunLeft' \in [Works -> Times]
        /\ due' \in [Works -> Times] /\ owed' \subseteq Works
        /\ rerun' \in [Works -> {"no", "now", "later"}]
    BY <1>0, <1>1, TimeTypes DEF Others
  <2> QED BY <1>0, <1>1, <2>1 DEF Others
<1>4. ASSUME NEW v \in Works \ {w} PROVE Kept(v)'
  <2>1. Kept(v)
    BY DEF IInv
  <2>2. /\ rerun'[v] = rerun[v] /\ rerunLeft'[v] = rerunLeft[v]
        /\ cancelled'[v] = cancelled[v] /\ due'[v] = due[v]
        /\ (v \in owed' <=> v \in owed) /\ registered' = registered
    BY <1>0, <1>1 DEF Others
  <2> QED BY <2>1, <2>2, <1>2, UntouchedIsKept
<1>5. Kept(w)'
  <2>1. rerun'[w] = "no" /\ w \notin owed' /\ registered' = registered
    BY <1>0, <1>1 DEF Others
  <2>2. st[w] \notin {"READY", "DELAYED"} \/ st'[w] = "IDLE"
    BY <1>2
  <2> QED BY <2>1, <2>2, <1>0, <1>2 DEF Kept
<1>6. OneRuns'
  <2>1. \A v \in Works : st'[v] = "RUNNING" <=> st[v] = "RUNNING"
    BY <1>2
  <2> QED BY <2>1, <1>1 DEF IInv, OneRuns
<1>7. Awake'
  <2>1. /\ high \in Seq(HighWorks) /\ normal \in Seq(NormalWorks)
        /\ delayed \in Seq(Works)
    BY <1>0, FieldTypes, ListFields
  <2>2. /\ high' \in Seq(HighWorks) /\ normal' \in Seq(NormalWorks)
        /\ delayed' \in Seq(Works)
    BY <1>2, NextTypes
  <2>3. high = <<>> => high' = <<>>
    BY <2>1, <2>2, <1>2, StillEmpty
  <2>4. delayed = <<>> => delayed' = <<>>
    BY <2>1, <2>2, <1>2, StillEmpty
  <2>5. normal = <<>> => normal' = <<>>
    BY <2>1, <2>2, <1>2, StillEmpty
  <2> QED BY <2>3, <2>4, <2>5, <1>1 DEF IInv, Awake
<1> QED BY <1>2, <1>3, <1>4, <1>5, <1>6, <1>7 DEF IInv

(* workqueue_execute_one takes a READY work and starts its callback. *)
LEMMA TakeKeeps ==
  ASSUME IInv, NEW l, l = PromoteDue(Lists), NEW w \in Works, l.st[w] = "READY",
         pc \in {"high", "normal"}, budget > 0, Take(l, w),
         UNCHANGED <<registered, rerun, rerunLeft, cancelled, quiescing, sleep,
                     signalled>>
  PROVE  IInv'
<1> DEFINE r == ListRemove(l, w)
           m == [r EXCEPT !.st[w] = "RUNNING"]
<1>0. Linked(Lists) /\ Others /\ Kept(w)
  BY DEF IInv
<1>1. /\ Linked(l)
      /\ \A v \in Works : \/ l.st[v] = st[v] /\ l.left[v] = left[v]
                          \/ /\ st[v] = "DELAYED" /\ left[v] <= 0
                             /\ l.st[v] = "READY"
  BY <1>0, PromotedLists
<1>2. /\ Linked(r) /\ r.st = [l.st EXCEPT ![w] = "IDLE"]
      /\ r.left = [l.left EXCEPT ![w] = 0]
  BY <1>1, RemoveKeepsLinks
<1>3. Install(m)
  BY DEF Take
<1> HIDE DEF r
<1>4. r.st[w] = "IDLE" /\ \A v \in Works \ {w} : r.st[v] = l.st[v] /\ r.left[v] = l.left[v]
  BY <1>1, <1>2, FieldTypes
<1>5. Linked(m) /\ m.left = r.left /\ m.st = [r.st EXCEPT ![w] = "RUNNING"]
  <2>1. r.st[w] \in {"IDLE", "RUNNING"} /\ "RUNNING" \in {"IDLE", "RUNNING"}
    BY <1>4
  <2> QED BY <1>2, <2>1, TurnKeepsLinks
<1> HIDE DEF m
<1>6. Linked(Lists)' /\ st' = m.st /\ left' = m.left
  BY <1>3, <1>5, InstallLinks
<1>7. st'[w] = "RUNNING" /\ \A v \in Works \ {w} : st'[v] = l.st[v] /\ left'[v] = l.left[v]
  <2>1. r.st \in [Works -> WorkStates]
    BY <1>2, FieldTypes
  <2> QED BY <2>1, <1>4, <1>5, <1>6
<1>8. /\ pc' = "callback" /\ budget' = budget - 1 /\ executed' = TRUE
      /\ owed' = owed \ {w} /\ due' = [due EXCEPT ![w] = 0]
  BY DEF Take
<1>9. Others'
  <2>1. budget' \in 0..(HighBudget + NormalBudget)
    <3>1. budget \in 0..(HighBudget + NormalBudget) /\ HighBudget \in Nat
          /\ NormalBudget \in Nat
      BY <1>0, BudgetAssumption DEF Others
    <3> QED BY <1>8, <3>1
  <2>2. due' \in [Works -> Times]
    BY <1>0, <1>8, TimeTypes DEF Others
  <2> QED BY <1>0, <1>8, <2>1, <2>2 DEF Others
<1>10. ASSUME NEW v \in Works \ {w} PROVE Kept(v)'
  <2>1. Kept(v)
    BY DEF IInv
  <2>2. due'[v] = due[v] /\ (v \in owed' <=> v \in owed)
    BY <1>0, <1>8 DEF Others
  <2>3. \/ st'[v] = st[v] /\ left'[v] = left[v]
        \/ st[v] = "DELAYED" /\ left[v] <= 0 /\ st'[v] = "READY"
    BY <1>1, <1>7
  <2> QED BY <2>1, <2>2, <2>3, UntouchedIsKept
<1>11. Kept(w)'
  <2>1. st[w] \in {"READY", "DELAYED"}
    BY <1>1
  <2>2. rerun[w] = "no" /\ w \in registered
    BY <1>0, <2>1 DEF Kept
  <2> QED BY <2>2, <1>7, <1>8 DEF Kept
<1>12. OneRuns'
  <2>1. \A v \in Works : st[v] # "RUNNING"
    BY DEF IInv, OneRuns
  <2>2. \A v \in Works \ {w} : st'[v] # "RUNNING"
    BY <2>1, <1>1, <1>7
  <2> QED BY <2>2, <1>7, <1>8 DEF OneRuns
<1>13. Awake'
  BY <1>8 DEF Awake
<1> QED BY <1>6, <1>9, <1>10, <1>11, <1>12, <1>13 DEF IInv

(* It finds the list empty, or has used its budget. *)
LEMMA PassKeeps ==
  ASSUME IInv, Install(PromoteDue(Lists)), pc \in {"high", "normal"},
         pc' \in {"normal", "loop", "timeout"}, Others',
         UNCHANGED <<registered, rerun, rerunLeft, cancelled, owed, due>>
  PROVE  IInv'
<1> DEFINE l == PromoteDue(Lists)
<1>1. /\ Linked(l)
      /\ \A v \in Works : \/ l.st[v] = st[v] /\ l.left[v] = left[v]
                          \/ /\ st[v] = "DELAYED" /\ left[v] <= 0
                             /\ l.st[v] = "READY"
  BY PromotedLists DEF IInv
<1> HIDE DEF l
<1>2. Linked(Lists)' /\ st' = l.st /\ left' = l.left
  BY <1>1, InstallLinks DEF l
<1>3. ASSUME NEW v \in Works PROVE Kept(v)'
  <2>1. Kept(v)
    BY DEF IInv
  <2>2. \/ st'[v] = st[v] /\ left'[v] = left[v]
        \/ st[v] = "DELAYED" /\ left[v] <= 0 /\ st'[v] = "READY"
    BY <1>1, <1>2
  <2> QED BY <2>1, <2>2, UntouchedIsKept
<1>4. OneRuns'
  <2>1. \A v \in Works : st[v] # "RUNNING"
    BY DEF IInv, OneRuns
  <2>2. \A v \in Works : st'[v] # "RUNNING"
    BY <2>1, <1>1, <1>2
  <2> QED BY <2>2 DEF OneRuns
<1>5. Awake'
  BY DEF Awake
<1> QED BY <1>2, <1>3, <1>4, <1>5 DEF IInv

(* The dispatcher promotes what is due and starts a callback. *)
LEMMA ExecuteKeeps ==
  ASSUME IInv, ExecuteHigh \/ ExecuteNormal
  PROVE  IInv'
<1> DEFINE l == PromoteDue(Lists)
<1>0. Linked(l) /\ Others
  BY PromotedLists DEF IInv
<1>1. ASSUME NEW S, NEW s \in Seq(S), s # <<>> PROVE s[1] \in Members(s)
  BY <1>1 DEF Members
<1>2. /\ l.high # <<>> => l.high[1] \in Works /\ l.st[l.high[1]] = "READY"
      /\ l.normal # <<>> => l.normal[1] \in Works /\ l.st[l.normal[1]] = "READY"
  <2> HIDE DEF l
  <2>1. l.high \in Seq(HighWorks) /\ l.normal \in Seq(NormalWorks)
    BY <1>0, FieldTypes
  <2>2. l.high # <<>> => l.high[1] \in Members(l.high)
    BY <1>1, <2>1
  <2>3. l.normal # <<>> => l.normal[1] \in Members(l.normal)
    BY <1>1, <2>1
  <2> QED BY <1>0, <2>2, <2>3 DEF Linked
<1>3. CASE ExecuteHigh
  <2>1. CASE budget > 0 /\ l.high # <<>>
    <3>1. Take(l, l.high[1])
      BY <1>3, <2>1 DEF ExecuteHigh
    <3>2. /\ pc \in {"high", "normal"}
          /\ UNCHANGED <<registered, rerun, rerunLeft, cancelled, quiescing, sleep,
                         signalled>>
      BY <1>3 DEF ExecuteHigh
    <3> QED BY <1>2, <2>1, <3>1, <3>2, TakeKeeps
  <2>2. CASE ~(budget > 0 /\ l.high # <<>>)
    <3>1. /\ Install(l) /\ pc' = "normal" /\ budget' = NormalBudget
          /\ pc = "high" /\ UNCHANGED <<executed, owed, due>>
          /\ UNCHANGED <<registered, rerun, rerunLeft, cancelled, quiescing, sleep,
                         signalled>>
      BY <1>3, <2>2 DEF ExecuteHigh
    <3>2. NormalBudget \in 0..(HighBudget + NormalBudget)
      BY BudgetAssumption
    <3>3. Others'
      BY <1>0, <3>1, <3>2 DEF Others
    <3> QED BY <3>1, <3>3, PassKeeps
  <2> QED BY <2>1, <2>2
<1>4. CASE ExecuteNormal
  <2>1. CASE budget > 0 /\ l.normal # <<>>
    <3>1. Take(l, l.normal[1])
      BY <1>4, <2>1 DEF ExecuteNormal
    <3>2. /\ pc \in {"high", "normal"}
          /\ UNCHANGED <<registered, rerun, rerunLeft, cancelled, quiescing, sleep,
                         signalled>>
      BY <1>4 DEF ExecuteNormal
    <3> QED BY <1>2, <2>1, <3>1, <3>2, TakeKeeps
  <2>2. CASE ~(budget > 0 /\ l.normal # <<>>)
    <3>1. /\ Install(l) /\ pc' = (IF executed THEN "loop" ELSE "timeout")
          /\ budget' = 0 /\ executed' = FALSE
          /\ pc = "normal" /\ UNCHANGED <<owed, due>>
          /\ UNCHANGED <<registered, rerun, rerunLeft, cancelled, quiescing, sleep,
                         signalled>>
      BY <1>4, <2>2 DEF ExecuteNormal
    <3>2. 0 \in 0..(HighBudget + NormalBudget)
      BY BudgetAssumption
    <3>3. Others' /\ pc' \in {"normal", "loop", "timeout"}
      BY <1>0, <3>1, <3>2 DEF Others
    <3> QED BY <3>1, <3>3, PassKeeps
  <2> QED BY <2>1, <2>2
<1> QED BY <1>3, <1>4

(* workqueue_finish: cancelled, idle, or queued again. *)
LEMMA FinishKeeps ==
  ASSUME IInv, NEW w \in Works, Finish(w)
  PROVE  IInv'
<1> DEFINE idle == [Lists EXCEPT !.st[w] = "IDLE"]
           again == ~cancelled[w] /\ rerun[w] # "no"
           later == rerun[w] = "later" /\ rerunLeft[w] > 0
           m == IF ~again THEN idle
                ELSE IF later THEN DelayedInsert(idle, w, rerunLeft[w])
                ELSE ReadyAppend(idle, w)
<1>0. Linked(Lists) /\ Others /\ Kept(w) /\ pc = "callback" /\ st[w] = "RUNNING"
  BY DEF IInv, Finish, Running
<1>1. /\ Install(m)
      /\ rerun' = [rerun EXCEPT ![w] = "no"]
      /\ rerunLeft' = [rerunLeft EXCEPT ![w] = 0]
      /\ cancelled' = [cancelled EXCEPT ![w] = FALSE]
      /\ pc' = (IF w \in HighWorks THEN "high" ELSE "normal")
      /\ UNCHANGED <<registered, quiescing, budget, executed, sleep, signalled,
                     owed, due>>
  BY DEF Finish
<1>2. /\ Linked(idle) /\ idle.left = left /\ idle.st = [st EXCEPT ![w] = "IDLE"]
  <2>1. Lists.st[w] \in {"IDLE", "RUNNING"}
    BY <1>0, ListFields
  <2>2. /\ Linked(idle) /\ idle.left = Lists.left
        /\ idle.st = [Lists.st EXCEPT ![w] = "IDLE"]
    BY <1>0, <2>1, TurnKeepsLinks
  <2> HIDE DEF idle
  <2> QED BY <2>2, ListFields
<1> HIDE DEF idle
<1>3. /\ idle.st[w] = "IDLE" /\ rerunLeft[w] \in Times /\ rerunLeft[w] \in Int
      /\ \A v \in Works \ {w} : idle.st[v] = st[v] /\ idle.left[v] = left[v]
      /\ due[w] \in Int /\ idle.left \in [Works -> Times]
      /\ idle.st \in [Works -> WorkStates]
  <2>1. st \in [Works -> WorkStates]
    BY <1>0, FieldTypes, ListFields
  <2>2. rerunLeft[w] \in Times /\ due[w] \in Times
    BY <1>0 DEF Others
  <2> QED BY <2>1, <2>2, <1>2, TimeTypes, FieldTypes
<1>4. /\ Linked(m)
      /\ \A v \in Works \ {w} : m.st[v] = st[v] /\ m.left[v] = left[v]
      /\ ~again => m.st[w] = "IDLE"
      /\ again /\ later => m.st[w] = "DELAYED" /\ m.left[w] = rerunLeft[w]
      /\ again /\ ~later => m.st[w] = "READY"
  <2> HIDE DEF again, later
  <2>1. CASE ~again
    BY <2>1, <1>2, <1>3
  <2>2. CASE again /\ later
    <3>1. m = DelayedInsert(idle, w, rerunLeft[w])
      BY <2>2
    <3> HIDE DEF m
    <3>2. /\ Linked(m) /\ m.left = [idle.left EXCEPT ![w] = rerunLeft[w]]
          /\ m.st = [idle.st EXCEPT ![w] = "DELAYED"]
      BY <3>1, <1>2, <1>3, InsertKeepsLinks
    <3> QED BY <2>2, <3>2, <1>3
  <2>3. CASE again /\ ~later
    <3>1. m = ReadyAppend(idle, w)
      BY <2>3
    <3> HIDE DEF m
    <3>2. /\ Linked(m) /\ m.left = idle.left
          /\ m.st = [idle.st EXCEPT ![w] = "READY"]
      BY <3>1, <1>2, <1>3, AppendKeepsLinks
    <3> QED BY <2>3, <3>2, <1>3
  <2> QED BY <2>1, <2>2, <2>3
<1> HIDE DEF m
<1>5. Linked(Lists)' /\ st' = m.st /\ left' = m.left
  BY <1>1, <1>4, InstallLinks
<1>6. Others'
  <2>1. /\ cancelled' \in [Works -> BOOLEAN] /\ rerunLeft' \in [Works -> Times]
        /\ rerun' \in [Works -> {"no", "now", "later"}]
    BY <1>0, <1>1, TimeTypes DEF Others
  <2> QED BY <1>0, <1>1, <2>1 DEF Others
<1>7. ASSUME NEW v \in Works \ {w} PROVE Kept(v)'
  <2>1. Kept(v)
    BY DEF IInv
  <2>2. /\ rerun'[v] = rerun[v] /\ rerunLeft'[v] = rerunLeft[v]
        /\ cancelled'[v] = cancelled[v] /\ due'[v] = due[v]
        /\ (v \in owed' <=> v \in owed) /\ registered' = registered
    BY <1>0, <1>1 DEF Others
  <2> QED BY <2>1, <2>2, <1>4, <1>5, UntouchedIsKept
<1>8. Kept(w)'
  <2>1. rerun'[w] = "no" /\ w \in registered /\ UNCHANGED <<registered, owed, due>>
    BY <1>0, <1>1 DEF Others, Kept
  <2>2. CASE ~again
    <3>1. w \notin owed
      BY <2>2, <1>0 DEF Kept, Pending
    <3> QED BY <2>1, <2>2, <3>1, <1>4, <1>5 DEF Kept
  <2>3. CASE again /\ later
    <3>1. w \in owed /\ due[w] = rerunLeft[w]
      BY <2>3, <1>0 DEF Kept, Pending
    <3> QED BY <2>1, <2>3, <3>1, <1>4, <1>5 DEF Kept, Pending
  <2>4. CASE again /\ ~later
    <3>1. w \in owed /\ due[w] <= 0
      BY <2>4, <1>0, <1>3 DEF Kept, Pending
    <3> QED BY <2>1, <2>4, <3>1, <1>4, <1>5 DEF Kept, Pending
  <2> QED BY <2>2, <2>3, <2>4
<1>9. OneRuns'
  <2>1. \A v \in Works \ {w} : st[v] # "RUNNING"
    BY <1>0 DEF IInv, OneRuns
  <2>2. \A v \in Works : st'[v] # "RUNNING"
    BY <2>1, <1>4, <1>5
  <2> QED BY <2>2, <1>1 DEF OneRuns
<1>10. Awake'
  BY <1>1 DEF Awake
<1> QED BY <1>5, <1>6, <1>7, <1>8, <1>9, <1>10 DEF IInv

(* The timer changes times only, by the same amount where they are related. *)
LEMMA TickKeeps ==
  ASSUME IInv, Tick
  PROVE  IInv'
<1>0. Linked(Lists) /\ Others /\ left \in [Works -> Times]
  <2>1. Linked(Lists) /\ Others
    BY DEF IInv
  <2> QED BY <2>1, FieldTypes, ListFields
<1>1. /\ left' = [w \in Works |-> IF st[w] = "DELAYED" THEN Nearer(left[w])
                                  ELSE left[w]]
      /\ rerunLeft' = [w \in Works |-> IF rerun[w] = "later"
                                       THEN Nearer(rerunLeft[w]) ELSE rerunLeft[w]]
      /\ due' = [w \in Works |-> IF w \in owed THEN Nearer(due[w]) ELSE due[w]]
      /\ sleep' = (IF sleep > 0 THEN sleep - 1 ELSE sleep)
      /\ pc' = (IF pc = "asleep" /\ sleep = 1 THEN "loop" ELSE pc)
      /\ UNCHANGED <<registered, st, rerun, cancelled, quiescing, budget,
                     executed, signalled, owed>>
      /\ high' = high /\ normal' = normal /\ delayed' = delayed
  BY DEF Tick, lists
<1>2. left' \in [Works -> Times] /\ rerunLeft' \in [Works -> Times]
      /\ due' \in [Works -> Times]
  BY <1>0, <1>1, TimeTypes DEF Others
<1>3. Linked(Lists)'
  <2>1. Lists' \in ListTypes
    BY <1>0, <1>1, <1>2, FieldTypes, ListFields DEF Lists, ListTypes
  <2> QED BY <2>1, <1>0, <1>1 DEF Linked, Lists
<1>4. Others'
  <2>1. sleep' \in Never..MaxDelay
    <3>1. sleep \in Never..MaxDelay /\ MaxDelay \in Nat
      BY <1>0, DelayAssumption DEF Others
    <3> QED BY <1>1, <3>1 DEF Never
  <2> QED BY <1>0, <1>1, <1>2, <2>1 DEF Others
<1>5. ASSUME NEW w \in Works PROVE Kept(w)'
  <2>1. /\ st'[w] = st[w] /\ rerun'[w] = rerun[w] /\ cancelled'[w] = cancelled[w]
        /\ owed' = owed /\ registered' = registered /\ Kept(w)
    BY <1>1 DEF IInv
  <2>2. ASSUME w \in owed PROVE Pending(w)'
    <3>1. /\ due'[w] = Nearer(due[w])
          /\ st[w] = "DELAYED" => left'[w] = Nearer(left[w])
          /\ rerun[w] = "later" => rerunLeft'[w] = Nearer(rerunLeft[w])
      BY <1>1, <2>2
    <3>2. due[w] <= 0 => due'[w] <= 0
      BY <3>1, <1>0, TimeTypes DEF Others
    <3>3. Pending(w)
      BY <2>1, <2>2 DEF Kept
    <3> QED BY <2>1, <3>1, <3>2, <3>3 DEF Pending
  <2> QED BY <2>1, <2>2 DEF Kept
<1>6. OneRuns'
  BY <1>1 DEF IInv, OneRuns
<1>7. Awake'
  <2>1. sleep \in Int /\ (sleep # Never => sleep' # Never)
    <3>1. sleep \in Never..MaxDelay /\ MaxDelay \in Nat
      BY <1>0, DelayAssumption DEF Others
    <3> QED BY <1>1, <3>1 DEF Never
  <2> QED BY <2>1, <1>1 DEF IInv, Awake
<1> QED BY <1>3, <1>4, <1>5, <1>6, <1>7 DEF IInv

(* Quiescing empties the lists, and never finds a callback running. *)
LEMMA QuiesceKeeps ==
  ASSUME IInv, Quiesce
  PROVE  IInv'
<1>1. /\ \A w \in Works : st[w] # "RUNNING"
      /\ quiescing' = TRUE
      /\ high' = <<>> /\ normal' = <<>> /\ delayed' = <<>>
      /\ st' = [w \in Works |-> "IDLE"]
      /\ rerun' = [w \in Works |-> "no"]
      /\ rerunLeft' = [w \in Works |-> 0]
      /\ cancelled' = [w \in Works |-> FALSE]
      /\ owed' = {} /\ due' = [w \in Works |-> 0]
      /\ left' = [w \in Works |-> 0]
      /\ UNCHANGED <<registered, pc, budget, executed, sleep, signalled>>
  BY DEF Quiesce, loopVars
<1>2. Members(<<>>) = {} /\ Distinct(<<>>)
  BY DEF Members, Distinct
<1>3. Linked(Lists)'
  <2>1. Lists' \in ListTypes
    BY <1>1, TimeTypes DEF Lists, ListTypes, WorkStates
  <2> QED BY <1>1, <1>2, <2>1 DEF Linked, Lists
<1>4. Others'
  BY <1>1, TimeTypes DEF IInv, Others
<1>5. \A w \in Works : Kept(w)'
  BY <1>1 DEF Kept
<1>6. OneRuns'
  BY <1>1 DEF IInv, OneRuns
<1>7. Awake'
  BY <1>1 DEF Awake
<1> QED BY <1>3, <1>4, <1>5, <1>6, <1>7 DEF IInv

(* work_destroy takes an IDLE work, to which nothing is owed. *)
LEMMA DestroyKeeps ==
  ASSUME IInv, NEW w \in Works, Destroy(w)
  PROVE  IInv'
<1>1. /\ st[w] = "IDLE" /\ registered' = registered \ {w}
      /\ cancelled' = [cancelled EXCEPT ![w] = FALSE]
      /\ high' = high /\ normal' = normal /\ delayed' = delayed
      /\ st' = st /\ left' = left /\ rerun' = rerun /\ rerunLeft' = rerunLeft
      /\ UNCHANGED <<quiescing, pc, budget, executed, sleep, signalled, owed, due>>
  BY DEF Destroy, lists, loopVars
<1>2. Others'
  BY <1>1 DEF IInv, Others
<1>3. Linked(Lists)'
  <2>1. Lists' = Lists
    BY <1>1 DEF Lists
  <2> QED BY <2>1 DEF IInv, Linked
<1>4. ASSUME NEW v \in Works PROVE Kept(v)'
  <2>1. Kept(v) /\ cancelled \in [Works -> BOOLEAN]
    BY DEF IInv, Others
  <2>2. CASE v = w
    BY <2>1, <2>2, <1>1 DEF Kept, Pending
  <2>3. CASE v # w
    BY <2>1, <2>3, <1>1 DEF Kept, Pending
  <2> QED BY <2>2, <2>3
<1>5. OneRuns' /\ Awake'
  BY <1>1 DEF IInv, OneRuns, Awake
<1> QED BY <1>2, <1>3, <1>4, <1>5 DEF IInv

(* The steps of the kworker that only decide whether it sleeps, and for    *)
(* how long.                                                               *)
LEMMA LoopKeeps ==
  ASSUME IInv, StartWorker \/ Dispatch \/ ComputeTimeout \/ Snapshot \/ Block
  PROVE  IInv'
<1>0. Linked(Lists) /\ Others /\ Awake
  BY DEF IInv
<1>1. CASE StartWorker
  <2>1. /\ UNCHANGED <<lists, workVars, owed, due>> /\ registered' = registered
        /\ pc = "boot" /\ pc' = "loop"
        /\ UNCHANGED <<quiescing, budget, executed, sleep, signalled>>
    BY <1>1 DEF StartWorker
  <2>2. Others' /\ Awake'
    BY <1>0, <2>1 DEF Others, Awake, workVars
  <2> QED BY <2>1, <2>2, QuietStepKeeps
<1>2. CASE Dispatch
  <2>1. /\ UNCHANGED <<lists, workVars, owed, due>> /\ registered' = registered
        /\ pc = "loop" /\ pc' = (IF quiescing THEN "timeout" ELSE "high")
        /\ budget' = HighBudget /\ executed' = FALSE /\ sleep' = Never
        /\ UNCHANGED <<quiescing, signalled>>
    BY <1>2 DEF Dispatch
  <2>2. /\ HighBudget \in 0..(HighBudget + NormalBudget)
        /\ Never \in Never..MaxDelay
    BY BudgetAssumption, DelayAssumption DEF Never
  <2>3. Others' /\ Awake'
    BY <1>0, <2>1, <2>2 DEF Others, Awake, workVars
  <2> QED BY <2>1, <2>3, QuietStepKeeps
<1>3. CASE ComputeTimeout
  <2>1. /\ UNCHANGED <<lists, workVars, owed, due>> /\ registered' = registered
        /\ pc = "timeout" /\ pc' = "snapshot" /\ sleep' = NextTimeout
        /\ UNCHANGED <<quiescing, budget, executed, signalled>>
    BY <1>3 DEF ComputeTimeout
  <2>2. /\ NextTimeout \in Never..MaxDelay
        /\ delayed # <<>> => NextTimeout # Never
    <3>1. delayed \in Seq(Works) /\ left \in [Works -> Times]
      BY <1>0, FieldTypes, ListFields
    <3>2. delayed # <<>> => delayed[1] \in Works
      BY <3>1
    <3>3. delayed # <<>> => left[delayed[1]] \in (-MaxLate)..MaxDelay
      BY <3>1, <3>2 DEF Times
    <3>4. MaxDelay \in Nat /\ MaxLate \in Nat
      BY DelayAssumption
    <3> QED BY <3>3, <3>4 DEF NextTimeout, Never
  <2>3. Others' /\ Awake'
    <3>1. delayed' = delayed
      BY <2>1 DEF lists
    <3> QED BY <1>0, <2>1, <2>2, <3>1 DEF Others, Awake, workVars
  <2> QED BY <2>1, <2>3, QuietStepKeeps
<1>4. CASE Snapshot
  <2>1. /\ UNCHANGED <<lists, workVars, owed, due>> /\ registered' = registered
        /\ pc = "snapshot" /\ pc' = (IF WaitCondition THEN "loop" ELSE "block")
        /\ signalled' = FALSE
        /\ UNCHANGED <<quiescing, budget, executed, sleep>>
    BY <1>4 DEF Snapshot
  <2>2. Others'
    BY <1>0, <2>1 DEF Others, workVars
  <2>3. Awake'
    BY <1>0, <2>1 DEF Awake, WaitCondition, lists
  <2> QED BY <2>1, <2>2, <2>3, QuietStepKeeps
<1>5. CASE Block
  <2>1. /\ UNCHANGED <<lists, workVars, owed, due>> /\ registered' = registered
        /\ pc = "block" /\ signalled' = FALSE
        /\ pc' = (IF signalled THEN "snapshot"
                  ELSE IF sleep = 0 THEN "loop" ELSE "asleep")
        /\ UNCHANGED <<quiescing, budget, executed, sleep>>
    BY <1>5 DEF Block
  <2>2. Others'
    BY <1>0, <2>1 DEF Others, workVars
  <2>3. Awake'
    BY <1>0, <2>1 DEF Awake, lists, Others
  <2> QED BY <2>1, <2>2, <2>3, QuietStepKeeps
<1> QED BY <1>1, <1>2, <1>3, <1>4, <1>5

(* work_init, and the gate of the power transaction. *)
LEMMA GateKeeps ==
  ASSUME IInv, SetQuiescing \/ \E w \in Works : Register(w)
  PROVE  IInv'
<1>1. /\ UNCHANGED <<lists, workVars, owed, due>> /\ registered \subseteq registered'
      /\ registered' \subseteq registered \cup Works
      /\ UNCHANGED <<pc, budget, executed, sleep, signalled>>
      /\ quiescing' \in BOOLEAN
  <2>1. quiescing \in BOOLEAN
    BY DEF IInv, Others
  <2>2. CASE SetQuiescing
    BY <2>1, <2>2 DEF SetQuiescing, loopVars
  <2>3. CASE \E w \in Works : Register(w)
    BY <2>1, <2>3 DEF Register, loopVars
  <2> QED BY <2>2, <2>3
<1>2. Others'
  BY <1>1 DEF IInv, Others, workVars
<1>3. Awake'
  BY <1>1 DEF IInv, Awake, lists
<1> QED BY <1>1, <1>2, <1>3, QuietStepKeeps

(* Every step keeps the invariant. *)
LEMMA NextIInv == IInv /\ [Next]_vars => IInv'
<1> SUFFICES ASSUME IInv, [Next]_vars PROVE IInv'
  OBVIOUS
<1>1. 0 \in 0..MaxDelay /\ 1..MaxDelay \subseteq 0..MaxDelay
  BY DelayAssumption
<1>2. ASSUME NEW w \in Works, Schedule(w) PROVE IInv'
  BY <1>1, <1>2, ScheduleOnKeeps DEF Schedule
<1>3. ASSUME NEW w \in Works, NEW d \in 0..MaxDelay, ScheduleSelf(w, d) PROVE IInv'
  BY <1>3, ScheduleOnKeeps DEF ScheduleSelf
<1>4. ASSUME NEW w \in Works, NEW d \in 1..MaxDelay, ScheduleAtBoot(w, d) PROVE IInv'
  BY <1>1, <1>4, ScheduleOnKeeps DEF ScheduleAtBoot
<1>5. CASE Worker
  BY <1>5, LoopKeeps, ExecuteKeeps, FinishKeeps DEF Worker
<1>6. CASE UNCHANGED vars
  <2>1. /\ UNCHANGED <<lists, workVars, owed, due, registered, quiescing>>
        /\ UNCHANGED <<pc, budget, executed, sleep, signalled>>
    BY <1>6 DEF vars, lists, workVars
  <2>2. Others'
    BY <2>1 DEF IInv, Others, workVars
  <2>3. Awake'
    BY <2>1 DEF IInv, Awake, lists
  <2> QED BY <2>1, <2>2, <2>3, QuietStepKeeps
<1> QED BY <1>2, <1>3, <1>4, <1>5, <1>6, TickKeeps, QuiesceKeeps, GateKeeps,
           CancelKeeps, DestroyKeeps DEF Next

(* Spec => []IInv, from which the three safety properties follow. *)
THEOREM WorkqueueInvariant == Spec => []IInv
BY InitIInv, NextIInv, PTL DEF Spec

(* The lists of core/workqueue.c agree with the states of the works        *)
(* through every coalescing, promotion, rerun, cancel and quiesce.         *)
THEOREM ListsAreExact == Spec => []ListsMatchStates
<1>1. IInv => ListsMatchStates
  <2> SUFFICES ASSUME IInv PROVE ListsMatchStates
    OBVIOUS
  <2>1. TypeOK
    BY Types DEF IInv
  <2>2. /\ Distinct(high) /\ Distinct(normal) /\ Distinct(delayed)
        /\ Members(high) \cup Members(normal) = {w \in Works : st[w] = "READY"}
        /\ Members(delayed) = {w \in Works : st[w] = "DELAYED"}
    BY ListFields DEF IInv, Linked
  <2> QED BY <2>1, <2>2 DEF ListsMatchStates, Distinct, IInv, Kept, OneRuns
<1> QED BY <1>1, WorkqueueInvariant, PTL

(* No request of workqueue_schedule_on that was accepted is lost, and none *)
(* loses its deadline.                                                     *)
THEOREM NoRequestIsLost == Spec => []NoLostRequest
<1>1. IInv => NoLostRequest
  BY DEF IInv, Others, Kept, NoLostRequest
<1> QED BY <1>1, WorkqueueInvariant, PTL

(* workqueue_worker_main never sleeps over a READY work, nor without a     *)
(* timeout while one is delayed.                                           *)
THEOREM KworkerDoesNotOversleep == Spec => []NoOversleep
<1>1. IInv => NoOversleep
  BY DEF IInv, Awake, NoOversleep
<1> QED BY <1>1, WorkqueueInvariant, PTL
=============================================================================
