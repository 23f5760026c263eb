------------------------- MODULE ToolServices_proofs --------------------------
(***************************************************************************)
(* Proofs about components of ToolServices, for every value of their        *)
(* constants.                                                               *)
(***************************************************************************)
EXTENDS ToolServices, FiniteSetTheorems, SequenceTheorems, WellFoundedInduction, TLAPS

LimitRecord == [Access!Windows -> Nat]

KeyRow == [enabled : BOOLEAN, limits : LimitRecord, rateWindowS : Nat \ {0},
           profile : Access!Profiles \cup {"gone"}]

(* Wherever a row is kept (the table, the metadata of a call, the copy of   *)
(* an update), it is a row.                                                 *)
RowsOK ==
    /\ key \in KeyRow
    /\ call \in [Calls -> [at : {"idle", "acl", "limit"}, meta : KeyRow]]
    /\ admin \in [Admins -> [at : {"idle", "update", "insert"}, meta : KeyRow]]

(* A counter asked for under one length only lives as long as its window,   *)
(* and has all its admitted calls.                                          *)
CounterOK(s) ==
    /\ counters[s] <= admitted[s]
    /\ s[1] # "rate" => lengths[s] \subseteq {Period[s[1]]}
    /\ lengths[s] = {} => admitted[s] = 0
    /\ \A l \in lengths[s] : lengths[s] = {l} =>
          counters[s] = admitted[s] /\ expiry[s] >= s[2] + l /\ admitted[s] <= applied[s]
CountsOK ==
    /\ counters \in [Access!Slots -> Nat] /\ expiry \in [Access!Slots -> Nat]
    /\ admitted \in [Access!Slots -> Nat] /\ applied \in [Access!Slots -> Nat]
    /\ lengths \in [Access!Slots -> SUBSET (Nat \ {0})]
    /\ \A s \in Access!Slots : CounterOK(s)

AccessInv == RowsOK /\ CountsOK /\ clock \in Nat

LEMMA GoneIsRow == Access!Gone \in KeyRow
BY DEF Access!Gone, KeyRow, LimitRecord

LEMMA IdleRecord ==
    /\ Access!Idle \in [at : {"idle", "acl", "limit"}, meta : KeyRow]
    /\ Access!Idle \in [at : {"idle", "update", "insert"}, meta : KeyRow]
BY GoneIsRow DEF Access!Idle

LEMMA AccessInit == Access!Init => AccessInv
<1> SUFFICES ASSUME Access!Init PROVE AccessInv
  OBVIOUS
<1>1. key \in KeyRow
  BY GoneIsRow DEF Access!Init, KeyRow, Access!Profiles
<1>2. RowsOK
  BY <1>1, IdleRecord DEF Access!Init, RowsOK
<1>3. CountsOK /\ clock \in Nat
  BY DEF Access!Init, CountsOK, CounterOK
<1> QED
  BY <1>2, <1>3 DEF AccessInv

(* The window of a call has begun and is not over, and its counter, when    *)
(* the call creates it, lives to its end.                                   *)
LEMMA InItsWindow ==
    ASSUME clock \in Nat, NEW meta \in KeyRow, NEW w \in Access!Windows
    PROVE  /\ Access!Length(meta, w) \in Nat \ {0}
           /\ Access!Slot(meta, w) \in Access!Windows \X Nat
           /\ Access!Slot(meta, w)[1] = w
           /\ clock < Access!Slot(meta, w)[2] + Access!Length(meta, w)
           /\ Access!ExpiresAt(meta, w) \in Nat
           /\ Access!ExpiresAt(meta, w) >= Access!Slot(meta, w)[2] + Access!Length(meta, w)
<1>1. Access!Length(meta, w) \in Nat \ {0}
  BY LimitsAreNumbers DEF Access!Length, Access!Windows, KeyRow
<1>2. ASSUME NEW l \in Nat \ {0}
      PROVE  clock - (clock % l) \in Nat /\ clock < clock - (clock % l) + l /\ clock - (clock % l) <= clock
  BY <1>2
<1>3. /\ Access!Slot(meta, w)[1] = w
      /\ Access!Slot(meta, w)[2] = clock - (clock % Access!Length(meta, w))
      /\ Access!Slot(meta, w) = <<w, clock - (clock % Access!Length(meta, w))>>
  BY DEF Access!Slot
<1>4. w = "rate" => Access!ExpiresAt(meta, w) = clock + Access!Length(meta, w)
  BY DEF Access!ExpiresAt, Access!Length
<1>5. w # "rate" => Access!ExpiresAt(meta, w) = Access!Slot(meta, w)[2] + Access!Length(meta, w) + 1
  BY DEF Access!ExpiresAt, Access!Length
<1> QED
  BY <1>1, <1>2, <1>3, <1>4, <1>5

(* The script admits only where every counter is below its limit, and takes *)
(* one of each or none.                                                     *)
LEMMA ReserveCounts ==
    ASSUME AccessInv, NEW c \in Calls, Access!AllowWithReason(c)
    PROVE  CountsOK'
<1> DEFINE meta == call[c].meta
           ws == Access!RateWindows(meta)
           allowed == \A w \in ws : ~Access!Full(meta, w)
           charged(s) == allowed /\ \E w \in ws : s = Access!Slot(meta, w)
<1>1. meta \in KeyRow /\ ws \subseteq Access!Windows /\ clock \in Nat
  BY DEF AccessInv, RowsOK, Access!RateWindows
<1>2. CASE UNCHANGED <<counters, expiry, admitted, applied, lengths>>
  BY <1>2 DEF AccessInv, CountsOK, CounterOK
<1>3. CASE ~UNCHANGED <<counters, expiry, admitted, applied, lengths>>
  <2>1. /\ counters' = [s \in Access!Slots |-> IF charged(s) THEN Access!Current(s) + 1
                                                           ELSE counters[s]]
        /\ expiry' = [s \in Access!Slots |->
              IF charged(s) /\ Access!Current(s) = 0 THEN Access!ExpiresAt(meta, s[1]) ELSE expiry[s]]
        /\ admitted' = [s \in Access!Slots |-> admitted[s] + IF charged(s) THEN 1 ELSE 0]
        /\ applied' = [s \in Access!Slots |-> IF charged(s) /\ meta.limits[s[1]] > applied[s]
                                             THEN meta.limits[s[1]] ELSE applied[s]]
        /\ lengths' = [s \in Access!Slots |-> lengths[s] \cup
                         IF charged(s) THEN {Access!Length(meta, s[1])} ELSE {}]
    BY <1>3 DEF Access!AllowWithReason, Access!Reserve, Access!Incremented, Access!reserveVars
  <2> HIDE DEF meta, ws, allowed
  <2>2. ASSUME NEW s \in Access!Slots
        PROVE  /\ counters'[s] \in Nat /\ expiry'[s] \in Nat /\ admitted'[s] \in Nat
               /\ applied'[s] \in Nat /\ lengths'[s] \in SUBSET (Nat \ {0})
               /\ CounterOK(s)'
    <3>1. /\ counters[s] \in Nat /\ expiry[s] \in Nat /\ admitted[s] \in Nat
          /\ applied[s] \in Nat /\ lengths[s] \in SUBSET (Nat \ {0}) /\ CounterOK(s)
      BY DEF AccessInv, CountsOK
    <3>2. CASE ~charged(s)
      <4>1. /\ counters'[s] = counters[s] /\ expiry'[s] = expiry[s] /\ admitted'[s] = admitted[s]
            /\ applied'[s] = applied[s] /\ lengths'[s] = lengths[s]
        BY <2>1, <3>1, <3>2
      <4> QED
        BY <3>1, <4>1 DEF CounterOK
    <3>3. CASE charged(s)
      <4> DEFINE l == Access!Length(meta, s[1])
                 now == Access!Current(s)
                 e == Access!ExpiresAt(meta, s[1])
                 limit == meta.limits[s[1]]
      <4>1. PICK w \in ws : s = Access!Slot(meta, w) /\ ~Access!Full(meta, w)
        BY <3>3 DEF allowed
      <4>2. /\ s[1] = w /\ w \in Access!Windows /\ l \in Nat \ {0} /\ s[2] \in Nat
            /\ clock < s[2] + l /\ e \in Nat /\ e >= s[2] + l
        BY <1>1, <4>1, InItsWindow
      <4>3. /\ limit \in Nat /\ now \in Nat /\ now < limit /\ now <= counters[s]
            /\ clock < expiry[s] => now = counters[s]
        <5>1. limit \in Nat
          BY <1>1, <4>2 DEF KeyRow, LimitRecord
        <5>2. now \in Nat /\ now <= counters[s] /\ (clock < expiry[s] => now = counters[s])
          BY <3>1 DEF Access!Current
        <5>3. ~(now >= limit)
          BY <4>1, <4>2 DEF Access!Full
        <5> QED
          BY <5>1, <5>2, <5>3
      <4>4. s[1] # "rate" => l = Period[s[1]]
        BY DEF Access!Length
      <4>5. /\ counters'[s] = now + 1 /\ admitted'[s] = admitted[s] + 1
            /\ expiry'[s] = IF now = 0 THEN e ELSE expiry[s]
            /\ applied'[s] = IF limit > applied[s] THEN limit ELSE applied[s]
            /\ lengths'[s] = lengths[s] \cup {l}
        BY <2>1, <3>3
      <4> HIDE DEF l, now, e, limit
      <4>6. CASE lengths[s] \subseteq {l}
        <5>1. /\ now = admitted[s] /\ (now # 0 => expiry[s] >= s[2] + l)
          <6>1. CASE lengths[s] = {}
            BY <3>1, <4>2, <4>3, <6>1 DEF CounterOK
          <6>2. CASE lengths[s] = {l}
            BY <1>1, <3>1, <4>2, <4>3, <6>2 DEF CounterOK
          <6> QED
            BY <4>6, <6>1, <6>2
        <5>2. lengths'[s] = {l}
          BY <4>5, <4>6
        <5> QED
          BY <3>1, <4>2, <4>3, <4>4, <4>5, <5>1, <5>2 DEF CounterOK
      <4>7. CASE ~(lengths[s] \subseteq {l})
        <5>1. \A m : lengths'[s] # {m}
          BY <4>5, <4>7
        <5>2. s[1] = "rate" /\ lengths'[s] # {}
          BY <3>1, <4>4, <4>5, <4>7 DEF CounterOK
        <5>3. /\ counters'[s] \in Nat /\ expiry'[s] \in Nat /\ admitted'[s] \in Nat
              /\ applied'[s] \in Nat /\ counters'[s] <= admitted'[s]
          BY <3>1, <4>2, <4>3, <4>5 DEF CounterOK
        <5>4. lengths'[s] \in SUBSET (Nat \ {0})
          BY <3>1, <4>2, <4>5
        <5> QED
          BY <5>1, <5>2, <5>3, <5>4 DEF CounterOK
      <4> QED
        BY <4>6, <4>7
    <3> QED
      BY <3>2, <3>3
  <2> QED
    BY <2>1, <2>2 DEF CountsOK
<1> QED
  BY <1>2, <1>3

LEMMA AccessNext ==
    ASSUME AccessInv, [Access!Next]_accessVars
    PROVE  AccessInv'
<1> USE GoneIsRow, IdleRecord DEF AccessInv
<1> DEFINE Counted == UNCHANGED <<counters, expiry, admitted, applied, lengths>> /\ clock' \in Nat
<1>1. Counted => CountsOK'
  BY DEF CountsOK, CounterOK
<1>2. ASSUME NEW c \in Calls, Access!Authenticate(c)
      PROVE  RowsOK' /\ Counted
  BY <1>2 DEF Access!reserveVars, Access!Authenticate, RowsOK
<1>3. ASSUME NEW c \in Calls, Access!CheckSource(c)
      PROVE  RowsOK' /\ Counted
  BY <1>3 DEF Access!reserveVars, Access!CheckSource, Access!Moves, RowsOK
<1>4. ASSUME NEW c \in Calls, Access!AllowWithReason(c)
      PROVE  RowsOK' /\ CountsOK' /\ clock' \in Nat
  BY <1>4, ReserveCounts DEF Access!AllowWithReason, RowsOK
<1>5. ASSUME NEW a \in Admins,
             \/ \E on \in BOOLEAN : Access!SetEnabled(a, on)
             \/ \E p \in Access!Profiles : Access!SetRiskProfile(a, p)
             \/ Access!Delete(a)
      PROVE  RowsOK' /\ Counted
  BY <1>5 DEF Access!reserveVars, Access!SetEnabled, Access!SetRiskProfile, Access!Delete, RowsOK, KeyRow
<1>6. ASSUME NEW a \in Admins, Access!GetForUpdate(a)
      PROVE  RowsOK' /\ Counted
  <2>1. PICK l \in LimitChoices :
          admin' = [admin EXCEPT ![a] = [at |-> "update",
              meta |-> [key EXCEPT !.limits = l.limits, !.rateWindowS = l.rateWindowS]]]
    BY <1>6 DEF Access!GetForUpdate
  <2>2. l.limits \in LimitRecord /\ l.rateWindowS \in Nat \ {0}
    BY LimitsAreNumbers DEF LimitRecord
  <2>3. PICK m \in KeyRow :
          m = [key EXCEPT !.limits = l.limits, !.rateWindowS = l.rateWindowS]
    BY <2>2 DEF RowsOK, KeyRow
  <2>4. [at |-> "update", meta |-> m] \in [at : {"idle", "update", "insert"}, meta : KeyRow]
    OBVIOUS
  <2>5. admin' = [admin EXCEPT ![a] = [at |-> "update", meta |-> m]]
    BY <2>1, <2>3
  <2>6. UNCHANGED <<counters, expiry, admitted, applied, lengths, key, clock, call>>
    BY <1>6 DEF Access!reserveVars, Access!GetForUpdate
  <2> QED
    BY <2>4, <2>5, <2>6 DEF RowsOK
<1>7. ASSUME NEW a \in Admins, Access!UpdateRateLimit(a)
      PROVE  RowsOK' /\ Counted
  BY <1>7 DEF Access!reserveVars, Access!UpdateRateLimit, RowsOK
<1>8. ASSUME NEW a \in Admins,
             \/ \E s \in Sources : Access!CreateACL(a, s) \/ Access!DeleteACL(a, s)
             \/ Access!CountFilters(a) \/ Access!InsertFilter(a) \/ Access!DeleteFilter(a)
      PROVE  RowsOK' /\ Counted
  BY <1>8 DEF Access!reserveVars, Access!CreateACL, Access!DeleteACL, Access!CountFilters,
     Access!InsertFilter, Access!DeleteFilter, RowsOK
<1>9. CASE Access!Tick \/ UNCHANGED accessVars
  <2>1. RowsOK' /\ Counted
    BY <1>9 DEF Access!reserveVars, Access!Tick, accessVars, RowsOK
  <2> QED
    BY <1>1, <2>1
<1> QED
  BY <1>1, <1>2, <1>3, <1>4, <1>5, <1>6, <1>7, <1>8, <1>9 DEF Access!Next


(* RateLimiter and the script of RateCounter admit no more calls in a       *)
(* quota's period, or in a window of the rate whose length stays the same,  *)
(* than the largest limit applied in it, and count no other, however many   *)
(* calls run at once and whatever administrators change meanwhile.          *)
THEOREM WindowsHold ==
    Spec => []WindowsCountAdmitted
<1>1. Init => AccessInv
  BY AccessInit DEF Init
<1>2. AccessInv /\ [Next]_allVars => AccessInv'
  <2>1. [Next]_allVars => [Access!Next]_accessVars
    BY DEF Next, allVars, accessVars
  <2> QED
    BY <2>1, AccessNext
<1>3. AccessInv => WindowsCountAdmitted
  <2> SUFFICES ASSUME AccessInv, NEW s \in Access!Slots
              PROVE  /\ Access!Current(s) <= admitted[s]
                     /\ ~Access!Mixed(s) =>
                          /\ admitted[s] <= applied[s]
                          /\ \A l \in lengths[s] : clock < s[2] + l => Access!Current(s) = admitted[s]
    BY DEF WindowsCountAdmitted, Access!WindowsCountAdmitted
  <2>1. /\ counters[s] \in Nat /\ expiry[s] \in Nat /\ admitted[s] \in Nat /\ applied[s] \in Nat
        /\ lengths[s] \in SUBSET (Nat \ {0}) /\ CounterOK(s) /\ clock \in Nat /\ s[2] \in Nat
    BY LimitsAreNumbers DEF AccessInv, CountsOK, Access!Slots
  <2>2. Access!Current(s) <= admitted[s]
    BY <2>1 DEF Access!Current, CounterOK
  <2>3. ~Access!Mixed(s) => lengths[s] = {} \/ \E l \in lengths[s] : lengths[s] = {l}
    BY <2>1 DEF Access!Mixed, CounterOK
  <2>4. lengths[s] = {} => admitted[s] <= applied[s]
    BY <2>1 DEF CounterOK
  <2>5. ASSUME NEW l \in lengths[s], lengths[s] = {l}
        PROVE  /\ admitted[s] <= applied[s]
               /\ clock < s[2] + l => Access!Current(s) = admitted[s]
    BY <2>1, <2>5 DEF CounterOK, Access!Current
  <2> QED
    BY <2>2, <2>3, <2>4, <2>5
<1> QED
  BY <1>1, <1>2, <1>3, PTL DEF Spec


-----------------------------------------------------------------------------



(* The configurations a request may create.                                  *)
Described == Requests \cup UNION {Catalog!Range(Catalog!Items(file)) : file \in Files}

CreateJob == [op : {"create"}, items : Seq(Described), order : Int]
ReorderJob == [op : {"reorder"}, ids : Seq(Nat)]

CatalogTypes ==
    /\ created \in Nat /\ DOMAIN rows \subseteq 1..created
    /\ \A i \in DOMAIN rows : "order" \in DOMAIN rows[i] /\ rows[i].order \in Int
    /\ edit \in [Admins -> {Catalog!Idle} \cup CreateJob \cup ReorderJob]

(* Only the holder of the lock creates, and the order it has read is behind  *)
(* every row that was not moved since.                                       *)
Reading(a) ==
    edit[a] \in CreateJob =>
        /\ refMu = a
        /\ edit[a].order # -1 =>
              \A i \in DOMAIN rows \ moved : rows[i].order < edit[a].order

CatalogInv == CatalogTypes /\ Catalog!CreationOrderIsKept /\ \A a \in Admins : Reading(a)

(* A finite, non-empty set of integers has a largest member.                 *)
LEMMA LargestOf ==
    ASSUME NEW S \in SUBSET Int, IsFiniteSet(S), S # {}
    PROVE  Catalog!Max(S) \in S /\ \A y \in S : y <= Catalog!Max(S)
<1>0. PICK n \in Nat : ExistsSurjection(1..n, S)
  BY FS_NatSurjection
<1>1. PICK f \in [1..n -> S] : \A y \in S : \E k \in 1..n : f[k] = y
  BY <1>0 DEF ExistsSurjection, Surjection
<1> DEFINE Tops(k) == {x \in S : (\E j \in 1..k : f[j] = x) /\ \A j \in 1..k : f[j] <= x}
           Bad == {k \in 1..n : Tops(k) = {}}
<1>2. n > 0
  <2>1. PICK y \in S : TRUE
    OBVIOUS
  <2> QED
    BY <1>1, <2>1
<1>3. Bad = {}
  <2> SUFFICES ASSUME Bad # {} PROVE FALSE
    OBVIOUS
  <2>1. Bad \in SUBSET Nat
    BY <1>1
  <2>2. PICK k \in Bad : \A m \in Bad : ~ (<<m, k>> \in OpToRel(<, Nat))
    BY <2>1, WFMin, NatLessThanWellFounded, Zenon
  <2>3. \A m \in Bad : ~ (m < k)
    BY <2>1, <2>2, Zenon DEF OpToRel
  <2>4. k \in 1..n /\ Tops(k) = {}
    OBVIOUS
  <2> HIDE DEF Bad
  <2>5. CASE k = 1
    <3>0. 1..1 = {1}
      OBVIOUS
    <3>1. f[1] \in S /\ f[1] \in Int /\ 1..1 = {1}
      BY <1>0, <1>1, <2>4, <2>5, <3>0
    <3>2. f[1] \in Tops(1)
      <4>1. (\E j \in 1..1 : f[j] = f[1]) /\ \A j \in 1..1 : f[j] <= f[1]
        BY <3>1
      <4> QED
        BY <3>1, <4>1
    <3> QED
      BY <3>2, <2>4, <2>5
  <2>6. CASE k # 1
    <3>1. k - 1 \in 1..n /\ k - 1 < k
      BY <2>4, <2>6, <1>1
    <3>2. Tops(k - 1) # {}
      BY <3>1, <2>3 DEF Bad
    <3>3. PICK x \in S : (\E j \in 1..(k-1) : f[j] = x) /\ \A j \in 1..(k-1) : f[j] <= x
      BY <3>2
    <3>4. f[k] \in S /\ f[k] \in Int /\ x \in Int
      BY <2>4, <1>1
    <3>5. CASE f[k] <= x
      <4>1. x \in Tops(k)
        BY <3>1, <3>3, <3>4, <3>5, <2>4, <1>1
      <4> QED
        BY <4>1, <2>4
    <3>6. CASE ~(f[k] <= x)
      <4>1. ASSUME NEW j \in 1..k
            PROVE  f[j] <= f[k]
        <5>1. j \in 1..(k-1) \/ j = k
          BY <1>0, <2>4
        <5>2. 1..(k-1) \subseteq 1..n
          BY <1>0, <2>4
        <5>3. j \in 1..(k-1) => f[j] \in S
          BY <1>1, <5>2
        <5>4. CASE j = k
          BY <3>4, <5>4
        <5>5. CASE j \in 1..(k-1)
          <6>1. f[j] <= x /\ f[j] \in Int
            BY <3>3, <5>3, <5>5
          <6> QED
            BY <6>1, <3>4, <3>6
        <5> QED
          BY <5>1, <5>4, <5>5
      <4>2. k \in 1..k
        BY <2>4
      <4>3. f[k] \in Tops(k)
        BY <4>1, <4>2, <3>4
      <4> QED
        BY <4>3, <2>4
    <3> QED
      BY <3>5, <3>6
  <2> QED
    BY <2>5, <2>6
<1>4. Tops(n) # {}
  <2>1. n \in 1..n
    BY <1>2
  <2> QED
    BY <2>1, <1>3
<1>5. \E x \in S : \A y \in S : x >= y
  BY <1>1, <1>4
<1>6. Catalog!Max(S) \in S /\ \A y \in S : Catalog!Max(S) >= y
  BY <1>5 DEF Catalog!Max
<1> QED
  BY <1>6

LEMMA DescribedAreConfigs ==
    ASSUME NEW c \in Described
    PROVE  IsConfig(c)
<1>1. CASE c \in Requests
  BY <1>1, RequestsAreConfigs
<1>2. ASSUME NEW file \in Files, c \in Catalog!Range(Catalog!Items(file))
      PROVE  IsConfig(c)
  <2>1. PICK i \in DOMAIN Catalog!Items(file) : c = Catalog!Items(file)[i]
    BY <1>2 DEF Catalog!Range
  <2> QED
    BY <2>1, ItemsAreLists
<1> QED
  BY <1>1, <1>2 DEF Described

LEMMA ConfigsHaveOrders == \A c : IsConfig(c) => "order" \in DOMAIN c /\ c.order \in Int
BY DEF IsConfig

LEMMA RowsCounted == \A S : Catalog!Cardinality(S) = Cardinality(S)
BY DEF Catalog!Cardinality, Cardinality

LEMMA RowsAreFinite ==
    ASSUME CatalogTypes
    PROVE  IsFiniteSet(DOMAIN rows) /\ DOMAIN rows \subseteq Nat
<1>1. created \in Nat /\ DOMAIN rows \in SUBSET (1..created)
  BY DEF CatalogTypes
<1>2. IsFiniteSet(1..created)
  BY <1>1, FS_Interval
<1> QED
  BY <1>1, <1>2, FS_Subset

LEMMA NextIsLargest ==
    ASSUME CatalogTypes
    PROVE  /\ Catalog!NextSortOrder \in Int /\ Catalog!NextSortOrder # -1
           /\ \A i \in DOMAIN rows : rows[i].order < Catalog!NextSortOrder
<1> DEFINE O == {rows[i].order : i \in DOMAIN rows}
           S == {-1} \cup O
<1>1. IsFiniteSet(DOMAIN rows)
  BY RowsAreFinite
<1>2. IsFiniteSet(O)
  <2> DEFINE f == [i \in DOMAIN rows |-> rows[i].order]
  <2>1. f \in Surjection(DOMAIN rows, O)
    BY DEF Surjection
  <2> QED
    BY <1>1, <2>1, FS_Surjection
<1>3. IsFiniteSet(S)
  <2>1. IsFiniteSet(O \cup {-1})
    BY <1>2, FS_AddElement
  <2>2. S = O \cup {-1}
    OBVIOUS
  <2> QED
    BY <2>1, <2>2
<1>4. S \in SUBSET Int /\ S # {}
  BY DEF CatalogTypes
<1>5. Catalog!Max(S) \in S /\ \A y \in S : y <= Catalog!Max(S)
  BY <1>3, <1>4, LargestOf
<1>6. Catalog!NextSortOrder = Catalog!Max(S) + 1
  BY DEF Catalog!NextSortOrder
<1>7. -1 \in S /\ \A i \in DOMAIN rows : rows[i].order \in S
  OBVIOUS
<1>8. Catalog!Max(S) \in Int
  BY <1>4, <1>5
<1> HIDE DEF O, S
<1>9. Catalog!Max(S) >= -1 /\ \A i \in DOMAIN rows : rows[i].order <= Catalog!Max(S)
  BY <1>4, <1>5, <1>7, <1>8
<1>10. \A i \in DOMAIN rows : rows[i].order \in Int
  BY <1>4, <1>7
<1> QED
  BY <1>6, <1>8, <1>9, <1>10

LEMMA CatalogInit == Catalog!Init => CatalogInv
BY NobodyIsNoAdmin DEF Catalog!Init, CatalogInv, CatalogTypes, Catalog!CreationOrderIsKept,
   Reading, Catalog!Idle, CreateJob

(* What a step of one request has to show: the others keep theirs.           *)
LEMMA JobMoves ==
    ASSUME CatalogInv, NEW a \in Admins, NEW next \in {Catalog!Idle} \cup CreateJob \cup ReorderJob,
           edit' = [edit EXCEPT ![a] = next], UNCHANGED <<rows, created, moved>>,
           refMu' = refMu \/ refMu = Nobody \/ edit[a] \in CreateJob,
           next \in CreateJob => refMu' = a,
           next \in CreateJob /\ next.order # -1 =>
              \A i \in DOMAIN rows \ moved : rows[i].order < next.order
    PROVE  CatalogInv'
<1>1. edit'[a] = next /\ \A b \in Admins \ {a} : edit'[b] = edit[b]
  BY DEF CatalogInv, CatalogTypes
<1>2. CatalogTypes'
  BY DEF CatalogInv, CatalogTypes
<1>3. Catalog!CreationOrderIsKept'
  BY DEF CatalogInv, Catalog!CreationOrderIsKept
<1>4. ASSUME NEW b \in Admins
      PROVE  Reading(b)'
  <2>1. CASE b = a
    BY <1>1, <2>1 DEF Reading
  <2>2. CASE b # a
    <3> SUFFICES ASSUME edit[b] \in CreateJob PROVE Reading(b)'
      BY <1>1, <2>2 DEF Reading
    <3>1. refMu = b /\ refMu # Nobody
      BY NobodyIsNoAdmin DEF CatalogInv, Reading
    <3>2. edit[a] \notin CreateJob
      BY <3>1, <2>2 DEF CatalogInv, Reading
    <3>3. refMu' = b
      BY <3>1, <3>2
    <3> QED
      BY <3>3, <1>1, <2>2 DEF CatalogInv, Reading
  <2> QED
    BY <2>1, <2>2
<1> QED
  BY <1>2, <1>3, <1>4 DEF CatalogInv

LEMMA BeginCreateStep ==
    ASSUME CatalogInv, NEW a \in Admins, NEW items \in Seq(Described), Catalog!BeginCreate(a, items)
    PROVE  CatalogInv'
<1> DEFINE next == [op |-> "create", items |-> items, order |-> -1]
<1>1. next \in CreateJob /\ next.order = -1
  BY DEF CreateJob
<1> HIDE DEF next
<1>2. /\ edit' = [edit EXCEPT ![a] = next] /\ UNCHANGED <<rows, created, moved>>
      /\ refMu = Nobody /\ refMu' = a
  BY DEF Catalog!BeginCreate, Catalog!Become, next
<1> QED
  BY <1>1, <1>2, JobMoves

(* A request that creates has a first item left, and can drop it.            *)
LEMMA FirstItem ==
    ASSUME CatalogInv, NEW a \in Admins, Catalog!Creating(a)
    PROVE  /\ edit[a] \in CreateJob /\ refMu = a
           /\ "order" \in DOMAIN Head(edit[a].items)
           /\ [edit[a] EXCEPT !.items = Tail(@), !.order = -1] \in CreateJob
           /\ [edit[a] EXCEPT !.items = Tail(@), !.order = -1].order = -1
<1>1. edit[a] \in CreateJob
  BY DEF Catalog!Creating, CatalogInv, CatalogTypes, Catalog!Idle, CreateJob, ReorderJob
<1>2. edit[a].items \in Seq(Described) /\ edit[a].items # <<>>
  BY <1>1 DEF Catalog!Creating, CreateJob
<1>3. Head(edit[a].items) \in Described /\ Tail(edit[a].items) \in Seq(Described)
  BY <1>2, HeadTailProperties
<1> DEFINE next == [edit[a] EXCEPT !.items = Tail(@), !.order = -1]
<1>4. next \in CreateJob /\ next.order = -1
  <2> DEFINE rest == Tail(edit[a].items)
             half == [edit[a] EXCEPT !.items = rest]
  <2>1. rest \in Seq(Described)
    BY <1>3
  <2>2. next = [half EXCEPT !.order = -1]
    OBVIOUS
  <2> HIDE DEF rest, next
  <2>3. half \in CreateJob
    BY <1>1, <2>1 DEF CreateJob
  <2> HIDE DEF half
  <2> QED
    BY <2>2, <2>3 DEF CreateJob
<1>5. refMu = a
  BY <1>1 DEF CatalogInv, Reading
<1> QED
  BY <1>1, <1>3, <1>4, <1>5, DescribedAreConfigs, ConfigsHaveOrders

LEMMA ReadOrderStep ==
    ASSUME CatalogInv, NEW a \in Admins, Catalog!ReadOrder(a)
    PROVE  CatalogInv'
<1> DEFINE next == [edit[a] EXCEPT !.order = Catalog!NextSortOrder]
<1>1. edit[a] \in CreateJob /\ refMu = a
  BY FirstItem DEF Catalog!ReadOrder
<1>2. /\ Catalog!NextSortOrder \in Int
      /\ \A i \in DOMAIN rows : rows[i].order < Catalog!NextSortOrder
  BY NextIsLargest DEF CatalogInv
<1>3. next \in CreateJob /\ next.order = Catalog!NextSortOrder
  BY <1>1, <1>2 DEF CreateJob
<1>4. edit' = [edit EXCEPT ![a] = next] /\ UNCHANGED <<rows, created, refMu, moved>>
  BY DEF Catalog!ReadOrder, Catalog!Become
<1> HIDE DEF next
<1> QED
  BY <1>1, <1>2, <1>3, <1>4, JobMoves

LEMMA DropStep ==
    ASSUME CatalogInv, NEW a \in Admins, Catalog!Drop(a)
    PROVE  CatalogInv'
<1> DEFINE next == [edit[a] EXCEPT !.items = Tail(@), !.order = -1]
<1>1. next \in CreateJob /\ next.order = -1 /\ refMu = a
  BY FirstItem DEF Catalog!Drop
<1>2. edit' = [edit EXCEPT ![a] = next] /\ UNCHANGED <<rows, created, refMu, moved>>
  BY DEF Catalog!Drop, Catalog!Become
<1> HIDE DEF next
<1> QED
  BY <1>1, <1>2, JobMoves

LEMMA StoreCreateStep ==
    ASSUME CatalogInv, NEW a \in Admins, Catalog!StoreCreate(a)
    PROVE  CatalogInv'
<1> DEFINE next == [edit[a] EXCEPT !.items = Tail(@), !.order = -1]
           cfg == [Catalog!Normalized(Head(edit[a].items)) EXCEPT !.order = edit[a].order]
<1>1. /\ next \in CreateJob /\ next.order = -1 /\ refMu = a
      /\ edit[a] \in CreateJob /\ "order" \in DOMAIN Head(edit[a].items)
  BY FirstItem DEF Catalog!StoreCreate
<1>2. "order" \in DOMAIN cfg /\ cfg.order = edit[a].order /\ edit[a].order \in Int
  BY <1>1 DEF Catalog!Normalized, CreateJob
<1>3. \A i \in DOMAIN rows \ moved : rows[i].order < edit[a].order
  BY <1>1 DEF Catalog!StoreCreate, CatalogInv, Reading
<1>4. /\ edit' = [edit EXCEPT ![a] = next] /\ UNCHANGED <<refMu, moved>>
      /\ created' = created + 1
      /\ rows' = [i \in DOMAIN rows \cup {created + 1} |->
                      IF i = created + 1 THEN cfg ELSE rows[i]]
  BY DEF Catalog!StoreCreate, Catalog!Become
<1> HIDE DEF next, cfg
<1>5. /\ DOMAIN rows' = DOMAIN rows \cup {created + 1}
      /\ rows'[created + 1] = cfg
      /\ \A i \in DOMAIN rows : i <= created /\ rows'[i] = rows[i]
      /\ created \in Nat /\ DOMAIN rows \subseteq 1..created
  BY <1>4 DEF CatalogInv, CatalogTypes
<1>6. edit'[a] = next /\ \A b \in Admins \ {a} : edit'[b] = edit[b] /\ edit[b] \notin CreateJob
  BY <1>1, <1>4 DEF CatalogInv, CatalogTypes, Reading
<1>7. CatalogTypes'
  <2>1. edit' \in [Admins -> {Catalog!Idle} \cup CreateJob \cup ReorderJob]
    BY <1>1, <1>4 DEF CatalogInv, CatalogTypes
  <2>2. created' \in Nat /\ DOMAIN rows' \subseteq 1..created'
    BY <1>4, <1>5
  <2>3. \A i \in DOMAIN rows' : "order" \in DOMAIN rows'[i] /\ rows'[i].order \in Int
    BY <1>2, <1>5 DEF CatalogInv, CatalogTypes
  <2> QED
    BY <2>1, <2>2, <2>3 DEF CatalogTypes
<1>8. Catalog!CreationOrderIsKept'
  <2> SUFFICES ASSUME NEW i \in DOMAIN rows' \ moved, NEW j \in DOMAIN rows' \ moved, i < j
               PROVE  rows'[i].order < rows'[j].order
    BY <1>4 DEF Catalog!CreationOrderIsKept
  <2>1. i \in DOMAIN rows
    BY <1>5
  <2>2. CASE j \in DOMAIN rows
    BY <1>5, <2>1, <2>2 DEF CatalogInv, Catalog!CreationOrderIsKept
  <2>3. CASE j = created + 1
    BY <1>2, <1>3, <1>5, <2>1, <2>3
  <2> QED
    BY <1>5, <2>2, <2>3
<1>9. \A b \in Admins : Reading(b)'
  BY <1>1, <1>4, <1>6 DEF Reading
<1> QED
  BY <1>7, <1>8, <1>9 DEF CatalogInv

(* A write to a row that exists: its order stays, or it counts as moved.     *)
LEMMA RowsMove ==
    ASSUME CatalogInv, UNCHANGED created, refMu' = refMu,
           DOMAIN rows' \subseteq DOMAIN rows, moved \subseteq moved',
           \A i \in DOMAIN rows' : "order" \in DOMAIN rows'[i] /\ rows'[i].order \in Int,
           \A i \in DOMAIN rows' \ moved' : rows'[i].order = rows[i].order,
           edit' \in [Admins -> {Catalog!Idle} \cup CreateJob \cup ReorderJob],
           \A a \in Admins : edit'[a] \in CreateJob => edit'[a] = edit[a]
    PROVE  CatalogInv'
<1>1. CatalogTypes'
  BY DEF CatalogInv, CatalogTypes
<1>2. Catalog!CreationOrderIsKept'
  BY DEF CatalogInv, Catalog!CreationOrderIsKept
<1>3. \A a \in Admins : Reading(a)'
  BY DEF CatalogInv, Reading
<1> QED
  BY <1>1, <1>2, <1>3 DEF CatalogInv

LEMMA UpdateStep ==
    ASSUME CatalogInv, NEW id, NEW cfg \in Requests, Catalog!Update(id, cfg)
    PROVE  CatalogInv'
<1> DEFINE written == Catalog!Normalized(cfg)
<1>1. "order" \in DOMAIN written /\ written.order \in Int
  BY RequestsAreConfigs, ConfigsHaveOrders DEF Catalog!Normalized
<1>2. /\ rows' = [rows EXCEPT ![id] = written] /\ moved' = moved \cup {id}
      /\ UNCHANGED <<created, refMu, edit>> /\ id \in DOMAIN rows
  BY DEF Catalog!Update
<1> HIDE DEF written
<1>3. /\ DOMAIN rows' = DOMAIN rows /\ rows'[id] = written
      /\ \A i \in DOMAIN rows \ {id} : rows'[i] = rows[i]
  BY <1>2
<1>4. \A i \in DOMAIN rows' : "order" \in DOMAIN rows'[i] /\ rows'[i].order \in Int
  BY <1>1, <1>3 DEF CatalogInv, CatalogTypes
<1> QED
  BY <1>2, <1>3, <1>4, RowsMove DEF CatalogInv, CatalogTypes

LEMMA SetEnabledStep ==
    ASSUME CatalogInv, NEW id, Catalog!SetEnabled(id)
    PROVE  CatalogInv'
<1>1. /\ rows' = [rows EXCEPT ![id] = [rows[id] EXCEPT !.enabled = ~@]]
      /\ UNCHANGED <<created, refMu, edit, moved>> /\ id \in DOMAIN rows
  BY DEF Catalog!SetEnabled
<1>2. /\ DOMAIN rows' = DOMAIN rows
      /\ \A i \in DOMAIN rows : rows'[i].order = rows[i].order /\ DOMAIN rows'[i] = DOMAIN rows[i]
  BY <1>1 DEF CatalogInv, CatalogTypes
<1> QED
  BY <1>1, <1>2, RowsMove DEF CatalogInv, CatalogTypes

LEMMA DeleteStep ==
    ASSUME CatalogInv, NEW id, Catalog!Delete(id)
    PROVE  CatalogInv'
<1>1. /\ UNCHANGED <<created, refMu, edit, moved>>
      /\ DOMAIN rows' \subseteq DOMAIN rows /\ \A i \in DOMAIN rows' : rows'[i] = rows[i]
  BY DEF Catalog!Delete, Catalog!Restrict
<1> QED
  BY <1>1, RowsMove DEF CatalogInv, CatalogTypes

LEMMA StoreReorderStep ==
    ASSUME CatalogInv, NEW a \in Admins, Catalog!StoreReorder(a)
    PROVE  CatalogInv'
<1> DEFINE ids == edit[a].ids
           place == [i \in Catalog!Range(ids) |-> (CHOOSE n \in DOMAIN ids : ids[n] = i) - 1]
<1>1. edit[a] \in ReorderJob
  BY DEF Catalog!StoreReorder, CatalogInv, CatalogTypes, Catalog!Idle, CreateJob, ReorderJob
<1>2. \A i \in Catalog!Range(ids) : place[i] \in Int
  <2>1. DOMAIN ids \subseteq Nat
    BY <1>1 DEF ReorderJob
  <2> QED
    BY <2>1 DEF Catalog!Range
<1>3. /\ edit' = [edit EXCEPT ![a] = Catalog!Idle] /\ UNCHANGED <<created, refMu>>
      /\ \/ /\ rows' = [i \in DOMAIN rows |->
                            IF i \in Catalog!Range(ids) THEN [rows[i] EXCEPT !.order = place[i]]
                            ELSE rows[i]]
            /\ moved' = moved \cup Catalog!Range(ids)
         \/ UNCHANGED <<rows, moved>>
  BY DEF Catalog!StoreReorder, Catalog!Become
<1> HIDE DEF ids, place
<1>4. /\ edit' \in [Admins -> {Catalog!Idle} \cup CreateJob \cup ReorderJob]
      /\ \A b \in Admins : edit'[b] \in CreateJob => edit'[b] = edit[b]
  BY <1>3 DEF CatalogInv, CatalogTypes, CreateJob, Catalog!Idle
<1>5. /\ DOMAIN rows' = DOMAIN rows /\ moved \subseteq moved'
      /\ \A i \in DOMAIN rows : DOMAIN rows'[i] = DOMAIN rows[i]
      /\ \A i \in DOMAIN rows \ moved' : rows'[i] = rows[i]
  BY <1>3
<1>6. \A i \in DOMAIN rows : rows'[i].order \in Int
  BY <1>2, <1>3 DEF CatalogInv, CatalogTypes
<1>7. \A i \in DOMAIN rows' : "order" \in DOMAIN rows'[i] /\ rows'[i].order \in Int
  BY <1>5, <1>6 DEF CatalogInv, CatalogTypes
<1> QED
  BY <1>3, <1>4, <1>5, <1>7, RowsMove

LEMMA BeginReorderStep ==
    ASSUME CatalogInv, NEW a \in Admins, Catalog!BeginReorder(a)
    PROVE  CatalogInv'
<1>1. PICK ids \in [1 .. Catalog!Cardinality(DOMAIN rows) -> DOMAIN rows] :
          Catalog!Become(a, [op |-> "reorder", ids |-> ids])
  BY DEF Catalog!BeginReorder
<1> DEFINE next == [op |-> "reorder", ids |-> ids]
<1>2. ids \in Seq(Nat)
  <2>1. IsFiniteSet(DOMAIN rows) /\ DOMAIN rows \subseteq Nat
    BY RowsAreFinite DEF CatalogInv
  <2>2. Catalog!Cardinality(DOMAIN rows) \in Nat
    BY <2>1, FS_CardinalityType, RowsCounted
  <2> QED
    BY <1>1, <2>1, <2>2
<1>3. next \in ReorderJob /\ next \notin CreateJob
  BY <1>2 DEF ReorderJob, CreateJob
<1>4. edit' = [edit EXCEPT ![a] = next] /\ UNCHANGED <<rows, created, refMu, moved>>
  BY <1>1 DEF Catalog!BeginReorder, Catalog!Become
<1> HIDE DEF next
<1> QED
  BY <1>3, <1>4, JobMoves

LEMMA EndCreateStep ==
    ASSUME CatalogInv, NEW a \in Admins, Catalog!EndCreate(a)
    PROVE  CatalogInv'
<1>1. edit[a] \in CreateJob
  BY DEF Catalog!EndCreate, CatalogInv, CatalogTypes, Catalog!Idle, CreateJob, ReorderJob
<1>2. edit' = [edit EXCEPT ![a] = Catalog!Idle] /\ UNCHANGED <<rows, created, moved>>
  BY DEF Catalog!EndCreate, Catalog!Become
<1>3. Catalog!Idle \notin CreateJob
  BY DEF Catalog!Idle, CreateJob
<1> QED
  BY <1>1, <1>2, <1>3, JobMoves

LEMMA CatalogNext == CatalogInv /\ [Catalog!Next]_catalogVars => CatalogInv'
<1> SUFFICES ASSUME CatalogInv, [Catalog!Next]_catalogVars PROVE CatalogInv'
  OBVIOUS
<1>1. ASSUME NEW a \in Admins, NEW cfg \in Requests, Catalog!BeginCreate(a, <<cfg>>)
      PROVE  CatalogInv'
  <2>1. <<cfg>> \in Seq(Described)
    BY DEF Described
  <2> QED
    BY <2>1, <1>1, BeginCreateStep
<1>2. ASSUME NEW a \in Admins, NEW file \in Files, Catalog!BeginCreate(a, Catalog!Items(file))
      PROVE  CatalogInv'
  <2>1. Catalog!Range(Catalog!Items(file)) \subseteq Described
    BY DEF Described
  <2>2. Catalog!Items(file) \in Seq(Described)
    BY <2>1, ItemsAreLists, SeqMonotonic
  <2> QED
    BY <2>2, <1>2, BeginCreateStep
<1>3. CASE UNCHANGED catalogVars
  BY <1>3 DEF catalogVars, CatalogInv, CatalogTypes, Catalog!CreationOrderIsKept, Reading
<1> QED
  BY <1>1, <1>2, <1>3, ReadOrderStep, DropStep, StoreCreateStep, EndCreateStep,
     BeginReorderStep, StoreReorderStep, UpdateStep, SetEnabledStep, DeleteStep DEF
     Catalog!Next


(* Upstreams whose order nobody sets after their creation are listed in the *)
(* order in which they were created, whatever creations, imports, deletions *)
(* and reorderings of the others interleave.                                *)
THEOREM OrderIsKept ==
    Spec => []CreationOrderIsKept
<1>1. Init => CatalogInv
  BY CatalogInit DEF Init
<1>2. CatalogInv /\ [Next]_allVars => CatalogInv'
  <2>1. [Next]_allVars => [Catalog!Next]_catalogVars
    BY DEF Next, allVars, catalogVars
  <2> QED
    BY <2>1, CatalogNext
<1>3. CatalogInv => CreationOrderIsKept
  BY DEF CatalogInv, CreationOrderIsKept
<1> QED
  BY <1>1, <1>2, <1>3, PTL DEF Spec

-----------------------------------------------------------------------------
(* Package operations: RuntimeDeps.                                         *)

AtWork == {"locked", "begun", "running", "over", "invalidating", "answered"}

PackageRequest ==
    [stage : {"waiting"} \cup AtWork, do : {"install", "uninstall", "list"},
     pkg : Packages, number : Nat, done : BOOLEAN, ok : BOOLEAN]

Command == [do : {"install", "uninstall", "list"}, pkg : Packages, leader : BOOLEAN,
            lines : Nat]

DepTypes ==
    /\ op \in [Admins -> {Deps!Idle} \cup PackageRequest]
    /\ depOpMu \in Admins \cup {Nobody}
    /\ depOps \in Nat /\ latest \in 0 .. depOps
    /\ tree \in [DOMAIN tree -> Command] /\ DOMAIN tree \subseteq 1 .. depOps

(* Who is past Lock has the mutex, and the last number. *)
Locked ==
    /\ \A a \in Admins : op[a].stage \in AtWork <=> depOpMu = a
    /\ \A a \in Admins : op[a].stage \in AtWork => op[a].number = depOps /\ depOps > 0

(* A first process runs for the holder of the mutex, which waits for it and *)
(* has started no other.                                                    *)
Leads ==
    /\ \A a \in Admins : op[a].stage \in {"locked", "begun"} => op[a].number \notin DOMAIN tree
    /\ \A a \in Admins :
        op[a].stage = "running" =>
            op[a].number \in DOMAIN tree /\ tree[op[a].number].leader
    /\ \A n \in DOMAIN tree :
        tree[n].leader => /\ depOpMu \in Admins /\ op[depOpMu].stage = "running"
                          /\ op[depOpMu].number = n

(* The summary is the last operation's, and progress only while it is at work. *)
Summarised ==
    /\ \A a \in Admins :
        op[a].stage \in AtWork \ {"locked"} /\ op[a].do # "list" => latest = op[a].number
    /\ progress \in {0, latest} /\ lastError \in {0, latest}
    /\ progress # 0 => /\ depOpMu \in Admins /\ op[depOpMu].stage \in {"begun", "running"}
                       /\ op[depOpMu].do # "list"
    /\ logs \in Seq(Nat) /\ \A i \in DOMAIN logs : logs[i] >= latest

DepInv == DepTypes /\ Locked /\ Leads /\ Summarised

LEMMA DepInit == Deps!Init => DepInv
BY NobodyIsNoAdmin DEF Deps!Init, DepInv, DepTypes, Locked, Leads, Summarised, Deps!Idle,
   Deps!None, AtWork

(* The log keeps its last lines. *)
LEMMA LoggedLines ==
    ASSUME NEW log \in Seq(Nat), NEW n \in Nat, NEW least \in Nat, n >= least,
           \A i \in DOMAIN log : log[i] >= least
    PROVE  /\ Deps!Logged(log, n) \in Seq(Nat)
           /\ \A i \in DOMAIN Deps!Logged(log, n) : Deps!Logged(log, n)[i] >= least
<1> DEFINE longer == Append(log, n)
           from == Len(longer) - MaxLogs + 1
<1>1. /\ longer \in Seq(Nat) /\ Len(longer) = Len(log) + 1 /\ Len(longer) \in Nat
      /\ \A i \in 1 .. Len(longer) : longer[i] \in Nat /\ longer[i] >= least
  OBVIOUS
<1>2. Deps!Logged(log, n) = IF Len(longer) >= 2 * MaxLogs
                            THEN SubSeq(longer, from, Len(longer)) ELSE longer
  BY DEF Deps!Logged
<1> HIDE DEF longer
<1>3. CASE Len(longer) >= 2 * MaxLogs
  <2>1. from \in 1 .. Len(longer) + 1
    BY <1>1, <1>3, LogLimitIsNumber
  <2>2. /\ SubSeq(longer, from, Len(longer)) \in Seq(Nat)
        /\ DOMAIN SubSeq(longer, from, Len(longer)) = 1 .. Len(longer) + 1 - from
        /\ \A i \in 1 .. Len(longer) + 1 - from :
              SubSeq(longer, from, Len(longer))[i] = longer[from + i - 1]
    <3>1. from \in Int /\ Len(longer) \in Int /\ (from <= Len(longer) \/ Len(longer) + 1 - from = 0)
      BY <1>1, <2>1
    <3>2. \A i \in from .. Len(longer) : longer[i] \in Nat
      BY <1>1, <2>1
    <3>3. /\ SubSeq(longer, from, Len(longer)) \in Seq(Nat)
          /\ Len(SubSeq(longer, from, Len(longer)))
               = IF from <= Len(longer) THEN Len(longer) - from + 1 ELSE 0
          /\ \A i \in 1 .. Len(longer) - from + 1 :
                SubSeq(longer, from, Len(longer))[i] = longer[from + i - 1]
      BY <3>1, <3>2, SubSeqProperties
    <3> HIDE DEF from
    <3>4. Len(longer) + 1 - from = Len(longer) - from + 1
      BY <3>1
    <3> QED
      BY <3>1, <3>3, <3>4
  <2>3. \A i \in 1 .. Len(longer) + 1 - from : from + i - 1 \in 1 .. Len(longer)
    BY <1>1, <2>1
  <2> QED
    BY <1>1, <1>2, <1>3, <2>2, <2>3
<1>4. CASE ~(Len(longer) >= 2 * MaxLogs)
  BY <1>1, <1>2, <1>4
<1> QED
  BY <1>3, <1>4

(* The request of an administrator moves without taking or leaving the mutex. *)
LEMMA RequestMoves ==
    ASSUME DepInv, NEW a \in Admins, NEW next \in PackageRequest,
           op' = [op EXCEPT ![a] = next], op[a].stage \in AtWork,
           next.stage \in AtWork, next.number = op[a].number,
           UNCHANGED <<depOpMu, depOps>>
    PROVE  /\ op' \in [Admins -> {Deps!Idle} \cup PackageRequest]
           /\ Locked'
BY DEF DepInv, DepTypes, Locked

LEMMA RequestStep ==
    ASSUME DepInv, NEW a \in Admins, NEW do \in {"install", "uninstall", "list"},
           NEW pkg \in Packages, Deps!Request(a, do, pkg)
    PROVE  DepInv'
<1> DEFINE next == [stage |-> "waiting", do |-> do, pkg |-> pkg, number |-> 0,
                    done |-> FALSE, ok |-> FALSE]
<1>1. next \in PackageRequest /\ next.stage = "waiting"
  BY DEF PackageRequest
<1>2. op' = [op EXCEPT ![a] = next] /\ op[a].stage = "idle"
  BY DEF Deps!Request, Deps!Here, Deps!None
<1>3. UNCHANGED <<depOpMu, depOps, tree, progress, lastError, logs, latest>>
  BY DEF Deps!Request, Deps!summary
<1> HIDE DEF next
<1>4. depOpMu # a
  BY <1>2 DEF DepInv, Locked, AtWork
<1>5. DepTypes'
  BY <1>1, <1>2, <1>3 DEF DepInv, DepTypes
<1>6. op'[a] = next /\ \A b \in Admins \ {a} : op'[b] = op[b]
  BY <1>2 DEF DepInv, DepTypes
<1>7. Locked'
  BY <1>1, <1>3, <1>4, <1>6 DEF DepInv, Locked, AtWork
<1>8. depOpMu \in Admins => op'[depOpMu] = op[depOpMu]
  BY <1>4, <1>6
<1>9. Leads'
  BY <1>1, <1>3, <1>6, <1>8 DEF DepInv, Leads
<1>10. Summarised'
  <2>1. \A b \in Admins :
          op'[b].stage \in AtWork \ {"locked"} /\ op'[b].do # "list" => latest' = op'[b].number
    BY <1>1, <1>3, <1>6 DEF DepInv, Summarised, AtWork
  <2>2. UNCHANGED <<progress, lastError, logs, latest, depOpMu>>
    BY <1>3
  <2> HIDE DEF next
  <2> QED
    BY <1>8, <2>1, <2>2 DEF DepInv, Summarised
<1> QED
  BY <1>5, <1>7, <1>9, <1>10 DEF DepInv

LEMMA CancelRequestStep ==
    ASSUME DepInv, NEW a \in Admins, Deps!CancelRequest(a)
    PROVE  DepInv'
<1> DEFINE next == [op[a] EXCEPT !.done = TRUE]
<1>1. op[a] \in PackageRequest
  BY DEF Deps!CancelRequest, DepInv, DepTypes, Deps!Idle
<1>2. /\ next \in PackageRequest /\ next.stage = op[a].stage
      /\ next.number = op[a].number /\ next.do = op[a].do
  BY <1>1 DEF PackageRequest
<1>3. op' = [op EXCEPT ![a] = next]
  BY DEF Deps!CancelRequest
<1>4. UNCHANGED <<depOpMu, depOps, tree, progress, lastError, logs, latest>>
  BY DEF Deps!CancelRequest, Deps!summary
<1> HIDE DEF next
<1> QED
  BY <1>2, <1>3, <1>4 DEF DepInv, DepTypes, Locked, Leads, Summarised, AtWork

LEMMA AcquireStep ==
    ASSUME DepInv, NEW a \in Admins, Deps!Acquire(a)
    PROVE  DepInv'
<1> DEFINE next == [op[a] EXCEPT !.stage = "locked", !.number = depOps + 1]
<1>1. op[a] \in PackageRequest
  BY DEF Deps!Acquire, Deps!Here, DepInv, DepTypes, Deps!Idle
<1>2. /\ next \in PackageRequest /\ next.stage = "locked"
      /\ next.number = depOps + 1
  <2>1. depOps + 1 \in Nat
    BY DEF DepInv, DepTypes
  <2> QED
    BY <1>1, <2>1 DEF PackageRequest, AtWork
<1>3. op' = [op EXCEPT ![a] = next]
  BY DEF Deps!Acquire, Deps!Numbered
<1>4. /\ depOpMu = Nobody /\ depOpMu' = a /\ depOps' = depOps + 1
      /\ UNCHANGED <<tree, progress, lastError, logs, latest>>
  BY DEF Deps!Acquire, Deps!Numbered, Deps!summary
<1> HIDE DEF next
<1>5. \A b \in Admins : op[b].stage \notin AtWork
  BY <1>4, NobodyIsNoAdmin DEF DepInv, Locked
<1>6. progress = 0 /\ \A n \in DOMAIN tree : ~tree[n].leader
  BY <1>4, NobodyIsNoAdmin DEF DepInv, Leads, Summarised
<1>7. DepTypes'
  BY <1>2, <1>3, <1>4 DEF DepInv, DepTypes
<1>8. Locked'
  BY <1>2, <1>3, <1>4, <1>5 DEF DepInv, DepTypes, Locked, AtWork
<1>9. Leads' /\ Summarised'
  BY <1>2, <1>3, <1>4, <1>5, <1>6 DEF DepInv, DepTypes, Leads, Summarised, AtWork
<1> QED
  BY <1>7, <1>8, <1>9 DEF DepInv

(* The holder's request goes on to a later stage. *)
LEMMA HolderMoves ==
    ASSUME DepInv, NEW a \in Admins, NEW stage \in AtWork, NEW ok \in BOOLEAN,
           op[a].stage \in AtWork,
           op' = [op EXCEPT ![a] = [op[a] EXCEPT !.stage = stage, !.ok = ok]],
           UNCHANGED <<depOpMu, depOps>>
    PROVE  /\ op[a] \in PackageRequest /\ depOpMu = a
           /\ op' \in [Admins -> {Deps!Idle} \cup PackageRequest]
           /\ Locked'
           /\ op'[a].stage = stage /\ op'[a].do = op[a].do /\ op'[a].number = op[a].number
           /\ \A b \in Admins \ {a} : op'[b] = op[b] /\ op[b].stage \notin AtWork
<1> DEFINE next == [op[a] EXCEPT !.stage = stage, !.ok = ok]
<1>1. op[a] \in PackageRequest
  BY DEF DepInv, DepTypes, Deps!Idle, AtWork
<1>2. /\ next \in PackageRequest /\ next.stage = stage
      /\ next.number = op[a].number /\ next.do = op[a].do
  BY <1>1 DEF PackageRequest
<1> HIDE DEF next
<1>3. op' = [op EXCEPT ![a] = next]
  BY DEF next
<1>4. op'[a] = next /\ \A b \in Admins \ {a} : op'[b] = op[b]
  BY <1>3 DEF DepInv, DepTypes
<1>5. depOpMu = a /\ \A b \in Admins \ {a} : op[b].stage \notin AtWork
  BY DEF DepInv, Locked
<1> QED
  BY <1>1, <1>2, <1>3, <1>4, <1>5, RequestMoves

(* Begin: the summary becomes the one of this operation. *)
LEMMA BeginStep ==
    ASSUME DepInv, NEW a \in Admins, Deps!Begin(a)
    PROVE  DepInv'
<1>1. op[a] \in PackageRequest /\ op[a].stage = "locked"
  BY DEF Deps!Begin, Deps!Here, DepInv, DepTypes, Deps!Idle
<1>2. op' = [op EXCEPT ![a] = [op[a] EXCEPT !.stage = "begun", !.ok = op[a].ok]]
  BY <1>1 DEF Deps!Begin, Deps!Move, PackageRequest
<1>3. UNCHANGED <<depOpMu, depOps, tree>>
  BY DEF Deps!Begin
<1>4. op[a].ok \in BOOLEAN
  BY <1>1 DEF PackageRequest
<1>5. /\ depOpMu = a /\ op' \in [Admins -> {Deps!Idle} \cup PackageRequest]
      /\ Locked'
      /\ op'[a].stage = "begun" /\ op'[a].do = op[a].do /\ op'[a].number = op[a].number
      /\ \A b \in Admins \ {a} : op'[b] = op[b] /\ op[b].stage \notin AtWork
  BY <1>1, <1>2, <1>3, <1>4, HolderMoves DEF AtWork
<1>6. Leads'
  BY <1>1, <1>3, <1>5 DEF DepInv, Leads
<1>7. progress = 0
  BY <1>1, <1>5 DEF DepInv, Summarised
<1>8. op[a].number = depOps /\ op[a].number \in Nat
  BY <1>1 DEF DepInv, Locked, AtWork, PackageRequest
<1>9. CASE op[a].do = "list"
  <2>1. UNCHANGED <<progress, lastError, logs, latest>>
    BY <1>9 DEF Deps!Begin, Deps!summary
  <2>2. Summarised'
    BY <1>5, <1>7, <1>9, <2>1 DEF DepInv, Summarised
  <2> QED
    BY <1>3, <1>5, <1>6, <2>1, <2>2 DEF DepInv, DepTypes
<1>10. CASE op[a].do # "list"
  <2>1. /\ progress' = op[a].number /\ lastError' = 0 /\ latest' = op[a].number
        /\ logs' = <<op[a].number>>
    BY <1>10 DEF Deps!Begin, Deps!None
  <2>2. logs' \in Seq(Nat) /\ \A i \in DOMAIN logs' : logs'[i] >= latest'
    BY <1>8, <2>1
  <2>3. Summarised'
    BY <1>3, <1>5, <1>10, <2>1, <2>2 DEF DepInv, Summarised
  <2>4. DepTypes'
    BY <1>3, <1>5, <1>8, <2>1 DEF DepInv, DepTypes
  <2> QED
    BY <1>5, <1>6, <2>3, <2>4 DEF DepInv
<1> QED
  BY <1>9, <1>10

(* A line of the holder's command keeps the logs those of the last operations. *)
LEMMA LinesKept ==
    ASSUME DepInv, NEW a \in Admins, op[a] \in PackageRequest, op[a].stage \in AtWork
    PROVE  /\ Deps!Logged(logs, op[a].number) \in Seq(Nat)
           /\ \A i \in DOMAIN Deps!Logged(logs, op[a].number) :
                 Deps!Logged(logs, op[a].number)[i] >= latest
<1>1. op[a].number \in Nat /\ latest \in Nat /\ op[a].number >= latest
  BY DEF DepInv, DepTypes, Locked, PackageRequest
<1>2. logs \in Seq(Nat) /\ \A i \in DOMAIN logs : logs[i] >= latest
  BY DEF DepInv, Summarised
<1> QED
  BY <1>1, <1>2, LoggedLines

(* An operation that ends without success, when its command no longer leads. *)
LEMMA FailsStep ==
    ASSUME DepInv, NEW a \in Admins, op[a].stage \in {"begun", "running"}, Deps!Fails(a),
           tree' \in [DOMAIN tree' -> Command], DOMAIN tree' \subseteq DOMAIN tree,
           \A n \in DOMAIN tree' : ~tree'[n].leader
    PROVE  DepInv'
<1>1. op[a] \in PackageRequest
  BY DEF DepInv, DepTypes, Deps!Idle
<1>2. op' = [op EXCEPT ![a] = [op[a] EXCEPT !.stage = "over", !.ok = op[a].ok]]
  BY <1>1 DEF Deps!Fails, Deps!Move, PackageRequest
<1>3. UNCHANGED <<depOpMu, depOps, latest>>
  BY DEF Deps!Fails
<1>4. op[a].ok \in BOOLEAN
  BY <1>1 DEF PackageRequest
<1>5. /\ depOpMu = a /\ op' \in [Admins -> {Deps!Idle} \cup PackageRequest]
      /\ Locked'
      /\ op'[a].stage = "over" /\ op'[a].do = op[a].do /\ op'[a].number = op[a].number
      /\ \A b \in Admins \ {a} : op'[b] = op[b] /\ op[b].stage \notin AtWork
  BY <1>1, <1>2, <1>3, <1>4, HolderMoves DEF AtWork
<1>6. Leads'
  BY <1>5 DEF Leads, AtWork
<1>7. DepTypes'
  BY <1>3, <1>5 DEF DepInv, DepTypes
<1>8. CASE op[a].do = "list"
  <2>1. UNCHANGED <<progress, lastError, logs>>
    BY <1>8 DEF Deps!Fails
  <2>2. progress = 0
    BY <1>5, <1>8 DEF DepInv, Summarised
  <2>3. Summarised'
    BY <1>3, <1>5, <1>8, <2>1, <2>2 DEF DepInv, Summarised
  <2> QED
    BY <1>5, <1>6, <1>7, <2>3 DEF DepInv
<1>9. CASE op[a].do # "list"
  <2>1. lastError' = op[a].number /\ progress' = 0 /\ logs' = Deps!Logged(logs, op[a].number)
    BY <1>9 DEF Deps!Fails, Deps!None
  <2>2. logs' \in Seq(Nat) /\ \A i \in DOMAIN logs' : logs'[i] >= latest'
    BY <1>1, <1>3, <2>1, LinesKept DEF AtWork
  <2>3. latest = op[a].number
    BY <1>9 DEF DepInv, Summarised, AtWork
  <2>4. Summarised'
    BY <1>3, <1>5, <1>9, <2>1, <2>2, <2>3 DEF DepInv, Summarised
  <2> QED
    BY <1>5, <1>6, <1>7, <2>4 DEF DepInv
<1> QED
  BY <1>8, <1>9

LEMMA CannotStartStep ==
    ASSUME DepInv, NEW a \in Admins, Deps!CannotStart(a)
    PROVE  DepInv'
<1>1. op[a].stage = "begun" /\ Deps!Fails(a) /\ tree' = tree
  BY DEF Deps!CannotStart, Deps!Looking, Deps!Here
<1>2. depOpMu = a
  BY <1>1 DEF DepInv, Locked, AtWork
<1>3. \A n \in DOMAIN tree : ~tree[n].leader
  BY <1>1, <1>2 DEF DepInv, Leads
<1> QED
  BY <1>1, <1>3, FailsStep DEF DepInv, DepTypes

LEMMA StartCommandStep ==
    ASSUME DepInv, NEW a \in Admins, Deps!StartCommand(a)
    PROVE  DepInv'
<1> DEFINE command == [do |-> op[a].do, pkg |-> op[a].pkg, leader |-> TRUE, lines |-> 0]
<1>1. op[a] \in PackageRequest /\ op[a].stage = "begun"
  BY DEF Deps!StartCommand, Deps!Looking, Deps!Here, DepInv, DepTypes, Deps!Idle
<1>2. op' = [op EXCEPT ![a] = [op[a] EXCEPT !.stage = "running", !.ok = op[a].ok]]
  BY <1>1 DEF Deps!StartCommand, Deps!Move, PackageRequest
<1>3. UNCHANGED <<depOpMu, depOps, progress, lastError, logs, latest>>
  BY DEF Deps!StartCommand, Deps!summary
<1>4. op[a].ok \in BOOLEAN /\ command \in Command /\ command.leader
  BY <1>1 DEF PackageRequest, Command
<1>5. /\ depOpMu = a /\ op' \in [Admins -> {Deps!Idle} \cup PackageRequest]
      /\ Locked'
      /\ op'[a].stage = "running" /\ op'[a].do = op[a].do /\ op'[a].number = op[a].number
      /\ \A b \in Admins \ {a} : op'[b] = op[b] /\ op[b].stage \notin AtWork
  BY <1>1, <1>2, <1>3, <1>4, HolderMoves DEF AtWork
<1>6. tree' = [n \in DOMAIN tree \cup {op[a].number} |->
                  IF n \in DOMAIN tree THEN tree[n] ELSE command]
  BY DEF Deps!StartCommand
<1> HIDE DEF command
<1>7. \A n \in DOMAIN tree : ~tree[n].leader
  BY <1>1, <1>5 DEF DepInv, Leads
<1>8. op[a].number \in 1 .. depOps /\ op[a].number \notin DOMAIN tree
  BY <1>1 DEF DepInv, DepTypes, Locked, Leads, AtWork
<1>9. DepTypes'
  <2>1. tree' \in [DOMAIN tree' -> Command] /\ DOMAIN tree' \subseteq 1 .. depOps'
    BY <1>3, <1>4, <1>6, <1>8 DEF DepInv, DepTypes
  <2> QED
    BY <1>3, <1>5, <2>1 DEF DepInv, DepTypes
<1>10. Leads'
  <2>1. /\ op[a].number \in DOMAIN tree' /\ tree'[op[a].number] = command
        /\ \A n \in DOMAIN tree' \ {op[a].number} : tree'[n] = tree[n] /\ n \in DOMAIN tree
    BY <1>6, <1>8
  <2> QED
    BY <1>3, <1>4, <1>5, <1>7, <2>1 DEF Leads, AtWork
<1>11. Summarised'
  BY <1>1, <1>3, <1>5 DEF DepInv, Summarised, AtWork
<1> QED
  BY <1>5, <1>9, <1>10, <1>11 DEF DepInv

LEMMA OutputStep ==
    ASSUME DepInv, NEW a \in Admins, Deps!Output(a)
    PROVE  DepInv'
<1>1. op[a] \in PackageRequest /\ op[a].stage = "running"
  BY DEF Deps!Output, Deps!Here, DepInv, DepTypes, Deps!Idle
<1>2. UNCHANGED <<op, depOpMu, depOps, progress, lastError, latest>>
  BY DEF Deps!Output
<1>3. logs' \in Seq(Nat) /\ \A i \in DOMAIN logs' : logs'[i] >= latest'
  BY <1>1, <1>2, LinesKept DEF Deps!Output, AtWork
<1>4. op[a].number \in DOMAIN tree
  BY <1>1 DEF DepInv, Leads
<1> DEFINE n == op[a].number
           c == [tree[n] EXCEPT !.lines = @ + 1]
<1>5. tree' = [tree EXCEPT ![n] = c]
  BY DEF Deps!Output
<1>6. tree[n] \in Command
  BY <1>4 DEF DepInv, DepTypes
<1>7. c \in Command /\ c.leader = tree[n].leader
  BY <1>6 DEF Command
<1> HIDE DEF c
<1>8. /\ DOMAIN tree' = DOMAIN tree /\ tree' \in [DOMAIN tree' -> Command]
      /\ \A m \in DOMAIN tree : tree'[m].leader = tree[m].leader
  BY <1>4, <1>5, <1>7 DEF DepInv, DepTypes
<1> QED
  BY <1>2, <1>3, <1>8 DEF DepInv, DepTypes, Locked, Leads, Summarised

LEMMA ExitStep ==
    ASSUME DepInv, NEW a \in Admins, Deps!Exit(a)
    PROVE  DepInv'
<1>1. op[a] \in PackageRequest /\ op[a].stage = "running"
  BY DEF Deps!Exit, Deps!Here, DepInv, DepTypes, Deps!Idle
<1>2. depOpMu = a
  BY <1>1 DEF DepInv, Locked, AtWork
<1>3. tree' = [m \in DOMAIN tree \ {op[a].number} |-> tree[m]]
  BY DEF Deps!Exit
<1>4. /\ tree' \in [DOMAIN tree' -> Command] /\ DOMAIN tree' \subseteq DOMAIN tree
      /\ \A m \in DOMAIN tree' : ~tree'[m].leader
  BY <1>2, <1>3 DEF DepInv, DepTypes, Leads
<1>5. CASE Deps!Fails(a)
  BY <1>1, <1>4, <1>5, FailsStep
<1>6. CASE /\ op' = [op EXCEPT ![a].stage = "over", ![a].ok = TRUE]
           /\ logs' = IF op[a].do = "list" THEN logs ELSE Deps!Logged(logs, op[a].number)
           /\ progress' = IF op[a].do = "list" THEN progress ELSE Deps!None
           /\ UNCHANGED <<lastError, latest, depOpMu, depOps>>
  <2>1. op' = [op EXCEPT ![a] = [op[a] EXCEPT !.stage = "over", !.ok = TRUE]]
    BY <1>1, <1>6 DEF PackageRequest, DepInv, DepTypes
  <2>2. /\ op' \in [Admins -> {Deps!Idle} \cup PackageRequest]
        /\ Locked'
        /\ op'[a].stage = "over" /\ op'[a].do = op[a].do /\ op'[a].number = op[a].number
        /\ \A b \in Admins \ {a} : op'[b] = op[b] /\ op[b].stage \notin AtWork
    BY <1>1, <1>6, <2>1, HolderMoves DEF AtWork
  <2>3. DepTypes' /\ Leads'
    BY <1>4, <1>6, <2>2 DEF DepInv, DepTypes, Leads, AtWork
  <2>4. logs' \in Seq(Nat) /\ \A i \in DOMAIN logs' : logs'[i] >= latest'
    BY <1>1, <1>6, LinesKept DEF DepInv, Summarised, AtWork
  <2>5. progress' = 0
    BY <1>1, <1>2, <1>6 DEF DepInv, Summarised, Deps!None
  <2>6. Summarised'
    BY <1>1, <1>6, <2>2, <2>4, <2>5 DEF DepInv, Summarised, AtWork
  <2> QED
    BY <2>2, <2>3, <2>6 DEF DepInv
<1> QED
  BY <1>5, <1>6 DEF Deps!Exit

LEMMA TerminateStep ==
    ASSUME DepInv, NEW a \in Admins, Deps!Terminate(a)
    PROVE  DepInv'
<1> DEFINE n == op[a].number
<1>1. op[a].stage = "running" /\ Deps!Fails(a)
  BY DEF Deps!Terminate, Deps!Here
<1>2. depOpMu = a /\ n \in DOMAIN tree /\ tree[n] \in Command
  BY <1>1 DEF DepInv, DepTypes, Locked, Leads, AtWork
<1>3. \A m \in DOMAIN tree \ {n} : ~tree[m].leader
  BY <1>2 DEF DepInv, Leads
<1>4. CASE tree' = [m \in DOMAIN tree \ {n} |-> tree[m]]
  BY <1>1, <1>3, <1>4, FailsStep DEF DepInv, DepTypes
<1>5. CASE tree' = [tree EXCEPT ![n].leader = FALSE]
  <2> DEFINE c == [tree[n] EXCEPT !.leader = FALSE]
  <2>1. c \in Command /\ ~c.leader /\ tree' = [tree EXCEPT ![n] = c]
    BY <1>2, <1>5 DEF Command
  <2> HIDE DEF c
  <2>2. /\ tree' \in [DOMAIN tree' -> Command] /\ DOMAIN tree' \subseteq DOMAIN tree
        /\ \A m \in DOMAIN tree' : ~tree'[m].leader
    BY <1>2, <1>3, <2>1 DEF DepInv, DepTypes
  <2> QED
    BY <1>1, <2>2, FailsStep
<1> QED
  BY <1>4, <1>5 DEF Deps!Terminate

LEMMA OrphanWritesStep ==
    ASSUME DepInv, NEW n, Deps!OrphanWrites(n)
    PROVE  DepInv'
<1>1. /\ n \in DOMAIN tree /\ ~tree[n].leader
      /\ tree' = [m \in DOMAIN tree \ {n} |-> tree[m]]
      /\ UNCHANGED <<op, depOpMu, depOps, progress, lastError, logs, latest>>
  BY DEF Deps!OrphanWrites, Deps!summary
<1>2. \A a \in Admins : op[a].stage = "running" => tree[op[a].number].leader
  BY DEF DepInv, Leads, Locked, AtWork
<1> QED
  BY <1>1, <1>2 DEF DepInv, DepTypes, Locked, Leads, Summarised

(* The caches are emptied. *)
LEMMA LastStagesStep ==
    ASSUME DepInv, NEW a \in Admins,
           Deps!InvalidatePrefixes(a) \/ Deps!InvalidatePreflights(a)
    PROVE  DepInv'
<1>1. PICK stage \in {"invalidating", "answered"} :
          Deps!Move(a, stage) /\ op[a].stage \in {"over", "invalidating"}
  BY DEF Deps!InvalidatePrefixes, Deps!InvalidatePreflights, Deps!Here
<1>2. op[a] \in PackageRequest
  BY <1>1 DEF DepInv, DepTypes, Deps!Idle
<1>3. op' = [op EXCEPT ![a] = [op[a] EXCEPT !.stage = stage, !.ok = op[a].ok]]
  BY <1>1, <1>2 DEF Deps!Move, PackageRequest
<1>4. UNCHANGED <<depOpMu, depOps, tree, progress, lastError, logs, latest>>
  BY DEF Deps!InvalidatePrefixes, Deps!InvalidatePreflights, Deps!summary
<1>5. op[a].ok \in BOOLEAN
  BY <1>2 DEF PackageRequest
<1>6. /\ depOpMu = a /\ op' \in [Admins -> {Deps!Idle} \cup PackageRequest]
      /\ Locked'
      /\ op'[a].stage = stage /\ op'[a].do = op[a].do /\ op'[a].number = op[a].number
      /\ \A b \in Admins \ {a} : op'[b] = op[b] /\ op[b].stage \notin AtWork
  BY <1>1, <1>3, <1>4, <1>5, HolderMoves DEF AtWork
<1>7. DepTypes'
  BY <1>4, <1>6 DEF DepInv, DepTypes
<1>8. progress = 0 /\ \A n \in DOMAIN tree : ~tree[n].leader
  BY <1>1, <1>6 DEF DepInv, Leads, Summarised
<1>9. Leads'
  BY <1>1, <1>4, <1>6, <1>8 DEF DepInv, Leads, AtWork
<1>10. Summarised'
  BY <1>1, <1>4, <1>6, <1>8 DEF DepInv, Summarised, AtWork
<1> QED
  BY <1>6, <1>7, <1>9, <1>10 DEF DepInv

LEMMA ReleaseStep ==
    ASSUME DepInv, NEW a \in Admins, Deps!Release(a)
    PROVE  DepInv'
<1>1. /\ op[a].stage \in {"over", "answered"}
      /\ depOpMu' = Nobody /\ op' = [op EXCEPT ![a] = Deps!Idle]
      /\ UNCHANGED <<depOps, tree, progress, lastError, logs, latest>>
  BY DEF Deps!Release, Deps!Here, Deps!summary
<1>2. depOpMu = a /\ \A b \in Admins \ {a} : op[b].stage \notin AtWork
  BY <1>1 DEF DepInv, Locked, AtWork
<1>3. op'[a].stage = "idle" /\ \A b \in Admins \ {a} : op'[b] = op[b]
  BY <1>1 DEF DepInv, DepTypes, Deps!Idle
<1>4. \A b \in Admins : op'[b].stage \notin AtWork
  BY <1>2, <1>3 DEF AtWork
<1>5. progress = 0 /\ \A n \in DOMAIN tree : ~tree[n].leader
  BY <1>1, <1>2 DEF DepInv, Leads, Summarised
<1>6. DepTypes'
  BY <1>1 DEF DepInv, DepTypes
<1>7. Locked' /\ Leads'
  BY <1>1, <1>4, <1>5, NobodyIsNoAdmin DEF Locked, Leads, AtWork
<1>8. Summarised'
  BY <1>1, <1>4, <1>5 DEF DepInv, Summarised
<1> QED
  BY <1>6, <1>7, <1>8 DEF DepInv

(* Preflights, files placed by hand and the clock touch nothing of this. *)
LEMMA DepOthersStep ==
    ASSUME DepInv, UNCHANGED <<op, depOpMu, depOps, tree, progress, lastError, logs, latest>>
    PROVE  DepInv'
BY DEF DepInv, DepTypes, Locked, Leads, Summarised

LEMMA DepNext == DepInv /\ [Deps!Next]_depVars => DepInv'
<1> SUFFICES ASSUME DepInv, [Deps!Next]_depVars PROVE DepInv'
  OBVIOUS
<1>1. CASE UNCHANGED depVars
  BY <1>1, DepOthersStep DEF depVars
<1>2. ASSUME NEW file \in Placed, Deps!Place(file) PROVE DepInv'
  BY <1>2, DepOthersStep DEF Deps!Place, Deps!requests, Deps!summary
<1>3. ASSUME NEW p \in Probers, NEW req \in Preflights, Deps!StartPreflight(p, req)
      PROVE  DepInv'
  BY <1>3, DepOthersStep DEF Deps!StartPreflight, Deps!requests, Deps!summary
<1>4. ASSUME NEW p \in Probers,
             \/ Deps!ReadPrefixes(p) \/ Deps!StorePrefixes(p) \/ Deps!UseEntry(p)
             \/ Deps!Evaluate(p) \/ Deps!SavePreflight(p)
      PROVE  DepInv'
  <2>1. UNCHANGED <<Deps!requests, Deps!summary>>
    BY <1>4 DEF Deps!ReadPrefixes, Deps!StorePrefixes, Deps!UseEntry, Deps!Evaluate,
       Deps!SavePreflight
  <2> QED
    BY <2>1, DepOthersStep DEF Deps!requests, Deps!summary
<1>5. CASE Deps!Tick
  BY <1>5, DepOthersStep DEF Deps!Tick, Deps!requests, Deps!summary
<1>6. ASSUME NEW r \in Admins \cup Pollers, Deps!Look(r) \/ Deps!StoreLook(r)
      PROVE  DepInv'
  BY <1>6, DepOthersStep DEF Deps!Look, Deps!StoreLook, Deps!summary
<1>7. ASSUME NEW a \in Admins, Deps!Find(a) PROVE DepInv'
  BY <1>7, DepOthersStep DEF Deps!Find, Deps!summary
<1> QED
  BY <1>1, <1>2, <1>3, <1>4, <1>5, <1>6, <1>7, RequestStep, CancelRequestStep, AcquireStep,
     BeginStep, CannotStartStep, StartCommandStep, OutputStep, ExitStep, TerminateStep,
     OrphanWritesStep, LastStagesStep, ReleaseStep DEF Deps!Next

LEMMA LeadsOnce == DepInv => Deps!OneOperationAtATime
<1> SUFFICES ASSUME DepInv PROVE Deps!OneOperationAtATime
  OBVIOUS
<1> DEFINE leaders == {n \in DOMAIN tree : tree[n].leader}
<1>1. leaders \subseteq {op[depOpMu].number}
  BY DEF DepInv, Leads
<1>2. Cardinality(leaders) <= 1
  <2>1. IsFiniteSet({op[depOpMu].number}) /\ Cardinality({op[depOpMu].number}) = 1
    BY FS_Singleton
  <2> HIDE DEF leaders
  <2>2. IsFiniteSet(leaders) /\ Cardinality(leaders) <= Cardinality({op[depOpMu].number})
    BY <1>1, <2>1, FS_Subset
  <2> QED
    BY <2>1, <2>2
<1>3. Deps!Cardinality(leaders) = Cardinality(leaders)
  BY DEF Deps!Cardinality, Cardinality
<1>4. progress # 0 => op[depOpMu].number = progress
  BY DEF DepInv, Summarised, AtWork
<1> HIDE DEF leaders
<1>5. Deps!Cardinality(leaders) <= 1
  BY <1>2, <1>3
<1> QED
  BY <1>4, <1>5 DEF leaders, Deps!OneOperationAtATime, DepInv, Summarised, Deps!None


(* One package manager runs at a time, and the progress, the error and the *)
(* logs that administrators poll are of the last operation that began,     *)
(* however many requests queue, are cancelled or leave processes behind.   *)
THEOREM PackagesOneAtATime ==
    Spec => [](service = "deps" => Deps!OneOperationAtATime)
<1>1. Init => DepInv
  BY DepInit DEF Init
<1>2. DepInv /\ [Next]_allVars => DepInv'
  <2>1. [Next]_allVars => [Deps!Next]_depVars
    BY DEF Next, allVars, depVars
  <2> QED
    BY <2>1, DepNext
<1>3. DepInv => (service = "deps" => Deps!OneOperationAtATime)
  BY LeadsOnce
<1> QED
  BY <1>1, <1>2, <1>3, PTL DEF Spec

-----------------------------------------------------------------------------
(* What Connect has settled of a child before it starts it.                 *)
LaunchOK(p) ==
    /\ p.policy.stdioEnabled /\ p.file.name \notin Starts!Shells
    /\ p.eff.mode = "strict" =>
          /\ p.policy.strictPathOnly => p.file.root # "elsewhere"
          /\ Starts!CommandAllowed(p.file.name, p.policy,
                                   Starts!CommandAllowlist(p.policy, "strict"))
          /\ p.command \in {"npx", "uvx"} => \E i \in DOMAIN p.args : p.args[i] \in p.eff.packages
    /\ \A k \in DOMAIN p.user : IsList(p.user[k])

LaunchInv ==
    /\ host \in Hosts
    /\ declared # Nothing => declared.params \in Commands
    /\ launch # Nothing => LaunchOK(launch)
    /\ Starts!ProcessesObeyPolicy

LEMMA ListIndices ==
    ASSUME NEW s, IsList(s)
    PROVE  DOMAIN s = 1..Len(s) /\ Len(s) \in Nat /\ DOMAIN s \subseteq Nat /\ IsFiniteSet(DOMAIN s)
<1>1. DOMAIN s = 1..Len(s) /\ Len(s) \in Nat
  BY DEF IsList
<1>2. IsFiniteSet(1..Len(s))
  BY <1>1, FS_Interval
<1> QED
  BY <1>1, <1>2

(* A non-empty set of indices has a smallest one, a finite one a largest.    *)
LEMMA SmallestIndex ==
    ASSUME NEW S, S \subseteq Nat, S # {}
    PROVE  Starts!Min(S) \in S
<1>0. S \in SUBSET Nat
  OBVIOUS
<1>1. PICK x \in S : \A y \in S : ~ (<<y, x>> \in OpToRel(<, Nat))
  BY <1>0, WFMin, NatLessThanWellFounded, Zenon
<1>2. \A y \in S : ~ (y < x)
  BY <1>0, <1>1, Zenon DEF OpToRel
<1>3. \A y \in S : x <= y
  BY <1>2
<1> QED
  BY <1>3 DEF Starts!Min

LEMMA LargestIndex ==
    ASSUME NEW S, S \subseteq Nat, S # {}, IsFiniteSet(S)
    PROVE  Starts!Max(S) \in S
<1>1. S \in SUBSET Int
  OBVIOUS
<1>2. Catalog!Max(S) \in S
  BY <1>1, LargestOf
<1>3. Starts!Max(S) = Catalog!Max(S)
  BY Zenon DEF Starts!Max, Catalog!Max
<1> QED
  BY <1>2, <1>3

LEMMA DecidesAnArgument ==
    ASSUME NEW args, IsList(args), NEW plain, NEW valued
    PROVE  Starts!Decides(args, plain, valued) \in {0} \cup DOMAIN args
<1> DEFINE skipped[i \in Nat] == i > 1 /\ args[i - 1] \in valued /\ ~skipped[i - 1]
           left == {i \in DOMAIN args : ~skipped[i] /\ args[i] \notin plain \cup valued}
<1>1. left \subseteq DOMAIN args /\ left \subseteq Nat
  <2> HIDE DEF skipped
  <2> QED
    BY ListIndices
<1>2. left # {} => Starts!Min(left) \in left
  <2> HIDE DEF left
  <2> QED
    BY <1>1, SmallestIndex
<1>3. Starts!Decides(args, plain, valued) = IF left = {} THEN 0 ELSE Starts!Min(left)
  BY DEF Starts!Decides
<1> HIDE DEF left
<1> QED
  BY <1>1, <1>2, <1>3

LEMMA NpxTargetIsAnArgument ==
    ASSUME NEW args, IsList(args)
    PROVE  Starts!NpxTarget(args) = Nothing \/ \E i \in DOMAIN args : Starts!NpxTarget(args) = args[i]
<1> DEFINE decisive == {i \in DOMAIN args :
                 args[i] \in {"-p", "--package", "-c", "--call", "--shell", "--node-options"}}
           plain == {"-y", "--yes", "-q", "--quiet", "--no-install", "-g", "--global",
                        "--prefer-offline"}
           valued == {"--registry", "--prefix", "--cache"}
           d == Starts!Decides(args, plain, valued)
           i == IF decisive # {} THEN Starts!Min(decisive) ELSE d
<1>1. i = 0 \/ i \in DOMAIN args
  <2>1. d = 0 \/ d \in DOMAIN args
    BY DecidesAnArgument
  <2>2. decisive # {} => Starts!Min(decisive) \in DOMAIN args
    <3>1. decisive \subseteq DOMAIN args /\ decisive \subseteq Nat
      BY ListIndices
    <3> HIDE DEF decisive
    <3> QED
      BY <3>1, SmallestIndex
  <2> HIDE DEF d, decisive
  <2> QED
    BY <2>1, <2>2
<1>2. Starts!NpxTarget(args) =
        IF i = 0 THEN Nothing
        ELSE IF decisive = {} THEN Starts!Named(args[i])
        ELSE IF args[i] \in {"-p", "--package"} /\ i < Len(args) /\ args[i + 1] \notin Dangerous
             THEN args[i + 1] ELSE Nothing
  BY Zenon DEF Starts!NpxTarget
<1> HIDE DEF i, decisive
<1>3. i \in DOMAIN args /\ i < Len(args) => i + 1 \in DOMAIN args
  BY ListIndices
<1> QED
  BY <1>1, <1>2, <1>3 DEF Starts!Named

LEMMA UvxTargetIsAnArgument ==
    ASSUME NEW args, IsList(args)
    PROVE  Starts!UvxTarget(args) = Nothing \/ \E i \in DOMAIN args : Starts!UvxTarget(args) = args[i]
<1> DEFINE valued == {"--from", "-f", "--python", "--index-url"}
           i == Starts!Decides(args, {"-q", "--quiet", "--isolated", "--refresh"}, valued)
           from == {k \in DOMAIN args : args[k] \in {"--from", "-f"} /\ k < Len(args) /\ (i = 0 \/ k < i)}
<1>1. i = 0 \/ i \in DOMAIN args
  BY DecidesAnArgument
<1>2. from # {} => Starts!Max(from) + 1 \in DOMAIN args
  <2> HIDE DEF i
  <2>1. /\ from \subseteq DOMAIN args /\ from \subseteq Nat
        /\ \A k \in from : k + 1 \in DOMAIN args
    BY ListIndices
  <2>2. IsFiniteSet(from)
    BY <2>1, ListIndices, FS_Subset
  <2> HIDE DEF from
  <2> QED
    BY <2>1, <2>2, LargestIndex
<1>3. Starts!UvxTarget(args) =
        IF i # 0 /\ args[i] \in Starts!Flags \cup {"run", "tool", "install", "pip"} THEN Nothing
        ELSE IF from # {} THEN Starts!Named(args[Starts!Max(from) + 1])
        ELSE IF i = 0 THEN Nothing ELSE Starts!Named(args[i])
  BY Zenon DEF Starts!UvxTarget
<1> HIDE DEF i, from
<1> QED
  BY <1>1, <1>2, <1>3 DEF Starts!Named

(* A package both lists of a strict launch name is an argument it is given. *)
LEMMA TargetIsAnArgument ==
    ASSUME NEW command, NEW args, IsList(args), NEW eff,
           Starts!LauncherAllowed(command, args, eff), command \in {"npx", "uvx"}
    PROVE  \E i \in DOMAIN args : args[i] \in eff.packages
BY NpxTargetIsAnArgument, UvxTargetIsAnArgument DEF Starts!LauncherAllowed, Starts!Target

LEMMA PrependedKeeps ==
    ASSUME NEW list, IsList(list)
    PROVE  Starts!Contains(Starts!Prepended(list), "volume")
<1>1. CASE Starts!Contains(list, "volume")
  BY <1>1 DEF Starts!Prepended
<1>2. CASE ~Starts!Contains(list, "volume")
  <2> DEFINE S == {list[i] : i \in DOMAIN list} \cup {"volume"}
  <2>1. list \in Seq(S) /\ <<"volume">> \in Seq(S)
    BY DEF IsList
  <2>2. (<<"volume">> \o list)[1] = "volume" /\ Len(<<"volume">> \o list) = 1 + Len(list) /\ Len(list) \in Nat
    <3> HIDE DEF S
    <3> QED
      BY <2>1, ConcatProperties
  <2>3. Starts!Prepended(list) = <<"volume">> \o list
    BY <1>2 DEF Starts!Prepended
  <2> QED
    BY <2>2, <2>3 DEF Starts!Contains
<1> QED
  BY <1>1, <1>2

(* The environment of a child: no secret it does not declare itself, and    *)
(* the managed modules on the search path.                                  *)
LEMMA EnvironmentIsSafe ==
    ASSUME NEW pol, NEW eff, NEW user, \A k \in DOMAIN user : IsList(user[k])
    PROVE  LET env == Starts!ChildEnv(pol, eff, user)
           IN  /\ \A k \in (DOMAIN ParentEnv \cap DOMAIN env) \ DOMAIN user : k \notin Sensitive
               /\ \A k \in Starts!ModulePaths : Starts!Contains(env[k], "volume")
<1> DEFINE strict == eff.mode = "strict"
           parent == Starts!Restrict(ParentEnv, Starts!Inherited(pol, eff.mode))
           path == [k \in {"PATH"} |-> Starts!WithPrefixes(Starts!Of(parent, k))]
           mirrors == [k \in IF pol.mirror THEN {"REGISTRY"} ELSE {} |-> <<"mirror">>]
           kept == IF strict
                   THEN DOMAIN user \ {"LD_PRELOAD", "NODE_OPTIONS", "NODE_PATH", "PYTHONPATH"}
                   ELSE DOMAIN user
           own == Starts!Restrict(user, kept)
           base == Starts!Over(path, parent)
           mirrored == Starts!Over(mirrors, base)
           env == Starts!Over(own, mirrored)
           modules == [k \in Starts!ModulePaths |->
                         IF strict THEN <<"volume">> ELSE Starts!Prepended(Starts!Of(env, k))]
           again == [k \in IF strict THEN {"PATH"} ELSE {} |-> Starts!WithPrefixes(env[k])]
           late == Starts!Over(modules, env)
           result == Starts!Over(again, late)
<1>1. Starts!ChildEnv(pol, eff, user) = result
  BY Zenon DEF Starts!ChildEnv
<1>2. /\ DOMAIN parent \subseteq DOMAIN ParentEnv \ Sensitive
      /\ \A k \in DOMAIN parent : parent[k] = ParentEnv[k]
  BY DEF Starts!Restrict, Starts!Inherited
<1>3. DOMAIN own \subseteq DOMAIN user /\ \A k \in DOMAIN own : own[k] = user[k]
  BY DEF Starts!Restrict
<1>4. DOMAIN path = {"PATH"} /\ DOMAIN mirrors \subseteq {"REGISTRY"}
  OBVIOUS
<1>5. /\ DOMAIN modules = Starts!ModulePaths /\ DOMAIN again \subseteq {"PATH"}
      /\ DOMAIN modules \subseteq {"NODE_PATH", "PYTHONPATH"}
  BY DEF Starts!ModulePaths
<1>6. \A k \in Starts!ModulePaths :
         modules[k] = IF strict THEN <<"volume">> ELSE Starts!Prepended(Starts!Of(env, k))
  OBVIOUS
<1> HIDE DEF parent, own, path, mirrors, modules, again
<1>7. DOMAIN base = {"PATH"} \cup DOMAIN parent
  BY <1>4 DEF Starts!Over
<1>8. \A k \in DOMAIN base \ {"PATH"} : base[k] = parent[k]
  BY <1>4, <1>7 DEF Starts!Over
<1> HIDE DEF base
<1>9. DOMAIN mirrored = DOMAIN mirrors \cup DOMAIN base
  BY DEF Starts!Over
<1>10. \A k \in DOMAIN mirrored \ {"PATH", "REGISTRY"} : mirrored[k] = parent[k] /\ k \in DOMAIN parent
  BY <1>4, <1>7, <1>8, <1>9 DEF Starts!Over
<1> HIDE DEF mirrored
<1>11. DOMAIN env = DOMAIN own \cup DOMAIN mirrored
  BY DEF Starts!Over
<1>12. \A k \in DOMAIN env \ {"PATH", "REGISTRY"} : IsList(env[k])
  <2> SUFFICES ASSUME NEW k \in DOMAIN env \ {"PATH", "REGISTRY"}
               PROVE  IsList(env[k])
    OBVIOUS
  <2>1. CASE k \in DOMAIN own
    <3>1. env[k] = own[k]
      BY <2>1, <1>11 DEF Starts!Over
    <3> QED
      BY <2>1, <3>1, <1>3
  <2>2. CASE k \notin DOMAIN own
    <3>1. env[k] = mirrored[k] /\ k \in DOMAIN mirrored
      BY <2>2, <1>11 DEF Starts!Over
    <3>2. env[k] = ParentEnv[k] /\ k \in DOMAIN ParentEnv
      BY <3>1, <1>10, <1>2
    <3> QED
      BY <3>2, LaunchLists
  <2> QED
    BY <2>1, <2>2
<1> HIDE DEF env
<1>13. DOMAIN late = DOMAIN modules \cup DOMAIN env
       /\ \A k \in DOMAIN modules : late[k] = modules[k]
  BY DEF Starts!Over
<1> HIDE DEF late
<1>14. DOMAIN result = DOMAIN again \cup DOMAIN late
       /\ \A k \in DOMAIN late \ DOMAIN again : result[k] = late[k]
  BY DEF Starts!Over
<1> HIDE DEF result
<1>15. ASSUME NEW k \in (DOMAIN ParentEnv \cap DOMAIN result) \ DOMAIN user
       PROVE  k \notin Sensitive
  <2>1. k \in {"PATH", "REGISTRY", "NODE_PATH", "PYTHONPATH"} \/ k \in DOMAIN parent
    BY <1>3, <1>4, <1>5, <1>7, <1>9, <1>11, <1>13, <1>14
  <2> QED
    BY <2>1, <1>2, ManagedIsNotSensitive
<1>16. ASSUME NEW k \in Starts!ModulePaths
       PROVE  Starts!Contains(result[k], "volume")
  <2>1. result[k] = IF strict THEN <<"volume">> ELSE Starts!Prepended(Starts!Of(env, k))
    BY <1>5, <1>6, <1>13, <1>14
  <2>2. IsList(Starts!Of(env, k))
    <3>1. IsList(<<>>)
      BY DEF IsList
    <3>2. k \notin {"PATH", "REGISTRY"}
      BY DEF Starts!ModulePaths
    <3> QED
      BY <1>12, <3>1, <3>2 DEF Starts!Of
  <2>3. Starts!Contains(<<"volume">>, "volume")
    BY DEF Starts!Contains
  <2> QED
    BY <2>1, <2>2, <2>3, PrependedKeeps
<1> QED
  BY <1>1, <1>15, <1>16

LEMMA TrustedRootIsSomewhere ==
    ASSUME host \in Hosts
    PROVE  "elsewhere" \notin Starts!TrustedRoots
BY ToolsAreSomewhere DEF Starts!TrustedRoots

LEMMA TrustedFile ==
    ASSUME NEW command, Starts!FoundTrusted(command) # Nothing
    PROVE  Starts!FoundTrusted(command).root \in Starts!TrustedRoots
BY DEF Starts!FoundTrusted, Starts!Resolved

LEMMA ResolveStep ==
    ASSUME LaunchInv, Starts!Resolve
    PROVE  LaunchInv'
<1> DEFINE eff == Starts!Effective(policy, declared.profile)
           s == Starts!Started(policy, declared.profile, declared.params)
           file == IF eff.mode = "strict" /\ policy.strictPathOnly
                   THEN Starts!FoundTrusted(s.command) ELSE Starts!Found(s.command)
           c == declared.params
<1>1. /\ declared # Nothing /\ UNCHANGED <<policy, host, seen, declared, child>>
      /\ Starts!Accepts(policy, declared.profile, declared.params)
      /\ file # Nothing /\ Starts!CommandAllowed(file.name, policy, eff.commands)
      /\ launch' = [policy |-> policy, eff |-> eff, file |-> file, command |-> s.command,
                    args |-> s.args, cwd |-> s.cwd, user |-> declared.params.env]
  BY DEF Starts!Resolve
<1>2. c \in Commands
  BY <1>1 DEF LaunchInv
<1>3. Starts!SecurityAllows(eff, s.cwd, s.command, s.args) /\ s # Nothing
  BY <1>1 DEF Starts!Accepts
<1>4. IsList(s.args)
  <2>1. CASE c.mode = "directory"
    <3>1. s = Starts!Entry(policy, declared.profile, c)
      BY <2>1 DEF Starts!Started
    <3> DEFINE entry == host.manifest[<<Starts!Real(c.root), c.entry>>]
    <3>2. s = [command |-> entry.command, args |-> <<Starts!Last(entry.script)>>,
               cwd |-> Starts!Real(entry.cwd)]
      BY <3>1, <1>3, Zenon DEF Starts!Entry
    <3> HIDE DEF s, entry
    <3>3. s.args = <<Starts!Last(entry.script)>>
      BY <3>2
    <3> QED
      BY <3>3 DEF IsList
  <2>2. CASE c.mode # "directory"
    <3>1. s.args = c.args
      BY <2>2 DEF Starts!Started
    <3> QED
      BY <3>1, <2>2, <1>2, LaunchLists
  <2> QED
    BY <2>1, <2>2
<1>5. eff.mode = "strict" => eff.commands = Starts!CommandAllowlist(policy, "strict")
  BY DEF Starts!Effective
<1>6. eff.mode = "strict" /\ policy.strictPathOnly => file.root # "elsewhere"
  <2> HIDE DEF s, eff
  <2>1. host \in Hosts
    BY DEF LaunchInv
  <2> QED
    BY <2>1, <1>1, TrustedRootIsSomewhere, TrustedFile
<1>7. eff.mode = "strict" /\ s.command \in {"npx", "uvx"} =>
         \E i \in DOMAIN s.args : s.args[i] \in eff.packages
  <2> HIDE DEF s, eff
  <2> QED
    BY <1>3, <1>4, TargetIsAnArgument DEF Starts!SecurityAllows
<1>8. \A k \in DOMAIN c.env : IsList(c.env[k])
  BY <1>2, LaunchLists
<1>9. policy.stdioEnabled /\ file.name \notin Starts!Shells
  BY <1>1 DEF Starts!CommandAllowed
<1> HIDE DEF eff, s, file
<1>10. LaunchOK(launch')
  <2> DEFINE l == [policy |-> policy, eff |-> eff, file |-> file, command |-> s.command,
                   args |-> s.args, cwd |-> s.cwd, user |-> declared.params.env]
  <2>1. /\ l.policy = policy /\ l.eff = eff /\ l.file = file /\ l.command = s.command
        /\ l.args = s.args /\ l.user = c.env
    OBVIOUS
  <2> HIDE DEF l
  <2>2. LaunchOK(l)
    BY <2>1, <1>1, <1>5, <1>6, <1>7, <1>8, <1>9 DEF LaunchOK
  <2> QED
    BY <2>2, <1>1 DEF l
<1>11. LaunchOK(launch)'
  BY <1>1, <1>10 DEF LaunchOK, Starts!CommandAllowed, Starts!CommandAllowlist
<1> QED
  BY <1>1, <1>11 DEF LaunchInv, Starts!ProcessesObeyPolicy

LEMMA StartStep ==
    ASSUME LaunchInv, Starts!Start
    PROVE  LaunchInv'
<1> DEFINE env == Starts!ChildEnv(launch.policy, launch.eff, launch.user)
           strict == Starts!OrElse(launch.policy.strictCommands, Starts!StrictTools)
           both == {c \in strict : launch.policy.commands = {} \/ c \in launch.policy.commands}
<1>1. /\ launch # Nothing /\ launch' = Nothing /\ UNCHANGED <<host, declared>>
      /\ child' = [started |-> launch, env |-> env]
  BY DEF Starts!Start
<1>2. LaunchOK(launch)
  BY <1>1 DEF LaunchInv
<1>3. child'.started = launch /\ child'.env = env
  BY <1>1
<1>4. /\ \A k \in (DOMAIN ParentEnv \cap DOMAIN env) \ DOMAIN launch.user : k \notin Sensitive
      /\ \A k \in Starts!ModulePaths : Starts!Contains(env[k], "volume")
  BY <1>2, EnvironmentIsSafe DEF LaunchOK
<1> HIDE DEF env
<1>5. launch.eff.mode = "strict" /\ both # {} => launch.file.name \in both
  <2> SUFFICES ASSUME launch.eff.mode = "strict", both # {}
               PROVE  launch.file.name \in both
    OBVIOUS
  <2>1. Starts!CommandAllowlist(launch.policy, "strict") =
          IF launch.policy.commands = {} THEN strict ELSE launch.policy.commands \cap strict
    BY DEF Starts!CommandAllowlist
  <2>2. Starts!CommandAllowlist(launch.policy, "strict") = both
    BY <2>1
  <2> HIDE DEF both
  <2> QED
    BY <1>2, <2>2 DEF LaunchOK, Starts!CommandAllowed
<1>6. Starts!ProcessesObeyPolicy'
  BY <1>2, <1>3, <1>4, <1>5 DEF LaunchOK, Starts!ProcessesObeyPolicy
<1> QED
  BY <1>1, <1>6 DEF LaunchInv

LEMMA LaunchNext ==
    LaunchInv /\ [Starts!Next]_launchVars => LaunchInv'
<1> SUFFICES ASSUME LaunchInv, [Starts!Next]_launchVars
             PROVE  LaunchInv'
  OBVIOUS
<1> USE DEF LaunchInv, LaunchOK, Starts!ProcessesObeyPolicy, Starts!CommandAllowed,
            Starts!CommandAllowlist
<1>1. CASE UNCHANGED launchVars
  BY <1>1 DEF launchVars
<1>2. ASSUME NEW p \in Policies, Starts!SetPolicy(p) PROVE LaunchInv'
  BY <1>2 DEF Starts!SetPolicy
<1>3. ASSUME NEW h \in Hosts, Starts!ChangeHost(h) PROVE LaunchInv'
  BY <1>3 DEF Starts!ChangeHost
<1>4. ASSUME NEW pr \in {"bwrap", "prefixes"}, Starts!Expire(pr) PROVE LaunchInv'
  BY <1>4 DEF Starts!Expire
<1>5. ASSUME NEW profile \in LaunchProfiles, NEW c \in Commands, Starts!Save(profile, c)
      PROVE  LaunchInv'
  BY <1>5 DEF Starts!Save
<1>6. CASE Starts!Exit
  BY <1>6 DEF Starts!Exit
<1> QED
  BY <1>1, <1>2, <1>3, <1>4, <1>5, <1>6, ResolveStep, StartStep DEF Starts!Next

(* Whatever the policy, the files of the host and the probes have become    *)
(* since an upstream was saved, the process a launch starts obeys the       *)
(* policy that launch read.                                                 *)
THEOREM LaunchesObeyPolicy ==
    Spec => []ProcessesObeyPolicy
<1>1. Init => LaunchInv
  BY DEF Init, Starts!Init, LaunchInv, Starts!ProcessesObeyPolicy
<1>2. LaunchInv /\ [Next]_allVars => LaunchInv'
  <2> SUFFICES ASSUME LaunchInv, [Next]_allVars
               PROVE  LaunchInv'
    OBVIOUS
  <2>1. [Starts!Next]_launchVars
    BY DEF Next, allVars
  <2> QED
    BY <2>1, LaunchNext
<1>3. LaunchInv => ProcessesObeyPolicy
  BY DEF LaunchInv, ProcessesObeyPolicy
<1> QED
  BY <1>1, <1>2, <1>3, PTL DEF Spec

-----------------------------------------------------------------------------
StrictOrder(R, S) ==
    /\ \A p \in S : <<p, p>> \notin R
    /\ \A p, q \in S : p # q => <<p, q>> \in R \/ <<q, p>> \in R
    /\ \A p, q, r \in S : <<p, q>> \in R /\ <<q, r>> \in R => <<p, r>> \in R
Before(R, S, p) == {q \in S : <<q, p>> \in R}

(* In a finite set with a strict total order, some member has k members     *)
(* before it, for every k below the number of them.                         *)
LEMMA RanksAreTaken ==
    ASSUME NEW S, IsFiniteSet(S), NEW R, StrictOrder(R, S), NEW k \in Nat, k < Cardinality(S)
    PROVE  \E p \in S : Cardinality(Before(R, S, p)) = k
<1> DEFINE before(p) == {q \in S : <<q, p>> \in R}
           n == Cardinality(S)
           rank == [p \in S |-> Cardinality(before(p))]
<1>1. n \in Nat
  BY FS_CardinalityType
<1>2. \A p \in S : before(p) \in SUBSET (S \ {p})
  BY DEF StrictOrder
<1>3. ASSUME NEW p \in S PROVE IsFiniteSet(before(p)) /\ Cardinality(before(p)) \in 0..(n-1)
  <2>1. IsFiniteSet(S \ {p}) /\ Cardinality(S \ {p}) = n - 1
    BY FS_RemoveElement
  <2> HIDE DEF before, n
  <2>2. IsFiniteSet(before(p)) /\ Cardinality(before(p)) <= Cardinality(S \ {p})
    BY <1>2, <2>1, FS_Subset
  <2>3. Cardinality(before(p)) \in Nat
    BY <2>2, FS_CardinalityType
  <2> QED
    BY <2>1, <2>2, <2>3, <1>1
<1>4. ASSUME NEW p \in S, NEW q \in S, <<p, q>> \in R
      PROVE  Cardinality(before(p)) < Cardinality(before(q))
  <2>1. before(p) \in SUBSET before(q) /\ p \in before(q) /\ p \notin before(p)
    BY <1>4 DEF StrictOrder
  <2>2. IsFiniteSet(before(q)) /\ Cardinality(before(q)) \in Nat /\ Cardinality(before(p)) \in Nat
    <3> HIDE DEF before, n
    <3> QED
      BY <1>1, <1>3
  <2> HIDE DEF before
  <2>3. /\ Cardinality(before(p)) <= Cardinality(before(q))
        /\ Cardinality(before(q)) = Cardinality(before(p)) => before(q) = before(p)
    BY <2>1, <2>2, FS_Subset
  <2> QED
    BY <2>1, <2>2, <2>3
<1>5. rank \in [S -> 0..(n-1)]
  BY <1>3
<1>6. ASSUME NEW p \in S, NEW q \in S, p # q PROVE rank[p] # rank[q]
  <2>1. rank[p] \in 0..(n-1) /\ rank[q] \in 0..(n-1)
    BY <1>5
  <2>2. rank[p] = Cardinality(before(p)) /\ rank[q] = Cardinality(before(q))
    OBVIOUS
  <2>3. <<p, q>> \in R \/ <<q, p>> \in R
    BY <1>6 DEF StrictOrder
  <2> HIDE DEF rank, before, n
  <2>4. rank[p] < rank[q] \/ rank[q] < rank[p]
    BY <1>4, <2>2, <2>3
  <2> QED
    BY <2>1, <2>4, <1>1
<1>7. rank \in Injection(S, 0..(n-1))
  BY <1>5, <1>6 DEF Injection, IsInjective
<1>8. IsFiniteSet(0..(n-1)) /\ Cardinality(0..(n-1)) = n
  <2>1. 0 \in Int /\ n - 1 \in Int
    BY <1>1
  <2> HIDE DEF n
  <2>2. IsFiniteSet(0..(n-1)) /\ Cardinality(0..(n-1)) = IF 0 > n-1 THEN 0 ELSE n-1-0+1
    BY <2>1, FS_Interval
  <2> QED
    BY <1>1, <2>2
<1>9. rank \in Surjection(S, 0..(n-1))
  <2> HIDE DEF rank
  <2> QED
    BY <1>7, <1>8, FS_Injection
<1>10. k \in 0..(n-1)
  BY <1>1
<1>11. \E p \in S : rank[p] = k
  BY <1>9, <1>10 DEF Surjection
<1> QED
  BY <1>11 DEF Before

LEMMA PlacesCount == \A S : Visibility!Cardinality(S) = Cardinality(S)
BY DEF Visibility!Cardinality, Cardinality

(* The k-th of a finite set of places is one of them.                       *)
LEMMA NthIsAPlace ==
    ASSUME NEW S, IsFiniteSet(S), S \subseteq Nat \X Nat, NEW k \in Nat, k < Cardinality(S)
    PROVE  Visibility!Nth(S, k) \in S
<1> DEFINE R == {r \in S \X S : Visibility!Earlier(r[1], r[2])}
<1>1. \A p, q \in S : <<p, q>> \in R <=> Visibility!Earlier(p, q)
  OBVIOUS
<1>2. /\ \A p \in S : ~ Visibility!Earlier(p, p)
      /\ \A p, q \in S : p # q => Visibility!Earlier(p, q) \/ Visibility!Earlier(q, p)
      /\ \A p, q, r \in S : Visibility!Earlier(p, q) /\ Visibility!Earlier(q, r)
            => Visibility!Earlier(p, r)
  BY DEF Visibility!Earlier
<1> HIDE DEF R
<1>3. StrictOrder(R, S)
  BY <1>1, <1>2, Zenon DEF StrictOrder
<1>4. \E p \in S : Cardinality(Before(R, S, p)) = k
  BY <1>3, RanksAreTaken
<1>5. \E p \in S : Visibility!Cardinality({q \in S : Visibility!Earlier(q, p)}) = k
  <2>1. \A p \in S : Before(R, S, p) = {q \in S : Visibility!Earlier(q, p)}
    BY <1>1 DEF Before
  <2> QED
    BY <2>1, <1>4, PlacesCount
<1> QED
  BY <1>5 DEF Visibility!Nth

-----------------------------------------------------------------------------
KeyFilter == [all : {TRUE}, ups : {f.ups : f \in FilterChoices},
              pattern : {f.pattern : f \in FilterChoices}, enabled : BOOLEAN]

(* What a build has read of one upstream: of its filters every one that was *)
(* in effect all the time, and none that never was.                         *)
BundleOK(b, u) ==
    /\ b.up = u
    /\ \A f : <<"mcp", f>> \in standing /\ Visibility!InScope(f, u) =>
          \E k \in DOMAIN b.filters : b.filters[k] = f /\ b.filters[k].enabled
    /\ \A k \in DOMAIN b.filters : b.filters[k].enabled =>
          Visibility!InScope(b.filters[k], u) /\ <<"mcp", b.filters[k]>> \in met

BuildOK ==
    /\ IsList(build.bundles) /\ Len(build.bundles) <= Len(UpstreamOrder)
    /\ build.step = "filters" => Len(build.bundles) < Len(UpstreamOrder)
    /\ \A i \in DOMAIN build.bundles : BundleOK(build.bundles[i], UpstreamOrder[i])

(* An entry of the tool set: some source has the schema shown, and every    *)
(* compatible one does.                                                     *)
EntryOK(e) ==
    /\ IsFiniteSet(DOMAIN e.candidates) /\ DOMAIN e.candidates \subseteq Nat \X Nat
    /\ \E p \in DOMAIN e.candidates : e.candidates[p].compatible
    /\ \A p \in DOMAIN e.candidates :
          e.candidates[p].compatible => e.candidates[p].schema = e.schema

RulesInv ==
    /\ keyFilters \in Seq(KeyFilter)
    /\ standing \subseteq Visibility!Effect /\ Visibility!Effect \subseteq met
    /\ build # Visibility!NoBuild => BuildOK
    /\ \A n \in DOMAIN served : EntryOK(served[n])
    /\ \A n \in DOMAIN roundRobin : roundRobin[n] \in Nat
    /\ Visibility!RulesDecideVisibility

LEMMA BuildKept ==
    ASSUME BuildOK, UNCHANGED <<build, standing, met>>
    PROVE  BuildOK'
BY DEF BuildOK, BundleOK

(* Edits of the rules: the tables the handlers may leave.                   *)
LEMMA ListWithout ==
    ASSUME NEW S, NEW s \in Seq(S), NEW i \in DOMAIN s
    PROVE  Visibility!RemoveAt(s, i) \in Seq(S)
<1>1. i \in 1..Len(s) /\ Len(s) \in Nat
  OBVIOUS
<1>2. SubSeq(s, 1, i-1) \in Seq(S) /\ SubSeq(s, i+1, Len(s)) \in Seq(S)
  BY <1>1, SubSeqProperties
<1>3. SubSeq(s, 1, i-1) \o SubSeq(s, i+1, Len(s)) \in Seq(S)
  BY <1>2, ConcatProperties
<1> QED
  BY <1>3 DEF Visibility!RemoveAt

LEMMA KeyFiltersAreRows ==
    ASSUME keyFilters \in Seq(KeyFilter), keyFilters' \in Visibility!KeyFilterTables
    PROVE  keyFilters' \in Seq(KeyFilter)
<1>1. ASSUME NEW f \in {g \in FilterChoices : g.all}, keyFilters' = Append(keyFilters, f)
      PROVE  keyFilters' \in Seq(KeyFilter)
  <2>1. f \in KeyFilter
    BY FiltersAreRows DEF KeyFilter
  <2> QED
    BY <2>1, <1>1
<1>2. ASSUME NEW i \in DOMAIN keyFilters, keyFilters' = Visibility!RemoveAt(keyFilters, i)
      PROVE  keyFilters' \in Seq(KeyFilter)
  BY <1>2, ListWithout
<1>3. ASSUME NEW i \in DOMAIN keyFilters,
             keyFilters' = [keyFilters EXCEPT ![i].enabled = ~@]
      PROVE  keyFilters' \in Seq(KeyFilter)
  <2>1. keyFilters[i] \in KeyFilter
    OBVIOUS
  <2>2. [keyFilters[i] EXCEPT !.enabled = ~@] \in KeyFilter
    BY <2>1 DEF KeyFilter
  <2>3. keyFilters' = [keyFilters EXCEPT ![i] = [keyFilters[i] EXCEPT !.enabled = ~@]]
    BY <1>3
  <2> QED
    BY <2>2, <2>3
<1> QED
  BY <1>1, <1>2, <1>3 DEF Visibility!KeyFilterTables, Visibility!Switched

LEMMA EditStep ==
    ASSUME RulesInv, Visibility!Changed, keyFilters' \in Seq(KeyFilter)
    PROVE  RulesInv'
<1>1. /\ standing' = standing \cap Visibility!Effect' /\ met' = met \cup Visibility!Effect'
      /\ UNCHANGED <<build, served, hidden, roundRobin, called>>
  BY DEF Visibility!Changed
<1>2. ASSUME BuildOK PROVE BuildOK'
  <2>1. ASSUME NEW b, NEW u, BundleOK(b, u) PROVE BundleOK(b, u)'
    BY <1>1, <2>1 DEF BundleOK, Visibility!InScope
  <2> QED
    BY <1>1, <1>2, <2>1 DEF BuildOK
<1>3. Visibility!RulesDecideVisibility'
  BY <1>1 DEF RulesInv, Visibility!RulesDecideVisibility, Visibility!HiddenBy
<1>4. /\ standing' \subseteq Visibility!Effect' /\ Visibility!Effect' \subseteq met'
  BY <1>1
<1> QED
  BY <1>1, <1>2, <1>3, <1>4 DEF RulesInv, EntryOK

-----------------------------------------------------------------------------
LEMMA ListUpstreamsStep ==
    ASSUME RulesInv, Visibility!ListUpstreams
    PROVE  RulesInv'
<1>1. /\ build' = [step |-> "aliases", bundles |-> <<>>]
      /\ standing' = Visibility!Effect /\ met' = Visibility!Effect
      /\ UNCHANGED <<mcpFilters, keyFilters, served, hidden, roundRobin, called>>
  BY DEF Visibility!ListUpstreams, Visibility!tables
<1>2. Visibility!Effect' = Visibility!Effect
  BY <1>1 DEF Visibility!Effect
<1>3. BuildOK'
  <2>1. build'.bundles = <<>> /\ build'.step = "aliases"
    BY <1>1
  <2>2. IsList(<<>>) /\ Len(<<>>) = 0 /\ DOMAIN <<>> = {}
    BY DEF IsList
  <2>3. Len(UpstreamOrder) \in Nat
    BY UpstreamsAreListed, ListIndices
  <2> QED
    BY <2>1, <2>2, <2>3 DEF BuildOK
<1> QED
  BY <1>1, <1>2, <1>3 DEF RulesInv, EntryOK, Visibility!RulesDecideVisibility

LEMMA ReadAliasesStep ==
    ASSUME RulesInv, Visibility!ReadAliases
    PROVE  RulesInv'
<1>1. /\ build # Visibility!NoBuild /\ Len(build.bundles) < Len(UpstreamOrder)
      /\ UNCHANGED <<mcpFilters, keyFilters, standing, met, served, hidden, roundRobin, called>>
      /\ \E x : build' = [step |-> "filters", bundles |-> build.bundles, aliases |-> x]
  BY DEF Visibility!ReadAliases, Visibility!Reads, Visibility!tables
<1>2. build'.bundles = build.bundles /\ build'.step = "filters"
  BY <1>1
<1>3. UNCHANGED <<standing, met>> /\ build'.bundles = build.bundles /\ build'.step = "filters"
  BY <1>1, <1>2
<1>4. BuildOK /\ Len(build.bundles) < Len(UpstreamOrder)
  BY <1>1 DEF RulesInv
<1>5. BuildOK'
  BY ONLY <1>3, <1>4 DEF BuildOK, BundleOK
<1>6. UNCHANGED <<keyFilters, standing, met, served, roundRobin>>
      /\ Visibility!Effect' = Visibility!Effect
  BY <1>1 DEF Visibility!Effect
<1>7. Visibility!RulesDecideVisibility'
  BY <1>1 DEF RulesInv, Visibility!RulesDecideVisibility
<1> QED
  BY <1>5, <1>6, <1>7 DEF RulesInv, EntryOK

LEMMA AppendToList ==
    ASSUME NEW s, IsList(s), NEW x
    PROVE  /\ IsList(Append(s, x)) /\ Len(Append(s, x)) = Len(s) + 1
           /\ Append(s, x)[Len(s) + 1] = x
           /\ \A i \in DOMAIN s : i \in DOMAIN Append(s, x) /\ Append(s, x)[i] = s[i]
           /\ DOMAIN Append(s, x) = DOMAIN s \cup {Len(s) + 1}
<1> DEFINE S == {s[i] : i \in DOMAIN s} \cup {x}
           t == Append(s, x)
<1>1. s \in Seq(S) /\ x \in S
  BY DEF IsList
<1>2. Len(s) \in Nat /\ DOMAIN s = 1..Len(s)
  BY ListIndices
<1> HIDE DEF S
<1>3. /\ t \in Seq(S) /\ Len(t) = Len(s) + 1 /\ t[Len(s) + 1] = x
      /\ \A i \in 1..Len(s) : t[i] = s[i]
      /\ DOMAIN t = 1..(Len(s) + 1)
  BY <1>1, AppendProperties
<1>4. IsList(t)
  BY <1>3 DEF IsList
<1>5. 1..(Len(s) + 1) = (1..Len(s)) \cup {Len(s) + 1}
  BY <1>2
<1> QED
  BY <1>2, <1>3, <1>4, <1>5

LEMMA ReadFiltersStep ==
    ASSUME RulesInv, Visibility!ReadFilters
    PROVE  RulesInv'
<1> DEFINE u == Visibility!Following
           b == [up |-> u, aliases |-> build.aliases,
                 filters |-> Visibility!ListByUpstream(mcpFilters, u)]
<1>1. /\ build # Visibility!NoBuild /\ build.step = "filters"
      /\ UNCHANGED <<mcpFilters, keyFilters, standing, met, served, hidden, roundRobin, called>>
      /\ build' = [step |-> "aliases", bundles |-> Append(build.bundles, b)]
  BY DEF Visibility!ReadFilters, Visibility!Reads, Visibility!tables
<1>2. BuildOK /\ Len(build.bundles) < Len(UpstreamOrder)
  BY <1>1 DEF RulesInv, BuildOK
<1>3. BundleOK(b, u)
  <2>1. b.up = u /\ b.filters = Visibility!ListByUpstream(mcpFilters, u)
    OBVIOUS
  <2> HIDE DEF b, u
  <2>2. /\ DOMAIN b.filters = {i \in DOMAIN mcpFilters : Visibility!InScope(mcpFilters[i], u)}
        /\ \A i \in DOMAIN b.filters : b.filters[i] = mcpFilters[i]
    BY <2>1 DEF Visibility!ListByUpstream, Visibility!Restrict
  <2>3. ASSUME NEW f, <<"mcp", f>> \in standing, Visibility!InScope(f, u)
        PROVE  \E k \in DOMAIN b.filters : b.filters[k] = f /\ b.filters[k].enabled
    <3>1. PICK i \in DOMAIN mcpFilters : mcpFilters[i] = f /\ mcpFilters[i].enabled
      BY <2>3 DEF RulesInv, Visibility!Effect
    <3> QED
      BY <3>1, <2>2, <2>3
  <2>4. ASSUME NEW k \in DOMAIN b.filters, b.filters[k].enabled
        PROVE  Visibility!InScope(b.filters[k], u) /\ <<"mcp", b.filters[k]>> \in met
    BY <2>2, <2>4 DEF RulesInv, Visibility!Effect
  <2> QED
    BY <2>1, <2>3, <2>4 DEF BundleOK
<1>4. u = UpstreamOrder[Len(build.bundles) + 1]
  BY DEF Visibility!Following
<1> HIDE DEF b, u
<1>5. build'.bundles = Append(build.bundles, b) /\ build'.step = "aliases"
  BY <1>1
<1>6. BuildOK'
  <2>1. /\ IsList(build'.bundles) /\ Len(build'.bundles) = Len(build.bundles) + 1
        /\ build'.bundles[Len(build.bundles) + 1] = b
        /\ \A i \in DOMAIN build.bundles : build'.bundles[i] = build.bundles[i]
        /\ DOMAIN build'.bundles = DOMAIN build.bundles \cup {Len(build.bundles) + 1}
    BY <1>2, <1>5, AppendToList DEF BuildOK
  <2>2. Len(build.bundles) \in Nat /\ Len(UpstreamOrder) \in Nat
    BY <1>2, UpstreamsAreListed, ListIndices DEF BuildOK
  <2>3. ASSUME NEW c, NEW v, BundleOK(c, v) PROVE BundleOK(c, v)'
    BY <1>1, <2>3 DEF BundleOK, Visibility!InScope
  <2>4. ASSUME NEW i \in DOMAIN build'.bundles, NEW c, c = build'.bundles[i]
        PROVE  BundleOK(c, UpstreamOrder[i])'
    <3>1. CASE i = Len(build.bundles) + 1
      <4>1. c = b
        BY <3>1, <2>1, <2>4
      <4>2. BundleOK(c, UpstreamOrder[i])
        BY <4>1, <3>1, <1>3, <1>4
      <4> QED
        BY <4>2, <2>3
    <3>2. CASE i # Len(build.bundles) + 1
      <4>1. i \in DOMAIN build.bundles
        BY <3>2, <2>1, <2>4
      <4>2. c = build.bundles[i]
        BY <4>1, <2>1, <2>4
      <4>3. BundleOK(c, UpstreamOrder[i])
        BY <4>1, <4>2, <1>2 DEF BuildOK
      <4> QED
        BY <4>3, <2>3
    <3> QED
      BY <3>1, <3>2
  <2>5. \A i \in DOMAIN build'.bundles : BundleOK(build.bundles[i], UpstreamOrder[i])'
    BY <2>4 DEF BundleOK
  <2>6. Len(build'.bundles) <= Len(UpstreamOrder)
    BY <2>1, <2>2, <1>2
  <2> QED
    BY <2>1, <2>5, <2>6, <1>5 DEF BuildOK
<1>7. Visibility!Effect' = Visibility!Effect
  BY <1>1 DEF Visibility!Effect
<1> QED
  BY <1>1, <1>6, <1>7 DEF RulesInv, EntryOK, Visibility!RulesDecideVisibility

-----------------------------------------------------------------------------
(* The pipeline takes exactly the tools no enabled filter of their upstream *)
(* or of the key matches, whatever they are called by then.                 *)
Passes(name, b, ks) ==
    ~ Visibility!MatchedByAny(name, b.filters) /\ ~ Visibility!MatchedByAny(name, ks)

LEMMA ThroughIs ==
    ASSUME NEW b, NEW ks
    PROVE  LET out == Visibility!Through(b, ks)
           IN  /\ DOMAIN out = {k \in DOMAIN UpstreamTools[b.up] :
                                   Passes(UpstreamTools[b.up][k].name, b, ks)}
               /\ \A k \in DOMAIN out :
                     out[k].up = b.up /\ out[k].original = UpstreamTools[b.up][k].name
<1> DEFINE all == [k \in DOMAIN UpstreamTools[b.up] |->
                    [up |-> b.up, original |-> UpstreamTools[b.up][k].name,
                     name |-> UpstreamTools[b.up][k].name,
                     schema |-> UpstreamTools[b.up][k].schema]]
           first == Visibility!ApplyFilters(all, b.filters)
           renamed == Visibility!ApplyAliases(first, b.aliases)
           out == Visibility!ApplyFilters(renamed, ks)
<1>1. Visibility!Through(b, ks) = out
  BY DEF Visibility!Through
<1>2. /\ DOMAIN all = DOMAIN UpstreamTools[b.up]
      /\ \A k \in DOMAIN all : all[k].up = b.up /\ all[k].original = UpstreamTools[b.up][k].name
  OBVIOUS
<1> HIDE DEF all
<1>3. /\ DOMAIN first = {k \in DOMAIN all : ~Visibility!MatchedByAny(all[k].original, b.filters)}
      /\ \A k \in DOMAIN first : first[k] = all[k]
  BY Zenon DEF Visibility!ApplyFilters, Visibility!Restrict
<1> HIDE DEF first
<1>4. /\ DOMAIN renamed = DOMAIN first
      /\ \A k \in DOMAIN renamed :
            renamed[k].up = first[k].up /\ renamed[k].original = first[k].original
  BY DEF Visibility!ApplyAliases
<1> HIDE DEF renamed
<1>5. /\ DOMAIN out = {k \in DOMAIN renamed : ~Visibility!MatchedByAny(renamed[k].original, ks)}
      /\ \A k \in DOMAIN out : out[k] = renamed[k]
  BY Zenon DEF Visibility!ApplyFilters, Visibility!Restrict
<1> HIDE DEF out
<1>6. \A k \in DOMAIN out : k \in DOMAIN renamed /\ k \in DOMAIN first /\ k \in DOMAIN all
  BY <1>3, <1>4, <1>5
<1>7. \A k \in DOMAIN out :
         out[k].up = b.up /\ out[k].original = UpstreamTools[b.up][k].name
  BY <1>2, <1>3, <1>4, <1>5, <1>6
<1>8. ASSUME NEW k PROVE k \in DOMAIN out <=> k \in DOMAIN UpstreamTools[b.up]
                              /\ Passes(UpstreamTools[b.up][k].name, b, ks)
  BY <1>2, <1>3, <1>4, <1>5 DEF Passes
<1> QED
  BY <1>1, <1>7, <1>8

(* Grouping the tools by name loses none and adds none.                     *)
Reached(shownSet) ==
    {<<c.up, c.original>> : c \in UNION {Visibility!Range(shownSet[n].candidates) : n \in DOMAIN shownSet}}

Decided(shownSet, h) ==
    shownSet # <<>> =>
        /\ Reached(shownSet) \cap h.must = {}
        /\ \A i \in DOMAIN UpstreamOrder : \A k \in DOMAIN UpstreamTools[UpstreamOrder[i]] :
              LET t == <<UpstreamOrder[i], UpstreamTools[UpstreamOrder[i]][k].name>> IN
              t \in Reached(shownSet) \cup h.may

LEMMA GroupsKeepTools ==
    ASSUME NEW tools0
    PROVE  Reached(Visibility!GroupToolsByName(tools0))
             = {<<tools0[p].up, tools0[p].original>> : p \in DOMAIN tools0}
<1> DEFINE of(n) == {p \in DOMAIN tools0 : tools0[p].name = n}
           shown0(n) == tools0[Visibility!Nth(of(n), 0)].schema
           cand(n) == [p \in of(n) |->
              [up |-> tools0[p].up, original |-> tools0[p].original, schema |-> tools0[p].schema,
               compatible |-> tools0[p].schema = shown0(n)]]
           names == {tools0[p].name : p \in DOMAIN tools0}
           g == [n \in names |-> [name |-> n, schema |-> shown0(n), candidates |-> cand(n)]]
<1>1. Visibility!GroupToolsByName(tools0) = g
  BY DEF Visibility!GroupToolsByName
<1>2. DOMAIN g = names /\ \A n \in names : g[n].candidates = cand(n)
  OBVIOUS
<1>3. \A n : /\ DOMAIN cand(n) = of(n)
             /\ \A p \in of(n) : cand(n)[p].up = tools0[p].up
                                 /\ cand(n)[p].original = tools0[p].original
  OBVIOUS
<1> HIDE DEF g, cand
<1>4. ASSUME NEW x \in Reached(g)
      PROVE  x \in {<<tools0[p].up, tools0[p].original>> : p \in DOMAIN tools0}
  <2>1. PICK n \in names : \E c \in Visibility!Range(g[n].candidates) : x = <<c.up, c.original>>
    BY <1>2 DEF Reached
  <2> HIDE DEF names
  <2>2. PICK c \in Visibility!Range(cand(n)) : x = <<c.up, c.original>>
    BY <2>1, <1>2
  <2>3. PICK p \in DOMAIN cand(n) : c = cand(n)[p]
    BY <2>2 DEF Visibility!Range
  <2>4. p \in of(n)
    BY <2>3, <1>3
  <2> QED
    BY <2>2, <2>3, <2>4, <1>3
<1>5. ASSUME NEW p \in DOMAIN tools0
      PROVE  <<tools0[p].up, tools0[p].original>> \in Reached(g)
  <2> DEFINE n == tools0[p].name
  <2>1. n \in names /\ p \in of(n)
    OBVIOUS
  <2>2. cand(n)[p] \in Visibility!Range(g[n].candidates) /\ n \in DOMAIN g
    BY <2>1, <1>2, <1>3 DEF Visibility!Range
  <2> HIDE DEF n
  <2>3. <<cand(n)[p].up, cand(n)[p].original>> \in Reached(g)
    BY <2>2 DEF Reached
  <2> QED
    BY <2>1, <2>3, <1>3
<1> QED
  BY <1>1, <1>4, <1>5

LEMMA GroupsAreOK ==
    ASSUME NEW tools0, IsFiniteSet(DOMAIN tools0), DOMAIN tools0 \subseteq Nat \X Nat,
           NEW n \in DOMAIN Visibility!GroupToolsByName(tools0)
    PROVE  EntryOK(Visibility!GroupToolsByName(tools0)[n])
<1> DEFINE of == {p \in DOMAIN tools0 : tools0[p].name = n}
           first == Visibility!Nth(of, 0)
           schema == tools0[first].schema
           cand == [p \in of |->
              [up |-> tools0[p].up, original |-> tools0[p].original, schema |-> tools0[p].schema,
               compatible |-> tools0[p].schema = schema]]
           e == [name |-> n, schema |-> schema, candidates |-> cand]
<1>1. Visibility!GroupToolsByName(tools0)[n] = e /\ of # {}
  BY DEF Visibility!GroupToolsByName
<1>2. IsFiniteSet(of) /\ of \subseteq Nat \X Nat
  BY FS_Subset
<1>3. DOMAIN cand = of /\ \A p \in of : cand[p].schema = tools0[p].schema
                              /\ cand[p].compatible = (tools0[p].schema = schema)
  OBVIOUS
<1>4. first \in of
  <2> HIDE DEF of
  <2>1. Cardinality(of) \in Nat /\ Cardinality(of) # 0
    BY <1>1, <1>2, FS_CardinalityType, FS_EmptySet
  <2> QED
    BY <2>1, <1>2, NthIsAPlace
<1>5. e.schema = schema /\ e.candidates = cand
  OBVIOUS
<1> HIDE DEF e, cand, of
<1>6. cand[first].compatible
  BY <1>3, <1>4
<1> HIDE DEF first
<1>7. EntryOK(e)
  BY <1>2, <1>3, <1>4, <1>5, <1>6 DEF EntryOK
<1> QED
  BY <1>1, <1>7

(* The tool set a build ends with: what it reaches, and its entries.        *)
LEMMA PipelineIs ==
    ASSUME BuildOK, Len(build.bundles) = Len(UpstreamOrder)
    PROVE  LET entries0 == Visibility!RunPipeline(build.bundles, keyFilters)
           IN  /\ \A n \in DOMAIN entries0 : EntryOK(entries0[n])
               /\ \A t \in Reached(entries0) :
                     \E i \in DOMAIN UpstreamOrder : \E k \in DOMAIN UpstreamTools[UpstreamOrder[i]] :
                        /\ t = <<UpstreamOrder[i], UpstreamTools[UpstreamOrder[i]][k].name>>
                        /\ Passes(t[2], build.bundles[i], keyFilters)
               /\ \A i \in DOMAIN UpstreamOrder : \A k \in DOMAIN UpstreamTools[UpstreamOrder[i]] :
                     LET name == UpstreamTools[UpstreamOrder[i]][k].name
                     IN  Passes(name, build.bundles[i], keyFilters)
                            => <<UpstreamOrder[i], name>> \in Reached(entries0)
<1> DEFINE bs == build.bundles
           out(i) == Visibility!Through(bs[i], keyFilters)
           all == [p \in UNION {{i} \X DOMAIN out(i) : i \in DOMAIN bs} |-> out(p[1])[p[2]]]
           entries0 == Visibility!RunPipeline(bs, keyFilters)
<1>1. entries0 = Visibility!GroupToolsByName(all)
  BY DEF Visibility!RunPipeline
<1>2. DOMAIN bs = DOMAIN UpstreamOrder /\ DOMAIN bs = 1..Len(bs) /\ Len(bs) \in Nat
  BY UpstreamsAreListed, ListIndices DEF BuildOK
<1>3. ASSUME NEW i \in DOMAIN bs
      PROVE  /\ bs[i].up = UpstreamOrder[i]
             /\ DOMAIN out(i) = {k \in DOMAIN UpstreamTools[UpstreamOrder[i]] :
                                   Passes(UpstreamTools[UpstreamOrder[i]][k].name, bs[i], keyFilters)}
             /\ \A k \in DOMAIN out(i) :
                   /\ out(i)[k].up = UpstreamOrder[i]
                   /\ out(i)[k].original = UpstreamTools[UpstreamOrder[i]][k].name
  <2>1. bs[i].up = UpstreamOrder[i]
    BY <1>3 DEF BuildOK, BundleOK
  <2>2. \A b : LET o == Visibility!Through(b, keyFilters)
               IN  /\ DOMAIN o = {k \in DOMAIN UpstreamTools[b.up] :
                                     Passes(UpstreamTools[b.up][k].name, b, keyFilters)}
                   /\ \A k \in DOMAIN o :
                         o[k].up = b.up /\ o[k].original = UpstreamTools[b.up][k].name
    BY ThroughIs, Zenon
  <2> HIDE DEF bs
  <2> QED
    BY <2>1, <2>2
<1> HIDE DEF out, bs
<1>4. DOMAIN all = UNION {{i} \X DOMAIN out(i) : i \in DOMAIN bs}
  OBVIOUS
<1>5. \A p \in DOMAIN all : all[p] = out(p[1])[p[2]]
  OBVIOUS
<1> HIDE DEF all
<1>6. \A i \in DOMAIN bs : \A k \in DOMAIN out(i) : <<i, k>> \in DOMAIN all /\ all[<<i, k>>] = out(i)[k]
  <2> SUFFICES ASSUME NEW i \in DOMAIN bs, NEW k \in DOMAIN out(i)
               PROVE  <<i, k>> \in DOMAIN all /\ all[<<i, k>>] = out(i)[k]
    OBVIOUS
  <2>1. <<i, k>> \in {i} \X DOMAIN out(i)
    OBVIOUS
  <2>2. <<i, k>> \in DOMAIN all
    BY <2>1, <1>4
  <2> QED
    BY <2>2, <1>5
<1>7. ASSUME NEW p \in DOMAIN all
      PROVE  \E i \in DOMAIN bs : \E k \in DOMAIN out(i) : p = <<i, k>>
  BY <1>4
<1>8. IsFiniteSet(DOMAIN all) /\ DOMAIN all \subseteq Nat \X Nat
  <2>1. ASSUME NEW i \in DOMAIN bs
        PROVE  IsFiniteSet(DOMAIN out(i)) /\ DOMAIN out(i) \subseteq Nat
    <3>1. DOMAIN out(i) \subseteq DOMAIN UpstreamTools[UpstreamOrder[i]]
      BY <1>3
    <3>2. IsList(UpstreamTools[UpstreamOrder[i]])
      BY <1>2, UpstreamsAreListed
    <3>3. /\ IsFiniteSet(DOMAIN UpstreamTools[UpstreamOrder[i]])
          /\ DOMAIN UpstreamTools[UpstreamOrder[i]] \subseteq Nat
      BY <3>2, ListIndices
    <3> QED
      BY <3>1, <3>3, FS_Subset
  <2> DEFINE parts == {{i} \X DOMAIN out(i) : i \in DOMAIN bs}
  <2>2. ASSUME NEW X \in parts PROVE IsFiniteSet(X)
    <3>1. PICK i \in DOMAIN bs : X = {i} \X DOMAIN out(i)
      OBVIOUS
    <3>2. IsFiniteSet({i})
      BY FS_Singleton
    <3> QED
      BY <2>1, <3>1, <3>2, FS_Product
  <2>3. IsFiniteSet(parts)
    <3>1. IsFiniteSet(DOMAIN bs)
      BY <1>2, FS_Interval
    <3> DEFINE f == [i \in DOMAIN bs |-> {i} \X DOMAIN out(i)]
    <3>2. f \in Surjection(DOMAIN bs, parts)
      BY DEF Surjection
    <3> HIDE DEF f, parts
    <3> QED
      BY <3>1, <3>2, FS_Surjection
  <2>4. IsFiniteSet(UNION parts)
    BY <2>2, <2>3, FS_UNION
  <2>5. DOMAIN all \subseteq Nat \X Nat
    <3> SUFFICES ASSUME NEW p \in DOMAIN all PROVE p \in Nat \X Nat
      OBVIOUS
    <3>1. PICK i \in DOMAIN bs : \E k \in DOMAIN out(i) : p = <<i, k>>
      BY <1>7
    <3>2. PICK k \in DOMAIN out(i) : p = <<i, k>>
      BY <3>1
    <3>3. i \in Nat /\ k \in Nat
      BY <2>1, <1>2
    <3> QED
      BY <3>2, <3>3
  <2> QED
    BY <2>4, <2>5, <1>4
<1>9. \A n \in DOMAIN entries0 : EntryOK(entries0[n])
  BY <1>1, <1>8, GroupsAreOK
<1>10. Reached(entries0) = {<<all[p].up, all[p].original>> : p \in DOMAIN all}
  BY <1>1, GroupsKeepTools
<1> HIDE DEF entries0
<1>11. ASSUME NEW t \in Reached(entries0)
       PROVE  \E i \in DOMAIN UpstreamOrder : \E k \in DOMAIN UpstreamTools[UpstreamOrder[i]] :
                 /\ t = <<UpstreamOrder[i], UpstreamTools[UpstreamOrder[i]][k].name>>
                 /\ Passes(t[2], bs[i], keyFilters)
  <2>1. PICK p \in DOMAIN all : t = <<all[p].up, all[p].original>>
    BY <1>10
  <2>0. PICK i \in DOMAIN bs : \E k \in DOMAIN out(i) : p = <<i, k>>
    BY <1>7
  <2>2. PICK k \in DOMAIN out(i) : p = <<i, k>>
    BY <2>0
  <2>3. all[p] = out(i)[k]
    BY <1>6, <2>2
  <2>4. t = <<UpstreamOrder[i], UpstreamTools[UpstreamOrder[i]][k].name>>
    BY <2>1, <2>3, <1>3
  <2> QED
    BY <2>4, <1>2, <1>3
<1>12. ASSUME NEW i \in DOMAIN UpstreamOrder, NEW k \in DOMAIN UpstreamTools[UpstreamOrder[i]],
              Passes(UpstreamTools[UpstreamOrder[i]][k].name, bs[i], keyFilters)
       PROVE  <<UpstreamOrder[i], UpstreamTools[UpstreamOrder[i]][k].name>> \in Reached(entries0)
  <2>1. i \in DOMAIN bs /\ k \in DOMAIN out(i)
    BY <1>2, <1>3, <1>12
  <2>2. <<i, k>> \in DOMAIN all /\ all[<<i, k>>] = out(i)[k]
    BY <2>1, <1>6
  <2>3. <<all[<<i, k>>].up, all[<<i, k>>].original>>
          = <<UpstreamOrder[i], UpstreamTools[UpstreamOrder[i]][k].name>>
    BY <2>1, <2>2, <1>3
  <2> QED
    BY <2>2, <2>3, <1>10
<1> QED
  BY <1>9, <1>11, <1>12 DEF entries0, bs

LEMMA ReadKeyFiltersStep ==
    ASSUME RulesInv, Visibility!ReadKeyFilters
    PROVE  RulesInv'
<1> DEFINE entries0 == Visibility!RunPipeline(build.bundles, keyFilters)
           must == Visibility!HiddenBy(standing)
           may == Visibility!HiddenBy(met)
<1>1. /\ build # Visibility!NoBuild /\ Len(build.bundles) = Len(UpstreamOrder)
      /\ UNCHANGED <<mcpFilters, keyFilters, standing, met, roundRobin, called>>
      /\ served' = entries0 /\ hidden' = [must |-> must, may |-> may]
      /\ build' = Visibility!NoBuild
  BY DEF Visibility!ReadKeyFilters, Visibility!Reads, Visibility!tables
<1>2. BuildOK
  BY <1>1 DEF RulesInv
<1>3. /\ \A n \in DOMAIN entries0 : EntryOK(entries0[n])
      /\ \A t \in Reached(entries0) :
            \E i \in DOMAIN UpstreamOrder : \E k \in DOMAIN UpstreamTools[UpstreamOrder[i]] :
               /\ t = <<UpstreamOrder[i], UpstreamTools[UpstreamOrder[i]][k].name>>
               /\ Passes(t[2], build.bundles[i], keyFilters)
      /\ \A i \in DOMAIN UpstreamOrder : \A k \in DOMAIN UpstreamTools[UpstreamOrder[i]] :
            LET name == UpstreamTools[UpstreamOrder[i]][k].name
            IN  Passes(name, build.bundles[i], keyFilters)
                   => <<UpstreamOrder[i], name>> \in Reached(entries0)
  BY <1>1, <1>2, PipelineIs
<1>4. hidden'.must = must /\ hidden'.may = may
  BY <1>1
<1>5. DOMAIN build.bundles = DOMAIN UpstreamOrder
  BY <1>1, <1>2, UpstreamsAreListed, ListIndices DEF BuildOK
<1> HIDE DEF entries0
<1>6. Reached(entries0) \cap must = {}
  <2> SUFFICES ASSUME NEW t \in Reached(entries0), t \in must PROVE FALSE
    OBVIOUS
  <2>1. PICK i \in DOMAIN UpstreamOrder : \E k \in DOMAIN UpstreamTools[UpstreamOrder[i]] :
               /\ t = <<UpstreamOrder[i], UpstreamTools[UpstreamOrder[i]][k].name>>
               /\ Passes(t[2], build.bundles[i], keyFilters)
    BY <1>3
  <2>2. t[1] = UpstreamOrder[i] /\ Passes(t[2], build.bundles[i], keyFilters)
    BY <2>1
  <2>3. PICK f \in standing : Visibility!InScope(f[2], t[1]) /\ Visibility!Match(f[2].pattern, t[2])
    BY DEF Visibility!HiddenBy
  <2>4. BundleOK(build.bundles[i], UpstreamOrder[i])
    BY <1>2, <1>5 DEF BuildOK
  <2>5. f \in Visibility!Effect
    BY DEF RulesInv
  <2>6. CASE \E j \in DOMAIN mcpFilters : f = <<"mcp", mcpFilters[j]>>
    <3>1. f = <<"mcp", f[2]>>
      BY <2>6
    <3>2. \E k \in DOMAIN build.bundles[i].filters :
             build.bundles[i].filters[k] = f[2] /\ build.bundles[i].filters[k].enabled
      BY <2>2, <2>3, <2>4, <3>1 DEF BundleOK
    <3> QED
      BY <2>2, <2>3, <3>2 DEF Passes, Visibility!MatchedByAny
  <2>7. CASE \E j \in DOMAIN keyFilters : f = <<"key", keyFilters[j]>> /\ keyFilters[j].enabled
    <3>1. \E j \in DOMAIN keyFilters : f[2] = keyFilters[j] /\ keyFilters[j].enabled
      BY <2>7
    <3> QED
      BY <2>2, <2>3, <3>1 DEF Passes, Visibility!MatchedByAny
  <2> QED
    BY <2>5, <2>6, <2>7 DEF Visibility!Effect
<1>7. ASSUME NEW i \in DOMAIN UpstreamOrder, NEW k \in DOMAIN UpstreamTools[UpstreamOrder[i]]
      PROVE  <<UpstreamOrder[i], UpstreamTools[UpstreamOrder[i]][k].name>> \in Reached(entries0) \cup may
  <2> DEFINE u == UpstreamOrder[i]
             name == UpstreamTools[u][k].name
  <2>1. CASE Passes(name, build.bundles[i], keyFilters)
    BY <2>1, <1>3
  <2>2. CASE ~Passes(name, build.bundles[i], keyFilters)
    <3>1. BundleOK(build.bundles[i], u)
      BY <1>2, <1>5 DEF BuildOK
    <3>2. u \in DOMAIN UpstreamTools
      BY UpstreamsAreListed
    <3>3. <<u, name>> \in UNION {{<<v, UpstreamTools[v][j].name>> : j \in DOMAIN UpstreamTools[v]} :
                                  v \in DOMAIN UpstreamTools}
      BY <3>2
    <3>4. \E f \in met : Visibility!InScope(f[2], u) /\ Visibility!Match(f[2].pattern, name)
      <4> HIDE DEF u, name
      <4>1. CASE Visibility!MatchedByAny(name, build.bundles[i].filters)
        <5>1. PICK j \in DOMAIN build.bundles[i].filters :
                 /\ build.bundles[i].filters[j].enabled
                 /\ Visibility!Match(build.bundles[i].filters[j].pattern, name)
          BY <4>1 DEF Visibility!MatchedByAny
        <5> DEFINE f == <<"mcp", build.bundles[i].filters[j]>>
        <5>2. f \in met /\ f[2] = build.bundles[i].filters[j]
          BY <5>1, <3>1 DEF BundleOK
        <5> QED
          BY <5>1, <5>2, <3>1 DEF BundleOK
      <4>2. CASE Visibility!MatchedByAny(name, keyFilters)
        <5>1. PICK j \in DOMAIN keyFilters :
                 keyFilters[j].enabled /\ Visibility!Match(keyFilters[j].pattern, name)
          BY <4>2 DEF Visibility!MatchedByAny
        <5> DEFINE f == <<"key", keyFilters[j]>>
        <5>2. f \in Visibility!Effect /\ f[2] = keyFilters[j]
          BY <5>1 DEF Visibility!Effect
        <5>3. keyFilters[j] \in KeyFilter
          BY DEF RulesInv
        <5>4. keyFilters[j].all
          BY <5>3 DEF KeyFilter
        <5> QED
          BY <5>1, <5>2, <5>4 DEF RulesInv, Visibility!InScope
      <4> QED
        BY <2>2, <4>1, <4>2 DEF Passes
    <3>5. <<u, name>>[1] = u /\ <<u, name>>[2] = name
      OBVIOUS
    <3> HIDE DEF u, name
    <3>6. <<u, name>> \in may
      BY <3>3, <3>4, <3>5 DEF Visibility!HiddenBy
    <3> QED
      BY <3>6 DEF u, name
  <2> QED
    BY <2>1, <2>2
<1> HIDE DEF must, may
<1>8. Visibility!RulesDecideVisibility'
  <2>1. called # <<>> => called.source.schema = called.entry.schema
    BY DEF RulesInv, Visibility!RulesDecideVisibility
  <2>2. Reached(served') = Reached(entries0)
    BY <1>1
  <2> QED
    BY <1>1, <1>4, <1>6, <1>7, <2>1, <2>2 DEF Visibility!RulesDecideVisibility, Reached
<1>9. Visibility!Effect' = Visibility!Effect
  BY <1>1 DEF Visibility!Effect
<1> QED
  BY <1>1, <1>3, <1>8, <1>9 DEF RulesInv, EntryOK

LEMMA SelectStep ==
    ASSUME RulesInv, NEW name \in DOMAIN served, Visibility!SelectCandidate(name)
    PROVE  RulesInv'
<1> DEFINE entry == served[name]
           usable == {p \in DOMAIN entry.candidates : entry.candidates[p].compatible}
           balanced == Visibility!Strategy(name) = "smart_balance"
                         /\ Visibility!Cardinality(usable) > 1
           n == IF name \in DOMAIN roundRobin THEN roundRobin[name] ELSE 0
           turn == IF balanced THEN n % Visibility!Cardinality(usable) ELSE 0
           chosen == entry.candidates[Visibility!Nth(usable, turn)]
<1>1. /\ called' = [entry |-> entry, source |-> chosen]
      /\ roundRobin' = IF balanced
                          THEN [m \in DOMAIN roundRobin \cup {name} |->
                                  IF m = name THEN (n + 1) % Turns ELSE roundRobin[m]]
                          ELSE roundRobin
      /\ UNCHANGED <<mcpFilters, keyFilters, build, standing, met, served, hidden>>
  BY DEF Visibility!SelectCandidate, Visibility!tables
<1>2. EntryOK(entry)
  BY DEF RulesInv
<1>3. n \in Nat
  BY DEF RulesInv
<1>4. IsFiniteSet(usable) /\ usable # {} /\ usable \subseteq Nat \X Nat
  BY <1>2, FS_Subset DEF EntryOK
<1>5. \A p \in usable : entry.candidates[p].schema = entry.schema
  BY <1>2 DEF EntryOK
<1> HIDE DEF usable, n
<1>6. Cardinality(usable) \in Nat \ {0} /\ Visibility!Cardinality(usable) = Cardinality(usable)
  BY <1>4, FS_CardinalityType, FS_EmptySet, PlacesCount
<1>7. turn \in Nat /\ turn < Cardinality(usable)
  <2>1. n % Cardinality(usable) \in 0..(Cardinality(usable) - 1)
    BY <1>3, <1>6
  <2> HIDE DEF balanced
  <2> QED
    BY <2>1, <1>6
<1> HIDE DEF turn
<1>8. Visibility!Nth(usable, turn) \in usable
  BY <1>4, <1>7, NthIsAPlace
<1>9. chosen.schema = entry.schema
  BY <1>5, <1>8
<1>10. called'.entry = entry /\ called'.source = chosen
  BY <1>1
<1>11. (n + 1) % Turns \in Nat
  BY <1>3, TurnsIsNumber
<1>12. \A m \in DOMAIN roundRobin' : roundRobin'[m] \in Nat
  <2> HIDE DEF balanced
  <2> QED
    BY <1>1, <1>11 DEF RulesInv
<1> HIDE DEF chosen, entry
<1>13. Visibility!RulesDecideVisibility'
  <2>1. served' = served /\ hidden' = hidden
    BY <1>1
  <2>2. called'.source.schema = called'.entry.schema
    BY <1>9, <1>10
  <2>3. Decided(served, hidden)
    BY DEF RulesInv, Visibility!RulesDecideVisibility, Decided, Reached
  <2>4. Decided(served', hidden')
    BY <2>1, <2>3
  <2> QED
    BY <2>2, <2>4 DEF Visibility!RulesDecideVisibility, Decided, Reached
<1>14. Visibility!Effect' = Visibility!Effect
  BY <1>1 DEF Visibility!Effect
<1>15. BuildOK => BuildOK'
  BY <1>1, BuildKept
<1> QED
  <2>1. UNCHANGED <<keyFilters, build, standing, met, served>>
    BY <1>1
  <2> QED
    BY <2>1, <1>12, <1>13, <1>14, <1>15 DEF RulesInv, EntryOK

LEMMA RulesInit == Visibility!Init => RulesInv
<1> SUFFICES ASSUME Visibility!Init PROVE RulesInv
  OBVIOUS
<1>1. /\ mcpFilters = <<>> /\ keyFilters = <<>> /\ standing = {} /\ met = {}
      /\ build = Visibility!NoBuild /\ served = <<>> /\ roundRobin = <<>> /\ called = <<>>
  BY DEF Visibility!Init
<1>2. DOMAIN <<>> = {}
  OBVIOUS
<1>3. Visibility!Effect = {}
  BY <1>1, <1>2 DEF Visibility!Effect
<1> QED
  BY <1>1, <1>2, <1>3 DEF RulesInv, Visibility!RulesDecideVisibility

LEMMA RulesNext == RulesInv /\ [Visibility!Next]_rulesVars => RulesInv'
<1> SUFFICES ASSUME RulesInv, [Visibility!Next]_rulesVars
             PROVE  RulesInv'
  OBVIOUS
<1>1. CASE UNCHANGED rulesVars
  <2>1. UNCHANGED <<mcpFilters, keyFilters, build, standing, met, served, hidden, roundRobin, called>>
    BY <1>1 DEF rulesVars
  <2>2. Visibility!Effect' = Visibility!Effect
    BY <2>1 DEF Visibility!Effect
  <2>3. BuildOK => BuildOK'
    BY <2>1, BuildKept
  <2>4. Visibility!RulesDecideVisibility'
    BY <2>1 DEF RulesInv, Visibility!RulesDecideVisibility
  <2> QED
    BY <2>1, <2>2, <2>3, <2>4 DEF RulesInv, EntryOK
<1>2. CASE Visibility!EditAlias \/ Visibility!EditFilter \/ Visibility!EditPolicy
  <2>1. Visibility!Changed /\ keyFilters' = keyFilters
    BY <1>2 DEF Visibility!EditAlias, Visibility!EditFilter, Visibility!EditPolicy
  <2> QED
    BY <2>1, EditStep DEF RulesInv
<1>3. CASE Visibility!EditKeyFilter
  <2>1. Visibility!Changed /\ keyFilters' \in Visibility!KeyFilterTables
    BY <1>3 DEF Visibility!EditKeyFilter
  <2> QED
    BY <2>1, EditStep, KeyFiltersAreRows DEF RulesInv
<1>4. ASSUME NEW name \in DOMAIN served, Visibility!SelectCandidate(name)
      PROVE  RulesInv'
  BY <1>4, SelectStep
<1> QED
  BY <1>1, <1>2, <1>3, <1>4, ListUpstreamsStep, ReadAliasesStep, ReadFiltersStep,
     ReadKeyFiltersStep DEF Visibility!Next

(* However the rules are edited while a build reads them, one query at a    *)
(* time: it hides every tool some filter hid all along, loses none that no  *)
(* filter ever hid, and a call goes to a source with the schema shown.      *)
THEOREM VisibilityIsDecided ==
    Spec => []RulesDecideVisibility
<1>1. Init => RulesInv
  BY RulesInit DEF Init
<1>2. RulesInv /\ [Next]_allVars => RulesInv'
  <2>1. [Next]_allVars => [Visibility!Next]_rulesVars
    BY DEF Next, allVars
  <2> QED
    BY <2>1, RulesNext
<1>3. RulesInv => RulesDecideVisibility
  BY DEF RulesInv, RulesDecideVisibility
<1> QED
  BY <1>1, <1>2, <1>3, PTL DEF Spec

-----------------------------------------------------------------------------
LogEntry == [id : Nat \ {0}, level : Levels]
LogRequest ==
    [kind : {"load", "refresh", "reload", "clear"}, level : Levels \cup {All}, after : Nat,
     answered : BOOLEAN, reply : SUBSET LogEntry]
LogPage ==
    [level : Levels \cup {All}, logs : SUBSET LogEntry, asked : SUBSET LogRequest,
     undisturbed : BOOLEAN]

LogTypes ==
    /\ nextID \in Nat /\ entries \in SUBSET LogEntry /\ IsFiniteSet(entries)
    /\ view \in [Views -> LogPage]
    /\ \A v \in Views : /\ IsFiniteSet(view[v].logs)
                        /\ \A r \in view[v].asked : IsFiniteSet(r.reply)

(* These entries are of the running process, and so is every other of their *)
(* numbers.                                                                 *)
Known(S) == \A x \in S : x.id <= nextID /\ \A e \in entries : e.id = x.id => e = x

(* Of what the store still has, S misses nothing of its level between the   *)
(* entry a request named (or its own first one) and its last one.           *)
Follows(S, id, level) ==
    \A e \in entries :
        /\ Log!Matches(e.level, level)
        /\ \E b \in S : e.id < b.id
        /\ id # 0 => e.id > id
        /\ id = 0 => \E a \in S : a.id < e.id
        => e \in S

(* The one request of an undisturbed page that fetches entries.             *)
FetchOK(p, r) ==
    /\ \A q \in p.asked : q.kind # "clear" => q = r
    /\ r.level = p.level
    /\ Follows(r.reply, r.after, r.level) /\ \A x \in r.reply : x.id > r.after
    /\ r.kind \in {"load", "reload"} => r.after = 0
    /\ r.kind = "reload" => p.logs = {}
    /\ r.kind = "refresh" /\ p.logs # {} => r.after = Log!LatestId(p.logs)

PageOK(p) ==
    /\ Known(p.logs) /\ \A r \in p.asked : Known(r.reply)
    /\ \A r \in p.asked : IF r.kind = "clear" THEN r.reply = {} ELSE FetchOK(p, r)
    /\ (\A r \in p.asked : r.kind # "load") => Follows(p.logs, 0, p.level)

LogInv ==
    /\ LogTypes /\ Known(entries)
    /\ \A v \in Views : view[v].undisturbed => PageOK(view[v])

LEMMA EntriesCount == \A S : Log!Cardinality(S) = Cardinality(S)
BY DEF Log!Cardinality, Cardinality

LEMMA NewestIs ==
    ASSUME NEW S \in SUBSET LogEntry, IsFiniteSet(S), NEW n \in Nat
    PROVE  /\ Log!Newest(S, n) \in SUBSET S /\ IsFiniteSet(Log!Newest(S, n))
           /\ \A x \in Log!Newest(S, n), y \in S : y.id > x.id => y \in Log!Newest(S, n)
<1> DEFINE newer(x) == {y \in S : y.id > x.id}
<1>1. Log!Newest(S, n) = {x \in S : Cardinality(newer(x)) < n}
  BY EntriesCount DEF Log!Newest
<1>2. IsFiniteSet(Log!Newest(S, n))
  BY <1>1, FS_Subset
<1>3. ASSUME NEW x \in S, NEW y \in S, y.id > x.id, Cardinality(newer(x)) < n
      PROVE  Cardinality(newer(y)) < n
  <2>1. newer(y) \in SUBSET newer(x) /\ newer(x) \in SUBSET S
    BY <1>3 DEF LogEntry
  <2> HIDE DEF newer
  <2>2. IsFiniteSet(newer(x)) /\ IsFiniteSet(newer(y))
    BY <2>1, FS_Subset
  <2>3. Cardinality(newer(y)) <= Cardinality(newer(x))
    BY <2>1, <2>2, FS_Subset
  <2>4. Cardinality(newer(y)) \in Nat /\ Cardinality(newer(x)) \in Nat
    BY <2>2, FS_CardinalityType
  <2> QED
    BY <1>3, <2>3, <2>4
<1> HIDE DEF newer
<1> QED
  BY <1>1, <1>2, <1>3

LEMMA OldestIs ==
    ASSUME NEW S \in SUBSET LogEntry, IsFiniteSet(S), NEW n \in Nat
    PROVE  /\ Log!Oldest(S, n) \in SUBSET S /\ IsFiniteSet(Log!Oldest(S, n))
           /\ \A x \in Log!Oldest(S, n), y \in S : y.id < x.id => y \in Log!Oldest(S, n)
<1> DEFINE older(x) == {y \in S : y.id < x.id}
<1>1. Log!Oldest(S, n) = {x \in S : Cardinality(older(x)) < n}
  BY EntriesCount DEF Log!Oldest
<1>2. IsFiniteSet(Log!Oldest(S, n))
  BY <1>1, FS_Subset
<1>3. ASSUME NEW x \in S, NEW y \in S, y.id < x.id, Cardinality(older(x)) < n
      PROVE  Cardinality(older(y)) < n
  <2>1. older(y) \in SUBSET older(x) /\ older(x) \in SUBSET S
    BY <1>3 DEF LogEntry
  <2> HIDE DEF older
  <2>2. IsFiniteSet(older(x)) /\ IsFiniteSet(older(y))
    BY <2>1, FS_Subset
  <2>3. Cardinality(older(y)) <= Cardinality(older(x))
    BY <2>1, <2>2, FS_Subset
  <2>4. Cardinality(older(y)) \in Nat /\ Cardinality(older(x)) \in Nat
    BY <2>2, FS_CardinalityType
  <2> QED
    BY <1>3, <2>3, <2>4
<1> HIDE DEF older
<1> QED
  BY <1>1, <1>2, <1>3

LEMMA LatestIs ==
    ASSUME NEW S \in SUBSET LogEntry, IsFiniteSet(S)
    PROVE  /\ Log!LatestId(S) \in Nat
           /\ \A x \in S : x.id <= Log!LatestId(S)
           /\ S # {} => \E x \in S : x.id = Log!LatestId(S)
<1>1. CASE S = {}
  BY <1>1 DEF Log!LatestId
<1>2. CASE S # {}
  <2> DEFINE ids == Log!Ids(S)
  <2>1. ids = {x.id : x \in S}
    BY DEF Log!Ids
  <2>2. ids \in SUBSET Int /\ ids \in SUBSET Nat /\ ids # {}
    BY <1>2, <2>1 DEF LogEntry
  <2>3. IsFiniteSet(ids)
    <3> DEFINE f == [x \in S |-> x.id]
    <3>1. f \in Surjection(S, ids)
      BY <2>1 DEF Surjection
    <3> HIDE DEF f, ids
    <3> QED
      BY <3>1, FS_Surjection
  <2> HIDE DEF ids
  <2>4. Catalog!Max(ids) \in ids /\ \A y \in ids : y <= Catalog!Max(ids)
    BY <2>2, <2>3, LargestOf
  <2>5. Log!Max(ids) = Catalog!Max(ids)
    BY Zenon DEF Log!Max, Catalog!Max
  <2>6. Log!LatestId(S) = Log!Max(ids)
    BY <1>2 DEF Log!LatestId, ids
  <2> QED
    BY <2>1, <2>2, <2>4, <2>5, <2>6
<1> QED
  BY <1>1, <1>2

(* What the store answers: nothing is missing in it.                        *)
LEMMA ListIs ==
    ASSUME LogTypes, NEW id \in Nat, NEW level
    PROVE  /\ Log!List(id, level) \in SUBSET entries /\ IsFiniteSet(Log!List(id, level))
           /\ \A x \in Log!List(id, level) : x.id > id
           /\ Follows(Log!List(id, level), id, level)
<1> DEFINE all == Log!After(id, level)
           found0 == Log!List(id, level)
<1>1. /\ all \in SUBSET entries /\ all \in SUBSET LogEntry
      /\ \A x : x \in all <=> x \in entries /\ x.id > id /\ Log!Matches(x.level, level)
  BY DEF LogTypes, Log!After
<1>2. IsFiniteSet(all)
  BY <1>1, FS_Subset DEF LogTypes
<1>3. found0 = IF id = 0 THEN Log!Newest(all, PageLimit) ELSE Log!Oldest(all, PageLimit)
  BY DEF Log!List
<1> HIDE DEF all, found0
<1>4. found0 \in SUBSET all /\ IsFiniteSet(found0)
  BY <1>1, <1>2, <1>3, NewestIs, OldestIs, LogLimitsAreNumbers
<1>5. Follows(found0, id, level)
  <2> SUFFICES ASSUME NEW e \in entries, Log!Matches(e.level, level),
                      NEW b \in found0, e.id < b.id, id # 0 => e.id > id,
                      id = 0 => \E a \in found0 : a.id < e.id
               PROVE  e \in found0
    BY DEF Follows
  <2>1. e \in LogEntry
    BY DEF LogTypes
  <2>2. e \in all
    BY <1>1, <2>1 DEF LogEntry
  <2>3. CASE id = 0
    <3>1. PICK a \in found0 : a.id < e.id
      BY <2>3
    <3>2. a \in all /\ a \in LogEntry
      BY <1>1, <1>4
    <3>3. e.id > a.id
      BY <3>1, <3>2, <2>1 DEF LogEntry
    <3> QED
      BY <1>1, <1>2, <1>3, <2>2, <2>3, <3>3, NewestIs, LogLimitsAreNumbers
  <2>4. CASE id # 0
    BY <1>1, <1>2, <1>3, <2>2, <2>4, OldestIs, LogLimitsAreNumbers
  <2> QED
    BY <2>3, <2>4
<1>6. \A x \in found0 : x.id > id
  BY <1>1, <1>4
<1> QED
  BY <1>1, <1>4, <1>5, <1>6 DEF found0

(* A poll continues what the page shows.                                    *)
LEMMA MergeIs ==
    ASSUME LogTypes, NEW old \in SUBSET LogEntry, IsFiniteSet(old),
           NEW new \in SUBSET LogEntry, IsFiniteSet(new)
    PROVE  Log!Merge(old, new) \in SUBSET (old \cup new) /\ IsFiniteSet(Log!Merge(old, new))
<1> DEFINE both == old \cup {x \in new : x.id \notin Log!Ids(old)}
<1>1. both \in SUBSET LogEntry /\ both \in SUBSET (old \cup new)
  OBVIOUS
<1>2. IsFiniteSet(both)
  BY <1>1, FS_Union, FS_Subset
<1>3. Log!Merge(old, new) = Log!Newest(both, MaxLocalLogs)
  BY DEF Log!Merge
<1> HIDE DEF both
<1> QED
  BY <1>1, <1>2, <1>3, NewestIs, LogLimitsAreNumbers

LEMMA MergeFollows ==
    ASSUME LogTypes, NEW old \in SUBSET LogEntry, IsFiniteSet(old),
           NEW new \in SUBSET LogEntry, IsFiniteSet(new), NEW id \in Nat, NEW level,
           Known(old), Follows(old, 0, level), Follows(new, id, level),
           \A x \in new : x.id > id, old # {} => id = Log!LatestId(old)
    PROVE  Follows(Log!Merge(old, new), 0, level)
<1>1. /\ Log!LatestId(old) \in Nat
      /\ \A x \in old : x.id <= Log!LatestId(old)
      /\ old # {} => \E x \in old : x.id = Log!LatestId(old)
  BY LatestIs
<1> DEFINE both == old \cup {x \in new : x.id \notin Log!Ids(old)}
<1>2. both = old \cup new
  <2>1. \A x \in new : x.id \notin Log!Ids(old)
    BY <1>1 DEF Log!Ids, LogEntry
  <2> QED
    BY <2>1
<1> HIDE DEF both
<1>3. both \in SUBSET LogEntry /\ IsFiniteSet(both)
  BY <1>2, FS_Union
<1>4. ASSUME NEW e \in entries, Log!Matches(e.level, level),
             NEW a \in both, a.id < e.id, NEW b \in both, e.id < b.id
      PROVE  e \in both
  <2>1. e \in LogEntry /\ a \in LogEntry /\ b \in LogEntry
    BY <1>3 DEF LogTypes
  <2>2. CASE b \in old
    <3>1. a \in old
      <4> SUFFICES ASSUME a \in new PROVE FALSE
        BY <1>2
      <4> QED
        BY <1>1, <1>4, <2>1, <2>2 DEF LogEntry
    <3>2. e \in old
      BY <1>4, <2>2, <3>1 DEF Follows
    <3> QED
      BY <3>2, <1>2
  <2>3. CASE b \in new /\ e.id > id
    <3>1. id = 0 => old = {}
      BY <1>1 DEF LogEntry
    <3>2. id = 0 => a \in new
      BY <3>1, <1>2
    <3>3. e \in new
      BY <1>4, <2>3, <3>2 DEF Follows
    <3> QED
      BY <3>3, <1>2
  <2>4. CASE b \in new /\ ~(e.id > id)
    <3>1. a \in old
      <4> SUFFICES ASSUME a \in new PROVE FALSE
        BY <1>2
      <4>1. a.id > id
        OBVIOUS
      <4> QED
        BY <4>1, <1>4, <2>1, <2>4 DEF LogEntry
    <3>2. PICK x \in old : x.id = id
      BY <1>1, <3>1
    <3>3. CASE e.id = id
      BY <3>2, <3>3, <1>2 DEF Known
    <3>4. CASE e.id # id
      <4>1. e.id < x.id
        BY <3>2, <3>4, <2>1, <2>4 DEF LogEntry
      <4>2. e \in old
        BY <1>4, <3>1, <4>1 DEF Follows
      <4> QED
        BY <4>2, <1>2
    <3> QED
      BY <3>3, <3>4
  <2> QED
    BY <1>2, <2>2, <2>3, <2>4
<1>5. Log!Merge(old, new) = Log!Newest(both, MaxLocalLogs)
  BY DEF Log!Merge, both
<1>6. /\ Log!Merge(old, new) \in SUBSET both
      /\ \A x \in Log!Merge(old, new), y \in both : y.id > x.id => y \in Log!Merge(old, new)
  BY <1>3, <1>5, NewestIs, LogLimitsAreNumbers
<1> SUFFICES ASSUME NEW e \in entries, Log!Matches(e.level, level),
                    NEW a \in Log!Merge(old, new), a.id < e.id,
                    NEW b \in Log!Merge(old, new), e.id < b.id
             PROVE  e \in Log!Merge(old, new)
  BY DEF Follows
<1>7. e \in both
  BY <1>4, <1>6
<1>8. e.id > a.id
  BY <1>3, <1>6, <1>7 DEF LogEntry
<1> QED
  BY <1>6, <1>7, <1>8

-----------------------------------------------------------------------------
(* New entries have new numbers: what was in order stays so.                *)
LEMMA PageKept ==
    ASSUME LogTypes, nextID' \in Nat, nextID' >= nextID, entries' \in SUBSET LogEntry,
           \A e \in entries' : e \in entries \/ e.id > nextID,
           NEW p \in LogPage, PageOK(p)
    PROVE  PageOK(p)'
<1>1. ASSUME NEW S \in SUBSET LogEntry, Known(S) PROVE Known(S)'
  BY <1>1 DEF Known, LogEntry, LogTypes
<1>2. ASSUME NEW S \in SUBSET LogEntry, NEW id, NEW level, Known(S), Follows(S, id, level)
      PROVE  Follows(S, id, level)'
  <2> SUFFICES ASSUME NEW e \in entries', Log!Matches(e.level, level),
                      NEW b \in S, e.id < b.id, id # 0 => e.id > id,
                      id = 0 => \E a \in S : a.id < e.id
               PROVE  e \in S
    BY DEF Follows
  <2>1. e \in entries
    <3>1. b.id <= nextID /\ b.id \in Nat /\ e.id \in Nat /\ nextID \in Nat
      BY <1>2 DEF Known, LogEntry, LogTypes
    <3> QED
      BY <3>1
  <2> QED
    BY <2>1, <1>2 DEF Follows
<1>3. /\ p.logs \in SUBSET LogEntry
      /\ \A r \in p.asked : r.reply \in SUBSET LogEntry
  BY DEF LogPage, LogRequest
<1>4. Known(p.logs)' /\ \A r \in p.asked : Known(r.reply)'
  BY <1>1, <1>3 DEF PageOK
<1>5. ASSUME NEW r \in p.asked PROVE IF r.kind = "clear" THEN r.reply = {} ELSE FetchOK(p, r)'
  <2>1. IF r.kind = "clear" THEN r.reply = {} ELSE FetchOK(p, r)
    BY DEF PageOK
  <2>2. FetchOK(p, r) => Follows(r.reply, r.after, r.level)'
    BY <1>2, <1>3 DEF FetchOK, PageOK
  <2> QED
    BY <2>1, <2>2 DEF FetchOK
<1>6. (\A r \in p.asked : r.kind # "load") => Follows(p.logs, 0, p.level)'
  BY <1>2, <1>3 DEF PageOK
<1> QED
  BY <1>4, <1>5, <1>6 DEF PageOK

LEMMA AddStep ==
    ASSUME LogInv, NEW level \in Levels, Log!Add(level)
    PROVE  LogInv'
<1> DEFINE new == [id |-> nextID + 1, level |-> level]
           all == entries \cup {new}
<1>1. /\ nextID' = nextID + 1 /\ view' = view /\ entries' = Log!Newest(all, Capacity)
  BY DEF Log!Add
<1>2. new \in LogEntry /\ new.id = nextID + 1 /\ nextID \in Nat
  BY DEF LogInv, LogTypes, LogEntry
<1> HIDE DEF new
<1>3. all \in SUBSET LogEntry /\ IsFiniteSet(all)
  BY <1>2, FS_AddElement DEF LogInv, LogTypes
<1>4. entries' \in SUBSET all
  BY <1>1 DEF Log!Newest
<1>5. entries' \in SUBSET LogEntry /\ IsFiniteSet(entries')
  BY <1>3, <1>4, FS_Subset
<1>6. \A e \in entries' : e \in entries \/ (e = new /\ e.id > nextID)
  BY <1>2, <1>4
<1>10. nextID' = nextID + 1 /\ nextID' \in Nat /\ nextID' >= nextID /\ view' = view
  BY <1>1, <1>2
<1> HIDE DEF all
<1>7. Known(entries)'
  <2> SUFFICES ASSUME NEW x \in entries'
               PROVE  x.id <= nextID' /\ \A e \in entries' : e.id = x.id => e = x
    BY DEF Known
  <2>1. \A e \in entries : e.id \in Nat /\ e.id <= nextID
                          /\ \A d \in entries : d.id = e.id => d = e
    BY DEF LogInv, Known, LogTypes, LogEntry
  <2>2. new.id = nextID' /\ new.id > nextID
    BY <1>10, <1>2
  <2> QED
    BY <1>10, <1>2, <1>6, <2>1, <2>2
<1>8. LogTypes'
  BY <1>10, <1>5 DEF LogInv, LogTypes
<1>9. ASSUME NEW v \in Views, view'[v].undisturbed, NEW p, p = view[v] PROVE PageOK(p)'
  <2>1. PageOK(p) /\ p \in LogPage
    BY <1>10, <1>9 DEF LogInv, LogTypes
  <2>2. \A e \in entries' : e \in entries \/ e.id > nextID
    BY <1>6
  <2>3. LogTypes
    BY DEF LogInv
  <2> QED
    BY <2>1, <2>2, <2>3, <1>10, <1>5, PageKept
<1> QED
  BY <1>10, <1>7, <1>8, <1>9 DEF LogInv, PageOK, FetchOK

(* A step of one page, which may also clear the store.                      *)
LEMMA PageStep ==
    ASSUME LogInv, NEW v \in Views, NEW p \in LogPage, view' = [view EXCEPT ![v] = p],
           IsFiniteSet(p.logs), \A r \in p.asked : IsFiniteSet(r.reply),
           nextID' = nextID, entries' \in SUBSET entries,
           p.undisturbed => PageOK(p)
    PROVE  LogInv'
<1>1. /\ entries' \in SUBSET LogEntry /\ IsFiniteSet(entries') /\ nextID' \in Nat
      /\ nextID' >= nextID
  BY FS_Subset DEF LogInv, LogTypes
<1>2. LogTypes'
  BY <1>1 DEF LogInv, LogTypes
<1>3. Known(entries)'
  BY DEF LogInv, Known
<1>4. ASSUME NEW w \in Views, view'[w].undisturbed, NEW q, q = view'[w] PROVE PageOK(q)'
  <2>1. PageOK(q) /\ q \in LogPage
    BY <1>4 DEF LogInv, LogTypes
  <2> QED
    BY <2>1, <1>1, PageKept DEF LogInv
<1> QED
  BY <1>2, <1>3, <1>4 DEF LogInv, PageOK, FetchOK

LEMMA RestartStep ==
    ASSUME LogInv, Log!Restart
    PROVE  LogInv'
<1>1. /\ entries' = {} /\ nextID' = 0
      /\ view' = [v \in Views |-> [view[v] EXCEPT !.undisturbed = FALSE]]
  BY DEF Log!Restart
<1>2. ASSUME NEW v \in Views
      PROVE  /\ view'[v] \in LogPage /\ ~view'[v].undisturbed
             /\ view'[v].logs = view[v].logs /\ view'[v].asked = view[v].asked
  <2>1. view[v] \in LogPage /\ view'[v] = [view[v] EXCEPT !.undisturbed = FALSE]
    BY <1>1 DEF LogInv, LogTypes
  <2> QED
    BY <2>1 DEF LogPage
<1>3. view' \in [Views -> LogPage]
  BY <1>1, <1>2
<1>4. IsFiniteSet({})
  BY FS_EmptySet
<1>5. LogTypes'
  BY <1>1, <1>2, <1>3, <1>4 DEF LogInv, LogTypes
<1> QED
  BY <1>1, <1>2, <1>5 DEF LogInv, Known

-----------------------------------------------------------------------------
(* The requests of a page whose reply is empty miss nothing.                *)
LEMMA EmptyFollows ==
    ASSUME NEW id, NEW level
    PROVE  Follows({}, id, level) /\ Known({})
BY DEF Follows, Known

(* Another page differs by one request, with nothing in its reply yet.      *)
LEMMA AskStep ==
    ASSUME LogInv, NEW v \in Views, NEW q \in LogRequest, q.reply = {},
           Log!Ask(v, q), UNCHANGED <<entries, nextID>>,
           q.kind # "clear" =>
              q.kind = "refresh" /\ q.level = view[v].level /\ q.after = Log!LatestId(view[v].logs)
    PROVE  LogInv'
<1> DEFINE o == view[v]
           still == o.undisturbed /\ ~(q.kind # "clear" /\ Log!Asking(v, {"load", "refresh", "reload"}))
           p == [o EXCEPT !.asked = o.asked \cup {q}, !.undisturbed = still]
<1>1. o \in LogPage /\ IsFiniteSet(o.logs) /\ \A r \in o.asked : IsFiniteSet(r.reply)
  BY DEF LogInv, LogTypes
<1>2. view' = [view EXCEPT ![v] = p]
  BY DEF Log!Ask
<1>3. /\ p.level = o.level /\ p.logs = o.logs /\ p.asked = o.asked \cup {q}
      /\ p.undisturbed = still /\ p \in LogPage
  <2>1. still \in BOOLEAN
    OBVIOUS
  <2> HIDE DEF o, still
  <2> QED
    BY <1>1, <2>1 DEF LogPage
<1>4. p \in LogPage
  BY <1>3
<1> HIDE DEF p
<1>5. IsFiniteSet(p.logs) /\ \A r \in p.asked : IsFiniteSet(r.reply)
  BY <1>1, <1>3, FS_EmptySet
<1>6. ASSUME p.undisturbed PROVE PageOK(p)
  <2>1. PageOK(o)
    BY <1>3, <1>6 DEF LogInv
  <2>2. Known(p.logs) /\ \A r \in p.asked : Known(r.reply)
    BY <1>3, <2>1, EmptyFollows DEF PageOK
  <2>3. ASSUME q.kind # "clear" PROVE \A r \in o.asked : r.kind = "clear"
    <3>1. \A r \in o.asked : r.kind \in {"load", "refresh", "reload", "clear"}
      BY <1>1 DEF LogPage, LogRequest
    <3> QED
      BY <1>3, <1>6, <2>3, <3>1 DEF Log!Asking
  <2>4. ASSUME q.kind # "clear" PROVE FetchOK(p, q)
    BY <1>3, <2>3, <2>4, EmptyFollows DEF FetchOK
  <2>5. ASSUME NEW r \in o.asked, r.kind # "clear", q.kind = "clear" PROVE FetchOK(p, r)
    <3>1. FetchOK(o, r)
      BY <2>1, <2>5 DEF PageOK
    <3> QED
      BY <1>3, <2>5, <3>1 DEF FetchOK
  <2>6. \A r \in p.asked : IF r.kind = "clear" THEN r.reply = {} ELSE FetchOK(p, r)
    <3>1. \A r \in o.asked : r.kind = "clear" => r.reply = {}
      BY <2>1 DEF PageOK
    <3> QED
      BY <1>3, <2>3, <2>4, <2>5, <3>1
  <2>7. (\A r \in p.asked : r.kind # "load") => Follows(p.logs, 0, p.level)
    BY <1>3, <2>1 DEF PageOK
  <2> QED
    BY <2>2, <2>6, <2>7 DEF PageOK
<1> HIDE DEF o
<1> QED
  BY <1>2, <1>4, <1>5, <1>6, PageStep

LEMMA RefreshStep ==
    ASSUME LogInv, NEW v \in Views, Log!Refresh(v)
    PROVE  LogInv'
<1> DEFINE q == [kind |-> "refresh", level |-> view[v].level, after |-> Log!LatestId(view[v].logs),
                 answered |-> FALSE, reply |-> {}]
<1>1. Log!Ask(v, q) /\ UNCHANGED <<entries, nextID>>
  BY DEF Log!Refresh
<1>2. view[v] \in LogPage /\ IsFiniteSet(view[v].logs)
  BY DEF LogInv, LogTypes
<1>3. Log!LatestId(view[v].logs) \in Nat
  <2>1. view[v].logs \in SUBSET LogEntry
    BY <1>2 DEF LogPage
  <2> QED
    BY <1>2, <2>1, LatestIs
<1>4. /\ q \in LogRequest /\ q.reply = {} /\ q.kind = "refresh" /\ q.level = view[v].level
      /\ q.after = Log!LatestId(view[v].logs)
  BY <1>2, <1>3 DEF LogPage, LogRequest
<1> HIDE DEF q
<1> QED
  BY <1>1, <1>4, AskStep

LEMMA AskClearStep ==
    ASSUME LogInv, NEW v \in Views, Log!AskClear(v)
    PROVE  LogInv'
<1> DEFINE q == [kind |-> "clear", level |-> All, after |-> 0, answered |-> FALSE, reply |-> {}]
<1>1. Log!Ask(v, q) /\ UNCHANGED <<entries, nextID>>
  BY DEF Log!AskClear
<1>2. q \in LogRequest /\ q.reply = {} /\ q.kind = "clear"
  BY DEF LogRequest
<1> HIDE DEF q
<1> QED
  BY <1>1, <1>2, AskStep

LEMMA SwitchLevelStep ==
    ASSUME LogInv, NEW v \in Views, NEW level \in Levels \cup {All}, Log!SwitchLevel(v, level)
    PROVE  LogInv'
<1> DEFINE o == view[v]
           q == Log!Load(level)
           still == o.undisturbed /\ ~Log!Asking(v, {"load", "refresh", "reload"})
           p == [o EXCEPT !.level = level, !.asked = o.asked \cup {q}, !.undisturbed = still]
<1>1. o \in LogPage /\ IsFiniteSet(o.logs) /\ \A r \in o.asked : IsFiniteSet(r.reply)
  BY DEF LogInv, LogTypes
<1>2. view' = [view EXCEPT ![v] = p] /\ UNCHANGED <<entries, nextID>>
  BY DEF Log!SwitchLevel
<1>3. /\ p.level = level /\ p.logs = o.logs /\ p.asked = o.asked \cup {q}
      /\ p.undisturbed = still
  <2> HIDE DEF o, still, q
  <2> QED
    BY <1>1 DEF LogPage
<1>4. q \in LogRequest /\ q.reply = {} /\ q.kind = "load" /\ q.level = level /\ q.after = 0
  BY DEF Log!Load, LogRequest
<1> HIDE DEF q
<1>5. p \in LogPage
  <2>1. still \in BOOLEAN
    OBVIOUS
  <2> HIDE DEF o, still
  <2> QED
    BY <1>1, <1>4, <2>1 DEF LogPage
<1> HIDE DEF p
<1>6. IsFiniteSet(p.logs) /\ \A r \in p.asked : IsFiniteSet(r.reply)
  BY <1>1, <1>3, <1>4, FS_EmptySet
<1>7. ASSUME p.undisturbed PROVE PageOK(p)
  <2>1. PageOK(o)
    BY <1>3, <1>7 DEF LogInv
  <2>2. Known(p.logs) /\ \A r \in p.asked : Known(r.reply)
    BY <1>3, <1>4, <2>1, EmptyFollows DEF PageOK
  <2>3. \A r \in o.asked : r.kind = "clear" /\ r.reply = {}
    <3>1. \A r \in o.asked : r.kind \in {"load", "refresh", "reload", "clear"}
      BY <1>1 DEF LogPage, LogRequest
    <3>2. \A r \in o.asked : r.kind = "clear"
      BY <1>3, <1>7, <3>1 DEF Log!Asking
    <3> QED
      BY <2>1, <3>2 DEF PageOK
  <2>4. FetchOK(p, q)
    BY <1>3, <1>4, <2>3, EmptyFollows DEF FetchOK
  <2>5. \A r \in p.asked : IF r.kind = "clear" THEN r.reply = {} ELSE FetchOK(p, r)
    BY <1>3, <1>4, <2>3, <2>4
  <2> QED
    BY <1>3, <1>4, <2>2, <2>5 DEF PageOK
<1> HIDE DEF o
<1> QED
  BY <1>2, <1>5, <1>6, <1>7, PageStep

(* A request leaves, and another page may come of it.                       *)
LEMMA AnswerStep ==
    ASSUME LogInv, NEW v \in Views, NEW request \in view[v].asked, Log!Answer(v, request)
    PROVE  LogInv'
<1> DEFINE o == view[v]
           reply == Log!List(request.after, request.level)
           q == [request EXCEPT !.answered = TRUE, !.reply = reply]
           rest == (o.asked \ {request}) \cup {q}
           p == [o EXCEPT !.asked = rest]
<1>1. o \in LogPage /\ IsFiniteSet(o.logs) /\ \A r \in o.asked : IsFiniteSet(r.reply)
  BY DEF LogInv, LogTypes
<1>2. view' = [view EXCEPT ![v] = p] /\ UNCHANGED <<entries, nextID>> /\ request.kind # "clear"
  BY DEF Log!Answer, Log!Replace
<1>3. request \in LogRequest
  BY <1>1 DEF LogPage
<1>4. /\ reply \in SUBSET entries /\ IsFiniteSet(reply) /\ \A x \in reply : x.id > request.after
      /\ Follows(reply, request.after, request.level) /\ Known(reply) /\ reply \in SUBSET LogEntry
  <2>1. request.after \in Nat
    BY <1>3 DEF LogRequest
  <2>2. /\ reply \in SUBSET entries /\ IsFiniteSet(reply) /\ \A x \in reply : x.id > request.after
        /\ Follows(reply, request.after, request.level)
    BY <2>1, ListIs DEF LogInv
  <2> HIDE DEF reply
  <2> QED
    BY <2>2 DEF LogInv, Known, LogTypes
<1> HIDE DEF reply
<1>5. /\ q \in LogRequest /\ q.kind = request.kind /\ q.level = request.level
      /\ q.after = request.after /\ q.reply = reply
  BY <1>3, <1>4 DEF LogRequest
<1> HIDE DEF q
<1>6. /\ p \in LogPage /\ p.level = o.level /\ p.logs = o.logs /\ p.asked = rest
      /\ p.undisturbed = o.undisturbed
  <2> HIDE DEF o
  <2> QED
    BY <1>1, <1>5 DEF LogPage
<1> HIDE DEF p
<1>7. IsFiniteSet(p.logs) /\ \A r \in p.asked : IsFiniteSet(r.reply)
  BY <1>1, <1>4, <1>5, <1>6
<1>8. ASSUME p.undisturbed PROVE PageOK(p)
  <2>1. PageOK(o)
    BY <1>6, <1>8 DEF LogInv
  <2>2. FetchOK(o, request)
    BY <2>1, <1>2 DEF PageOK
  <2>3. Known(p.logs) /\ \A r \in p.asked : Known(r.reply)
    BY <1>4, <1>5, <1>6, <2>1 DEF PageOK
  <2>4. \A r \in o.asked \ {request} : r.kind = "clear" /\ r.reply = {}
    BY <2>1, <2>2 DEF PageOK, FetchOK
  <2>5. FetchOK(p, q)
    BY <1>4, <1>5, <1>6, <2>2, <2>4 DEF FetchOK
  <2>6. \A r \in p.asked : IF r.kind = "clear" THEN r.reply = {} ELSE FetchOK(p, r)
    BY <1>2, <1>5, <1>6, <2>4, <2>5
  <2>7. (\A r \in p.asked : r.kind # "load") => Follows(p.logs, 0, p.level)
    <3>1. q \in p.asked
      BY <1>6
    <3>2. (\A r \in p.asked : r.kind # "load") => \A r \in o.asked : r.kind # "load"
      BY <3>1, <1>5, <1>6
    <3> QED
      BY <3>2, <1>6, <2>1 DEF PageOK
  <2> QED
    BY <2>3, <2>6, <2>7 DEF PageOK
<1> HIDE DEF o
<1> QED
  BY <1>2, <1>6, <1>7, <1>8, PageStep

LEMMA ClearStep ==
    ASSUME LogInv, NEW v \in Views, NEW request \in view[v].asked, Log!Clear(v, request)
    PROVE  LogInv'
<1> DEFINE o == view[v]
           q == [request EXCEPT !.answered = TRUE]
           rest == (o.asked \ {request}) \cup {q}
           p == [o EXCEPT !.asked = rest]
<1>1. o \in LogPage /\ IsFiniteSet(o.logs) /\ \A r \in o.asked : IsFiniteSet(r.reply)
  BY DEF LogInv, LogTypes
<1>2. /\ view' = [view EXCEPT ![v] = p] /\ nextID' = nextID /\ entries' \in SUBSET entries
      /\ request.kind = "clear"
  BY DEF Log!Clear, Log!Replace
<1>3. request \in LogRequest
  BY <1>1 DEF LogPage
<1>4. q \in LogRequest /\ q.kind = "clear" /\ q.reply = request.reply
  BY <1>2, <1>3 DEF LogRequest
<1> HIDE DEF q
<1>5. /\ p \in LogPage /\ p.level = o.level /\ p.logs = o.logs /\ p.asked = rest
      /\ p.undisturbed = o.undisturbed
  <2> HIDE DEF o
  <2> QED
    BY <1>1, <1>4 DEF LogPage
<1> HIDE DEF p
<1>6. IsFiniteSet(p.logs) /\ \A r \in p.asked : IsFiniteSet(r.reply)
  BY <1>1, <1>4, <1>5
<1>7. ASSUME p.undisturbed PROVE PageOK(p)
  <2>1. PageOK(o)
    BY <1>5, <1>7 DEF LogInv
  <2>2. Known(p.logs) /\ \A r \in p.asked : Known(r.reply)
    BY <1>4, <1>5, <2>1 DEF PageOK
  <2>3. ASSUME NEW r \in o.asked, r.kind # "clear" PROVE FetchOK(p, r)
    <3>1. FetchOK(o, r)
      BY <2>1, <2>3 DEF PageOK
    <3> QED
      BY <3>1, <1>4, <1>5 DEF FetchOK
  <2>4. q.reply = {}
    BY <2>1, <1>2, <1>4 DEF PageOK
  <2>5. \A r \in p.asked : IF r.kind = "clear" THEN r.reply = {} ELSE FetchOK(p, r)
    <3>1. \A r \in o.asked : r.kind = "clear" => r.reply = {}
      BY <2>1 DEF PageOK
    <3> QED
      BY <1>4, <1>5, <2>3, <2>4, <3>1
  <2>6. (\A r \in p.asked : r.kind # "load") => Follows(p.logs, 0, p.level)
    <3>1. (\A r \in p.asked : r.kind # "load") => \A r \in o.asked : r.kind # "load"
      BY <1>2, <1>5
    <3> QED
      BY <3>1, <1>5, <2>1 DEF PageOK
  <2> QED
    BY <2>2, <2>5, <2>6 DEF PageOK
<1> HIDE DEF o
<1> QED
  BY <1>2, <1>5, <1>6, <1>7, PageStep

LEMMA LoseStep ==
    ASSUME LogInv, NEW v \in Views, NEW request \in view[v].asked, Log!Lose(v, request)
    PROVE  LogInv'
<1> DEFINE o == view[v]
           still == o.undisturbed /\ ~(request.kind = "load" /\ o.logs # {})
           p == [o EXCEPT !.asked = o.asked \ {request}, !.undisturbed = still]
<1>1. o \in LogPage /\ IsFiniteSet(o.logs) /\ \A r \in o.asked : IsFiniteSet(r.reply)
  BY DEF LogInv, LogTypes
<1>2. view' = [view EXCEPT ![v] = p] /\ UNCHANGED <<entries, nextID>>
  BY DEF Log!Lose
<1>3. /\ p.level = o.level /\ p.logs = o.logs /\ p.asked = o.asked \ {request}
      /\ p.undisturbed = still /\ p \in LogPage
  <2>1. still \in BOOLEAN
    OBVIOUS
  <2> HIDE DEF o, still
  <2> QED
    BY <1>1, <2>1 DEF LogPage
<1> HIDE DEF p
<1>4. IsFiniteSet(p.logs) /\ \A r \in p.asked : IsFiniteSet(r.reply)
  BY <1>1, <1>3
<1>5. ASSUME p.undisturbed PROVE PageOK(p)
  <2>1. PageOK(o)
    BY <1>3, <1>5 DEF LogInv
  <2>2. Known(p.logs) /\ \A r \in p.asked : Known(r.reply)
    BY <1>3, <2>1 DEF PageOK
  <2>3. ASSUME NEW r \in p.asked PROVE IF r.kind = "clear" THEN r.reply = {} ELSE FetchOK(p, r)
    <3>1. IF r.kind = "clear" THEN r.reply = {} ELSE FetchOK(o, r)
      BY <1>3, <2>1 DEF PageOK
    <3> QED
      BY <3>1, <1>3 DEF FetchOK
  <2>4. ASSUME \A r \in p.asked : r.kind # "load" PROVE Follows(p.logs, 0, p.level)
    <3>1. CASE request.kind = "load"
      BY <1>3, <1>5, <3>1, EmptyFollows
    <3>2. CASE request.kind # "load"
      <4>1. \A r \in o.asked : r.kind # "load"
        BY <1>3, <2>4, <3>2
      <4> QED
        BY <4>1, <1>3, <2>1 DEF PageOK
    <3> QED
      BY <3>1, <3>2
  <2> QED
    BY <2>2, <2>3, <2>4 DEF PageOK
<1> HIDE DEF o
<1> QED
  BY <1>2, <1>3, <1>4, <1>5, PageStep

LEMMA ReceiveStep ==
    ASSUME LogInv, NEW v \in Views, NEW request \in view[v].asked, Log!Receive(v, request)
    PROVE  LogInv'
<1> DEFINE o == view[v]
           rest == o.asked \ {request}
           reload == [Log!Load(o.level) EXCEPT !.kind = "reload"]
           again == [o EXCEPT !.asked = rest \cup {reload}]
           merged == [o EXCEPT !.asked = rest, !.logs = Log!Merge(o.logs, request.reply)]
           replaced == [o EXCEPT !.asked = rest, !.logs = request.reply]
           Reloads == request.kind = "refresh" /\ request.reply = {} /\ o.logs = {}
           Merges == request.kind = "refresh" /\ (request.reply # {} \/ o.logs # {})
<1>1. /\ o \in LogPage /\ IsFiniteSet(o.logs) /\ \A r \in o.asked : IsFiniteSet(r.reply)
      /\ o.logs \in SUBSET LogEntry
  BY DEF LogInv, LogTypes, LogPage
<1>2. /\ view' = [view EXCEPT ![v] = CASE Reloads -> again [] Merges -> merged [] OTHER -> replaced]
      /\ UNCHANGED <<entries, nextID>>
  BY DEF Log!Receive
<1>3. request \in LogRequest /\ request.reply \in SUBSET LogEntry /\ IsFiniteSet(request.reply)
  BY <1>1 DEF LogPage, LogRequest
<1>4. rest \in SUBSET LogRequest
  BY <1>1 DEF LogPage
<1>5. ASSUME o.undisturbed
      PROVE  /\ PageOK(o)
             /\ request.kind # "clear" => \A r \in rest : r.kind = "clear" /\ r.reply = {}
             /\ \A r \in rest : Known(r.reply)
  <2>1. PageOK(o)
    BY <1>5 DEF LogInv
  <2>2. request.kind # "clear" => FetchOK(o, request)
    BY <2>1 DEF PageOK
  <2> QED
    BY <2>1, <2>2 DEF PageOK, FetchOK
<1>6. CASE Reloads
  <2>1. /\ again \in LogPage /\ again.level = o.level /\ again.logs = o.logs
        /\ again.asked = rest \cup {reload} /\ again.undisturbed = o.undisturbed
    <3>1. reload \in LogRequest
      BY <1>1 DEF LogPage, LogRequest, Log!Load
    <3> HIDE DEF o, reload, rest
    <3> QED
      BY <1>1, <1>4, <3>1 DEF LogPage
  <2>2. /\ reload.reply = {} /\ reload.kind = "reload" /\ reload.level = o.level
        /\ reload.after = 0
    BY DEF Log!Load
  <2>3. view' = [view EXCEPT ![v] = again]
    BY <1>2, <1>6
  <2> HIDE DEF again, reload
  <2>4. IsFiniteSet(again.logs) /\ \A r \in again.asked : IsFiniteSet(r.reply)
    BY <1>1, <2>1, <2>2, FS_EmptySet
  <2>5. ASSUME again.undisturbed PROVE PageOK(again)
    <3>1. FetchOK(again, reload)
      BY <1>5, <1>6, <2>1, <2>2, <2>5, EmptyFollows DEF FetchOK
    <3>2. Known(again.logs) /\ \A r \in again.asked : Known(r.reply)
      BY <1>5, <1>6, <2>1, <2>2, <2>5, EmptyFollows
    <3>3. \A r \in again.asked : IF r.kind = "clear" THEN r.reply = {} ELSE FetchOK(again, r)
      BY <1>5, <1>6, <2>1, <2>2, <2>5, <3>1
    <3>4. Follows(again.logs, 0, again.level)
      BY <1>6, <2>1, EmptyFollows
    <3> QED
      BY <3>2, <3>3, <3>4 DEF PageOK
  <2> HIDE DEF o
  <2> QED
    BY <1>2, <2>1, <2>3, <2>4, <2>5, PageStep
<1>7. CASE Merges
  <2> DEFINE logs0 == Log!Merge(o.logs, request.reply)
  <2>1. logs0 \in SUBSET (o.logs \cup request.reply) /\ IsFiniteSet(logs0)
    BY <1>1, <1>3, MergeIs DEF LogInv
  <2> HIDE DEF logs0
  <2>2. /\ merged \in LogPage /\ merged.level = o.level /\ merged.logs = logs0
        /\ merged.asked = rest /\ merged.undisturbed = o.undisturbed
    <3>1. logs0 \in SUBSET LogEntry
      BY <1>1, <1>3, <2>1
    <3>2. merged = [o EXCEPT !.asked = rest, !.logs = logs0]
      BY DEF logs0
    <3> HIDE DEF o, rest, merged
    <3> QED
      BY <1>1, <1>4, <3>1, <3>2 DEF LogPage
  <2>3. view' = [view EXCEPT ![v] = merged]
    BY <1>2, <1>7
  <2> HIDE DEF merged
  <2>4. IsFiniteSet(merged.logs) /\ \A r \in merged.asked : IsFiniteSet(r.reply)
    BY <1>1, <2>1, <2>2
  <2>5. ASSUME merged.undisturbed PROVE PageOK(merged)
    <3>1. FetchOK(o, request) /\ PageOK(o) /\ \A r \in o.asked : r.kind # "load"
      BY <1>5, <1>7, <2>2, <2>5 DEF PageOK
    <3>2. Known(o.logs) /\ Known(request.reply) /\ Follows(o.logs, 0, o.level)
      BY <3>1 DEF PageOK
    <3>3. /\ request.level = o.level /\ Follows(request.reply, request.after, o.level)
          /\ \A x \in request.reply : x.id > request.after
          /\ o.logs # {} => request.after = Log!LatestId(o.logs)
      BY <3>1, <1>7 DEF FetchOK
    <3>4. request.after \in Nat
      BY <1>3 DEF LogRequest
    <3>5. Follows(logs0, 0, o.level)
      BY <1>1, <1>3, <3>2, <3>3, <3>4, MergeFollows DEF LogInv, logs0
    <3>6. Known(logs0)
      BY <2>1, <3>2 DEF Known
    <3>7. \A r \in merged.asked : r.kind = "clear" /\ r.reply = {} /\ Known(r.reply)
      BY <1>5, <1>7, <2>2, <2>5
    <3> QED
      BY <2>2, <3>5, <3>6, <3>7 DEF PageOK
  <2> HIDE DEF o
  <2> QED
    BY <1>2, <2>2, <2>3, <2>4, <2>5, PageStep
<1>8. CASE ~Reloads /\ ~Merges
  <2>1. /\ replaced \in LogPage /\ replaced.level = o.level /\ replaced.logs = request.reply
        /\ replaced.asked = rest /\ replaced.undisturbed = o.undisturbed
    <3> HIDE DEF o, rest
    <3> QED
      BY <1>1, <1>3, <1>4 DEF LogPage
  <2>2. view' = [view EXCEPT ![v] = replaced]
    BY <1>2, <1>8
  <2> HIDE DEF replaced
  <2>3. IsFiniteSet(replaced.logs) /\ \A r \in replaced.asked : IsFiniteSet(r.reply)
    BY <1>1, <1>3, <2>1
  <2>4. request.kind \in {"load", "reload", "clear"}
    BY <1>3, <1>8 DEF LogRequest
  <2>5. ASSUME replaced.undisturbed PROVE PageOK(replaced)
    <3>0. PageOK(o)
      BY <1>5, <2>1, <2>5
    <3>1. Known(replaced.logs) /\ \A r \in replaced.asked : Known(r.reply)
      BY <3>0, <2>1 DEF PageOK
    <3>2. CASE request.kind = "clear"
      <4>1. replaced.logs = {}
        BY <3>0, <3>2, <2>1 DEF PageOK
      <4>2. ASSUME NEW r \in replaced.asked, r.kind # "clear" PROVE FetchOK(replaced, r)
        <5>1. FetchOK(o, r)
          BY <3>0, <4>2, <2>1 DEF PageOK
        <5> QED
          BY <5>1, <4>1, <2>1 DEF FetchOK
      <4>3. \A r \in replaced.asked : IF r.kind = "clear" THEN r.reply = {} ELSE FetchOK(replaced, r)
        BY <3>0, <4>2, <2>1 DEF PageOK
      <4> QED
        BY <3>1, <4>1, <4>3, EmptyFollows DEF PageOK
    <3>3. CASE request.kind \in {"load", "reload"}
      <4>1. FetchOK(o, request)
        BY <3>0, <3>3 DEF PageOK
      <4>2. Follows(replaced.logs, 0, replaced.level)
        BY <4>1, <3>3, <2>1 DEF FetchOK
      <4>3. \A r \in replaced.asked : r.kind = "clear" /\ r.reply = {}
        BY <1>5, <3>3, <2>1, <2>5
      <4> QED
        BY <3>1, <4>2, <4>3 DEF PageOK
    <3> QED
      BY <2>4, <3>2, <3>3
  <2> HIDE DEF o
  <2> QED
    BY <1>2, <2>1, <2>2, <2>3, <2>5, PageStep
<1> QED
  BY <1>6, <1>7, <1>8

LEMMA LogInit == Log!Init => LogInv
<1> SUFFICES ASSUME Log!Init PROVE LogInv
  OBVIOUS
<1> DEFINE q == Log!Load(All)
<1>1. /\ entries = {} /\ nextID = 0
      /\ view = [v \in Views |-> [level |-> All, logs |-> {}, asked |-> {q}, undisturbed |-> TRUE]]
  BY DEF Log!Init, Log!Opened
<1>2. q \in LogRequest /\ q.reply = {} /\ q.kind = "load" /\ q.level = All /\ q.after = 0
  BY DEF Log!Load, LogRequest
<1> HIDE DEF q
<1>3. \A v \in Views : /\ view[v] \in LogPage /\ view[v].level = All /\ view[v].logs = {}
                       /\ view[v].asked = {q}
  BY <1>1, <1>2 DEF LogPage
<1>4. LogTypes /\ Known(entries)
  BY <1>1, <1>2, <1>3, FS_EmptySet DEF LogTypes, Known
<1>5. ASSUME NEW v \in Views PROVE PageOK(view[v])
  <2>1. FetchOK(view[v], q)
    BY <1>2, <1>3, EmptyFollows DEF FetchOK
  <2> QED
    BY <1>2, <1>3, <2>1, EmptyFollows DEF PageOK
<1> QED
  BY <1>4, <1>5 DEF LogInv

LEMMA LogNext == LogInv /\ [Log!Next]_logVars => LogInv'
<1> SUFFICES ASSUME LogInv, [Log!Next]_logVars PROVE LogInv'
  OBVIOUS
<1>1. CASE UNCHANGED logVars
  BY <1>1 DEF logVars, LogInv, LogTypes, Known, PageOK, FetchOK, Follows
<1>2. ASSUME NEW v \in Views, NEW request \in view[v].asked,
             Log!Answer(v, request) \/ Log!Clear(v, request) \/ Log!Receive(v, request)
                \/ Log!Lose(v, request)
      PROVE  LogInv'
  BY <1>2, AnswerStep, ClearStep, ReceiveStep, LoseStep
<1> QED
  BY <1>1, <1>2, AddStep, RestartStep, RefreshStep, AskClearStep, SwitchLevelStep DEF Log!Next

(* However entries, answers, clearings and losses interleave, and however   *)
(* many entries come between two polls, a page shows every entry of its     *)
(* level between its first and its last one that the store still has.       *)
THEOREM PagesAreWhole ==
    Spec => []PagesHaveNoHoles
<1>1. Init => LogInv
  BY LogInit DEF Init
<1>2. LogInv /\ [Next]_allVars => LogInv'
  <2>1. [Next]_allVars => [Log!Next]_logVars
    BY DEF Next, allVars
  <2> QED
    BY <2>1, LogNext
<1>3. LogInv => PagesHaveNoHoles
  BY DEF LogInv, PageOK, Follows, PagesHaveNoHoles, Log!PagesHaveNoHoles, Log!Asking
<1> QED
  BY <1>1, <1>2, <1>3, PTL DEF Spec

-----------------------------------------------------------------------------
-----------------------------------------------------------------------------
(* Pages through lists of tools. *)
ToolListing(b) == Endpoints!Listing(b.asks, b.of)

FirstOf(n, list) == [i \in 1..n |-> list[i]]
EndOf(next, list) == IF next = 0 THEN Len(list) ELSE next

(* What a client has seen of a list that stood still: its beginning, up to  *)
(* where the cursor points.                                                 *)
Progress(b) ==
    /\ IsList(ToolListing(b)) /\ Len(ToolListing(b)) \in Nat
    /\ b.next \in Nat /\ (b.next = 0 \/ b.next < Len(ToolListing(b)))
    /\ b.seen = FirstOf(EndOf(b.next, ToolListing(b)), ToolListing(b))

Announced(b) ==
    (b.asks.tool = "list_tools" /\ b.asks.text \in DOMAIN b.overview) =>
        /\ Len(ToolListing(b)) >= b.overview[b.asks.text]
        /\ Endpoints!Unlike(b.asks.text, b.overview) =>
              Len(ToolListing(b)) = b.overview[b.asks.text]

PagingsOf(S) == [asks : S, seen : S, next : S, of : S, stable : S, overview : S]
IsPaging(b) == \E S : b \in PagingsOf(S)

PagingOK(b) ==
    /\ b = Endpoints!NotPaging \/ IsPaging(b)
    /\ b.stable => b.of = visible /\ Progress(b) /\ Announced(b)

EndpointInv ==
    /\ visible \in ToolLists /\ discoveryLimit \in Nat \ {0}
    /\ \A s \in Sessions : session[s] # NoSession => session[s].limit \in Nat \ {0}
    /\ DOMAIN session = Sessions /\ DOMAIN browse = Sessions
    /\ \A s \in Sessions : PagingOK(browse[s])

LEMMA ToolsCount == \A S : Endpoints!Cardinality(S) = Cardinality(S)
BY DEF Endpoints!Cardinality, Cardinality

(* A function on 1..n is a list of n.                                       *)
LEMMA ListOfPlaces ==
    ASSUME NEW s, NEW n \in Nat, DOMAIN s = 1..n, s = [i \in 1..n |-> s[i]]
    PROVE  IsList(s) /\ Len(s) = n
<1> DEFINE S == {s[i] : i \in DOMAIN s}
<1>1. s \in [1..n -> S]
  OBVIOUS
<1> HIDE DEF S
<1>2. s \in Seq(S) /\ Len(s) = n
  BY <1>1
<1> QED
  BY <1>2 DEF IsList, S

(* The places of the tools of a list are finitely many.                     *)
LEMMA PlacesAreFinite ==
    ASSUME NEW list, IsList(list), NEW S, S \subseteq DOMAIN list
    PROVE  IsFiniteSet(S) /\ Cardinality(S) \in Nat
<1>1. DOMAIN list = 1..Len(list) /\ Len(list) \in Nat
  BY ListIndices
<1>2. IsFiniteSet(1..Len(list))
  BY <1>1, FS_Interval
<1>3. IsFiniteSet(S)
  BY <1>1, <1>2, FS_Subset
<1> QED
  BY <1>3, FS_CardinalityType

(* A listing has a place for each tool it is about, and a list of the tools *)
(* of one upstream those the overview counts.                               *)
LEMMA ListingLength ==
    ASSUME NEW list \in ToolLists, NEW asks
    PROVE  /\ IsList(Endpoints!Listing(asks, list)) /\ Len(Endpoints!Listing(asks, list)) \in Nat
           /\ asks.tool = "list_tools" =>
                 Len(Endpoints!Listing(asks, list))
                    = Cardinality(Endpoints!FilterByUpstream(list, asks.text))
<1> DEFINE places == IF asks.tool = "list_tools" THEN Endpoints!FilterByUpstream(list, asks.text)
                     ELSE Endpoints!Search(list, asks.text)
           k == Cardinality(places)
           out == Endpoints!Listing(asks, list)
<1>1. places \subseteq DOMAIN list
  BY DEF Endpoints!FilterByUpstream, Endpoints!Search
<1> HIDE DEF places
<1>2. k \in Nat
  BY <1>1, PlacesAreFinite, VisibleAreListed
<1>3. DOMAIN out = 1..k /\ out = [n \in 1..k |-> out[n]]
  <2>1. CASE asks.tool = "list_tools"
    BY <2>1, ToolsCount DEF Endpoints!Listing, Endpoints!InOrder, places
  <2>2. CASE asks.tool # "list_tools"
    BY <2>2, ToolsCount DEF Endpoints!Listing, Endpoints!InOrder, places
  <2> QED
    BY <2>1, <2>2
<1> HIDE DEF k, out
<1>4. IsList(out) /\ Len(out) = k
  BY <1>2, <1>3, ListOfPlaces
<1> QED
  BY <1>2, <1>4 DEF k, out, places

LEMMA OverviewCounts ==
    ASSUME NEW list \in ToolLists, NEW filter \in DOMAIN Endpoints!UpstreamOverview(list)
    PROVE  /\ Cardinality(Endpoints!FilterByUpstream(list, filter))
                 >= Endpoints!UpstreamOverview(list)[filter]
           /\ Endpoints!Unlike(filter, Endpoints!UpstreamOverview(list)) =>
                 Cardinality(Endpoints!FilterByUpstream(list, filter))
                     = Endpoints!UpstreamOverview(list)[filter]
<1> DEFINE own == {i \in DOMAIN list : filter \in list[i].ups}
           exact == {i \in DOMAIN list : \E u \in list[i].ups : Folded[u] = Folded[filter]}
<1>1. \E i \in DOMAIN list : filter \in list[i].ups
  BY DEF Endpoints!UpstreamOverview
<1>2. filter # "" /\ own \subseteq exact /\ exact # {}
  BY <1>1, VisibleAreListed
<1>3. Endpoints!FilterByUpstream(list, filter) = exact
  BY <1>2 DEF Endpoints!FilterByUpstream
<1>4. Endpoints!UpstreamOverview(list)[filter] = Cardinality(own)
  BY ToolsCount DEF Endpoints!UpstreamOverview
<1>5. IsFiniteSet(exact)
  BY PlacesAreFinite, VisibleAreListed
<1>6. Cardinality(exact) >= Cardinality(own)
  <2> HIDE DEF own, exact
  <2>1. own \in SUBSET exact
    BY <1>2
  <2>2. Cardinality(own) <= Cardinality(exact) /\ Cardinality(own) \in Nat /\ Cardinality(exact) \in Nat
    BY <1>5, <2>1, FS_Subset, FS_CardinalityType
  <2> QED
    BY <2>2
<1>7. Endpoints!Unlike(filter, Endpoints!UpstreamOverview(list)) => exact = own
  BY DEF Endpoints!Unlike, Endpoints!UpstreamOverview
<1> QED
  BY <1>3, <1>4, <1>6, <1>7

NextOf(list, offset, limit) == Endpoints!Page(list, offset, limit).next
ToolsOf(list, offset, limit) == Endpoints!Page(list, offset, limit).tools

(* A page continues what was seen, up to its own cursor.                    *)
LEMMA PageContinues ==
    ASSUME NEW list, IsList(list), Len(list) \in Nat, NEW offset \in Nat, NEW limit \in Nat \ {0},
           offset < Len(list) \/ offset = 0
    PROVE  /\ NextOf(list, offset, limit) \in Nat
           /\ NextOf(list, offset, limit) = 0 \/ NextOf(list, offset, limit) < Len(list)
           /\ FirstOf(offset, list) \o ToolsOf(list, offset, limit)
                 = FirstOf(EndOf(NextOf(list, offset, limit), list), list)
           /\ offset = 0 => ToolsOf(list, offset, limit)
                               = FirstOf(EndOf(NextOf(list, offset, limit), list), list)
<1>0. PICK old, part : old = FirstOf(offset, list) /\ part = Endpoints!Page(list, offset, limit)
  OBVIOUS
<1> DEFINE to == IF offset + limit > Len(list) THEN Len(list) ELSE offset + limit
           S == {list[i] : i \in DOMAIN list}
<1>1. offset <= Len(list) /\ to \in Nat /\ offset <= to /\ to <= Len(list)
      /\ (to = 0 => Len(list) = 0)
  OBVIOUS
<1>2. part = [tools |-> SubSeq(list, offset + 1, to), next |-> IF to < Len(list) THEN to ELSE 0]
  <2>1. (IF offset > Len(list) THEN Len(list) ELSE offset) = offset
    BY <1>1
  <2> QED
    BY <1>0, <2>1 DEF Endpoints!Page
<1>3. list \in Seq(S) /\ DOMAIN list = 1..Len(list)
  BY DEF IsList
<1> HIDE DEF to, S
<1>4. old \o SubSeq(list, offset + 1, to) = FirstOf(to, list)
  <2>1. /\ old \in Seq(S) /\ Len(old) = offset
        /\ \A i \in 1..offset : old[i] = list[i]
    <3>1. old = [i \in 1..offset |-> list[i]]
      BY <1>0 DEF FirstOf
    <3> QED
      BY <3>1, <1>1, <1>3
  <2>2. PICK more : more = SubSeq(list, offset + 1, to)
    OBVIOUS
  <2>3. /\ more \in Seq(S) /\ Len(more) = to - offset
        /\ \A i \in 1..(to - offset) : more[i] = list[i + offset]
    BY <2>2, <1>1, <1>3
  <2>4. PICK r : r = old \o more
    OBVIOUS
  <2>5. /\ r \in Seq(S) /\ Len(r) = offset + (to - offset)
        /\ \A i \in 1..(offset + (to - offset)) :
              r[i] = IF i <= offset THEN old[i] ELSE more[i - offset]
    <3>1. /\ r \in Seq(S) /\ Len(r) = Len(old) + Len(more)
          /\ \A i \in 1..(Len(old) + Len(more)) :
                r[i] = IF i <= Len(old) THEN old[i] ELSE more[i - Len(old)]
      <4>1. old \in Seq(S) /\ more \in Seq(S)
        BY <2>1, <2>3
      <4> QED
        BY ONLY <4>1, <2>4, ConcatProperties
    <3>2. Len(old) = offset /\ Len(more) = to - offset
      BY <2>1, <2>3
    <3> QED
      BY ONLY <3>1, <3>2
  <2>6. offset + (to - offset) = to
    BY <1>1
  <2>7. ASSUME NEW i \in 1..to PROVE r[i] = list[i]
    <3>1. CASE i <= offset
      BY <1>1, <2>1, <2>5, <2>6, <3>1
    <3>2. CASE i > offset
      <4>1. i - offset \in 1..(to - offset) /\ (i - offset) + offset = i
        BY <1>1, <3>2
      <4> QED
        BY <1>1, <2>3, <2>5, <2>6, <3>2, <4>1
    <3> QED
      BY <1>1, <3>1, <3>2
  <2>8. r = [i \in 1..to |-> r[i]]
    BY <2>5, <2>6
  <2> QED
    BY <2>2, <2>4, <2>7, <2>8 DEF FirstOf
<1>5. /\ part.next = (IF to < Len(list) THEN to ELSE 0)
      /\ part.tools = SubSeq(list, offset + 1, to)
      /\ old \o part.tools = FirstOf(to, list)
  <2>1. part.next = (IF to < Len(list) THEN to ELSE 0)
    BY ONLY <1>2
  <2>2. part.tools = SubSeq(list, offset + 1, to)
    BY ONLY <1>2
  <2> QED
    BY <1>4, <2>1, <2>2, Zenon
<1> HIDE DEF S
<1>6. to < Len(list) \/ to = Len(list)
  BY <1>1
<1>7. EndOf(part.next, list) = to
  <2>1. CASE to < Len(list) /\ to # 0
    BY <1>5, <2>1 DEF EndOf
  <2>2. CASE to = Len(list)
    <3>1. part.next = 0
      BY <1>1, <1>5, <2>2
    <3> QED
      BY <2>2, <3>1 DEF EndOf
  <2> QED
    BY <1>1, <1>6, <2>1, <2>2
<1>8. part.next \in Nat /\ (part.next = 0 \/ part.next < Len(list))
  BY <1>1, <1>5, <1>6
<1>9. ASSUME offset = 0 PROVE part.tools = FirstOf(to, list)
  <2>1. part.tools = SubSeq(list, 1, to)
    <3>1. offset + 1 = 1
      BY <1>9
    <3> QED
      BY <3>1, <1>5, Zenon
  <2>2. SubSeq(list, 1, to) = FirstOf(to, list)
    BY <1>1, <1>3 DEF FirstOf
  <2> QED
    BY <2>1, <2>2
<1>10. part.next = NextOf(list, offset, limit) /\ part.tools = ToolsOf(list, offset, limit)
  BY <1>0 DEF NextOf, ToolsOf
<1> QED
  BY <1>0, <1>5, <1>7, <1>8, <1>9, <1>10

LEMMA LimitsLeaveRoom ==
    ASSUME EndpointInv, NEW s \in Sessions, Endpoints!Smart(s), NEW n \in Requested
    PROVE  Endpoints!ResolveLimit(s, n) \in Nat \ {0}
BY DiscoveryLimits DEF EndpointInv, Endpoints!Smart, Endpoints!ResolveLimit

LEMMA PageStarted ==
    ASSUME EndpointInv, NEW s \in Sessions, NEW asks \in Endpoints!Asks, NEW n \in Requested,
           Endpoints!FirstPage(s, asks, n)
    PROVE  EndpointInv'
<1> DEFINE list == Endpoints!Listing(asks, visible)
           limit == Endpoints!ResolveLimit(s, n)
           part == Endpoints!Page(list, 0, limit)
           b == [asks |-> asks, seen |-> part.tools, next |-> part.next, of |-> visible, stable |-> TRUE,
                 overview |-> IF asks.tool = "list_tools" THEN Endpoints!UpstreamOverview(visible)
                              ELSE <<>>]
<1>1. /\ Endpoints!Smart(s) /\ browse' = [browse EXCEPT ![s] = b]
      /\ UNCHANGED <<visible, discoveryLimit, session>>
  BY DEF Endpoints!FirstPage
<1>2. visible \in ToolLists
  BY DEF EndpointInv
<1>3. /\ IsList(list) /\ Len(list) \in Nat
      /\ asks.tool = "list_tools" =>
            Len(list) = Cardinality(Endpoints!FilterByUpstream(visible, asks.text))
  BY <1>2, ListingLength
<1>4. limit \in Nat \ {0}
  BY <1>1, LimitsLeaveRoom
<1>5. Progress(b)
  <2> HIDE DEF limit
  <2>1. /\ part.next \in Nat /\ (part.next = 0 \/ part.next < Len(list))
        /\ part.tools = FirstOf(EndOf(part.next, list), list)
    <3>1. part.next = NextOf(list, 0, limit) /\ part.tools = ToolsOf(list, 0, limit)
      BY DEF NextOf, ToolsOf
    <3> HIDE DEF list, part
    <3> QED
      BY <1>3, <1>4, <3>1, PageContinues
  <2>4. ToolListing(b) = list
    BY DEF ToolListing
  <2>5. b.next = part.next /\ b.seen = part.tools
    OBVIOUS
  <2> HIDE DEF list, part, b
  <2> QED
    BY <1>3, <2>1, <2>4, <2>5 DEF Progress
<1>6. Announced(b)
  <2>1. ASSUME asks.tool = "list_tools", asks.text \in DOMAIN Endpoints!UpstreamOverview(visible)
        PROVE  /\ Len(list) >= Endpoints!UpstreamOverview(visible)[asks.text]
               /\ Endpoints!Unlike(asks.text, Endpoints!UpstreamOverview(visible)) =>
                     Len(list) = Endpoints!UpstreamOverview(visible)[asks.text]
    BY <1>2, <1>3, <2>1, OverviewCounts
  <2> HIDE DEF part
  <2> QED
    BY <2>1 DEF Announced, ToolListing
<1>7. b.of = visible /\ b.stable /\ IsPaging(b)
  <2> HIDE DEF part
  <2> DEFINE S == {b.asks, b.seen, b.next, b.of, b.stable, b.overview}
  <2>1. b \in PagingsOf(S)
    BY DEF PagingsOf
  <2> QED
    BY <2>1 DEF IsPaging
<1> HIDE DEF b
<1>8. DOMAIN browse' = Sessions
      /\ \A x \in Sessions : browse'[x] = IF x = s THEN b ELSE browse[x]
  BY <1>1 DEF EndpointInv
<1>9. PagingOK(b)
  BY <1>5, <1>6, <1>7 DEF PagingOK
<1>10. ASSUME NEW x \in Sessions PROVE PagingOK(browse[x])'
  <2>1. ASSUME NEW c, PagingOK(c), c = browse[x]' PROVE PagingOK(browse[x])'
    BY <1>1, <2>1 DEF PagingOK, Progress, Announced, ToolListing
  <2> QED
    BY <1>8, <1>9, <2>1 DEF EndpointInv
<1> QED
  BY <1>1, <1>8, <1>10 DEF EndpointInv

Advanced(b, x, y) == [b EXCEPT !.seen = x, !.next = y]
Disturbed(b) == [b EXCEPT !.stable = FALSE]

LEMMA PagingMoves ==
    ASSUME NEW b, IsPaging(b), NEW x, NEW y
    PROVE  /\ Advanced(b, x, y).stable = b.stable /\ Advanced(b, x, y).of = b.of
           /\ Advanced(b, x, y).asks = b.asks /\ Advanced(b, x, y).overview = b.overview
           /\ Advanced(b, x, y).seen = x /\ Advanced(b, x, y).next = y
           /\ IsPaging(Advanced(b, x, y))
<1>1. PICK S0 : b \in PagingsOf(S0)
  BY DEF IsPaging
<1>2. PICK S : S = S0 \cup {x, y}
  OBVIOUS
<1>3. b \in PagingsOf(S) /\ x \in S /\ y \in S
  BY <1>1, <1>2 DEF PagingsOf
<1>4. /\ Advanced(b, x, y) \in PagingsOf(S)
      /\ Advanced(b, x, y).stable = b.stable /\ Advanced(b, x, y).of = b.of
      /\ Advanced(b, x, y).asks = b.asks /\ Advanced(b, x, y).overview = b.overview
      /\ Advanced(b, x, y).seen = x /\ Advanced(b, x, y).next = y
  BY ONLY <1>3 DEF Advanced, PagingsOf
<1> QED
  BY <1>4 DEF IsPaging

LEMMA PagingDisturbed ==
    ASSUME NEW b, IsPaging(b)
    PROVE  Disturbed(b).stable = FALSE /\ IsPaging(Disturbed(b))
<1>1. PICK S0 : b \in PagingsOf(S0)
  BY DEF IsPaging
<1>2. PICK S : S = S0 \cup {FALSE}
  OBVIOUS
<1>3. b \in PagingsOf(S) /\ FALSE \in S
  BY <1>1, <1>2 DEF PagingsOf
<1>4. Disturbed(b) \in PagingsOf(S) /\ Disturbed(b).stable = FALSE
  BY ONLY <1>3 DEF Disturbed, PagingsOf
<1> QED
  BY <1>4 DEF IsPaging

LEMMA PageFollowed ==
    ASSUME EndpointInv, NEW s \in Sessions, NEW n \in Requested, Endpoints!NextPage(s, n)
    PROVE  EndpointInv'
<1> DEFINE b == browse[s]
           list == ToolListing(b)
           limit == Endpoints!ResolveLimit(s, n)
           part == Endpoints!Page(Endpoints!Listing(b.asks, visible), b.next, limit)
           c == [b EXCEPT !.seen = b.seen \o part.tools, !.next = part.next]
<1>1. /\ Endpoints!Smart(s) /\ b.next # 0 /\ browse' = [browse EXCEPT ![s] = c]
      /\ UNCHANGED <<visible, discoveryLimit, session>>
  BY DEF Endpoints!NextPage
<1>2. visible \in ToolLists /\ PagingOK(b)
  BY DEF EndpointInv
<1>3. limit \in Nat \ {0}
  BY <1>1, LimitsLeaveRoom
<1> HIDE DEF limit
<1>4. /\ c.stable = b.stable /\ c.of = b.of /\ c.asks = b.asks /\ c.overview = b.overview
      /\ c.seen = b.seen \o part.tools /\ c.next = part.next /\ IsPaging(c)
  <2>1. IsPaging(b)
    BY <1>1, <1>2 DEF PagingOK, Endpoints!NotPaging
  <2>2. c = Advanced(b, b.seen \o part.tools, part.next)
    BY DEF Advanced
  <2> HIDE DEF b, part, c
  <2>3. PICK x, y : x = b.seen \o part.tools /\ y = part.next
    OBVIOUS
  <2>4. c = Advanced(b, x, y)
    BY <2>2, <2>3
  <2>5. /\ Advanced(b, x, y).stable = b.stable /\ Advanced(b, x, y).of = b.of
        /\ Advanced(b, x, y).asks = b.asks /\ Advanced(b, x, y).overview = b.overview
        /\ Advanced(b, x, y).seen = x /\ Advanced(b, x, y).next = y
        /\ IsPaging(Advanced(b, x, y))
    BY ONLY <2>1, PagingMoves
  <2> QED
    BY <2>3, <2>4, <2>5
<1>5. ASSUME c.stable PROVE c.of = visible /\ Progress(c) /\ Announced(c)
  <2>1. b.of = visible /\ Progress(b) /\ Announced(b)
    BY <1>2, <1>4, <1>5 DEF PagingOK
  <2>2. part = Endpoints!Page(list, b.next, limit)
    BY <2>1 DEF ToolListing
  <2> HIDE DEF part, c, list
  <2>3. ToolListing(c) = list /\ ToolListing(b) = list
    BY <1>4 DEF ToolListing, list
  <2> HIDE DEF b
  <2>4. /\ IsList(list) /\ Len(list) \in Nat /\ b.next \in Nat
        /\ b.next < Len(list) \/ b.next = 0
        /\ b.seen = FirstOf(b.next, list)
    BY <2>1, <2>3, <1>1 DEF Progress, EndOf
  <2>5. /\ part.next \in Nat
        /\ part.next = 0 \/ part.next < Len(list)
        /\ b.seen \o part.tools = FirstOf(EndOf(part.next, list), list)
    <3>1. PICK old : old = FirstOf(b.next, list) /\ b.seen = old
      BY <2>4
    <3>2. PICK offset \in Nat : offset = b.next
      BY <2>4
    <3>3. offset < Len(list) \/ offset = 0
      BY <2>4, <3>2
    <3>4. part = Endpoints!Page(list, offset, limit) /\ old = FirstOf(offset, list)
      BY <2>2, <3>1, <3>2
    <3>5. IsList(list) /\ Len(list) \in Nat
      BY <2>4
    <3>6. /\ part.next \in Nat
          /\ part.next = 0 \/ part.next < Len(list)
          /\ old \o part.tools = FirstOf(EndOf(part.next, list), list)
      <4>1. part.next = NextOf(list, offset, limit) /\ part.tools = ToolsOf(list, offset, limit)
        BY <3>4 DEF NextOf, ToolsOf
      <4> QED
        BY <1>3, <3>3, <3>4, <3>5, <4>1, PageContinues
    <3> QED
      BY <3>1, <3>6
  <2>6. Progress(c)
    BY <1>4, <2>3, <2>4, <2>5 DEF Progress
  <2>7. Announced(c)
    BY <1>4, <2>1, <2>3 DEF Announced
  <2> QED
    BY <1>4, <2>1, <2>6, <2>7
<1> HIDE DEF c
<1>6. PagingOK(c)
  BY <1>4, <1>5 DEF PagingOK
<1>7. DOMAIN browse' = Sessions
      /\ \A x \in Sessions : browse'[x] = IF x = s THEN c ELSE browse[x]
  <2> HIDE DEF b
  <2> QED
    BY <1>1 DEF EndpointInv
<1>8. ASSUME NEW x \in Sessions PROVE PagingOK(browse[x])'
  <2>1. ASSUME NEW d, PagingOK(d), d = browse[x]' PROVE PagingOK(browse[x])'
    BY <1>1, <2>1 DEF PagingOK, Progress, Announced, ToolListing
  <2> QED
    BY <1>6, <1>7, <2>1 DEF EndpointInv
<1> QED
  BY <1>1, <1>7, <1>8 DEF EndpointInv

(* Tools come and go: no list stands still.                                 *)
LEMMA PublishedStep ==
    ASSUME EndpointInv, NEW list \in ToolLists, Endpoints!Published(list)
    PROVE  EndpointInv'
<1>1. /\ visible' = list /\ UNCHANGED <<discoveryLimit, session>>
      /\ browse' = [s \in Sessions |-> IF browse[s] = Endpoints!NotPaging THEN Endpoints!NotPaging
                                        ELSE [browse[s] EXCEPT !.stable = FALSE]]
  BY DEF Endpoints!Published
<1>2. ASSUME NEW s \in Sessions PROVE PagingOK(browse[s])'
  <2>1. CASE browse[s] = Endpoints!NotPaging
    BY <1>1, <2>1 DEF PagingOK, Endpoints!NotPaging
  <2>2. CASE browse[s] # Endpoints!NotPaging
    <3>1. IsPaging(browse[s])
      BY <2>2 DEF EndpointInv, PagingOK
    <3>2. browse'[s] = [browse[s] EXCEPT !.stable = FALSE]
      BY <1>1, <2>2
    <3>3. IsPaging(browse'[s]) /\ ~ browse'[s].stable
      <4>1. browse'[s] = Disturbed(browse[s])
        BY <3>2 DEF Disturbed
      <4> QED
        BY <3>1, <4>1, PagingDisturbed
    <3> QED
      BY <3>3 DEF PagingOK, IsPaging
  <2> QED
    BY <2>1, <2>2
<1>3. DOMAIN browse' = Sessions
  BY <1>1
<1> QED
  BY <1>1, <1>2, <1>3 DEF EndpointInv

LEMMA PagingKept ==
    ASSUME EndpointInv, UNCHANGED visible, NEW s \in Sessions, browse'[s] = browse[s]
    PROVE  PagingOK(browse[s])'
BY DEF EndpointInv, PagingOK, IsPaging, Progress, Announced, ToolListing

LEMMA SessionSteps ==
    ASSUME EndpointInv, NEW s \in Sessions,
           \/ \E mode \in {"full", "smart"} : Endpoints!Open(s, mode)
           \/ Endpoints!Close(s)
           \/ \E name \in UNION {Endpoints!Names(l) : l \in ToolLists} : Endpoints!CallTool(s, name)
    PROVE  EndpointInv'
<1>1. ASSUME NEW mode, Endpoints!Open(s, mode) PROVE EndpointInv'
  <2>1. UNCHANGED <<visible, discoveryLimit, browse>>
    BY <1>1 DEF Endpoints!Open
  <2>2. DOMAIN session' = Sessions
        /\ \A x \in Sessions : session'[x] # NoSession => session'[x].limit \in Nat \ {0}
    BY <1>1 DEF Endpoints!Open, EndpointInv
  <2> QED
    BY <2>1, <2>2, PagingKept DEF EndpointInv
<1>2. CASE Endpoints!Close(s)
  <2>1. UNCHANGED <<visible, discoveryLimit>>
    BY <1>2 DEF Endpoints!Close
  <2>2. DOMAIN session' = Sessions
        /\ \A x \in Sessions : session'[x] # NoSession => session'[x].limit \in Nat \ {0}
    BY <1>2 DEF Endpoints!Close, EndpointInv
  <2>3. DOMAIN browse' = Sessions
        /\ \A x \in Sessions : browse'[x] = IF x = s THEN Endpoints!NotPaging ELSE browse[x]
    BY <1>2 DEF Endpoints!Close, EndpointInv
  <2>4. ASSUME NEW x \in Sessions PROVE PagingOK(browse[x])'
    <3>1. CASE x = s
      BY <2>3, <3>1 DEF PagingOK, Endpoints!NotPaging
    <3>2. CASE x # s
      BY <2>1, <2>3, <3>2, PagingKept
    <3> QED
      BY <3>1, <3>2
  <2> QED
    BY <2>1, <2>2, <2>3, <2>4 DEF EndpointInv
<1>3. ASSUME NEW name, Endpoints!CallTool(s, name) PROVE EndpointInv'
  <2>1. UNCHANGED <<visible, discoveryLimit, session, browse>>
    BY <1>3 DEF Endpoints!CallTool
  <2> QED
    BY <2>1, PagingKept DEF EndpointInv
<1> QED
  BY <1>1, <1>2, <1>3

LEMMA EndpointNext == EndpointInv /\ [Endpoints!Next]_endpointVars => EndpointInv'
<1> SUFFICES ASSUME EndpointInv, [Endpoints!Next]_endpointVars PROVE EndpointInv'
  OBVIOUS
<1>1. CASE UNCHANGED endpointVars
  BY <1>1, PagingKept DEF endpointVars, EndpointInv
<1>2. ASSUME NEW n \in Settings, Endpoints!SetDiscoveryLimit(n) PROVE EndpointInv'
  <2>1. UNCHANGED <<visible, session, browse>> /\ discoveryLimit' \in Nat \ {0}
    BY <1>2, DiscoveryLimits DEF Endpoints!SetDiscoveryLimit
  <2> QED
    BY <2>1, PagingKept DEF EndpointInv
<1> QED
  BY <1>1, <1>2, PublishedStep, SessionSteps, PageStarted, PageFollowed DEF Endpoints!Next

LEMMA EndpointInit == Endpoints!Init => EndpointInv
BY DiscoveryLimits DEF Endpoints!Init, EndpointInv, PagingOK, Endpoints!NotPaging

(* A client that follows the cursors of a list or of a search that stands   *)
(* still has seen all of it once and in order, whatever page sizes it asks  *)
(* for and the administrator sets meanwhile, and no fewer tools of an       *)
(* upstream than the overview announced, and as many where no other name is *)
(* the same but for its case.                                               *)
THEOREM PagesAreComplete ==
    Spec => []PagesShowEveryTool
<1>1. Init => EndpointInv
  BY EndpointInit DEF Init
<1>2. EndpointInv /\ [Next]_allVars => EndpointInv'
  <2>1. [Next]_allVars => [Endpoints!Next]_endpointVars
    BY DEF Next, allVars
  <2> QED
    BY <2>1, EndpointNext
<1>3. EndpointInv => PagesShowEveryTool
  <2> SUFFICES ASSUME EndpointInv PROVE Endpoints!PagesShowEveryTool
    BY DEF PagesShowEveryTool
  <2>1. ASSUME NEW s \in Sessions, browse[s].next = 0, browse[s].stable
        PROVE  /\ browse[s].seen = ToolListing(browse[s])
               /\ (browse[s].asks.tool = "list_tools"
                     /\ browse[s].asks.text \in DOMAIN browse[s].overview) =>
                      /\ Len(browse[s].seen) >= browse[s].overview[browse[s].asks.text]
                      /\ Endpoints!Unlike(browse[s].asks.text, browse[s].overview) =>
                           Len(browse[s].seen) = browse[s].overview[browse[s].asks.text]
    <3> DEFINE b == browse[s]
               list == ToolListing(b)
    <3>1. Progress(b) /\ Announced(b)
      BY <2>1 DEF EndpointInv, PagingOK
    <3> HIDE DEF b
    <3>2. b.seen = FirstOf(Len(list), list) /\ IsList(list) /\ Len(list) \in Nat
      BY <2>1, <3>1 DEF Progress, EndOf, b
    <3> HIDE DEF list
    <3>3. FirstOf(Len(list), list) = list
      BY <3>2 DEF FirstOf, IsList
    <3>4. b.seen = list
      BY <3>2, <3>3
    <3> QED
      BY <3>1, <3>4 DEF Announced, b, list
  <2> QED
    BY <2>1 DEF Endpoints!PagesShowEveryTool, ToolListing
<1> QED
  BY <1>1, <1>2, <1>3, PTL DEF Spec

-----------------------------------------------------------------------------
-----------------------------------------------------------------------------
(* Names of the tools of a document. *)
LEMMA NamesCount == \A S : Open!Cardinality(S) = Cardinality(S)
BY DEF Open!Cardinality, Cardinality

LEMMA SmallestOf ==
    ASSUME NEW S, S \subseteq Nat, S # {}
    PROVE  \E x \in S : \A y \in S : x <= y
<1>1. S \in SUBSET Nat
  OBVIOUS
<1>2. PICK z \in S : \A y \in S : ~ (<<y, z>> \in OpToRel(<, Nat))
  BY <1>1, WFMin, NatLessThanWellFounded, Zenon
<1>3. \A y \in S : ~ (y < z)
  BY <1>1, <1>2, Zenon DEF OpToRel
<1> QED
  BY <1>1, <1>3

(* The first free number makes a name none of those taken is.               *)
LEMMA UniqueIsFree ==
    ASSUME NEW base, IsList(base), NEW taken, IsFiniteSet(taken)
    PROVE  Open!UniqueToolName(base, taken) \notin taken
<1> DEFINE n == Cardinality(taken)
           S == 2..(n + 2)
           free == {i \in S : Append(base, i) \notin taken}
<1>1. n \in Nat
  BY FS_CardinalityType
<1>2. IsFiniteSet(S) /\ Cardinality(S) = n + 1
  <2> HIDE DEF n
  <2>1. 2 \in Int /\ n + 2 \in Int
    BY <1>1
  <2>2. IsFiniteSet(2..(n + 2))
        /\ Cardinality(2..(n + 2)) = IF 2 > n + 2 THEN 0 ELSE (n + 2) - 2 + 1
    BY <2>1, FS_Interval
  <2> QED
    BY <1>1, <2>2
<1>3. ASSUME NEW i, NEW j, Append(base, i) = Append(base, j) PROVE i = j
  <2>1. Append(base, i)[Len(base) + 1] = i /\ Append(base, j)[Len(base) + 1] = j
    BY AppendToList
  <2> QED
    BY <1>3, <2>1
<1>4. free # {}
  <2>1. SUFFICES ASSUME free = {} PROVE FALSE
    OBVIOUS
  <2> DEFINE f == [i \in S |-> Append(base, i)]
  <2>2. f \in [S -> taken]
    BY <2>1
  <2>3. \A i \in S : f[i] = Append(base, i)
    OBVIOUS
  <2> HIDE DEF f, S
  <2>4. Cardinality(taken) < Cardinality(S)
    <3> HIDE DEF n
    <3>1. n < Cardinality(S)
      BY <1>1, <1>2
    <3> QED
      BY <3>1 DEF n
  <2>5. \E i, j \in S : i # j /\ f[i] = f[j]
    BY <1>2, <2>2, <2>4, FS_PigeonHole
  <2> QED
    BY <1>3, <2>3, <2>5
<1>5. free \subseteq Nat
  <2> HIDE DEF n
  <2> QED
    BY <1>1
<1>6. \E i \in free : \A j \in free : i <= j
  <2> HIDE DEF free
  <2> QED
    BY <1>4, <1>5, SmallestOf
<1>7. PICK i : i \in free /\ Open!UniqueToolName(base, taken) = Append(base, i)
  BY <1>6, NamesCount DEF Open!UniqueToolName
<1> QED
  BY <1>7

NameFor(doc, i, f) ==
    LET base == doc.ops[i].base
        taken == {f[j] : j \in {k \in Open!Live(doc) : k < i}}
    IN IF base \in taken THEN Open!UniqueToolName(base, taken) ELSE base
Names(f, doc, S) == f = [i \in S |-> NameFor(doc, i, f)]

LEMMA LiveIndices ==
    ASSUME NEW doc, IsList(doc.ops)
    PROVE  /\ Open!Live(doc) \subseteq 1..Len(doc.ops) /\ Len(doc.ops) \in Nat
           /\ Open!Live(doc) \subseteq DOMAIN doc.ops /\ Open!Live(doc) \subseteq Nat
           /\ IsFiniteSet(Open!Live(doc))
<1>1. DOMAIN doc.ops = 1..Len(doc.ops) /\ Len(doc.ops) \in Nat /\ IsFiniteSet(DOMAIN doc.ops)
  BY ListIndices
<1>2. Open!Live(doc) \subseteq DOMAIN doc.ops
  BY DEF Open!Live
<1> QED
  BY <1>1, <1>2, FS_Subset

(* One operation after the other gets a name.                               *)
LEMMA NamesOneByOne ==
    ASSUME NEW doc, IsList(doc.ops)
    PROVE  \E f : Names(f, doc, Open!Live(doc))
<1> DEFINE P(m) == {i \in Open!Live(doc) : i <= m}
           n == Len(doc.ops)
           bad == {m \in Nat : ~ \E f : Names(f, doc, P(m))}
<1>1. n \in Nat /\ P(n) = Open!Live(doc) /\ P(0) = {} /\ Open!Live(doc) \subseteq Nat
  BY LiveIndices
<1>2. \E f : Names(f, doc, P(0))
  BY <1>1 DEF Names
<1>3. ASSUME NEW m \in Nat, \E f : Names(f, doc, P(m))
      PROVE  \E f : Names(f, doc, P(m + 1))
  <2>1. PICK f : Names(f, doc, P(m))
    BY <1>3
  <2> DEFINE g == [i \in P(m + 1) |-> IF i \in P(m) THEN f[i] ELSE NameFor(doc, i, f)]
  <2>2. P(m) \subseteq P(m + 1) /\ \A i \in P(m + 1) : \A k \in Open!Live(doc) : k < i => k \in P(m)
    BY <1>1
  <2>3. \A k \in P(m) : g[k] = f[k]
    BY <2>2
  <2> HIDE DEF P
  <2>4. ASSUME NEW i \in P(m + 1) PROVE NameFor(doc, i, g) = NameFor(doc, i, f)
    <3>1. \A k \in {j \in Open!Live(doc) : j < i} : g[k] = f[k]
      BY <2>2, <2>3
    <3> HIDE DEF g
    <3>2. {g[k] : k \in {j \in Open!Live(doc) : j < i}} = {f[k] : k \in {j \in Open!Live(doc) : j < i}}
      BY <3>1
    <3> QED
      BY <3>2 DEF NameFor
  <2>5. ASSUME NEW i \in P(m + 1) PROVE g[i] = NameFor(doc, i, g)
    <3>1. CASE i \in P(m)
      <4>1. f[i] = NameFor(doc, i, f)
        BY <2>1, <3>1 DEF Names
      <4> QED
        BY <2>3, <2>4, <3>1, <4>1
    <3>2. CASE i \notin P(m)
      BY <2>4, <3>2
    <3> QED
      BY <3>1, <3>2
  <2>6. g = [i \in P(m + 1) |-> g[i]]
    OBVIOUS
  <2> HIDE DEF g
  <2>7. Names(g, doc, P(m + 1))
    BY <2>5, <2>6 DEF Names
  <2> QED
    BY <2>7
<1>4. bad = {}
  <2> HIDE DEF P
  <2>1. SUFFICES ASSUME bad # {} PROVE FALSE
    OBVIOUS
  <2>2. PICK m \in bad : \A k \in bad : m <= k
    <3>1. bad \subseteq Nat
      OBVIOUS
    <3> HIDE DEF bad
    <3> QED
      BY <2>1, <3>1, SmallestOf
  <2>3. m \in Nat /\ ~ \E f : Names(f, doc, P(m))
    OBVIOUS
  <2>4. m # 0
    BY <1>2, <2>3
  <2>5. m - 1 \in Nat /\ m - 1 \notin bad /\ (m - 1) + 1 = m
    <3>1. m - 1 \in Nat /\ ~ (m <= m - 1) /\ (m - 1) + 1 = m
      BY <2>3, <2>4
    <3> HIDE DEF bad
    <3> QED
      BY <2>2, <3>1
  <2>6. \E f : Names(f, doc, P(m - 1))
    BY <2>5
  <2>7. \E f : Names(f, doc, P((m - 1) + 1))
    BY <1>3, <2>5, <2>6
  <2> QED
    BY <2>3, <2>5, <2>7
<1>5. \E f : Names(f, doc, P(n))
  <2> HIDE DEF P, n
  <2> QED
    BY <1>1, <1>4
<1> QED
  BY <1>1, <1>5

LEMMA NamesAreGiven ==
    ASSUME NEW doc, IsList(doc.ops)
    PROVE  Names(Open!ToolNames(doc), doc, Open!Live(doc))
<1>1. \E f : f = [i \in Open!Live(doc) |-> NameFor(doc, i, f)]
  BY NamesOneByOne DEF Names
<1>2. Open!ToolNames(doc) = CHOOSE f : f = [i \in Open!Live(doc) |-> NameFor(doc, i, f)]
  BY DEF Open!ToolNames, NameFor
<1> QED
  BY <1>1, <1>2 DEF Names

(* No two operations get one name.                                          *)
LEMMA NamesDiffer ==
    ASSUME NEW doc \in Documents
    PROVE  /\ DOMAIN Open!ToolNames(doc) = Open!Live(doc)
           /\ \A i, j \in Open!Live(doc) :
                 Open!ToolNames(doc)[i] = Open!ToolNames(doc)[j] => i = j
<1> DEFINE f == Open!ToolNames(doc)
           L == Open!Live(doc)
<1>1. IsList(doc.ops) /\ \A i \in DOMAIN doc.ops : IsList(doc.ops[i].base)
  BY DocumentsAreLists
<1>2. f = [i \in L |-> NameFor(doc, i, f)]
  BY <1>1, NamesAreGiven DEF Names
<1>3. L \subseteq Nat /\ IsFiniteSet(L) /\ L \subseteq DOMAIN doc.ops
  BY <1>1, LiveIndices
<1> HIDE DEF f
<1>4. DOMAIN f = L /\ \A i \in L : f[i] = NameFor(doc, i, f)
  BY <1>2
<1> HIDE DEF L
<1>5. ASSUME NEW i \in L, NEW j \in L, j < i PROVE f[i] # f[j]
  <2> DEFINE base == doc.ops[i].base
             S == {k \in L : k < i}
             taken == {f[k] : k \in S}
  <2>1. IsFiniteSet(taken)
    <3>1. IsFiniteSet(S)
      BY <1>3, FS_Subset
    <3> DEFINE g == [k \in S |-> f[k]]
    <3> HIDE DEF S
    <3>2. g \in Surjection(S, taken)
      BY DEF Surjection
    <3> HIDE DEF g, taken
    <3> QED
      BY <3>1, <3>2, FS_Surjection
  <2>2. IsList(base)
    BY <1>1, <1>3
  <2>3. f[j] \in taken
    BY <1>5
  <2>4. f[i] = IF base \in taken THEN Open!UniqueToolName(base, taken) ELSE base
    BY <1>4 DEF NameFor, L
  <2> HIDE DEF base, taken
  <2>5. f[i] \notin taken
    BY <2>1, <2>2, <2>4, UniqueIsFree
  <2> QED
    BY <2>3, <2>5
<1>6. ASSUME NEW i \in L, NEW j \in L, f[i] = f[j] PROVE i = j
  <2>1. ~ (i < j) /\ ~ (j < i)
    BY <1>5, <1>6
  <2>2. i \in Nat /\ j \in Nat
    BY <1>3
  <2> QED
    BY <2>1, <2>2
<1> QED
  BY <1>4, <1>6 DEF f, L

(* The name of an operation leads to it.                                    *)
LEMMA NamesLead ==
    ASSUME NEW doc \in Documents
    PROVE  LET names == Open!ToolNames(doc)
               made == Open!Operations(doc, names)
           IN /\ DOMAIN made = {names[i] : i \in Open!Live(doc)}
              /\ \A i \in Open!Live(doc) :
                    made[names[i]] = Open!CompileOperation(doc.ops[i], doc)
<1> DEFINE names == Open!ToolNames(doc)
           L == Open!Live(doc)
           Got(n, i) == names[i] = n /\ \A j \in DOMAIN names : names[j] = n => j <= i
<1>1. DOMAIN names = L /\ \A i, j \in L : names[i] = names[j] => i = j
  BY NamesDiffer
<1>2. L \subseteq Nat
  BY DocumentsAreLists, LiveIndices
<1> HIDE DEF names, L
<1>3. ASSUME NEW i \in L PROVE (CHOOSE k \in DOMAIN names : Got(names[i], k)) = i
  <2>1. Got(names[i], i)
    <3>1. \A j \in L : names[j] = names[i] => j = i
      BY <1>1
    <3>2. i <= i
      BY <1>2
    <3> QED
      BY <1>1, <3>1, <3>2
  <2>2. \A k \in L : Got(names[i], k) => k = i
    BY <1>1
  <2> HIDE DEF Got
  <2> QED
    BY <1>1, <2>1, <2>2
<1>4. Open!Operations(doc, names)
        = [n \in {names[i] : i \in L} |->
              Open!CompileOperation(doc.ops[CHOOSE k \in DOMAIN names : Got(n, k)], doc)]
  BY <1>1 DEF Open!Operations, Open!Range
<1> HIDE DEF Got
<1>5. ASSUME NEW i \in L
      PROVE  Open!Operations(doc, names)[names[i]] = Open!CompileOperation(doc.ops[i], doc)
  <2>1. names[i] \in {names[k] : k \in L}
    OBVIOUS
  <2> QED
    BY <1>3, <1>4, <2>1
<1> QED
  BY <1>4, <1>5 DEF names, L

-----------------------------------------------------------------------------
CarriesRequired ==
    LET own == Open!ResolveParameters(asked.op.params, source) IN
    \A i \in Open!LastPlaces(own) :
       (own[i].required /\ own[i].in \in Open!Locations \ {"path"})
          => <<own[i].in, own[i].name>> \in asked.sent

OpenInv ==
    /\ document \in Documents
    /\ source # Open!Unavailable =>
          /\ source \in Documents /\ tools = Open!ToolNames(source)
          /\ operations = Open!Operations(source, Open!ToolNames(source))
    /\ asked # <<>> => CarriesRequired

LEMMA CallStep ==
    ASSUME OpenInv, NEW n, NEW values, Open!Call(n, values)
    PROVE  OpenInv'
<1>1. source # Open!Unavailable /\ UNCHANGED <<document, tools, operations, source>>
  BY DEF Open!Call
<1>2. /\ source \in Documents /\ tools = Open!ToolNames(source)
      /\ operations = Open!Operations(source, Open!ToolNames(source))
  BY <1>1 DEF OpenInv
<1>3. ASSUME asked' # <<>> PROVE CarriesRequired'
  <2> DEFINE made == operations[n]
             S == {q \in made.params : /\ q.in \in Open!Locations \ {"path"}
                                        /\ q.name \in values}
             own == Open!ResolveParameters(made.op.params, source)
  <2>1. n \in DOMAIN operations /\ ~ Open!Missing(made, values)
        /\ asked' = [op |-> made.op, path |-> made.op.template,
                     sent |-> {<<p.in, p.name>> : p \in S},
                     body |-> made.op.body # "no" /\ "body" \in values]
    BY <1>3 DEF Open!Call
  <2>2. PICK i \in Open!Live(source) : made = Open!CompileOperation(source.ops[i], source)
    <3>1. n \in DOMAIN operations
      BY <2>1
    <3>2. /\ DOMAIN operations = {tools[i] : i \in Open!Live(source)}
          /\ \A i \in Open!Live(source) :
                operations[tools[i]] = Open!CompileOperation(source.ops[i], source)
      BY ONLY <1>2, NamesLead
    <3> HIDE DEF S, own
    <3> QED
      BY ONLY <3>1, <3>2
  <2>3. ASSUME NEW k \in Open!LastPlaces(own), own[k].required, own[k].in \in Open!Locations \ {"path"}
        PROVE  <<own[k].in, own[k].name>> \in {<<p.in, p.name>> : p \in S}
    <3>1. own[k] \in made.params
      BY <2>2 DEF Open!CompileOperation, Open!MergeParameters
    <3>2. own[k].in # "path"
      BY <2>3
    <3>3. own[k].name \in values
      BY <2>1, <2>3, <3>1, <3>2 DEF Open!Missing
    <3> HIDE DEF made, own
    <3> QED
      BY <2>3, <3>1, <3>3
  <2>4. asked'.op = made.op /\ asked'.sent = {<<p.in, p.name>> : p \in S}
    BY <2>1
  <2>5. Open!ResolveParameters(asked.op.params, source)' = own
    BY <1>1, <2>4 DEF Open!ResolveParameters
  <2> HIDE DEF own, S, made
  <2> QED
    BY <2>3, <2>4, <2>5 DEF CarriesRequired, Open!LastPlaces, Open!Locations, Open!SameParameter
<1> QED
  BY <1>1, <1>2, <1>3 DEF OpenInv

LEMMA OpenNext == OpenInv /\ [Open!Next]_openapiVars => OpenInv'
<1> SUFFICES ASSUME OpenInv, [Open!Next]_openapiVars PROVE OpenInv'
  OBVIOUS
<1>1. CASE UNCHANGED openapiVars
  BY <1>1 DEF openapiVars, OpenInv, CarriesRequired, Open!ResolveParameters
<1>2. CASE Open!Connect
  <2>1. UNCHANGED document /\ asked' = <<>>
    BY <1>2 DEF Open!Connect
  <2>2. ASSUME source' # Open!Unavailable
        PROVE  /\ source' = document /\ tools' = Open!ToolNames(document)
               /\ operations' = Open!Operations(document, Open!ToolNames(document))
    BY <1>2, <2>2 DEF Open!Connect
  <2>3. ASSUME source' # Open!Unavailable
        PROVE  /\ source' \in Documents /\ tools' = Open!ToolNames(source')
               /\ operations' = Open!Operations(source', Open!ToolNames(source'))
    BY <2>2, <2>3 DEF OpenInv
  <2> QED
    BY <2>1, <2>3 DEF OpenInv
<1>3. CASE Open!Publishes
  <2>1. document' \in Documents /\ UNCHANGED <<tools, operations, source, asked>>
    BY <1>3 DEF Open!Publishes
  <2> QED
    BY <2>1 DEF OpenInv, CarriesRequired, Open!ResolveParameters
<1> QED
  BY <1>1, <1>2, <1>3, CallStep DEF Open!Next

(* Every operation of the document that is not deprecated is reached by     *)
(* exactly one tool, whatever names the operations have, and a request      *)
(* carries what its operation requires.                                     *)
THEOREM OperationsAreReached ==
    Spec => []ToolsReachTheirOperation
<1>1. Init => OpenInv
  BY DEF Init, Open!Init, OpenInv
<1>2. OpenInv /\ [Next]_allVars => OpenInv'
  <2>1. [Next]_allVars => [Open!Next]_openapiVars
    BY DEF Next, allVars
  <2> QED
    BY <2>1, OpenNext
<1>3. OpenInv => ToolsReachTheirOperation
  <2> SUFFICES ASSUME OpenInv PROVE Open!ToolsReachTheirOperation
    BY DEF ToolsReachTheirOperation
  <2>1. ASSUME source # Open!Unavailable
        PROVE  /\ DOMAIN tools = Open!Live(source) /\ Open!IsInjective(tools)
               /\ \A i \in Open!Live(source) : operations[tools[i]].op = source.ops[i]
    <3>1. /\ source \in Documents /\ tools = Open!ToolNames(source)
          /\ operations = Open!Operations(source, Open!ToolNames(source))
      BY <2>1 DEF OpenInv
    <3>2. DOMAIN tools = Open!Live(source) /\ Open!IsInjective(tools)
      BY <3>1, NamesDiffer DEF Open!IsInjective
    <3>3. \A i \in Open!Live(source) :
             operations[tools[i]] = Open!CompileOperation(source.ops[i], source)
      BY <3>1, NamesLead
    <3> QED
      <4>1. ASSUME NEW i \in Open!Live(source)
            PROVE  Open!CompileOperation(source.ops[i], source).op = source.ops[i]
        BY ONLY TRUE DEF Open!CompileOperation
      <4> QED
        BY <3>2, <3>3, <4>1
  <2>2. asked # <<>> => CarriesRequired
    BY DEF OpenInv
  <2> QED
    BY <2>1, <2>2 DEF Open!ToolsReachTheirOperation, CarriesRequired
<1> QED
  BY <1>1, <1>2, <1>3, PTL DEF Spec

-----------------------------------------------------------------------------
-----------------------------------------------------------------------------
(* What an exported file says of an upstream. *)

(* Normalised tags are triples of different words, and stay as they are.    *)
LEMMA TagsAreKept ==
    ASSUME NEW list, IsList(list)
    PROVE  /\ IsList(Catalog!NormalTags(list))
           /\ Catalog!NormalTags(Catalog!NormalTags(list)) = Catalog!NormalTags(list)
<1> DEFINE K == Catalog!KeptTags(list)
           m == Catalog!Cardinality(K)
           at == [n \in 1..m |->
                    CHOOSE x \in K : Catalog!Cardinality({y \in K : y < x}) = n - 1]
           t == Catalog!NormalTags(list)
<1>1. DOMAIN list \subseteq Nat /\ IsFiniteSet(DOMAIN list)
  BY ListIndices
<1>2. /\ K \subseteq Nat /\ IsFiniteSet(K) /\ m \in Nat
      /\ \A i \in K : i \in DOMAIN list /\ list[i][1] # Catalog!Unset
      /\ \A i, j \in K : i # j => list[i][1] # list[j][1]
  <2>1. K \in SUBSET DOMAIN list
    BY DEF Catalog!KeptTags
  <2>2. IsFiniteSet(K)
    BY <1>1, <2>1, FS_Subset
  <2>3. m \in Nat
    BY <2>2, FS_CardinalityType, RowsCounted
  <2>4. \A i \in K : i \in DOMAIN list /\ i \in Nat /\ list[i][1] # Catalog!Unset
    BY <1>1 DEF Catalog!KeptTags
  <2>5. \A i, j \in K : i < j => list[i][1] # list[j][1]
    BY DEF Catalog!KeptTags
  <2> HIDE DEF K, m
  <2>6. ASSUME NEW i \in K, NEW j \in K, i # j PROVE list[i][1] # list[j][1]
    <3>1. i < j \/ j < i
      BY <2>4, <2>6
    <3> QED
      BY <2>5, <3>1
  <2> QED
    BY <2>2, <2>3, <2>4, <2>6
<1>3. t = [n \in 1..m |-> <<list[at[n]][1], FALSE, list[at[n]][3]>>]
  BY DEF Catalog!NormalTags, Catalog!InOrder
<1> HIDE DEF K
<1>4. ASSUME NEW n \in 1..m
      PROVE  at[n] \in K /\ Catalog!Cardinality({y \in K : y < at[n]}) = n - 1
  <2> DEFINE R == {r \in K \X K : r[1] < r[2]}
  <2>1. \A p, q \in K : <<p, q>> \in R <=> p < q
    OBVIOUS
  <2>2. StrictOrder(R, K)
    <3>1. /\ \A p \in K : ~(p < p)
          /\ \A p, q \in K : p # q => p < q \/ q < p
          /\ \A p, q, r \in K : p < q /\ q < r => p < r
      BY <1>2
    <3> HIDE DEF R
    <3> QED
      BY <2>1, <3>1, Zenon DEF StrictOrder
  <2>3. n - 1 \in Nat /\ n - 1 < m
    BY <1>2
  <2>7. at[n] = CHOOSE x \in K : Catalog!Cardinality({y \in K : y < x}) = n - 1
    OBVIOUS
  <2> HIDE DEF at
  <2> HIDE DEF R, m
  <2>9. IsFiniteSet(K) /\ n - 1 \in Nat /\ n - 1 < Cardinality(K)
    BY <1>2, <2>3, RowsCounted DEF m
  <2> DEFINE k == n - 1
  <2>10. k \in Nat /\ k < Cardinality(K)
    BY <2>9
  <2> HIDE DEF k
  <2>11. \E p \in K : Cardinality(Before(R, K, p)) = k
    BY <2>2, <2>9, <2>10, RanksAreTaken
  <2>4. PICK p \in K : Cardinality(Before(R, K, p)) = n - 1
    BY <2>11 DEF k
  <2>5. Before(R, K, p) = {y \in K : y < p}
    BY <2>1 DEF Before
  <2>8. Catalog!Cardinality({y \in K : y < p}) = n - 1
    BY <2>4, <2>5, RowsCounted
  <2>6. \E x \in K : Catalog!Cardinality({y \in K : y < x}) = n - 1
    BY <2>8, Zenon
  <2> QED
    BY <2>6, <2>7
<1>5. \A n \in 1..m, k \in 1..m : n # k => at[n] # at[k]
  <2> SUFFICES ASSUME NEW n \in 1..m, NEW k \in 1..m, at[n] = at[k] PROVE n = k
    OBVIOUS
  <2>1. n - 1 = k - 1
    BY <1>4
  <2> HIDE DEF at, m
  <2> QED
    BY <1>2, <2>1
<1> HIDE DEF at
<1>6. /\ DOMAIN t = 1..m
      /\ \A n \in 1..m : t[n] = <<list[at[n]][1], FALSE, list[at[n]][3]>>
  BY <1>3
<1>7. /\ \A n \in 1..m : t[n][1] # Catalog!Unset /\ t[n] = <<t[n][1], FALSE, t[n][3]>>
      /\ \A n, k \in 1..m : n # k => t[n][1] # t[k][1]
  <2> HIDE DEF t, m
  <2>1. ASSUME NEW n \in 1..m
        PROVE  /\ at[n] \in K /\ t[n][1] = list[at[n]][1]
               /\ t[n] = <<t[n][1], FALSE, t[n][3]>>
    <3>1. at[n] \in K /\ t[n] = <<list[at[n]][1], FALSE, list[at[n]][3]>>
      BY <1>4, <1>6
    <3> DEFINE u == list[at[n]][1]
               v == list[at[n]][3]
    <3>2. t[n] = <<u, FALSE, v>> /\ at[n] \in K
      BY <3>1
    <3>3. t[n][1] = u
      <4> HIDE DEF u, v
      <4> QED
        BY <3>2
    <3>4. t[n][3] = v
      <4> HIDE DEF u, v
      <4> QED
        BY <3>2
    <3>5. t[n] = <<t[n][1], FALSE, t[n][3]>>
      <4> HIDE DEF u, v
      <4> QED
        BY <3>2, <3>3, <3>4
    <3> QED
      BY <3>2, <3>3, <3>5
  <2>2. ASSUME NEW n \in 1..m
        PROVE  t[n][1] # Catalog!Unset /\ t[n] = <<t[n][1], FALSE, t[n][3]>>
    <3>1. list[at[n]][1] # Catalog!Unset
      BY <1>2, <2>1
    <3> QED
      BY <2>1, <3>1, Zenon
  <2>3. ASSUME NEW n \in 1..m, NEW k \in 1..m, n # k PROVE t[n][1] # t[k][1]
    <3>1. at[n] \in K /\ at[k] \in K /\ at[n] # at[k]
      BY <1>5, <2>1, <2>3
    <3>2. list[at[n]][1] # list[at[k]][1]
      BY <1>2, <3>1
    <3> QED
      BY <2>1, <3>2
  <2> QED
    BY <2>2, <2>3
<1>8. IsList(t)
  <2> DEFINE S == {t[i] : i \in DOMAIN t}
  <2>1. t \in [1..m -> S]
    BY <1>3
  <2> HIDE DEF S, t, m
  <2>2. t \in Seq(S)
    BY <1>2, <2>1
  <2> QED
    BY <2>2 DEF IsList, S
<1>9. Catalog!KeptTags(t) = 1..m
  <2> HIDE DEF t, m
  <2>1. ASSUME NEW i \in 1..m PROVE i \in Catalog!KeptTags(t)
    <3>1. \A j \in 1..m : j < i => t[j][1] # t[i][1]
      <4>1. \A j \in 1..m : j < i => j # i
        BY <1>2
      <4> QED
        BY <4>1, <1>7
    <3> QED
      BY <3>1, <1>6, <1>7 DEF Catalog!KeptTags
  <2> QED
    BY <2>1, <1>6 DEF Catalog!KeptTags
<1>10. ASSUME NEW n \in 1..m
       PROVE  (CHOOSE x \in 1..m : Catalog!Cardinality({y \in 1..m : y < x}) = n - 1) = n
  <2> HIDE DEF m
  <2>1. ASSUME NEW x \in 1..m
        PROVE  Catalog!Cardinality({y \in 1..m : y < x}) = x - 1
    <3>1. {y \in 1..m : y < x} = 1..(x - 1)
      <4>1. \A y : y \in 1..m /\ y < x <=> y \in 1..(x - 1)
        BY <1>2
      <4> QED
        BY <4>1, Zenon
    <3>2. 1 \in Int /\ x - 1 \in Int /\ x >= 1
      BY <1>2
    <3>3. Cardinality(1..(x - 1)) = IF 1 > x - 1 THEN 0 ELSE (x - 1) - 1 + 1
      BY <3>2, FS_Interval
    <3>4. Cardinality(1..(x - 1)) = x - 1
      BY <3>2, <3>3
    <3> QED
      BY <3>1, <3>4, RowsCounted
  <2>2. \A x \in 1..m : Catalog!Cardinality({y \in 1..m : y < x}) = n - 1 <=> x = n
    <3> SUFFICES ASSUME NEW x \in 1..m PROVE x - 1 = n - 1 <=> x = n
      BY <2>1
    <3> QED
      BY <1>2
  <2> QED
    BY <2>2
<1>11. Catalog!Cardinality(1..m) = m
  <2> HIDE DEF m
  <2>1. 1 \in Int /\ m \in Int
    BY <1>2
  <2>2. Cardinality(1..m) = IF 1 > m THEN 0 ELSE m - 1 + 1
    BY <2>1, FS_Interval
  <2> QED
    BY <1>2, <2>2, RowsCounted
<1> DEFINE nth(n) == CHOOSE x \in 1..m : Catalog!Cardinality({y \in 1..m : y < x}) = n - 1
<1>12. Catalog!NormalTags(t) = [n \in 1..m |-> <<t[nth(n)][1], FALSE, t[nth(n)][3]>>]
  <2> DEFINE order == [n \in 1..m |-> nth(n)]
  <2> HIDE DEF t, m
  <2>1. Catalog!InOrder(Catalog!KeptTags(t), <) = order
    BY <1>9, <1>11 DEF Catalog!InOrder
  <2>2. \A n \in 1..m : order[n] = nth(n) /\ DOMAIN order = 1..m
    OBVIOUS
  <2> HIDE DEF order
  <2>3. DOMAIN order = 1..m
    BY DEF order
  <2> QED
    BY <2>1, <2>2, <2>3 DEF Catalog!NormalTags
<1>13. Catalog!NormalTags(t) = [n \in 1..m |-> t[n]]
  <2>1. \A n \in 1..m : nth(n) = n
    BY <1>10
  <2> HIDE DEF t, m, nth
  <2>2. \A n \in 1..m : <<t[nth(n)][1], FALSE, t[nth(n)][3]>> = t[n]
    BY <1>7, <2>1
  <2>3. [n \in 1..m |-> <<t[nth(n)][1], FALSE, t[nth(n)][3]>>] = [n \in 1..m |-> t[n]]
    BY <2>2, Zenon
  <2> QED
    BY <1>12, <2>3, Zenon
<1>14. t = [n \in 1..m |-> t[n]]
  <2> DEFINE f(n) == <<list[at[n]][1], FALSE, list[at[n]][3]>>
  <2> HIDE DEF t, m
  <2>1. t = [n \in 1..m |-> f(n)]
    BY <1>3, Zenon
  <2>2. \A n \in 1..m : t[n] = f(n)
    BY <1>6, Zenon
  <2> HIDE DEF f
  <2>3. [n \in 1..m |-> f(n)] = [n \in 1..m |-> t[n]]
    BY <2>2
  <2> QED
    BY <2>1, <2>3
<1> QED
  BY <1>8, <1>13, <1>14

(* What a row and a request that created one keep: the checks of            *)
(* validateConfig, the tags already normalised.                             *)
RowOK(r) ==
    /\ IsConfig(r) /\ Catalog!Without(r.name) # <<>>
    /\ Catalog!InvalidParams(r) = {}
    /\ Catalog!NormalTags(r.tags) = r.tags
    /\ ~(Catalog!Len(r.tags) > MaxTags)

WithLimits(r, tags, limits, enabled, order) ==
    [name |-> r.name, transport |-> r.transport, params |-> r.params,
     credential |-> r.credential, tags |-> tags, limits |-> limits, enabled |-> enabled,
     order |-> order]

LEMMA NormalizedRecord ==
    ASSUME NEW c, IsConfig(c)
    PROVE  Catalog!Normalized(c) =
              WithLimits(c, Catalog!NormalTags(c.tags), Catalog!NormalLimits(c.limits),
                         c.enabled, c.order)
<1> DEFINE r == [name |-> c.name, transport |-> c.transport, params |-> c.params,
                 credential |-> c.credential, tags |-> c.tags, limits |-> c.limits,
                 enabled |-> c.enabled, order |-> c.order]
           t == Catalog!NormalTags(c.tags)
           l == Catalog!NormalLimits(c.limits)
           half == [name |-> c.name, transport |-> c.transport, params |-> c.params,
                    credential |-> c.credential, tags |-> t, limits |-> c.limits,
                    enabled |-> c.enabled, order |-> c.order]
<1>1. c = r
  BY DEF IsConfig
<1>2. Catalog!Normalized(c) = [c EXCEPT !.tags = t, !.limits = l]
  BY DEF Catalog!Normalized
<1> HIDE DEF t, l
<1>3. [c EXCEPT !.tags = t, !.limits = l] = [[c EXCEPT !.tags = t] EXCEPT !.limits = l]
  OBVIOUS
<1>4. [c EXCEPT !.tags = t] = half
  <2>1. [r EXCEPT !.tags = t] = half
    OBVIOUS
  <2> HIDE DEF r, half
  <2> QED
    BY <1>1, <2>1
<1>5. [half EXCEPT !.limits = l] = WithLimits(c, t, l, c.enabled, c.order)
  BY DEF WithLimits
<1> HIDE DEF half
<1> QED
  BY <1>2, <1>3, <1>4, <1>5 DEF t, l

(* The checks look at the name, the transport, the parameters and the tags. *)
LEMMA SameChecks ==
    ASSUME NEW r, IsConfig(r), Catalog!Without(r.name) # <<>>,
           Catalog!InvalidParams(r) = {},
           NEW tags, IsList(tags), Catalog!NormalTags(tags) = tags, ~(Catalog!Len(tags) > MaxTags),
           NEW limits, NEW enabled \in BOOLEAN, NEW order \in Int
    PROVE  RowOK(WithLimits(r, tags, limits, enabled, order))
<1> DEFINE s == WithLimits(r, tags, limits, enabled, order)
<1>1. /\ s.name = r.name /\ s.transport = r.transport /\ s.params = r.params
      /\ s.tags = tags /\ s.enabled = enabled /\ s.order = order
      /\ s = [name |-> s.name, transport |-> s.transport, params |-> s.params,
              credential |-> s.credential, tags |-> s.tags, limits |-> s.limits,
              enabled |-> s.enabled, order |-> s.order]
  BY DEF WithLimits
<1> HIDE DEF s
<1>2. Catalog!InvalidParams(s) = Catalog!InvalidParams(r)
  BY <1>1 DEF Catalog!InvalidParams
<1>3. IsConfig(s)
  BY <1>1 DEF IsConfig
<1>4. RowOK(s)
  BY <1>1, <1>2, <1>3 DEF RowOK
<1> QED
  BY <1>4 DEF s

(* What a request that passed the checks is stored as.                      *)
LEMMA ValidAreStored ==
    ASSUME NEW c, IsConfig(c), Catalog!Invalid(c) = {}, NEW o \in Int
    PROVE  RowOK(Catalog!Normalized(c)) /\ RowOK([Catalog!Normalized(c) EXCEPT !.order = o])
<1> DEFINE t == Catalog!NormalTags(c.tags)
           l == Catalog!NormalLimits(c.limits)
<1>1. /\ Catalog!Without(c.name) # <<>> /\ Catalog!InvalidParams(c) = {}
      /\ ~(Catalog!Len(t) > MaxTags)
  BY Zenon DEF Catalog!Invalid
<1>2. IsList(c.tags) /\ c.enabled \in BOOLEAN /\ c.order \in Int
  BY DEF IsConfig
<1>3. IsList(t) /\ Catalog!NormalTags(t) = t
  BY <1>2, TagsAreKept
<1>4. Catalog!Normalized(c) = WithLimits(c, t, l, c.enabled, c.order)
  BY NormalizedRecord
<1> HIDE DEF t, l
<1>5. RowOK(WithLimits(c, t, l, c.enabled, c.order)) /\ RowOK(WithLimits(c, t, l, c.enabled, o))
  BY <1>1, <1>2, <1>3, SameChecks
<1>6. [WithLimits(c, t, l, c.enabled, c.order) EXCEPT !.order = o]
          = WithLimits(c, t, l, c.enabled, o)
  BY DEF WithLimits
<1> QED
  BY <1>4, <1>5, <1>6

LEMMA RowsStayOK ==
    ASSUME NEW r, RowOK(r), NEW e \in BOOLEAN, NEW o \in Int
    PROVE  RowOK([r EXCEPT !.enabled = e]) /\ RowOK([r EXCEPT !.order = o])
<1>1. r = WithLimits(r, r.tags, r.limits, r.enabled, r.order)
  BY DEF RowOK, IsConfig, WithLimits
<1>2. /\ IsConfig(r) /\ Catalog!Without(r.name) # <<>> /\ Catalog!InvalidParams(r) = {}
      /\ IsList(r.tags) /\ Catalog!NormalTags(r.tags) = r.tags
      /\ ~(Catalog!Len(r.tags) > MaxTags) /\ r.enabled \in BOOLEAN /\ r.order \in Int
  BY DEF RowOK, IsConfig
<1> DEFINE w == WithLimits(r, r.tags, r.limits, r.enabled, r.order)
<1>3. /\ [w EXCEPT !.enabled = e] = WithLimits(r, r.tags, r.limits, e, r.order)
      /\ [w EXCEPT !.order = o] = WithLimits(r, r.tags, r.limits, r.enabled, o)
  BY DEF WithLimits
<1>4. /\ RowOK(WithLimits(r, r.tags, r.limits, e, r.order))
      /\ RowOK(WithLimits(r, r.tags, r.limits, r.enabled, o))
  BY <1>2, SameChecks
<1> HIDE DEF w
<1>5. w = r
  BY <1>1 DEF w
<1> QED
  BY <1>3, <1>4, <1>5

StoredOK == \A i \in DOMAIN rows : RowOK(rows[i])

FirstIsValid(a) ==
    edit[a] \in CreateJob /\ edit[a].order # -1 =>
        edit[a].items # <<>> /\ Catalog!Invalid(Head(edit[a].items)) = {}

RoundTripInv == CatalogInv /\ StoredOK /\ \A a \in Admins : FirstIsValid(a)

LEMMA RoundTripInit == Catalog!Init => RoundTripInv
<1> SUFFICES ASSUME Catalog!Init PROVE RoundTripInv
  OBVIOUS
<1>1. CatalogInv
  BY CatalogInit
<1>2. StoredOK
  BY DEF Catalog!Init, StoredOK
<1>3. \A a \in Admins : edit[a] \notin CreateJob
  BY DEF Catalog!Init, Catalog!Idle, CreateJob
<1> QED
  BY <1>1, <1>2, <1>3, Zenon DEF RoundTripInv, FirstIsValid

(* A step of one request: the others keep theirs.                           *)
LEMMA FirstsStayValid ==
    ASSUME RoundTripInv, NEW a \in Admins, NEW next, edit' = [edit EXCEPT ![a] = next],
           next \in CreateJob /\ next.order # -1 =>
              next.items # <<>> /\ Catalog!Invalid(Head(next.items)) = {}
    PROVE  \A b \in Admins : FirstIsValid(b)'
<1>1. edit'[a] = next /\ \A b \in Admins \ {a} : edit'[b] = edit[b]
  BY DEF RoundTripInv, CatalogInv, CatalogTypes
<1>2. \A b \in Admins : FirstIsValid(b)
  BY DEF RoundTripInv
<1> SUFFICES ASSUME NEW b \in Admins PROVE FirstIsValid(b)'
  OBVIOUS
<1>3. CASE b = a
  BY <1>1, <1>3, Zenon DEF FirstIsValid
<1>4. CASE b # a
  BY <1>1, <1>2, <1>4, Zenon DEF FirstIsValid
<1> QED
  BY <1>3, <1>4

LEMMA BeginsValid ==
    ASSUME RoundTripInv, NEW a \in Admins, NEW items, Catalog!BeginCreate(a, items)
    PROVE  StoredOK' /\ \A b \in Admins : FirstIsValid(b)'
<1> DEFINE next == [op |-> "create", items |-> items, order |-> -1]
<1>1. edit' = [edit EXCEPT ![a] = next] /\ rows' = rows
  BY DEF Catalog!BeginCreate, Catalog!Become
<1>2. next.order = -1
  OBVIOUS
<1> HIDE DEF next
<1>3. StoredOK'
  BY <1>1 DEF RoundTripInv, StoredOK
<1> QED
  BY <1>1, <1>2, <1>3, FirstsStayValid

LEMMA ReadsOfValid ==
    ASSUME RoundTripInv, NEW a \in Admins, Catalog!ReadOrder(a)
    PROVE  StoredOK' /\ \A b \in Admins : FirstIsValid(b)'
<1> DEFINE next == [edit[a] EXCEPT !.order = Catalog!NextSortOrder]
<1>1. edit' = [edit EXCEPT ![a] = next] /\ rows' = rows
  BY DEF Catalog!ReadOrder, Catalog!Become
<1>2. edit[a] \in CreateJob
  BY FirstItem DEF Catalog!ReadOrder, RoundTripInv
<1>3. next.items = edit[a].items
  BY <1>2 DEF CreateJob
<1>4. edit[a].items # <<>> /\ Catalog!Invalid(Head(edit[a].items)) = {}
  BY DEF Catalog!ReadOrder, Catalog!Creating
<1> HIDE DEF next
<1>5. StoredOK'
  BY <1>1 DEF RoundTripInv, StoredOK
<1>6. next.items # <<>> /\ Catalog!Invalid(Head(next.items)) = {}
  BY <1>3, <1>4, Zenon
<1> QED
  BY <1>1, <1>5, <1>6, FirstsStayValid

LEMMA DropsKeep ==
    ASSUME RoundTripInv, NEW a \in Admins, Catalog!Drop(a)
    PROVE  StoredOK' /\ \A b \in Admins : FirstIsValid(b)'
<1> DEFINE next == [edit[a] EXCEPT !.items = Tail(@), !.order = -1]
<1>1. next.order = -1
  BY FirstItem DEF Catalog!Drop, RoundTripInv
<1>2. edit' = [edit EXCEPT ![a] = next] /\ rows' = rows
  BY DEF Catalog!Drop, Catalog!Become
<1> HIDE DEF next
<1>3. StoredOK'
  BY <1>2 DEF RoundTripInv, StoredOK
<1> QED
  BY <1>1, <1>2, <1>3, FirstsStayValid

LEMMA StoresValid ==
    ASSUME RoundTripInv, NEW a \in Admins, Catalog!StoreCreate(a)
    PROVE  StoredOK' /\ \A b \in Admins : FirstIsValid(b)'
<1> DEFINE next == [edit[a] EXCEPT !.items = Tail(@), !.order = -1]
           first == Head(edit[a].items)
           cfg == [Catalog!Normalized(first) EXCEPT !.order = edit[a].order]
<1>1. next.order = -1 /\ edit[a] \in CreateJob
  BY FirstItem DEF Catalog!StoreCreate, RoundTripInv
<1>2. edit[a].order # -1
  BY DEF Catalog!StoreCreate
<1>3. edit[a].items # <<>> /\ Catalog!Invalid(first) = {}
  BY <1>1, <1>2 DEF RoundTripInv, FirstIsValid
<1>4. IsConfig(first) /\ edit[a].order \in Int
  <2>1. edit[a].items \in Seq(Described) /\ edit[a].order \in Int
    BY <1>1 DEF CreateJob
  <2>2. first \in Described
    BY <1>3, <2>1, HeadTailProperties
  <2> HIDE DEF first
  <2> QED
    BY <2>1, <2>2, DescribedAreConfigs
<1>5. RowOK(cfg)
  <2> HIDE DEF first
  <2> QED
    BY <1>3, <1>4, ValidAreStored
<1>6. /\ edit' = [edit EXCEPT ![a] = next]
      /\ rows' = [i \in DOMAIN rows \cup {created + 1} |->
                      IF i = created + 1 THEN cfg ELSE rows[i]]
  BY DEF Catalog!StoreCreate, Catalog!Become
<1> HIDE DEF next, cfg
<1>7. StoredOK'
  BY <1>5, <1>6 DEF RoundTripInv, StoredOK
<1> QED
  BY <1>1, <1>6, <1>7, FirstsStayValid

LEMMA UpdatesValid ==
    ASSUME RoundTripInv, NEW id, NEW cfg \in Requests, Catalog!Update(id, cfg)
    PROVE  StoredOK' /\ edit' = edit
<1> DEFINE written == Catalog!Normalized(cfg)
<1>1. RowOK(written)
  BY RequestsAreConfigs, ValidAreStored, 0 \in Int DEF Catalog!Update
<1>2. rows' = [rows EXCEPT ![id] = written] /\ edit' = edit /\ id \in DOMAIN rows
  BY DEF Catalog!Update
<1> HIDE DEF written
<1> QED
  BY <1>1, <1>2 DEF RoundTripInv, StoredOK

LEMMA EnablesValid ==
    ASSUME RoundTripInv, NEW id, Catalog!SetEnabled(id)
    PROVE  StoredOK' /\ edit' = edit
<1> DEFINE e == ~rows[id].enabled
           written == [rows[id] EXCEPT !.enabled = e]
<1>1. rows' = [rows EXCEPT ![id] = written] /\ edit' = edit /\ id \in DOMAIN rows
  BY DEF Catalog!SetEnabled
<1>2. RowOK(rows[id])
  BY <1>1 DEF RoundTripInv, StoredOK
<1>3. e \in BOOLEAN
  OBVIOUS
<1> HIDE DEF e
<1>4. RowOK(written)
  BY <1>2, <1>3, RowsStayOK, 0 \in Int
<1> HIDE DEF written
<1> QED
  BY <1>1, <1>4 DEF RoundTripInv, StoredOK

LEMMA DeletesKeep ==
    ASSUME RoundTripInv, NEW id, Catalog!Delete(id)
    PROVE  StoredOK' /\ edit' = edit
<1>1. edit' = edit /\ DOMAIN rows' \subseteq DOMAIN rows /\ \A i \in DOMAIN rows' : rows'[i] = rows[i]
  BY DEF Catalog!Delete, Catalog!Restrict
<1> QED
  BY <1>1 DEF RoundTripInv, StoredOK

LEMMA ReordersKeep ==
    ASSUME RoundTripInv, NEW a \in Admins, Catalog!StoreReorder(a)
    PROVE  StoredOK' /\ \A b \in Admins : FirstIsValid(b)'
<1> DEFINE ids == edit[a].ids
           place == [i \in Catalog!Range(ids) |-> (CHOOSE n \in DOMAIN ids : ids[n] = i) - 1]
<1>1. edit[a] \in ReorderJob
  BY DEF Catalog!StoreReorder, RoundTripInv, CatalogInv, CatalogTypes, Catalog!Idle, CreateJob,
     ReorderJob
<1>2. \A i \in Catalog!Range(ids) : place[i] \in Int
  <2>1. DOMAIN ids \subseteq Nat
    BY <1>1 DEF ReorderJob
  <2> QED
    BY <2>1 DEF Catalog!Range
<1>3. /\ edit' = [edit EXCEPT ![a] = Catalog!Idle]
      /\ \/ rows' = [i \in DOMAIN rows |->
                         IF i \in Catalog!Range(ids) THEN [rows[i] EXCEPT !.order = place[i]]
                         ELSE rows[i]]
         \/ rows' = rows
  BY DEF Catalog!StoreReorder, Catalog!Become
<1> HIDE DEF ids, place
<1>4. \A b \in Admins : FirstIsValid(b)'
  <2>1. Catalog!Idle \notin CreateJob
    BY DEF Catalog!Idle, CreateJob
  <2> QED
    BY <1>3, <2>1, FirstsStayValid
<1>5. StoredOK'
  <2>1. ASSUME NEW i \in DOMAIN rows, i \in Catalog!Range(ids)
        PROVE  RowOK([rows[i] EXCEPT !.order = place[i]])
    BY <1>2, <2>1, RowsStayOK, TRUE \in BOOLEAN DEF RoundTripInv, StoredOK
  <2>2. \A i \in DOMAIN rows : RowOK(rows[i])
    BY DEF RoundTripInv, StoredOK
  <2>3. DOMAIN rows' = DOMAIN rows
    BY <1>3
  <2>4. ASSUME NEW i \in DOMAIN rows PROVE RowOK(rows'[i])
    BY <1>3, <2>1, <2>2, <2>4
  <2> QED
    BY <2>3, <2>4 DEF StoredOK
<1> QED
  BY <1>4, <1>5

LEMMA RestOfCatalogKeeps ==
    ASSUME RoundTripInv, NEW a \in Admins, Catalog!EndCreate(a) \/ Catalog!BeginReorder(a)
    PROVE  StoredOK' /\ \A b \in Admins : FirstIsValid(b)'
<1>1. CASE Catalog!EndCreate(a)
  <2>1. edit' = [edit EXCEPT ![a] = Catalog!Idle] /\ rows' = rows
    BY <1>1 DEF Catalog!EndCreate, Catalog!Become
  <2>2. Catalog!Idle \notin CreateJob
    BY DEF Catalog!Idle, CreateJob
  <2> QED
    BY <2>1, <2>2, FirstsStayValid DEF RoundTripInv, StoredOK
<1>2. CASE Catalog!BeginReorder(a)
  <2>1. PICK ids : Catalog!Become(a, [op |-> "reorder", ids |-> ids])
    BY <1>2 DEF Catalog!BeginReorder
  <2> DEFINE next == [op |-> "reorder", ids |-> ids]
  <2>2. edit' = [edit EXCEPT ![a] = next] /\ rows' = rows
    BY <1>2, <2>1 DEF Catalog!BeginReorder, Catalog!Become
  <2>3. next \notin CreateJob
    BY DEF CreateJob
  <2> HIDE DEF next
  <2> QED
    BY <2>2, <2>3, FirstsStayValid DEF RoundTripInv, StoredOK
<1> QED
  BY <1>1, <1>2

LEMMA RoundTripNext == RoundTripInv /\ [Catalog!Next]_catalogVars => RoundTripInv'
<1> SUFFICES ASSUME RoundTripInv, [Catalog!Next]_catalogVars PROVE RoundTripInv'
  OBVIOUS
<1>1. CatalogInv'
  BY CatalogNext DEF RoundTripInv
<1>2. StoredOK' /\ \A b \in Admins : FirstIsValid(b)'
  <2>1. \A b \in Admins : FirstIsValid(b)
    BY DEF RoundTripInv
  <2>2. edit' = edit => \A b \in Admins : FirstIsValid(b)'
    BY <2>1, Zenon DEF FirstIsValid
  <2>3. CASE UNCHANGED catalogVars
    BY <2>2, <2>3 DEF catalogVars, RoundTripInv, StoredOK
  <2>4. CASE Catalog!Next
    BY <2>2, <2>4, BeginsValid, ReadsOfValid, DropsKeep, StoresValid, UpdatesValid, EnablesValid,
       DeletesKeep, ReordersKeep, RestOfCatalogKeeps DEF Catalog!Next
  <2> QED
    BY <2>3, <2>4
<1> QED
  BY <1>1, <1>2 DEF RoundTripInv

(* What is listed are the rows, each at its rank.                           *)
LEMMA ListedAreRows ==
    ASSUME CatalogTypes
    PROVE  \A n \in DOMAIN Catalog!Listed : Catalog!Listed[n] \in DOMAIN rows
<1> DEFINE D == DOMAIN rows
           m == Catalog!Cardinality(D)
           R == {r \in D \X D : \/ rows[r[1]].order < rows[r[2]].order
                                \/ rows[r[1]].order = rows[r[2]].order /\ r[1] < r[2]}
           first(x) == {y \in D : \/ rows[y].order < rows[x].order
                                  \/ rows[y].order = rows[x].order /\ y < x}
           at == [n \in 1..m |-> CHOOSE x \in D : Catalog!Cardinality(first(x)) = n - 1]
<1>1. Catalog!Listed = at
  BY DEF Catalog!Listed, Catalog!InOrder
<1>2. IsFiniteSet(D) /\ D \subseteq Nat /\ \A i \in D : rows[i].order \in Int
  BY RowsAreFinite DEF CatalogTypes
<1>3. m \in Nat /\ m = Cardinality(D)
  BY <1>2, FS_CardinalityType, RowsCounted
<1>4. \A p, q \in D : <<p, q>> \in R <=> p \in first(q)
  OBVIOUS
<1>5. StrictOrder(R, D)
  <2>1. /\ \A p \in D : p \notin first(p)
        /\ \A p, q \in D : p # q => p \in first(q) \/ q \in first(p)
        /\ \A p, q, r \in D : p \in first(q) /\ q \in first(r) => p \in first(r)
    BY <1>2
  <2> HIDE DEF R, first
  <2> QED
    BY <1>4, <2>1, Zenon DEF StrictOrder
<1>6. \A p \in D : Before(R, D, p) = first(p)
  <2>1. \A p \in D : first(p) \subseteq D
    OBVIOUS
  <2> HIDE DEF R, first
  <2> QED
    BY <1>4, <2>1 DEF Before
<1> HIDE DEF R, first, m
<1>7. ASSUME NEW n \in 1..m
      PROVE  \E x \in D : Catalog!Cardinality(first(x)) = n - 1
  <2> DEFINE k == n - 1
  <2>1. k \in Nat /\ k < Cardinality(D)
    BY <1>3
  <2> HIDE DEF k
  <2>2. \E p \in D : Cardinality(Before(R, D, p)) = k
    BY <1>2, <1>5, <2>1, RanksAreTaken
  <2>3. \E p \in D : Catalog!Cardinality(first(p)) = k
    BY <1>6, <2>2, RowsCounted
  <2> QED
    BY <2>3 DEF k
<1>8. ASSUME NEW n \in 1..m PROVE at[n] \in D
  <2>1. at[n] = CHOOSE x \in D : Catalog!Cardinality(first(x)) = n - 1
    OBVIOUS
  <2> HIDE DEF at
  <2> QED
    BY <1>7, <2>1
<1>9. DOMAIN at = 1..m
  OBVIOUS
<1> HIDE DEF at
<1> QED
  BY <1>1, <1>8, <1>9

(* A name that an exported file gives an upstream has no outer blanks.      *)
LEMMA ExportNamesAreTrimmed ==
    ASSUME NEW list, NEW n, RowOK(rows[list[n]])
    PROVE  LET name == Catalog!ExportName(list, n)
           IN name # <<>> /\ Catalog!Without(name) = name
<1> DEFINE w == Catalog!Without(rows[list[n]].name)
           S == {w[i] : i \in DOMAIN w}
           before == Catalog!Cardinality({k \in 1 .. n - 1 :
                                             Catalog!Without(rows[list[k]].name) = w})
           blank == " "
           name == Catalog!ExportName(list, n)
<1>1. w \in Seq(S) /\ w # <<>> /\ w[1] # blank
  BY Zenon DEF RowOK, IsConfig, IsList
<1>2. name = IF before = 0 THEN w ELSE Append(w, before + 1)
  BY Zenon DEF Catalog!ExportName
<1>3. \A s : Catalog!Without(s) = IF s # <<>> /\ Head(s) = blank THEN Tail(s) ELSE s
  BY Zenon DEF Catalog!Without
<1> HIDE DEF w, S, before, blank, name
<1>4. name # <<>> /\ Head(name) # blank
  <2>1. CASE before = 0
    BY <1>1, <1>2, <2>1
  <2>2. CASE before # 0
    <3> DEFINE b == before + 1
               T == S \cup {b}
    <3>1. w \in Seq(T) /\ b \in T
      BY <1>1
    <3>2. name = Append(w, b)
      BY <1>2, <2>2
    <3> HIDE DEF b, T
    <3>3. name \in Seq(T) /\ Len(name) = Len(w) + 1 /\ name[1] = w[1]
      BY <1>1, <3>1, <3>2
    <3> QED
      BY <1>1, <3>1, <3>3
  <2> QED
    BY <2>1, <2>2
<1>5. name # <<>> /\ Catalog!Without(name) = name
  BY <1>3, <1>4
<1> QED
  BY <1>5 DEF name

KnownTransports == {"stdio", "sse", "streamable-http", "websocket", "openapi"}

LEMMA TransportsAreKnown ==
    ASSUME NEW r, Catalog!InvalidParams(r) = {}
    PROVE  r.transport \in KnownTransports
BY DEF Catalog!InvalidParams, KnownTransports

(* The parameters that a file carries.                                      *)
Carried(r) == DOMAIN r.params \cap Catalog!Carries(r.transport)

LEMMA TransportIsInferred ==
    ASSUME NEW r, r.transport \in KnownTransports
    PROVE  Catalog!InferTransport(Catalog!ExportServer(r)) = r.transport
<1> DEFINE s == Catalog!ExportServer(r)
<1>1. s.transport = r.transport /\ DOMAIN s.params = Carried(r)
  BY DEF Catalog!ExportServer, Catalog!Restrict, Carried
<1> HIDE DEF s
<1>2. CASE r.transport = "stdio"
  <2>1. ~ Catalog!Present(s.params, "url")
    BY <1>1, <1>2 DEF Catalog!Present, Carried, Catalog!Carries
  <2> QED
    BY <1>1, <1>2, <2>1 DEF Catalog!InferTransport, s
<1>3. CASE r.transport # "stdio"
  <2>1. Catalog!InferTransport(s) = r.transport
    BY <1>1, <1>3 DEF Catalog!InferTransport, KnownTransports, Catalog!Unset
  <2> QED
    BY <2>1 DEF s
<1> QED
  BY <1>2, <1>3

(* The upstream that a file describes, read back.                           *)
ReadBack(r, name) ==
    [name |-> name, transport |-> r.transport, params |-> Catalog!Restrict(r.params, Carried(r)),
     credential |-> r.credential, tags |-> r.tags, limits |-> Catalog!NoLimits,
     enabled |-> r.enabled, order |-> 0]

LEMMA ReadBackIs ==
    ASSUME NEW r, RowOK(r), NEW name, name # <<>>, Catalog!Without(name) = name
    PROVE  Catalog!Normalized(Catalog!ServerConfig(name, Catalog!ExportServer(r)))
              = ReadBack(r, name)
<1> DEFINE s == Catalog!ExportServer(r)
           c == Catalog!ServerConfig(name, s)
           p == Catalog!Restrict(r.params, Carried(r))
<1>1. /\ s.name = <<>> /\ s.params = p /\ s.credential = r.credential /\ s.tags = r.tags
      /\ s.limits = Catalog!NoLimits /\ s.enabled = {r.enabled}
  BY DEF Catalog!ExportServer, Carried
<1>2. Catalog!InvalidParams(r) = {} /\ r.enabled \in BOOLEAN /\ Catalog!NormalTags(r.tags) = r.tags
  BY Zenon DEF RowOK, IsConfig
<1>3. Catalog!InferTransport(s) = r.transport
  BY <1>2, TransportsAreKnown, TransportIsInferred
<1>4. Catalog!Restrict(s.params, DOMAIN s.params \cap Catalog!Carries(r.transport)) = p
  <2>1. DOMAIN p = Carried(r) /\ \A k \in Carried(r) : p[k] = r.params[k]
    BY DEF Catalog!Restrict
  <2>2. Carried(r) \cap Catalog!Carries(r.transport) = Carried(r)
    BY DEF Carried
  <2> HIDE DEF p, s
  <2>3. Catalog!Restrict(p, Carried(r)) = p
    BY <2>1 DEF Catalog!Restrict, p
  <2> QED
    BY <1>1, <2>1, <2>2, <2>3
<1>5. Catalog!Without(IF Catalog!Without(s.name) # <<>> THEN s.name ELSE name) = name
  <2>1. Catalog!Without(<<>>) = <<>>
    BY Zenon DEF Catalog!Without
  <2> HIDE DEF s
  <2> QED
    BY <1>1, <2>1
<1>6. (FALSE \notin s.enabled) = r.enabled
  <2> HIDE DEF s
  <2> QED
    BY <1>1, <1>2
<1> HIDE DEF p
<1>7. c = [name |-> name, transport |-> r.transport, params |-> p,
           credential |-> r.credential, tags |-> r.tags, limits |-> Catalog!NoLimits,
           enabled |-> r.enabled, order |-> 0]
  <2> HIDE DEF s
  <2> QED
    BY <1>1, <1>3, <1>4, <1>5, <1>6, Zenon DEF Catalog!ServerConfig
<1>8. /\ Catalog!NormalLimits(Catalog!NoLimits) = Catalog!NoLimits
  BY DEF Catalog!NormalLimits, Catalog!NoLimits
<1>9. Catalog!Normalized(c) = c
  <2> DEFINE e == [name |-> name, transport |-> r.transport, params |-> p,
                   credential |-> r.credential, tags |-> r.tags, limits |-> Catalog!NoLimits,
                   enabled |-> r.enabled, order |-> 0]
  <2>1. Catalog!Normalized(e) = [e EXCEPT !.tags = Catalog!NormalTags(r.tags),
                                          !.limits = Catalog!NormalLimits(Catalog!NoLimits)]
    BY DEF Catalog!Normalized
  <2>2. [e EXCEPT !.tags = r.tags] = e /\ [e EXCEPT !.limits = Catalog!NoLimits] = e
    OBVIOUS
  <2>3. c = e
    BY <1>7
  <2> HIDE DEF e, c
  <2> QED
    BY <1>2, <1>8, <2>1, <2>2, <2>3
<1> QED
  BY <1>7, <1>9 DEF ReadBack, p

LEMMA ReadBackIsTheRow ==
    ASSUME NEW r, RowOK(r), NEW name
    PROVE  [r EXCEPT !.name = name, !.order = 0, !.limits = Catalog!NoLimits,
                     !.params = Catalog!Restrict(@, Carried(r))] = ReadBack(r, name)
<1> DEFINE p == Catalog!Restrict(r.params, Carried(r))
           f(n, q, l, o) ==
              [name |-> n, transport |-> r.transport, params |-> q,
               credential |-> r.credential, tags |-> r.tags, limits |-> l,
               enabled |-> r.enabled, order |-> o]
           no == Catalog!NoLimits
<1>1. r = f(r.name, r.params, r.limits, r.order)
  BY Zenon DEF RowOK, IsConfig
<1>2. f(name, p, no, 0) = ReadBack(r, name)
  BY DEF ReadBack
<1>3. [r EXCEPT !.name = name, !.order = 0, !.limits = no, !.params = Catalog!Restrict(@, Carried(r))]
         = [[[[r EXCEPT !.name = name] EXCEPT !.order = 0] EXCEPT !.limits = no] EXCEPT !.params = p]
  OBVIOUS
<1> HIDE DEF p, no
<1>4. /\ [f(r.name, r.params, r.limits, r.order) EXCEPT !.name = name]
            = f(name, r.params, r.limits, r.order)
      /\ [f(name, r.params, r.limits, r.order) EXCEPT !.order = 0]
            = f(name, r.params, r.limits, 0)
      /\ [f(name, r.params, r.limits, 0) EXCEPT !.limits = no] = f(name, r.params, no, 0)
      /\ [f(name, r.params, no, 0) EXCEPT !.params = p] = f(name, p, no, 0)
  OBVIOUS
<1> HIDE DEF f
<1>5. [r EXCEPT !.name = name] = f(name, r.params, r.limits, r.order)
  BY <1>1, <1>4
<1>6. [[r EXCEPT !.name = name] EXCEPT !.order = 0] = f(name, r.params, r.limits, 0)
  BY <1>4, <1>5
<1>7. [[[r EXCEPT !.name = name] EXCEPT !.order = 0] EXCEPT !.limits = no]
         = f(name, r.params, no, 0)
  BY <1>4, <1>6
<1>8. [[[[r EXCEPT !.name = name] EXCEPT !.order = 0] EXCEPT !.limits = no] EXCEPT !.params = p]
         = f(name, p, no, 0)
  BY <1>4, <1>7
<1> QED
  BY <1>2, <1>3, <1>8, Zenon DEF no

(* What a file carries has the checks of an upstream: a server of a kind    *)
(* that files describe passes them, every other fails one.                  *)
LEMMA ReadBackIsChecked ==
    ASSUME NEW r, RowOK(r), NEW name,
           NEW b, b = ReadBack(r, name)
    PROVE  IF r.transport # "openapi" /\ (r.transport = "stdio" => Catalog!Text(r.params, "command"))
           THEN Catalog!InvalidParams(b) = {}
           ELSE Catalog!InvalidParams(b) # {}
<1> DEFINE p == r.params
           q == b.params
<1>1. /\ b.transport = r.transport /\ DOMAIN q = Carried(r)
      /\ \A k \in Carried(r) : q[k] = p[k]
  BY DEF ReadBack, Catalog!Restrict
<1>2. Catalog!InvalidParams(r) = {}
  BY Zenon DEF RowOK
<1>3. r.transport \in KnownTransports
  BY <1>2, TransportsAreKnown
<1> DEFINE Same(k) == /\ Catalog!Present(q, k) <=> Catalog!Present(p, k)
                      /\ Catalog!Present(q, k) => q[k] = p[k]
<1>4. \A k \in Catalog!Carries(r.transport) : Same(k)
  BY <1>1 DEF Carried, Catalog!Present
<1>5. CASE r.transport = "stdio"
  <2>1. Same("command") /\ Same("args") /\ Same("env") /\ Same("cwd")
    BY <1>4, <1>5 DEF Catalog!Carries
  <2>2. ~ Catalog!Present(q, "scriptRef")
    BY <1>1, <1>5 DEF Carried, Catalog!Carries, Catalog!Present
  <2>3. Catalog!InvalidParams(b) = Catalog!InvalidStdio(q)
    BY <1>1, <1>5 DEF Catalog!InvalidParams
  <2>4. Catalog!InvalidStdio(p) = {}
    BY <1>2, <1>5 DEF Catalog!InvalidParams
  <2>5. Catalog!Text(q, "command") <=> Catalog!Text(p, "command")
    BY <2>1 DEF Catalog!Text
  <2> HIDE DEF p, q
  <2>6. /\ Catalog!Optional(p, "args", {"list"}) /\ Catalog!Optional(p, "env", {"map"})
        /\ Catalog!Optional(p, "cwd", {"text"})
    BY <2>4 DEF Catalog!InvalidStdio
  <2>7. /\ Catalog!Optional(q, "args", {"list"}) /\ Catalog!Optional(q, "env", {"map"})
        /\ Catalog!Optional(q, "cwd", {"text"})
    BY <2>1, <2>6 DEF Catalog!Optional
  <2>8. Catalog!InvalidStdio(q) = {} <=> Catalog!Text(q, "command")
    BY <2>2, <2>7 DEF Catalog!InvalidStdio
  <2> QED
    BY <1>5, <2>3, <2>5, <2>8 DEF p
<1>6. ASSUME r.transport \in {"sse", "streamable-http", "websocket"}
      PROVE  Catalog!InvalidParams(b) = {}
  <2>1. Same("url") /\ Same("headers")
    BY <1>4, <1>6 DEF Catalog!Carries
  <2>2. \A schemes : Catalog!UrlOf(q, "url", schemes) <=> Catalog!UrlOf(p, "url", schemes)
    BY <2>1 DEF Catalog!UrlOf, Catalog!Text
  <2>3. Catalog!Optional(q, "headers", {"map"}) <=> Catalog!Optional(p, "headers", {"map"})
    BY <2>1 DEF Catalog!Optional
  <2> HIDE DEF p, q
  <2>4. CASE r.transport \in {"sse", "streamable-http"}
    <3>1. Catalog!UrlOf(p, "url", {"http", "https"}) /\ Catalog!Optional(p, "headers", {"map"})
      BY <1>2, <2>4 DEF Catalog!InvalidParams, p
    <3>2. Catalog!UrlOf(q, "url", {"http", "https"}) /\ Catalog!Optional(q, "headers", {"map"})
      BY <2>2, <2>3, <3>1
    <3> QED
      BY <1>1, <2>4, <3>2 DEF Catalog!InvalidParams, q
  <2>5. CASE r.transport = "websocket"
    <3>1. Catalog!UrlOf(p, "url", {"ws", "wss"}) /\ Catalog!Optional(p, "headers", {"map"})
      BY <1>2, <2>5 DEF Catalog!InvalidParams, p
    <3>2. Catalog!UrlOf(q, "url", {"ws", "wss"}) /\ Catalog!Optional(q, "headers", {"map"})
      BY <2>2, <2>3, <3>1
    <3> QED
      BY <1>1, <2>5, <3>2 DEF Catalog!InvalidParams, q
  <2> QED
    BY <1>6, <2>4, <2>5
<1>7. CASE r.transport = "openapi"
  <2>1. ~ Catalog!Present(q, "baseUrl")
    BY <1>1, <1>7 DEF Carried, Catalog!Carries, Catalog!Present
  <2>2. ~ Catalog!UrlOf(q, "baseUrl", {"http", "https"})
    BY <2>1 DEF Catalog!UrlOf, Catalog!Text
  <2> HIDE DEF p, q
  <2>3. "baseUrl" \in Catalog!InvalidParams(b)
    BY <1>1, <1>7, <2>2 DEF Catalog!InvalidParams, q
  <2> QED
    BY <1>7, <2>3
<1> QED
  BY <1>3, <1>5, <1>6, <1>7 DEF KnownTransports

LEMMA RowsReadBack ==
    ASSUME RoundTripInv
    PROVE  Catalog!ServersRoundTrip
<1> DEFINE list == Catalog!Listed
<1> SUFFICES ASSUME NEW n \in DOMAIN list
             PROVE  LET row == rows[list[n]]
                        name == Catalog!ExportName(list, n)
                        back == Catalog!Normalized(
                                   Catalog!ServerConfig(name, Catalog!ExportServer(row)))
                        carried == DOMAIN row.params \cap Catalog!Carries(row.transport)
                        described == /\ row.transport # "openapi"
                                     /\ row.transport = "stdio" =>
                                           Catalog!Text(row.params, "command")
                    IN /\ name \in DOMAIN Catalog!Exported
                       /\ back = [row EXCEPT !.name = name, !.order = 0,
                                             !.limits = Catalog!NoLimits,
                                             !.params = Catalog!Restrict(@, carried)]
                       /\ IF described THEN Catalog!Invalid(back) \subseteq {"name"}
                          ELSE Catalog!Invalid(back) # {}
  BY DEF Catalog!ServersRoundTrip
<1> DEFINE row == rows[list[n]]
           name == Catalog!ExportName(list, n)
           back == Catalog!Normalized(Catalog!ServerConfig(name, Catalog!ExportServer(row)))
           carried == DOMAIN row.params \cap Catalog!Carries(row.transport)
           described == /\ row.transport # "openapi"
                        /\ row.transport = "stdio" => Catalog!Text(row.params, "command")
<1>1. RowOK(row)
  BY ListedAreRows DEF RoundTripInv, StoredOK, CatalogInv
<1>2. name # <<>> /\ Catalog!Without(name) = name
  BY <1>1, ExportNamesAreTrimmed
<1>3. name \in DOMAIN Catalog!Exported
  <2>1. DOMAIN Catalog!Exported = {Catalog!ExportName(list, k) : k \in DOMAIN list}
    BY DEF Catalog!Exported
  <2> HIDE DEF list
  <2> QED
    BY <2>1
<1> HIDE DEF list, name
<1>4. back = ReadBack(row, name)
  BY <1>1, <1>2, ReadBackIs
<1>5. carried = Carried(row)
  BY DEF Carried
<1>6. [row EXCEPT !.name = name, !.order = 0, !.limits = Catalog!NoLimits,
                  !.params = Catalog!Restrict(@, Carried(row))] = ReadBack(row, name)
  BY <1>1, ReadBackIsTheRow
<1>7. back = [row EXCEPT !.name = name, !.order = 0, !.limits = Catalog!NoLimits,
                         !.params = Catalog!Restrict(@, carried)]
  <2> HIDE DEF back, carried, row
  <2> QED
    BY <1>4, <1>5, <1>6
<1>8. IF described THEN Catalog!Invalid(back) \subseteq {"name"} ELSE Catalog!Invalid(back) # {}
  <2>1. IF described THEN Catalog!InvalidParams(back) = {} ELSE Catalog!InvalidParams(back) # {}
    <3> HIDE DEF back, row
    <3> QED
      BY <1>1, <1>4, ReadBackIsChecked
  <2>2. Catalog!NormalTags(back.tags) = back.tags /\ ~(Catalog!Len(back.tags) > MaxTags)
    <3>1. Catalog!NormalTags(row.tags) = row.tags /\ ~(Catalog!Len(row.tags) > MaxTags)
      BY <1>1, Zenon DEF RowOK
    <3> HIDE DEF back, row
    <3>2. back.tags = row.tags
      BY <1>4 DEF ReadBack
    <3> QED
      BY <3>1, <3>2
  <2>3. ~ Catalog!InvalidLimits(back.limits)
    <3> HIDE DEF back, row
    <3>1. back.limits = Catalog!NoLimits
      BY <1>4 DEF ReadBack
    <3> QED
      BY <3>1 DEF Catalog!InvalidLimits, Catalog!NoLimits
  <2> HIDE DEF back, row, described
  <2>4. Catalog!InvalidParams(back) \subseteq Catalog!Invalid(back)
    BY Zenon DEF Catalog!Invalid
  <2>5. Catalog!Invalid(back) \subseteq Catalog!InvalidParams(back) \cup {"name"}
    BY <2>2, <2>3 DEF Catalog!Invalid
  <2> QED
    BY <2>1, <2>4, <2>5
<1> QED
  BY <1>3, <1>7, <1>8 DEF list, name

(* Whatever administrators create, import, change, reorder and delete, and  *)
(* in whatever order their requests interleave, every server that the       *)
(* export of the catalogue writes is read back as the upstream it           *)
(* describes and passes the checks again (but for the length of its name);  *)
(* an OpenAPI upstream or a managed script without a command is refused,    *)
(* never created as an upstream of another kind.                            *)
THEOREM ServersReadBack ==
    Spec => []ServersRoundTrip
<1>1. Init => RoundTripInv
  BY RoundTripInit DEF Init
<1>2. RoundTripInv /\ [Next]_allVars => RoundTripInv'
  <2>1. [Next]_allVars => [Catalog!Next]_catalogVars
    BY DEF Next, allVars, catalogVars
  <2> QED
    BY <2>1, RoundTripNext
<1>3. RoundTripInv => ServersRoundTrip
  BY RowsReadBack DEF ServersRoundTrip
<1> QED
  BY <1>1, <1>2, <1>3, PTL DEF Spec

===============================================================================
