--------------------------- MODULE Inventory_proofs ---------------------------
(***************************************************************************)
(* The paged listing for any registry, any pages and any number of joins   *)
(* and leaves between two pages.  The lemmas about sequences say what a    *)
(* page holds and where a join or a leave moves the devices; the invariant *)
(* follows them past the cursor.                                           *)
(***************************************************************************)
EXTENDS Inventory, TLAPS

-------------------------------------------------------------------------------
(* Sequences *)

\* An injective sequence has each element at one place.
LEMMA InjectivePlaces ==
  ASSUME NEW s \in Seq(Devices)
  PROVE  IsInjective(s) <=> \A i, j \in 1..Len(s) : s[i] = s[j] => i = j
BY DEF IsInjective

\* The elements of a sequence are those at its places.
LEMMA ElementsOf ==
  ASSUME NEW s \in Seq(Devices)
  PROVE  /\ ToSet(s) \subseteq Devices
         /\ \A d : d \in ToSet(s) <=> \E i \in 1..Len(s) : s[i] = d
BY DEF ToSet

\* Inserting d before place i moves what is there and behind by one.
LEMMA Inserted ==
  ASSUME NEW s \in Seq(Devices), NEW i \in 1..Len(s) + 1, NEW d \in Devices,
         NEW t, t = InsertAt(s, i, d)
  PROVE  /\ t \in Seq(Devices)
         /\ Len(t) = Len(s) + 1
         /\ \A j \in 1..Len(t) :
              t[j] = IF j < i THEN s[j] ELSE IF j = i THEN d ELSE s[j - 1]
<1> DEFINE front == SubSeq(s, 1, i - 1)
           back  == SubSeq(s, i, Len(s))
<1>1. /\ front \in Seq(Devices) /\ Len(front) = i - 1
      /\ \A j \in 1..i - 1 : front[j] = s[j]
  OBVIOUS
<1>2. /\ back \in Seq(Devices) /\ Len(back) = Len(s) - i + 1
      /\ \A j \in 1..Len(s) - i + 1 : back[j] = s[j + i - 1]
  OBVIOUS
<1> HIDE DEF front, back
<1>3. /\ front \o <<d>> \in Seq(Devices)
      /\ Len(front \o <<d>>) = i
      /\ \A j \in 1..i : (front \o <<d>>)[j] = IF j < i THEN s[j] ELSE d
  BY <1>1
<1>4. t = (front \o <<d>>) \o back
  BY DEF InsertAt, front, back
<1>5. t \in Seq(Devices) /\ Len(t) = Len(s) + 1
  BY <1>2, <1>3, <1>4
<1>6. ASSUME NEW j \in 1..Len(t)
      PROVE  t[j] = IF j < i THEN s[j] ELSE IF j = i THEN d ELSE s[j - 1]
  BY <1>2, <1>3, <1>4, <1>5
<1> QED
  BY <1>5, <1>6

\* Removing place i moves what is behind by one.
LEMMA Removed ==
  ASSUME NEW s \in Seq(Devices), NEW i \in 1..Len(s), NEW t, t = RemoveAt(s, i)
  PROVE  /\ t \in Seq(Devices)
         /\ Len(t) = Len(s) - 1
         /\ \A j \in 1..Len(t) : t[j] = IF j < i THEN s[j] ELSE s[j + 1]
<1> DEFINE front == SubSeq(s, 1, i - 1)
           back  == SubSeq(s, i + 1, Len(s))
<1>1. /\ front \in Seq(Devices) /\ Len(front) = i - 1
      /\ \A j \in 1..i - 1 : front[j] = s[j]
  OBVIOUS
<1>2. /\ back \in Seq(Devices) /\ Len(back) = Len(s) - i
      /\ \A j \in 1..Len(s) - i : back[j] = s[j + i]
  OBVIOUS
<1> HIDE DEF front, back
<1>3. t = front \o back
  BY DEF RemoveAt, front, back
<1>4. t \in Seq(Devices) /\ Len(t) = Len(s) - 1
  BY <1>1, <1>2, <1>3
<1>5. ASSUME NEW j \in 1..Len(t) PROVE t[j] = IF j < i THEN s[j] ELSE s[j + 1]
  <2>1. t[j] = IF j <= Len(front) THEN front[j] ELSE back[j - Len(front)]
    BY <1>1, <1>2, <1>3, <1>4
  <2>2. CASE j < i
    BY <1>1, <2>1, <2>2
  <2>3. CASE ~(j < i)
    <3>1. /\ j - (i - 1) \in 1..Len(s) - i /\ ~(j <= Len(front))
          /\ (j - (i - 1)) + i = j + 1
      BY <1>1, <1>4, <2>3
    <3> QED
      BY <1>1, <1>2, <2>1, <2>3, <3>1
  <2> QED
    BY <2>2, <2>3
<1> QED
  BY <1>4, <1>5

-------------------------------------------------------------------------------
(* Pages *)

\* A page is a part of the registry, no longer than the limit; behind the
\* offset when the server goes by it, and else the same until the registry
\* changes.
LEMMA PageFacts ==
  ASSUME TypeOK
  PROVE  /\ Page \in Seq(Devices)
         /\ Len(Page) \in 0..server.limit
         /\ ToSet(Page) \subseteq Registered
         /\ server.paged =>
              /\ Len(Page) = IF Len(registry) <= offset THEN 0
                             ELSE IF Len(registry) < offset + server.limit
                             THEN Len(registry) - offset ELSE server.limit
              /\ \A i \in 1..Len(Page) : Page[i] = registry[offset + i]
<1> DEFINE first == IF server.paged THEN offset + 1 ELSE 1
           last  == first + server.limit - 1
           end   == IF last < Len(registry) THEN last ELSE Len(registry)
<1>1. /\ registry \in Seq(Devices) /\ Len(registry) \in Nat /\ offset \in Nat
      /\ server.limit \in Nat \ {0} /\ server.paged \in BOOLEAN
  BY InventoryAssumption DEF TypeOK
<1>2. first \in Nat \ {0} /\ last \in Nat /\ end \in Nat /\ end <= Len(registry)
  BY <1>1
<1>3. Page = SubSeq(registry, first, end)
  BY DEF Page
<1>4. server.paged => first = offset + 1
  OBVIOUS
<1>5. end = IF first + server.limit - 1 < Len(registry)
            THEN first + server.limit - 1 ELSE Len(registry)
  OBVIOUS
<1> HIDE DEF first, last, end
<1>6. /\ Page \in Seq(Devices)
      /\ Len(Page) = IF first <= end THEN end - first + 1 ELSE 0
      /\ \A i \in 1..Len(Page) : Page[i] = registry[first + i - 1]
  BY <1>1, <1>2, <1>3
<1>7. Len(Page) \in 0..server.limit
  BY <1>1, <1>2, <1>5, <1>6
<1>8. ToSet(Page) \subseteq Registered
  <2>1. \A i \in 1..Len(Page) : first + i - 1 \in 1..Len(registry)
    BY <1>1, <1>2, <1>6
  <2>2. ASSUME NEW d \in ToSet(Page) PROVE d \in ToSet(registry)
    <3>1. PICK i \in 1..Len(Page) : Page[i] = d
      BY <1>6, ElementsOf
    <3>2. registry[first + i - 1] = d
      BY <1>6, <3>1
    <3> QED
      BY <1>1, <2>1, <3>2, ElementsOf
  <2> QED
    BY <2>2 DEF Registered
<1>9. ASSUME server.paged
      PROVE  /\ Len(Page) = IF Len(registry) <= offset THEN 0
                            ELSE IF Len(registry) < offset + server.limit
                            THEN Len(registry) - offset ELSE server.limit
             /\ \A i \in 1..Len(Page) : Page[i] = registry[offset + i]
  BY <1>1, <1>4, <1>5, <1>6, <1>9
<1> QED
  BY <1>6, <1>7, <1>8, <1>9

\* The page stays as it is while the registry does, if the offset is ignored or
\* stays as well.
LEMMA PageStays ==
  ASSUME UNCHANGED <<server, registry>>, ~server.paged \/ UNCHANGED offset
  PROVE  Page' = Page
BY DEF Page
-------------------------------------------------------------------------------
(* The changes of the registry *)

\* What a join leaves of the registry: the devices in their order, each at its
\* place or one further, and the one that joined.
LEMMA JoinFacts ==
  ASSUME TypeOK, NEW d \in Devices \ Registered, NEW i \in 1..Len(registry) + 1,
         registry' = InsertAt(registry, i, d)
  PROVE  /\ registry' \in Seq(Devices) /\ IsInjective(registry')
         /\ Len(registry') = Len(registry) + 1
         /\ Registered' = Registered \cup {d}
         /\ \A j \in 1..Len(registry') :
              \/ j <= Len(registry) /\ registry'[j] = registry[j]
              \/ j - 1 \in 1..Len(registry) /\ registry'[j] = registry[j - 1]
              \/ registry'[j] = d
         /\ \A j \in 1..Len(registry) :
              registry'[j] = registry[j] \/ registry'[j + 1] = registry[j]
<1>1. registry \in Seq(Devices) /\ Len(registry) \in Nat /\ IsInjective(registry)
  BY DEF TypeOK
<1>2. /\ registry' \in Seq(Devices)
      /\ Len(registry') = Len(registry) + 1
      /\ \A j \in 1..Len(registry') :
           registry'[j] = IF j < i THEN registry[j]
                          ELSE IF j = i THEN d ELSE registry[j - 1]
  BY <1>1, Inserted
<1>3. \A j, k \in 1..Len(registry) : registry[j] = registry[k] => j = k
  BY <1>1, InjectivePlaces
<1>4. \A j \in 1..Len(registry) : registry[j] # d
  BY <1>1, ElementsOf DEF Registered
<1>5. ASSUME NEW j \in 1..Len(registry'), NEW k \in 1..Len(registry'),
             registry'[j] = registry'[k]
      PROVE  j = k
  <2> DEFINE From(n) == IF n < i THEN n ELSE n - 1
  <2>1. \A n \in 1..Len(registry') :
          IF n = i THEN registry'[n] = d
          ELSE From(n) \in 1..Len(registry) /\ registry'[n] = registry[From(n)]
    BY <1>1, <1>2
  <2>2. j = i <=> k = i
    BY <1>4, <1>5, <2>1
  <2>3. CASE j # i
    <3>1. From(j) = From(k)
      BY <1>3, <1>5, <2>1, <2>2, <2>3
    <3> QED
      BY <1>1, <1>2, <2>2, <2>3, <3>1
  <2> QED
    BY <2>2, <2>3
<1>6. IsInjective(registry')
  BY <1>2, <1>5, InjectivePlaces
<1>7. \A j \in 1..Len(registry) :
        registry'[j] = registry[j] \/ registry'[j + 1] = registry[j]
  BY <1>1, <1>2
<1>8. \A j \in 1..Len(registry') :
        \/ j <= Len(registry) /\ registry'[j] = registry[j]
        \/ j - 1 \in 1..Len(registry) /\ registry'[j] = registry[j - 1]
        \/ registry'[j] = d
  BY <1>1, <1>2
<1>9. Registered' = Registered \cup {d}
  <2>1. registry'[i] = d /\ i \in 1..Len(registry')
    BY <1>1, <1>2
  <2>2. ASSUME NEW e PROVE e \in ToSet(registry') <=> e \in ToSet(registry) \cup {d}
    <3>1. e \in ToSet(registry') <=> \E j \in 1..Len(registry') : registry'[j] = e
      BY <1>2, ElementsOf
    <3>2. e \in ToSet(registry) <=> \E j \in 1..Len(registry) : registry[j] = e
      BY <1>1, ElementsOf
    <3>3. (\E j \in 1..Len(registry') : registry'[j] = e) => e = d \/ e \in ToSet(registry)
      <4>1. SUFFICES ASSUME NEW j \in 1..Len(registry'), registry'[j] = e, e # d
                     PROVE  \E k \in 1..Len(registry) : registry[k] = e
        BY <3>2
      <4> QED
        BY <1>1, <1>2, <1>8, <4>1
    <3>4. e = d \/ e \in ToSet(registry) => \E j \in 1..Len(registry') : registry'[j] = e
      <4>1. CASE e = d
        BY <2>1, <4>1
      <4>2. ASSUME NEW j \in 1..Len(registry), registry[j] = e
            PROVE  \E k \in 1..Len(registry') : registry'[k] = e
        BY <1>1, <1>2, <1>7, <4>2
      <4> QED
        BY <3>2, <4>1, <4>2
    <3> QED
      BY <3>1, <3>3, <3>4
  <2> QED
    BY <2>2 DEF Registered
<1> QED
  BY <1>2, <1>6, <1>7, <1>8, <1>9

\* A leave keeps the rest in order and takes one device out.
LEMMA LeaveFacts ==
  ASSUME TypeOK, NEW i \in 1..Len(registry), registry' = RemoveAt(registry, i)
  PROVE  /\ registry' \in Seq(Devices) /\ IsInjective(registry')
         /\ Len(registry') = Len(registry) - 1
         /\ Registered' \subseteq Registered
<1>1. registry \in Seq(Devices) /\ Len(registry) \in Nat /\ IsInjective(registry)
  BY DEF TypeOK
<1>2. /\ registry' \in Seq(Devices)
      /\ Len(registry') = Len(registry) - 1
      /\ \A j \in 1..Len(registry') :
           registry'[j] = IF j < i THEN registry[j] ELSE registry[j + 1]
  BY <1>1, Removed
<1>3. \A j, k \in 1..Len(registry) : registry[j] = registry[k] => j = k
  BY <1>1, InjectivePlaces
<1>4. \A j, k \in 1..Len(registry') : registry'[j] = registry'[k] => j = k
  BY <1>1, <1>2, <1>3
<1>5. IsInjective(registry')
  BY <1>2, <1>4, InjectivePlaces
<1>6. ASSUME NEW e \in ToSet(registry') PROVE e \in ToSet(registry)
  <2>1. PICK j \in 1..Len(registry') : registry'[j] = e
    BY <1>2, ElementsOf
  <2>2. \E k \in 1..Len(registry) : registry[k] = e
    BY <1>1, <1>2, <2>1
  <2> QED
    BY <1>1, <2>2, ElementsOf
<1> QED
  BY <1>2, <1>5, <1>6 DEF Registered
-------------------------------------------------------------------------------
(* The pages of a server that goes by the offset *)

\* A page behind which another is asked for is full and lies in the registry.
LEMMA FullPage ==
  ASSUME TypeOK, server.paged, HasNext(Page)
  PROVE  /\ Len(Page) = server.limit /\ offset + server.limit <= Len(registry)
         /\ Page # <<>> /\ Page[1] = registry[offset + 1]
<1>1. /\ Len(registry) \in Nat /\ offset \in Nat /\ PageSize \in Nat
      /\ server.limit \in Nat \ {0} /\ server.limit <= PageSize
  BY InventoryAssumption DEF TypeOK
<1>2. /\ Page \in Seq(Devices) /\ Len(Page) \in 0..server.limit
      /\ Len(Page) = IF Len(registry) <= offset THEN 0
                     ELSE IF Len(registry) < offset + server.limit
                     THEN Len(registry) - offset ELSE server.limit
      /\ \A i \in 1..Len(Page) : Page[i] = registry[offset + i]
  BY PageFacts
<1>3. Page # <<>> /\ Len(Page) \in Nat \ {0}
  BY <1>2 DEF HasNext
<1>4. CASE server.total
  <2>1. offset + Len(Page) < Len(registry)
    BY <1>4 DEF HasNext
  <2> QED
    BY <1>1, <1>2, <1>3, <2>1
<1>5. CASE ~server.total
  <2>1. Len(Page) >= PageSize
    BY <1>5 DEF HasNext
  <2> QED
    BY <1>1, <1>2, <1>3, <2>1
<1> QED
  BY <1>4, <1>5

\* A page behind which none is asked for reaches the end of the registry, if a
\* short page without a total can only be the last.
LEMMA LastPageReaches ==
  ASSUME TypeOK, server.paged, Countable, ~HasNext(Page)
  PROVE  Len(registry) <= offset + Len(Page)
<1>1. /\ Len(registry) \in Nat /\ offset \in Nat /\ PageSize \in Nat
      /\ server.limit \in Nat \ {0} /\ server.limit <= PageSize
  BY InventoryAssumption DEF TypeOK
<1>2. /\ Page \in Seq(Devices) /\ Len(Page) \in Nat
      /\ Len(Page) = IF Len(registry) <= offset THEN 0
                     ELSE IF Len(registry) < offset + server.limit
                     THEN Len(registry) - offset ELSE server.limit
  BY PageFacts
<1>3. CASE Page = <<>>
  BY <1>1, <1>2, <1>3
<1>4. CASE Page # <<>> /\ server.total
  <2>1. ~(offset + Len(Page) < Len(registry))
    BY <1>4 DEF HasNext
  <2> QED
    BY <1>1, <1>2, <2>1
<1>5. CASE Page # <<>> /\ ~server.total
  <2>1. ~(Len(Page) >= PageSize) /\ server.limit = PageSize
    BY <1>1, <1>5 DEF HasNext, Countable, TypeOK
  <2> QED
    BY <1>1, <1>2, <2>1
<1> QED
  BY <1>3, <1>4, <1>5

\* What has been received, with a page behind the cursor, covers the registry up
\* to the end of that page.
LEMMA PageCovers ==
  ASSUME TypeOK, CoveredInv, server.paged, ~shrunk
  PROVE  \A i \in 1..Len(registry) :
           i <= offset + Len(Page) /\ registry[i] \in present
             => registry[i] \in AppendUnseen(Page)
<1> SUFFICES ASSUME NEW i \in 1..Len(registry), i <= offset + Len(Page),
                    registry[i] \in present
             PROVE  registry[i] \in devices \/ registry[i] \in ToSet(Page)
  BY DEF AppendUnseen
<1>1. Len(registry) \in Nat /\ offset \in Nat
  BY DEF TypeOK
<1>2. /\ Page \in Seq(Devices) /\ Len(Page) \in Nat
      /\ \A k \in 1..Len(Page) : Page[k] = registry[offset + k]
  BY PageFacts
<1>3. CASE i <= offset
  BY <1>3 DEF CoveredInv
<1>4. CASE i > offset
  <2>1. i - offset \in 1..Len(Page) /\ offset + (i - offset) = i
    BY <1>1, <1>2, <1>4
  <2>2. Page[i - offset] = registry[i]
    BY <1>2, <2>1
  <2> QED
    BY <1>2, <2>1, <2>2, ElementsOf
<1> QED
  BY <1>1, <1>3, <1>4

\* While nothing leaves and fewer devices join than a page holds, no page is a
\* repetition of the one before: its first device has not moved that far.
LEMMA NoFalseRepetition ==
  ASSUME TypeOK, PreviousInv, server.paged, ~shrunk, changes < server.limit
  PROVE  ~Repeated(Page)
<1> SUFFICES ASSUME Repeated(Page) PROVE FALSE
  OBVIOUS
<1>1. /\ registry \in Seq(Devices) /\ Len(registry) \in Nat /\ offset \in Nat
      /\ changes \in Nat /\ server.limit \in Nat \ {0}
  BY InventoryAssumption DEF TypeOK
<1>2. Page # <<>> /\ previous = Page
  BY DEF Repeated
<1>3. /\ Page \in Seq(Devices) /\ Len(Page) \in Nat \ {0}
      /\ Len(Page) = IF Len(registry) <= offset THEN 0
                     ELSE IF Len(registry) < offset + server.limit
                     THEN Len(registry) - offset ELSE server.limit
      /\ \A k \in 1..Len(Page) : Page[k] = registry[offset + k]
  BY <1>2, PageFacts
<1>4. /\ offset + 1 \in 1..Len(registry)
      /\ registry[offset + 1] = previous[1]
  BY <1>1, <1>2, <1>3
<1>5. PICK i \in 1..Len(registry) :
        registry[i] = previous[1] /\ i + server.limit <= offset + 1 + changes
  BY <1>2 DEF PreviousInv
<1>6. i = offset + 1
  BY <1>1, <1>4, <1>5, InjectivePlaces DEF TypeOK
<1> QED
  BY <1>1, <1>5, <1>6
-------------------------------------------------------------------------------
(* The invariant *)

LEMMA Types ==
  ASSUME TypeOK
  PROVE  /\ registry \in Seq(Devices) /\ Len(registry) \in Nat
         /\ offset \in Nat /\ changes \in Nat
         /\ server.limit \in Nat \ {0} /\ server.limit * changes \in Nat
         /\ server.limit * (changes + 1) = server.limit * changes + server.limit
         /\ server.limit * ((changes + 1) + 1) = server.limit * (changes + 1) + server.limit
         /\ server.limit * 0 = 0
<1>1. changes \in Nat /\ server.limit \in Nat \ {0}
  BY InventoryAssumption DEF TypeOK
<1>2. \A m, n \in Nat : m * n \in Nat /\ m * (n + 1) = m * n + m /\ m * 0 = 0
  OBVIOUS
<1>3. changes + 1 \in Nat
  BY <1>1
<1> QED
  BY <1>1, <1>2, <1>3 DEF TypeOK

\* Initially nothing is registered and nothing has been read.
LEMMA Initially == Init => IInv
<1> SUFFICES ASSUME Init PROVE IInv
  OBVIOUS
<1>1. TypeOK
  <2>1. IsInjective(registry) /\ registry \in Seq(Devices)
    <3>1. registry = <<>> /\ registry \in Seq(Devices) /\ Len(registry) = 0
      BY DEF Init
    <3>2. \A i, j \in 1..Len(registry) : registry[i] = registry[j] => i = j
      BY <3>1
    <3> QED
      BY <3>1, <3>2, InjectivePlaces
  <2>2. 0 \in 0..MaxChanges
    BY InventoryAssumption
  <2> QED
    BY <2>1, <2>2 DEF Init, TypeOK
<1>2. Registered = {}
  BY DEF Init, Registered, ToSet
<1>3. HistoryInv
  BY <1>2 DEF Init, HistoryInv
<1>4. CoveredInv /\ PreviousInv
  BY DEF Init, CoveredInv, PreviousInv
<1>5. RepeatInv /\ OffsetBound
  BY <1>1, Types DEF Init, RepeatInv, OffsetBound
<1> QED
  BY <1>1, <1>3, <1>4, <1>5 DEF IInv

\* A listing at its first page, or none.
LEMMA Started ==
  ASSUME IInv, UNCHANGED <<server, registry>>, data' \subseteq Devices \ Keyless,
         offset' = 0, previous' = <<>>, devices' = {}, shrunk' = FALSE, changes' = 0,
         \/ listing' = TRUE /\ present' = Registered /\ seen' = Registered
         \/ listing' = FALSE /\ present' = {} /\ seen' = {}
  PROVE  IInv'
<1>1. Registered' = Registered /\ Registered \subseteq Devices
  BY ElementsOf DEF IInv, TypeOK, Registered
<1>2. TypeOK'
  <2>1. /\ previous' \in Seq(Devices) /\ offset' \in Nat /\ devices' \subseteq Devices
        /\ shrunk' \in BOOLEAN /\ changes' \in 0..MaxChanges
    <3>1. <<>> \in Seq(Devices)
      OBVIOUS
    <3>2. 0 \in 0..MaxChanges
      BY InventoryAssumption
    <3> QED
      BY <3>1, <3>2
  <2>2. listing' \in BOOLEAN /\ present' \subseteq seen' /\ seen' \subseteq Devices
    BY <1>1
  <2> QED
    BY <2>1, <2>2 DEF IInv, TypeOK
<1>3. HistoryInv'
  BY <1>1 DEF IInv, HistoryInv
<1>4. CoveredInv' /\ PreviousInv'
  <2>1. Len(registry) \in Nat
    BY DEF IInv, TypeOK
  <2> QED
    BY <2>1 DEF CoveredInv, PreviousInv
<1>5. RepeatInv' /\ OffsetBound'
  <2>1. /\ Len(registry') \in Nat /\ offset' = 0 /\ changes' = 0
        /\ server.limit \in Nat \ {0} /\ server' = server
    BY Types DEF IInv
  <2>2. server'.limit * changes' = 0 /\ server'.limit * (changes' + 1) = server.limit
    BY <2>1
  <2> QED
    BY <2>1, <2>2 DEF RepeatInv, OffsetBound
<1> QED
  BY <1>2, <1>3, <1>4, <1>5 DEF IInv

\* The first page of a listing has nothing before it.
LEMMA AtBegin == IInv /\ Begin => IInv'
BY Started DEF Begin, IInv, TypeOK

\* Whatever is published at the end of a listing, nothing else is left of it.
LEMMA AtEnd ==
  ASSUME IInv, End, UNCHANGED <<server, registry>>, data' \subseteq Devices \ Keyless
  PROVE  IInv'
BY Started DEF End

\* The last page, a repetition or an error ends the listing.
LEMMA AtAnyEnd == IInv /\ (LastPage \/ RepeatedPage \/ Fail) => IInv'
<1> SUFFICES ASSUME IInv, LastPage \/ RepeatedPage \/ Fail PROVE IInv'
  OBVIOUS
<1>1. devices \subseteq Devices /\ AppendUnseen(Page) \subseteq Devices
  BY PageFacts, ElementsOf DEF IInv, TypeOK, AppendUnseen
<1>2. data' \subseteq Devices \ Keyless
  BY <1>1 DEF LastPage, RepeatedPage, Fail, Publish, IInv, TypeOK
<1>3. End /\ UNCHANGED <<server, registry>>
  BY DEF LastPage, RepeatedPage, Fail
<1> QED
  BY <1>2, <1>3, AtEnd

\* A page more: the cursor moves behind it, and it is the one before.
LEMMA AtNextPage == IInv /\ NextPage => IInv'
<1> SUFFICES ASSUME IInv, NextPage PROVE IInv'
  OBVIOUS
<1>1. TypeOK /\ HistoryInv /\ CoveredInv /\ RepeatInv /\ OffsetBound
  BY DEF IInv
<1>2. /\ ~Repeated(Page) /\ HasNext(Page) /\ listing
      /\ previous' = Page /\ devices' = AppendUnseen(Page) /\ offset' = offset + Len(Page)
      /\ UNCHANGED <<server, registry, listing, data, present, seen, shrunk, changes>>
  BY DEF NextPage, hist
<1>3. /\ Page \in Seq(Devices) /\ Len(Page) \in 0..server.limit
      /\ ToSet(Page) \subseteq Registered
  BY <1>1, PageFacts
<1>4. /\ registry \in Seq(Devices) /\ Len(registry) \in Nat
      /\ offset \in Nat /\ changes \in Nat
      /\ server.limit \in Nat \ {0} /\ server.limit * changes \in Nat
      /\ server.limit * (changes + 1) = server.limit * changes + server.limit
  BY <1>1, Types
<1>5. Registered' = Registered /\ Registered \subseteq Devices
  BY <1>2, <1>4, ElementsOf DEF Registered
<1>6. TypeOK'
  <2>1. offset' \in Nat /\ devices' \subseteq Devices
    BY <1>1, <1>2, <1>3, <1>4, <1>5 DEF TypeOK, AppendUnseen
  <2> QED
    BY <1>1, <1>2, <1>3, <2>1 DEF TypeOK
<1>7. HistoryInv'
  BY <1>1, <1>2, <1>3, <1>5 DEF HistoryInv, AppendUnseen
<1>8. CoveredInv'
  BY <1>1, <1>2, PageCovers DEF CoveredInv
<1>9. ASSUME server.paged PROVE PreviousInv' /\ RepeatInv' /\ OffsetBound'
  <2>1. /\ Len(Page) = server.limit /\ offset + server.limit <= Len(registry)
        /\ Page # <<>> /\ Page[1] = registry[offset + 1]
    BY <1>1, <1>2, <1>9, FullPage
  <2>2. /\ offset + 1 \in 1..Len(registry')
        /\ (offset + 1) + server.limit <= offset' + 1 + changes'
    <3>1. /\ offset' = offset + server.limit /\ changes' = changes
          /\ registry' = registry /\ server.limit \in Nat \ {0}
      BY <1>2, <1>4, <2>1
    <3>2. offset + 1 \in 1..Len(registry)
      BY <1>4, <2>1
    <3>3. (offset + 1) + server.limit <= offset + server.limit + 1 + changes
      BY <1>4
    <3> QED
      BY <3>1, <3>2, <3>3
  <2>5. registry'[offset + 1] = previous'[1]
    BY <1>2, <2>1
  <2>3. PreviousInv'
    BY <1>2, <2>2, <2>5 DEF PreviousInv
  <2>4. offset' <= Len(registry') + changes'
    BY <1>2, <1>4, <2>1
  <2> QED
    BY <1>2, <1>9, <2>3, <2>4 DEF RepeatInv, OffsetBound
<1>10. ASSUME ~server.paged PROVE PreviousInv' /\ RepeatInv' /\ OffsetBound'
  <2>1. previous # Page
    BY <1>2 DEF Repeated, HasNext
  <2>2. offset <= server.limit * changes
    BY <1>1, <1>10, <2>1 DEF RepeatInv
  <2>3. offset' <= server.limit * (changes + 1)
    BY <1>2, <1>3, <1>4, <2>2
  <2>4. previous' = Page'
    BY <1>2, <1>10, PageStays
  <2> QED
    BY <1>2, <1>10, <2>3, <2>4 DEF PreviousInv, RepeatInv, OffsetBound
<1> QED
  BY <1>6, <1>7, <1>8, <1>9, <1>10 DEF IInv

\* Between listings a change of the registry finds nothing of one.
LEMMA AtIdle ==
  ASSUME IInv, ~listing, UNCHANGED <<server, local, data, changes>>,
         registry' \in Seq(Devices), IsInjective(registry'),
         present' = {}, seen' = {}, shrunk' = FALSE
  PROVE  IInv'
<1>1. TypeOK /\ seen = {} /\ changes = 0 /\ offset = 0 /\ previous = <<>>
  BY DEF IInv, HistoryInv
<1>2. UNCHANGED <<server, listing, offset, previous, devices, data, changes>>
  BY DEF local
<1>3. TypeOK'
  BY <1>1, <1>2 DEF TypeOK
<1>4. HistoryInv'
  BY <1>1, <1>2 DEF IInv, HistoryInv
<1>5. CoveredInv' /\ PreviousInv'
  BY <1>1, <1>2 DEF CoveredInv, PreviousInv
<1>6. RepeatInv' /\ OffsetBound'
  <2>1. /\ Len(registry') \in Nat /\ server'.limit \in Nat \ {0}
        /\ offset' = 0 /\ changes' = 0
    BY <1>1, <1>2, <1>3, Types
  <2>2. server'.limit * changes' = 0 /\ server'.limit * (changes' + 1) = server'.limit
    BY <2>1
  <2> QED
    BY <2>1, <2>2 DEF RepeatInv, OffsetBound
<1> QED
  BY <1>3, <1>4, <1>5, <1>6 DEF IInv

\* A join moves a device by one place at most, and never into what was passed.
LEMMA AtJoin == IInv /\ Join => IInv'
<1> SUFFICES ASSUME IInv, NEW d \in Devices \ Registered,
                    NEW i \in 1..Len(registry) + 1,
                    Change, registry' = InsertAt(registry, i, d),
                    seen' = IF listing THEN seen \cup {d} ELSE {},
                    UNCHANGED <<server, local, data, present, shrunk>>
             PROVE  IInv'
  BY DEF Join
<1>1. TypeOK /\ HistoryInv /\ CoveredInv /\ PreviousInv /\ OffsetBound
  BY DEF IInv
<1>2. UNCHANGED <<server, listing, offset, previous, devices, data, present, shrunk>>
  BY DEF local
<1>3. /\ registry' \in Seq(Devices) /\ IsInjective(registry')
      /\ Len(registry') = Len(registry) + 1
      /\ Registered' = Registered \cup {d}
      /\ \A j \in 1..Len(registry') :
           \/ j <= Len(registry) /\ registry'[j] = registry[j]
           \/ j - 1 \in 1..Len(registry) /\ registry'[j] = registry[j - 1]
           \/ registry'[j] = d
      /\ \A j \in 1..Len(registry) :
           registry'[j] = registry[j] \/ registry'[j + 1] = registry[j]
  BY <1>1, JoinFacts
<1>4. CASE ~listing
  <2>1. present' = {} /\ seen' = {} /\ shrunk' = FALSE /\ UNCHANGED changes
    BY <1>1, <1>2, <1>4 DEF TypeOK, HistoryInv, Change
  <2> QED
    BY <1>3, <1>4, <2>1, AtIdle
<1>5. CASE listing
  <2>1. changes' = changes + 1 /\ changes < MaxChanges /\ seen' = seen \cup {d}
    BY <1>5 DEF Change
  <2>2. /\ Len(registry) \in Nat /\ offset \in Nat /\ changes \in Nat
        /\ server.limit \in Nat \ {0} /\ server.limit * changes \in Nat
        /\ server.limit * (changes + 1) = server.limit * changes + server.limit
    BY <1>1, Types
  <2>3. TypeOK'
    <3>1. changes' \in 0..MaxChanges
      BY <1>1, <2>1, InventoryAssumption DEF TypeOK
    <3>2. present' \subseteq seen' /\ seen' \subseteq Devices
      BY <1>1, <1>2, <2>1 DEF TypeOK
    <3> QED
      BY <1>1, <1>2, <1>3, <3>1, <3>2 DEF TypeOK
  <2>4. HistoryInv'
    BY <1>1, <1>2, <1>3, <1>5, <2>1 DEF HistoryInv
  <2>5. CoveredInv'
    <3> SUFFICES ASSUME server.paged, ~shrunk, NEW j \in 1..Len(registry'), j <= offset,
                        registry'[j] \in present
                 PROVE  registry'[j] \in devices
      BY <1>2 DEF CoveredInv
    <3>1. registry'[j] # d
      BY <1>1, <1>5 DEF HistoryInv
    <3>2. \E k \in 1..Len(registry) : k <= offset /\ registry'[j] = registry[k]
      <4>1. CASE j <= Len(registry) /\ registry'[j] = registry[j]
        BY <1>3, <2>2, <4>1
      <4>2. CASE j - 1 \in 1..Len(registry) /\ registry'[j] = registry[j - 1]
        <5>1. j - 1 <= offset
          BY <2>2
        <5> QED
          BY <4>2, <5>1
      <4> QED
        BY <1>3, <3>1, <4>1, <4>2
    <3> QED
      BY <1>1, <3>2 DEF CoveredInv
  <2>6. PreviousInv'
    <3> SUFFICES ASSUME server.paged, ~shrunk, previous # <<>>
                 PROVE  \E j \in 1..Len(registry') :
                          /\ registry'[j] = previous[1]
                          /\ j + server.limit <= offset + 1 + changes'
      BY <1>2 DEF PreviousInv
    <3>1. PICK j \in 1..Len(registry) :
            registry[j] = previous[1] /\ j + server.limit <= offset + 1 + changes
      BY <1>1 DEF PreviousInv
    <3>2. /\ j \in 1..Len(registry') /\ j + 1 \in 1..Len(registry')
          /\ j + server.limit <= offset + 1 + changes'
          /\ (j + 1) + server.limit <= offset + 1 + changes'
      BY <1>3, <2>1, <2>2, <3>1
    <3> QED
      BY <1>3, <3>1, <3>2
  <2>7. RepeatInv'
    BY <1>1, <1>2, <2>1 DEF RepeatInv, OffsetBound
  <2>8. OffsetBound'
    <3>1. server.limit * (changes' + 1) = server.limit * (changes + 1) + server.limit
      BY <1>1, <2>1, Types
    <3>2. CASE server.paged
      BY <1>1, <1>2, <1>3, <2>1, <2>2, <3>2 DEF OffsetBound
    <3>3. CASE ~server.paged
      <4>1. offset <= server.limit * (changes + 1)
        BY <1>1, <3>3 DEF OffsetBound
      <4>2. offset <= server.limit * (changes' + 1)
        BY <2>2, <3>1, <4>1
      <4> QED
        BY <1>2, <3>3, <4>2 DEF OffsetBound
    <3> QED
      BY <3>2, <3>3
  <2> QED
    BY <2>3, <2>4, <2>5, <2>6, <2>7, <2>8 DEF IInv
<1> QED
  BY <1>4, <1>5

\* A leave is noted, and counted in the bound.
LEMMA AtLeave == IInv /\ Leave => IInv'
<1> SUFFICES ASSUME IInv, NEW i \in 1..Len(registry),
                    Change, registry' = RemoveAt(registry, i),
                    present' = present \ {registry[i]}, shrunk' = listing,
                    UNCHANGED <<server, local, data, seen>>
             PROVE  IInv'
  BY DEF Leave
<1>1. TypeOK /\ HistoryInv /\ OffsetBound
  BY DEF IInv
<1>2. UNCHANGED <<server, listing, offset, previous, devices, data, seen>>
  BY DEF local
<1>3. /\ registry' \in Seq(Devices) /\ IsInjective(registry')
      /\ Len(registry') = Len(registry) - 1
      /\ Registered' \subseteq Registered
  BY <1>1, LeaveFacts
<1>4. CASE ~listing
  <2>1. present' = {} /\ seen' = {} /\ shrunk' = FALSE /\ UNCHANGED changes
    BY <1>1, <1>2, <1>4 DEF TypeOK, HistoryInv, Change
  <2> QED
    BY <1>3, <1>4, <2>1, AtIdle
<1>5. CASE listing
  <2>1. changes' = changes + 1 /\ changes < MaxChanges /\ shrunk' = TRUE
    BY <1>1, <1>5 DEF Change, TypeOK
  <2>2. /\ Len(registry) \in Nat /\ offset \in Nat /\ changes \in Nat
        /\ server.limit \in Nat \ {0} /\ server.limit * changes \in Nat
        /\ server.limit * (changes + 1) = server.limit * changes + server.limit
    BY <1>1, Types
  <2>3. TypeOK'
    <3>1. changes' \in 0..MaxChanges
      BY <1>1, <2>1, InventoryAssumption DEF TypeOK
    <3> QED
      BY <1>1, <1>2, <1>3, <2>1, <3>1 DEF TypeOK
  <2>4. HistoryInv'
    BY <1>1, <1>2, <1>3, <1>5, <2>1 DEF HistoryInv
  <2>5. CoveredInv' /\ PreviousInv'
    BY <2>1 DEF CoveredInv, PreviousInv
  <2>6. RepeatInv'
    BY <1>1, <1>2, <2>1 DEF RepeatInv, OffsetBound
  <2>7. OffsetBound'
    <3>1. server.limit * (changes' + 1) = server.limit * (changes + 1) + server.limit
      BY <1>1, <2>1, Types
    <3>2. CASE server.paged
      BY <1>1, <1>2, <1>3, <2>1, <2>2, <3>2 DEF OffsetBound
    <3>3. CASE ~server.paged
      <4>1. offset <= server.limit * (changes + 1)
        BY <1>1, <3>3 DEF OffsetBound
      <4>2. offset <= server.limit * (changes' + 1)
        BY <2>2, <3>1, <4>1
      <4> QED
        BY <1>2, <3>3, <4>2 DEF OffsetBound
    <3> QED
      BY <3>2, <3>3
  <2> QED
    BY <2>3, <2>4, <2>5, <2>6, <2>7 DEF IInv
<1> QED
  BY <1>4, <1>5

\* A step of the listing, of RMS or of neither keeps the invariant.
LEMMA Step == IInv /\ [Next]_vars => IInv'
<1>1. ASSUME IInv, UNCHANGED vars PROVE IInv'
  <2>1. /\ TypeOK' /\ HistoryInv'
    BY <1>1 DEF IInv, vars, TypeOK, HistoryInv, Registered
  <2>2. CoveredInv' /\ PreviousInv'
    BY <1>1 DEF IInv, vars, CoveredInv, PreviousInv
  <2>3. RepeatInv' /\ OffsetBound'
    <3>1. Page' = Page
      BY <1>1, PageStays DEF vars
    <3> QED
      BY <1>1, <3>1 DEF IInv, vars, RepeatInv, OffsetBound
  <2> QED
    BY <2>1, <2>2, <2>3 DEF IInv
<1> QED
  BY <1>1, AtBegin, AtNextPage, AtAnyEnd, AtJoin, AtLeave DEF Next, Answer

\* Where every reachable listing stands: types, the devices passed are received,
\* the page before is near, and the bound on the offset.
THEOREM Inductive == Spec => []IInv
BY Initially, Step, PTL DEF Spec

\* Every variable has its type; above all no listing at RMS ever has a device
\* twice, so a place in it is a cursor.
THEOREM TypeCorrect == Spec => []TypeOK
<1>1. IInv => TypeOK
  BY DEF IInv
<1> QED
  BY <1>1, Inductive, PTL

\* No server makes a listing run away, whatever it does with limit and offset.
THEOREM Bounded == Spec => []OffsetBound
<1>1. IInv => OffsetBound
  BY DEF IInv
<1> QED
  BY <1>1, Inductive, PTL

-------------------------------------------------------------------------------
(* What is published *)

\* Only the end of a listing publishes.
LEMMA OnlyEndsPublish ==
  ASSUME [Next]_vars, data' # data
  PROVE  LastPage \/ RepeatedPage
BY DEF Next, Answer, Begin, NextPage, Fail, Join, Leave, vars

\* What has been received was registered at some time during the listing.
LEMMA ReceivedSeen ==
  ASSUME IInv, listing
  PROVE  AppendUnseen(Page) \subseteq seen
<1>1. devices \subseteq seen /\ Registered \subseteq seen
  BY DEF IInv, HistoryInv
<1> QED
  BY <1>1, PageFacts DEF IInv, AppendUnseen

\* The listing never publishes a device that was not registered during it.
THEOREM NoStranger == Spec => OnlyRegistered
<1>1. ASSUME IInv, [Next]_vars, data' # data PROVE data' \subseteq seen
  <2>1. CASE LastPage
    BY <1>1, <2>1, ReceivedSeen DEF LastPage, Publish
  <2>2. CASE RepeatedPage
    BY <1>1, <2>2 DEF RepeatedPage, Publish, IInv, HistoryInv
  <2> QED
    BY <1>1, <2>1, <2>2, OnlyEndsPublish
<1>2. IInv /\ [Next]_vars => (data' # data => data' \subseteq seen)
  BY <1>1
<1> QED
  BY <1>2, Inductive, PTL DEF Spec, OnlyRegistered

\* No device that stays registered is missed while fewer join than a page holds,
\* on any server that goes by the offset and, if it caps the limit, sends a total.
THEOREM Complete == Spec => CompleteUnlessShrunk
<1>1. ASSUME IInv, [Next]_vars, data' # data,
             server.paged, Countable, ~shrunk, changes < server.limit
      PROVE  present \ Keyless \subseteq data'
  <2>1. TypeOK /\ HistoryInv /\ CoveredInv /\ PreviousInv
    BY <1>1 DEF IInv
  <2>2. ~Repeated(Page)
    BY <1>1, <2>1, NoFalseRepetition
  <2>3. LastPage
    BY <1>1, <2>2, OnlyEndsPublish DEF RepeatedPage
  <2>4. /\ listing /\ ~HasNext(Page)
        /\ data' = AppendUnseen(Page) \ Keyless
    BY <2>3 DEF LastPage, Publish
  <2>5. Len(registry) <= offset + Len(Page)
    BY <1>1, <2>1, <2>4, LastPageReaches
  <2>6. ASSUME NEW d \in present PROVE d \in AppendUnseen(Page)
    <3>1. d \in Registered
      BY <1>1, <2>1, <2>4 DEF HistoryInv
    <3>2. registry \in Seq(Devices) /\ Len(registry) \in Nat /\ offset \in Nat
      BY <2>1, Types
    <3>3. PICK i \in 1..Len(registry) : registry[i] = d
      BY <3>1, <3>2, ElementsOf DEF Registered
    <3>4. Len(Page) \in Nat
      BY <2>1, PageFacts
    <3>5. i <= offset + Len(Page)
      BY <2>5, <3>2, <3>4
    <3> QED
      BY <1>1, <2>1, <3>3, <3>5, PageCovers
  <2> QED
    BY <2>4, <2>6
<1>2. IInv /\ [Next]_vars =>
        (data' # data /\ server.paged /\ Countable /\ ~shrunk /\ changes < server.limit
           => present \ Keyless \subseteq data')
  BY <1>1
<1> QED
  BY <1>2, Inductive, PTL DEF Spec, CompleteUnlessShrunk
===============================================================================
