------------------------- MODULE RequestBudget_proofs -------------------------
(***************************************************************************)
(* What RequestBudget keeps for every quota, month, file and fleet: first  *)
(* facts about the endpoint matrix, then about the numbers of requests.    *)
(***************************************************************************)
EXTENDS RequestBudget, WellFoundedInduction, TLAPS

-------------------------------------------------------------------------------
(* The endpoint matrix *)

\* No path is a candidate for two keys, so the order in which
\* _categorize_endpoint tries its patterns does not matter.
LEMMA OneKey ==
  ASSUME NEW p \in Path, NEW k, NEW l, Fits(k, p), Fits(l, p)
  PROVE  k = l
  <1>1. /\ "devices" \notin Placeholders /\ "status" \notin Placeholders
        /\ "location" \notin Placeholders
    BY SegmentAssumption
  <1>2. IsAggregateStatusCandidate(p) => ~OfDevice(p, "status")
    <2>1. SUFFICES ASSUME OfDevice(p, "status") PROVE Mentions(p, Placeholders)
      BY DEF IsAggregateStatusCandidate
    <2>2. Len(p.segments) - 1 \in 1..Len(p.segments)
      BY <2>1 DEF OfDevice, Path
    <2>3. QED
      BY <2>1, <2>2 DEF OfDevice, FromEnd, Mentions
  <1>3. QED
    BY <1>1, <1>2 DEF Fits, OfDevice, IsAggregateStatusCandidate, IsDevice

\* A set of natural numbers that is not empty has a least one.
LEMMA LeastNumber ==
  ASSUME NEW T \in SUBSET Nat, T # {}
  PROVE  \E x \in T : \A y \in T : x <= y
  <1> DEFINE R == {ss \in Nat \X Nat : ss[1] < ss[2]}
  <1>1. R = OpToRel(<, Nat)
    BY DEF OpToRel
  <1>2. IsWellFoundedOn(R, Nat)
    BY <1>1, NatLessThanWellFounded, Zenon
  <1>3. \A m, n \in Nat : <<m, n>> \notin R => n <= m
    OBVIOUS
  <1> HIDE DEF R
  <1>4. PICK x \in T : \A y \in T : <<y, x>> \notin R
    BY <1>2, WFMin, Zenon
  <1>5. QED
    BY <1>3, <1>4

\* Among some candidates there is a first in the order of the sort.
LEMMA BestExists ==
  ASSUME NEW items \in Seq(Item), NEW C \in SUBSET (1..Len(items)), C # {}
  PROVE  \E i \in C : IsBest(i, C, items) /\ \A j \in C : IsBest(j, C, items) => i <= j
  <1> DEFINE V == {i \in C : StartsV3(items[i].path)}
             D == IF V # {} THEN V ELSE C
             L == {items[i].path.length : i \in D}
             Best == {i \in C : IsBest(i, C, items)}
  <1>0. \A i \in C : items[i] \in Item
    OBVIOUS
  <1>1. \A i \in C : items[i].path.length \in Nat
    BY <1>0 DEF Item, Path
  <1>2. D # {} /\ D \subseteq C
    OBVIOUS
  <1>3. \A i \in D, j \in C : j \notin D => StartsV3(items[i].path) /\ ~StartsV3(items[j].path)
    OBVIOUS
  <1>4. \A i, j \in D : StartsV3(items[i].path) <=> StartsV3(items[j].path)
    OBVIOUS
  <1> HIDE DEF V, D
  <1>5. L # {} /\ L \in SUBSET Nat
    BY <1>1, <1>2
  <1>6. PICK l \in L : \A m \in L : l <= m
    BY <1>5, LeastNumber
  <1>7. PICK i \in D : items[i].path.length = l
    BY <1>6
  <1>8. \A j \in D : items[i].path.length <= items[j].path.length
    BY <1>6, <1>7
  <1>9. IsBest(i, C, items)
    <2>1. SUFFICES ASSUME NEW j \in C PROVE ~Before(items[j].path, items[i].path)
      BY DEF IsBest
    <2>2. CASE j \in D
      BY <1>1, <1>2, <1>4, <1>8, <2>2 DEF Before
    <2>3. CASE j \notin D
      BY <1>3, <2>3 DEF Before
    <2>4. QED
      BY <2>2, <2>3
  <1>10. Best # {} /\ Best \in SUBSET Nat
    <2>1. C \in SUBSET Nat
      OBVIOUS
    <2>2. i \in C
      BY <1>2
    <2>3. QED
      BY <1>9, <2>1, <2>2
  <1>11. PICK b \in Best : \A j \in Best : b <= j
    BY <1>10, LeastNumber
  <1>12. QED
    BY <1>11

\* The frozen matrix has a path for each of its keys.
LEMMA FrozenTyped == Frozen \in [DOMAIN Frozen -> Path]
  <1>1. /\ "v3" \in Segments /\ "devices" \in Segments /\ "status" \in Segments
        /\ "location" \in Segments /\ "wireless" \in Segments
        /\ "configurator" \in Segments /\ "configuration" \in Segments
        /\ "id" \in Segments /\ "device_id" \in Segments
    BY SegmentAssumption
  <1>3. P(<<"devices">>, 8) \in Path
    BY <1>1 DEF P, Path
  <1>4. P(<<"devices", "id">>, 13) \in Path
    BY <1>1 DEF P, Path
  <1>5. P(<<"v3", "devices", "id", "location">>, 25) \in Path
    BY <1>1 DEF P, Path
  <1>6. P(<<"devices", "configurator", "configuration">>, 35) \in Path
    BY <1>1 DEF P, Path
  <1>7. P(<<"v3", "devices", "status">>, 18) \in Path
    BY <1>1 DEF P, Path
  <1>8. P(<<"v3", "devices", "id", "status">>, 23) \in Path
    BY <1>1 DEF P, Path
  <1>9. P(<<"devices", "device_id", "wireless">>, 29) \in Path
    BY <1>1 DEF P, Path
  <1>10. QED
    BY <1>3, <1>4, <1>5, <1>6, <1>7, <1>8, <1>9 DEF Frozen

\* Whatever file is read, the matrix has a path for each frozen key and no other.
LEMMA LoadTyped ==
  ASSUME NEW o, NEW file \in File
  PROVE  Load(o, file) \in [DOMAIN Frozen -> Path]
  <1> DEFINE items == file.items
  <1>1. items \in Seq(Item)
    <2>1. <<>> \in Seq(Item)
      OBVIOUS
    <2>2. QED
      BY <2>1 DEF File
  <1>2. ASSUME NEW key \in DOMAIN Frozen, Candidates(key, items) # {}
        PROVE  PickBest(Candidates(key, items), items) \in Path
    <2> DEFINE C == Candidates(key, items)
    <2>1. C \in SUBSET (1..Len(items))
      BY DEF Candidates
    <2>2. \E i \in C : IsBest(i, C, items) /\ \A j \in C : IsBest(j, C, items) => i <= j
      BY <1>1, <1>2, <2>1, BestExists
    <2>3. PICK i \in C : PickBest(C, items) = items[i].path
      BY <2>2 DEF PickBest
    <2>4. items[i] \in Item
      BY <1>1, <2>1
    <2>5. QED
      BY <2>3, <2>4 DEF Item
  <1>3. MatrixFromOpenapi(items) \in [DOMAIN Frozen -> Path]
    BY <1>2, FrozenTyped DEF MatrixFromOpenapi
  <1>4. QED
    BY <1>3, FrozenTyped DEF Load, LoadEndpointMatrix

\* So the aggregate path is always there.
LEMMA Supported ==
  ASSUME NEW matrix \in [DOMAIN Frozen -> Path]
  PROVE  AggregateSupported(matrix) /\ PathFor(matrix, "device_history") = NoPath
  <1>1. "device_state_aggregate" \in DOMAIN Frozen /\ "device_history" \notin DOMAIN Frozen
    BY DEF Frozen
  <1>2. DOMAIN matrix = DOMAIN Frozen
    OBVIOUS
  <1>3. matrix["device_state_aggregate"] \in Path
    BY <1>1
  <1>4. QED
    BY <1>1, <1>2, <1>3, NoPathAssumption DEF AggregateSupported, PathFor

\* A candidate from a file that names devices as the client does is complete for
\* its key: whatever the order of the sort, the client can fill it in.
LEMMA CandidateComplete ==
  ASSUME NEW p \in Path, NEW key, Fits(key, p),
         \A i \in 1..Len(p.segments) : p.segments[i] \in Placeholders =>
           /\ p.segments[i] = "id"
           /\ \A j \in 1..Len(p.segments) : (p.segments[j] = "devices") <=> (j = i - 1)
  PROVE  /\ key \in {"devices_list", "device_state_aggregate"} => Unfilled(p, "none") = {}
         /\ key \in {"device_detail", "device_location", "device_state_single"} =>
              Unfilled(p, "id") = {} /\ Unfilled(p, "none") # {}
         /\ key \notin {"device_port_configurations", "device_wireless"}
  <1> DEFINE n == Len(p.segments)
  <1>1. n \in Nat
    BY DEF Path
  <1>2. "none" \notin Placeholders /\ "id" \in Placeholders
    BY SegmentAssumption
  <1>3. Unfilled(p, "id") = {}
    BY DEF Unfilled
  <1>4. CASE key = "devices_list"
    <2>1. n > 0 /\ n \in 1..n /\ p.segments[n] = "devices"
      BY <1>1, <1>4 DEF Fits, FromEnd, Path
    <2>2. \A i \in 1..n : p.segments[i] \notin Placeholders
      BY <1>1, <2>1
    <2>3. QED
      BY <1>4, <2>2 DEF Unfilled
  <1>5. CASE key = "device_state_aggregate"
    <2>1. \A i \in 1..n : p.segments[i] \notin Placeholders
      BY <1>5 DEF Fits, IsAggregateStatusCandidate, Mentions
    <2>2. QED
      BY <1>5, <2>1 DEF Unfilled
  <1>6. CASE key \in {"device_location", "device_state_single"}
    <2>1. n > 2 /\ n - 1 \in 1..n /\ p.segments[n - 1] \in Placeholders
      BY <1>1, <1>6 DEF Fits, OfDevice, FromEnd
    <2>2. p.segments[n - 1] \in Unfilled(p, "none")
      BY <1>2, <2>1 DEF Unfilled
    <2>3. QED
      BY <1>3, <1>6, <2>2
  <1>7. CASE key = "device_detail"
    <2>1. n > 1 /\ n \in 1..n /\ p.segments[n] \in Placeholders
      BY <1>1, <1>7 DEF Fits, IsDevice, FromEnd
    <2>2. p.segments[n] \in Unfilled(p, "none")
      BY <1>2, <2>1 DEF Unfilled
    <2>3. QED
      BY <1>3, <1>7, <2>2
  <1>8. QED
    BY <1>4, <1>5, <1>6, <1>7 DEF Fits

\* The frozen paths are complete.
LEMMA FrozenComplete == Complete(Frozen)
  <1>1. /\ "v3" \notin Placeholders /\ "devices" \notin Placeholders
        /\ "status" \notin Placeholders /\ "location" \notin Placeholders
        /\ "wireless" \notin Placeholders /\ "configurator" \notin Placeholders
        /\ "configuration" \notin Placeholders /\ "none" \notin Placeholders
        /\ "id" \in Placeholders /\ "device_id" \in Placeholders
    BY SegmentAssumption
  <1>2. ASSUME NEW s, NEW n, NEW param, \A i \in 1..Len(s) : s[i] \notin Placeholders \ {param}
        PROVE  Unfilled(P(s, n), param) = {}
    BY <1>2 DEF Unfilled, P
  <1>3. Unfilled(P(<<"devices">>, 8), "none") = {}
    <2>1. \A i \in 1..Len(<<"devices">>) : <<"devices">>[i] \notin Placeholders \ {"none"}
      BY <1>1
    <2>2. QED
      BY <1>2, <2>1, Zenon
  <1>4. Unfilled(P(<<"v3", "devices", "status">>, 18), "none") = {}
    <2>1. \A i \in 1..Len(<<"v3", "devices", "status">>) : <<"v3", "devices", "status">>[i] \notin Placeholders \ {"none"}
      BY <1>1
    <2>2. QED
      BY <1>2, <2>1, Zenon
  <1>5. Unfilled(P(<<"devices", "configurator", "configuration">>, 35), "none") = {}
    <2>1. \A i \in 1..Len(<<"devices", "configurator", "configuration">>) : <<"devices", "configurator", "configuration">>[i] \notin Placeholders \ {"none"}
      BY <1>1
    <2>2. QED
      BY <1>2, <2>1, Zenon
  <1>6. Unfilled(P(<<"devices", "id">>, 13), "id") = {}
    <2>1. \A i \in 1..Len(<<"devices", "id">>) : <<"devices", "id">>[i] \notin Placeholders \ {"id"}
      BY <1>1
    <2>2. QED
      BY <1>2, <2>1, Zenon
  <1>7. Unfilled(P(<<"v3", "devices", "id", "location">>, 25), "id") = {}
    <2>1. \A i \in 1..Len(<<"v3", "devices", "id", "location">>) : <<"v3", "devices", "id", "location">>[i] \notin Placeholders \ {"id"}
      BY <1>1
    <2>2. QED
      BY <1>2, <2>1, Zenon
  <1>8. Unfilled(P(<<"v3", "devices", "id", "status">>, 23), "id") = {}
    <2>1. \A i \in 1..Len(<<"v3", "devices", "id", "status">>) : <<"v3", "devices", "id", "status">>[i] \notin Placeholders \ {"id"}
      BY <1>1
    <2>2. QED
      BY <1>2, <2>1, Zenon
  <1>9. Unfilled(P(<<"devices", "device_id", "wireless">>, 29), "device_id") = {}
    <2>1. \A i \in 1..Len(<<"devices", "device_id", "wireless">>) : <<"devices", "device_id", "wireless">>[i] \notin Placeholders \ {"device_id"}
      BY <1>1
    <2>2. QED
      BY <1>2, <2>1, Zenon
  <1>10. Unfilled(P(<<"devices", "id">>, 13), "none") # {}
    <2>1. 2 \in 1..Len(<<"devices", "id">>) /\ <<"devices", "id">>[2] = "id"
      OBVIOUS
    <2>2. QED
      BY <1>1, <2>1 DEF Unfilled, P
  <1>11. Unfilled(P(<<"v3", "devices", "id", "location">>, 25), "none") # {}
    <2>1. 3 \in 1..Len(<<"v3", "devices", "id", "location">>) /\ <<"v3", "devices", "id", "location">>[3] = "id"
      OBVIOUS
    <2>2. QED
      BY <1>1, <2>1 DEF Unfilled, P
  <1>12. Unfilled(P(<<"v3", "devices", "id", "status">>, 23), "none") # {}
    <2>1. 3 \in 1..Len(<<"v3", "devices", "id", "status">>) /\ <<"v3", "devices", "id", "status">>[3] = "id"
      OBVIOUS
    <2>2. QED
      BY <1>1, <2>1 DEF Unfilled, P
  <1> HIDE DEF P
  <1>13. QED
    BY <1>3, <1>4, <1>5, <1>6, <1>7, <1>8, <1>9, <1>10, <1>11, <1>12 DEF Complete, Frozen

\* So is every matrix that is loaded with a file that conforms.
LEMMA LoadComplete ==
  ASSUME NEW o, NEW file \in File, o.spec => Conforms(file)
  PROVE  Complete(Load(o, file))
  <1> DEFINE items == file.items
             matrix == MatrixFromOpenapi(items)
             best(key) == PickBest(Candidates(key, items), items)
  <1>1. ASSUME Conforms(file), NEW key \in DOMAIN Frozen, Candidates(key, items) # {}
        PROVE  \E i \in 1..Len(items) : best(key) = items[i].path /\ Fits(key, items[i].path)
    <2> DEFINE C == Candidates(key, items)
    <2>1. C \in SUBSET (1..Len(items)) /\ \A i \in C : Fits(key, items[i].path)
      BY DEF Candidates
    <2>2. items \in Seq(Item)
      <3>1. <<>> \in Seq(Item)
        OBVIOUS
      <3>2. QED
        BY <3>1 DEF File
    <2> HIDE DEF C
    <2>3. \E i \in C : IsBest(i, C, items) /\ \A j \in C : IsBest(j, C, items) => i <= j
      BY <1>1, <2>1, <2>2, BestExists DEF C
    <2>4. PICK i \in C : PickBest(C, items) = items[i].path
      BY <2>3 DEF PickBest
    <2>5. QED
      BY <2>1, <2>4 DEF C
  <1>2. ASSUME Conforms(file), NEW key \in DOMAIN Frozen, Candidates(key, items) # {}
        PROVE  /\ key \in {"devices_list", "device_state_aggregate"} => Unfilled(best(key), "none") = {}
               /\ key \in {"device_detail", "device_location", "device_state_single"} =>
                    Unfilled(best(key), "id") = {} /\ Unfilled(best(key), "none") # {}
               /\ key \notin {"device_port_configurations", "device_wireless"}
    <2>1. PICK i \in 1..Len(items) : best(key) = items[i].path /\ Fits(key, items[i].path)
      BY <1>1, <1>2
    <2>2. items[i].path \in Path
      <3>1. <<>> \in Seq(Item)
        OBVIOUS
      <3>2. items \in Seq(Item)
        BY <3>1 DEF File
      <3>3. items[i] \in Item
        BY <3>2
      <3>4. QED
        BY <3>3 DEF Item
    <2> DEFINE p == items[i].path
    <2>3. \A j \in 1..Len(p.segments) : p.segments[j] \in Placeholders =>
            /\ p.segments[j] = "id"
            /\ \A k \in 1..Len(p.segments) : (p.segments[k] = "devices") <=> (k = j - 1)
      BY <1>2 DEF Conforms
    <2> HIDE DEF best, p
    <2>4. p \in Path /\ Fits(key, p) /\ best(key) = p
      BY <2>1, <2>2 DEF p
    <2>5. QED
      BY <2>3, <2>4, CandidateComplete
  <1>3. ASSUME Conforms(file) PROVE Complete(matrix)
    <2>1. ASSUME NEW key \in DOMAIN Frozen
          PROVE  matrix[key] = IF Candidates(key, items) = {} THEN Frozen[key] ELSE best(key)
      BY DEF MatrixFromOpenapi
    <2>2. /\ "devices_list" \in DOMAIN Frozen /\ "device_state_aggregate" \in DOMAIN Frozen
          /\ "device_port_configurations" \in DOMAIN Frozen /\ "device_detail" \in DOMAIN Frozen
          /\ "device_location" \in DOMAIN Frozen /\ "device_state_single" \in DOMAIN Frozen
          /\ "device_wireless" \in DOMAIN Frozen
      BY DEF Frozen
    <2> HIDE DEF matrix, best, items
    <2>3. QED
      BY <1>2, <1>3, <2>1, <2>2, FrozenComplete DEF Complete
  <1>4. QED
    BY <1>3, FrozenComplete DEF Load, LoadEndpointMatrix

-------------------------------------------------------------------------------
(* Arithmetic *)

\* A product of natural numbers is one.
LEMMA Product ==
  ASSUME NEW x \in Nat, NEW y \in Nat
  PROVE  x * y \in Nat
  OBVIOUS

\* Multiplication keeps the order ...
LEMMA Monotone ==
  ASSUME NEW p \in Nat, NEW x \in Int, NEW y \in Int, x <= y
  PROVE  p * x <= p * y
  OBVIOUS

\* ... and a positive factor can be cancelled.
LEMMA Cancel ==
  ASSUME NEW p \in Nat \ {0}, NEW x \in Int, NEW y \in Int, p * x <= p * y
  PROVE  x <= y
  <1>1. SUFFICES ASSUME y + 1 <= x PROVE FALSE
    OBVIOUS
  <1>2. p * (y + 1) <= p * x
    BY <1>1, Monotone
  <1>3. p * (y + 1) = p * y + p
    OBVIOUS
  <1>4. p * y \in Int /\ p * x \in Int
    OBVIOUS
  <1>5. QED
    BY <1>2, <1>3, <1>4

\* What division leaves is less than the divisor.
LEMMA Division ==
  ASSUME NEW x \in Nat, NEW y \in Nat \ {0}
  PROVE  /\ x \div y \in Nat /\ x % y \in Nat
         /\ x = y * (x \div y) + (x % y) /\ x % y < y
  <1>1. x \div y \in Nat
    OBVIOUS
  <1>2. x % y \in Nat /\ x % y < y
    OBVIOUS
  <1>3. x = y * (x \div y) + (x % y)
    OBVIOUS
  <1>4. QED
    BY <1>1, <1>2, <1>3

\* Two quotients over their common denominator, with what is left over.
LEMMA CommonDenominator ==
  ASSUME NEW i \in Nat \ {0}, NEW s \in Nat \ {0}, NEW a \in Nat, NEW b \in Nat,
         NEW c \in Nat, NEW r \in Nat, NEW q \in Nat, NEW t \in Nat,
         NEW x, NEW y, NEW rest, x = i * a + r, y = s * b + q,
         rest = r * s + q * i, rest = (i * s) * c + t, t < i * s
  PROVE  x * s + y * i <= (i * s) * (a + b + c + 1)
  <1>1. x * s + y * i = (i * s) * a + (i * s) * b + (r * s + q * i)
    OBVIOUS
  <1>2. (i * s) * (a + b + c + 1) = (i * s) * a + (i * s) * b + (i * s) * c + i * s
    OBVIOUS
  <1>3. /\ i * s \in Nat /\ (i * s) * a \in Nat /\ (i * s) * b \in Nat
        /\ (i * s) * c \in Nat /\ r * s + q * i \in Nat
    OBVIOUS
  <1>4. QED
    BY <1>1, <1>2, <1>3

\* The estimate is a number.
LEMMA EstimateTyped ==
  ASSUME NEW o \in Option
  PROVE  EstimateMonthlyRequests(o, TRUE) \in Nat
  <1> DEFINE M == MonthSeconds
             i == o.inventory
             s == o.state
             Mk == M * (1 + o.devices)
             rest == (M % i) * s + (Mk % s) * i
  <1>1. M \in Nat /\ i \in Nat \ {0} /\ s \in Nat \ {0} /\ o.devices \in Nat
    BY BudgetAssumption DEF Option
  <1>2. Mk \in Nat
    BY <1>1
  <1>3. EstimateMonthlyRequests(o, TRUE) = M \div i + Mk \div s + rest \div (i * s)
    BY DEF EstimateMonthlyRequests
  <1> HIDE DEF M, i, s, Mk
  <1>4. M \div i \in Nat /\ Mk \div s \in Nat /\ M % i \in Nat /\ Mk % s \in Nat
    BY <1>1, <1>2, Division
  <1>5. rest \in Nat /\ i * s \in Nat \ {0}
    BY <1>1, <1>4
  <1>6. rest \div (i * s) \in Nat
    BY <1>5, Division
  <1> HIDE DEF rest
  <1>7. M \div i + Mk \div s + rest \div (i * s) \in Nat
    BY <1>4, <1>6
  <1>8. QED
    BY <1>3, <1>7, Zenon

LEMMA CeilingTyped == Ceiling \in Nat
  <1>1. MaxMonthly * HeadroomPercent \in Nat
    BY BudgetAssumption
  <1>2. QED
    BY <1>1, Division DEF Ceiling

\* For options within the ceiling, the sum of the rates of the two coordinators,
\* over their common denominator, is within one more than the ceiling.
LEMMA Rates ==
  ASSUME NEW o \in Option, NEW C \in Nat, EstimateMonthlyRequests(o, TRUE) <= C
  PROVE  MonthSeconds * o.state + (MonthSeconds * (1 + o.devices)) * o.inventory
           <= (o.inventory * o.state) * (C + 1)
  <1> DEFINE M == MonthSeconds
             i == o.inventory
             s == o.state
             Mk == M * (1 + o.devices)
             rest == (M % i) * s + (Mk % s) * i
             is == i * s
  <1>1. M \in Nat /\ i \in Nat \ {0} /\ s \in Nat \ {0} /\ o.devices \in Nat
    BY BudgetAssumption DEF Option
  <1>2. Mk \in Nat
    BY <1>1
  <1>3. M \div i + Mk \div s + rest \div is <= C
    BY DEF EstimateMonthlyRequests
  <1>4. /\ M \div i \in Nat /\ M % i \in Nat /\ M = i * (M \div i) + (M % i)
        /\ Mk \div s \in Nat /\ Mk % s \in Nat /\ Mk = s * (Mk \div s) + (Mk % s)
    BY <1>1, <1>2, Division
  <1> HIDE DEF M, i, s, Mk
  <1>5. rest \in Nat /\ is \in Nat \ {0}
    BY <1>1, <1>4
  <1>6. /\ rest \div is \in Nat /\ rest % is \in Nat /\ rest % is < is
        /\ rest = is * (rest \div is) + (rest % is)
    BY <1>5, Division
  <1>7. M * s + Mk * i <= is * (M \div i + Mk \div s + rest \div is + 1)
    <2> DEFINE a == M \div i
               b == Mk \div s
               c == rest \div is
               r == M % i
               q == Mk % s
    <2>1. rest = r * s + q * i
      OBVIOUS
    <2> HIDE DEF rest, a, b, c, r, q
    <2>2. a \in Nat /\ b \in Nat /\ c \in Nat /\ r \in Nat /\ q \in Nat
      BY <1>4, <1>6 DEF a, b, c, r, q
    <2>3. M = i * a + r /\ Mk = s * b + q
      BY <1>4 DEF a, b, r, q
    <2>4. rest % is \in Nat /\ rest % is < i * s /\ rest = (i * s) * c + (rest % is)
      BY <1>6 DEF c
    <2>5. M * s + Mk * i <= (i * s) * (a + b + c + 1)
      BY <1>1, <2>1, <2>2, <2>3, <2>4, CommonDenominator, Zenon
    <2>6. QED
      BY <2>5 DEF a, b, c
  <1>8. is * (M \div i + Mk \div s + rest \div is + 1) <= is * (C + 1)
    <2>1. /\ M \div i + Mk \div s + rest \div is + 1 <= C + 1
          /\ M \div i + Mk \div s + rest \div is + 1 \in Int
      <3> HIDE DEF rest, is
      <3>1. QED
        BY <1>3, <1>4, <1>6
    <2>2. is \in Nat /\ C + 1 \in Int
      BY <1>5
    <2> HIDE DEF rest, is
    <2>3. QED
      BY <2>1, <2>2, Monotone, Zenon
  <1>9. M * s + Mk * i <= is * (C + 1)
    <2>1. M * s + Mk * i \in Nat
      BY <1>1, <1>2
    <2>2. is * (C + 1) \in Nat
      BY <1>5
    <2>3. is * (M \div i + Mk \div s + rest \div is + 1) \in Nat
      BY <1>4, <1>5, <1>6
    <2> HIDE DEF rest, is
    <2>4. QED
      BY <1>7, <1>8, <2>1, <2>2, <2>3
  <1>10. QED
    BY <1>9 DEF M, i, s, Mk

\* What two timers send, n times one and m times q requests, is within the share
\* of the time e that their rates allow, beside what each sends at the start.
LEMMA Timers ==
  ASSUME NEW M \in Nat, NEW i \in Nat \ {0}, NEW s \in Nat \ {0}, NEW q \in Nat,
         NEW C \in Nat, NEW e \in Nat, NEW n \in Nat, NEW m \in Nat,
         M * s + (M * q) * i <= (i * s) * (C + 1),
         n * i <= e + i, m * s <= e + s
  PROVE  M * (n + m * q) <= (C + 1) * e + M * (1 + q)
  <1>1. (M * s) * (n * i) <= (M * s) * (e + i)
    <2>1. M * s \in Nat /\ n * i \in Int /\ e + i \in Int
      OBVIOUS
    <2>2. QED
      BY <2>1, Monotone, Zenon
  <1>2. ((M * q) * i) * (m * s) <= ((M * q) * i) * (e + s)
    <2>1. (M * q) * i \in Nat /\ m * s \in Int /\ e + s \in Int
      OBVIOUS
    <2>2. QED
      BY <2>1, Monotone, Zenon
  <1>3. e * (M * s + (M * q) * i) <= e * ((i * s) * (C + 1))
    <2>1. M * s + (M * q) * i \in Int /\ (i * s) * (C + 1) \in Int
      OBVIOUS
    <2>2. QED
      BY <2>1, Monotone, Zenon
  <1>4. (i * s) * (M * (n + m * q)) = (M * s) * (n * i) + ((M * q) * i) * (m * s)
    OBVIOUS
  <1>5. (M * s) * (e + i) + ((M * q) * i) * (e + s)
          = e * (M * s + (M * q) * i) + (i * s) * (M * (1 + q))
    OBVIOUS
  <1>6. e * ((i * s) * (C + 1)) + (i * s) * (M * (1 + q))
          = (i * s) * ((C + 1) * e + M * (1 + q))
    OBVIOUS
  <1>7. (i * s) * (M * (n + m * q)) <= (i * s) * ((C + 1) * e + M * (1 + q))
    <2>1. /\ (M * s) * (n * i) \in Int /\ (M * s) * (e + i) \in Int
          /\ ((M * q) * i) * (m * s) \in Int /\ ((M * q) * i) * (e + s) \in Int
          /\ e * (M * s + (M * q) * i) \in Int /\ e * ((i * s) * (C + 1)) \in Int
          /\ (i * s) * (M * (1 + q)) \in Int
      OBVIOUS
    <2> DEFINE x1 == (M * s) * (n * i)
               x2 == (M * s) * (e + i)
               y1 == ((M * q) * i) * (m * s)
               y2 == ((M * q) * i) * (e + s)
               z1 == e * (M * s + (M * q) * i)
               z2 == e * ((i * s) * (C + 1))
               w == (i * s) * (M * (1 + q))
    <2>2. /\ x1 \in Int /\ x2 \in Int /\ y1 \in Int /\ y2 \in Int /\ z1 \in Int
          /\ z2 \in Int /\ w \in Int
      BY <2>1
    <2>3. x1 <= x2 /\ y1 <= y2 /\ z1 <= z2 /\ x2 + y2 = z1 + w
      BY <1>1, <1>2, <1>3, <1>5
    <2> HIDE DEF x1, x2, y1, y2, z1, z2, w
    <2>4. x1 + y1 <= z2 + w
      BY <2>2, <2>3
    <2>5. QED
      BY <2>4, <1>4, <1>6 DEF x1, y1, z2, w
  <1>8. i * s \in Nat \ {0} /\ M * (n + m * q) \in Int /\ (C + 1) * e + M * (1 + q) \in Int
    OBVIOUS
  <1>9. QED
    BY <1>7, <1>8, Cancel, Zenon

\* So options within the ceiling send at most their share of a time e: the
\* inventory n times one page, and the states m times q requests.
LEMMA Share ==
  ASSUME NEW o \in Option, NEW C \in Nat, EstimateMonthlyRequests(o, TRUE) <= C,
         NEW e \in Nat, NEW n \in Nat, NEW m \in Nat, NEW q \in Nat,
         n * o.inventory <= e + o.inventory, m * o.state <= e + o.state,
         q <= 1 + o.devices
  PROVE  MonthSeconds * (n + m * q) <= (C + 1) * e + MonthSeconds * (1 + q)
  <1> DEFINE M == MonthSeconds
             i == o.inventory
             s == o.state
             k == 1 + o.devices
  <1>1. M \in Nat /\ i \in Nat \ {0} /\ s \in Nat \ {0} /\ k \in Nat
    BY BudgetAssumption DEF Option
  <1>2. M * s + (M * k) * i <= (i * s) * (C + 1)
    BY Rates, Zenon
  <1>3. n * i <= e + i /\ m * s <= e + s /\ q <= k
    OBVIOUS
  <1> HIDE DEF M, i, s, k
  <1>4. (M * i) * q <= (M * i) * k
    <2>1. M * i \in Nat /\ q \in Int /\ k \in Int
      BY <1>1
    <2>2. QED
      BY <1>3, <2>1, Monotone, Zenon
  <1>5. (M * i) * q = (M * q) * i /\ (M * i) * k = (M * k) * i
    BY <1>1
  <1>6. M * s \in Int /\ (M * q) * i \in Int /\ (M * k) * i \in Int /\ (i * s) * (C + 1) \in Int
    BY <1>1
  <1>7. M * s + (M * q) * i <= (i * s) * (C + 1)
    BY <1>2, <1>4, <1>5, <1>6
  <1>8. M * (n + m * q) <= (C + 1) * e + M * (1 + q)
    BY <1>1, <1>3, <1>7, Timers, Zenon
  <1>9. QED
    BY <1>8 DEF M

\* A port coordinator that has refreshed n times in a time e has sent, for at
\* most p devices, no more than p requests in each interval and p at the start.
LEMMA PortShare ==
  ASSUME NEW I \in Nat \ {0}, NEW p \in Nat, NEW e \in Nat, NEW n \in Nat, n * I <= e + I
  PROVE  I * (n * p) <= p * (e + I)
  <1>1. p * (n * I) <= p * (e + I)
    <2>1. n * I \in Int /\ e + I \in Int
      OBVIOUS
    <2>2. QED
      BY <2>1, Monotone, Zenon
  <1>2. I * (n * p) = p * (n * I)
    OBVIOUS
  <1>3. QED
    BY <1>1, <1>2

-------------------------------------------------------------------------------
(* Types *)

\* What the coordinators are made of.
MadeOfs == [options : Choices \cup {DefaultOptions}, gated : BOOLEAN,
            matrix : [DOMAIN Frozen -> Path], conforms : BOOLEAN]

LEMMA MadeOfTyped ==
  ASSUME NEW o \in Choices \cup {DefaultOptions}, NEW g \in BOOLEAN, NEW file \in SpecFiles
  PROVE  MadeOf(o, g, file) \in MadeOfs
  <1>1. Load(o, file) \in [DOMAIN Frozen -> Path]
    BY LoadTyped, BudgetAssumption
  <1>2. (o.spec => Conforms(file)) \in BOOLEAN
    BY Zenon
  <1>3. QED
    BY <1>1, <1>2 DEF MadeOf, MadeOfs

\* The options are positive, and no interval is below a minute.
LEMMA OptionsTyped ==
  ASSUME NEW o \in Choices \cup {DefaultOptions}
  PROVE  o \in Option /\ Most(60, o.inventory) = o.inventory /\ Most(60, o.state) = o.state
  <1>1. o \in Option /\ o.inventory >= 60 /\ o.state >= 60
    BY BudgetAssumption
  <1>2. QED
    BY <1>1 DEF Option, Most

LEMMA IntervalTyped ==
  ASSUME TypeOK, NEW c \in Coordinators
  PROVE  Interval(c) \in Nat \ {0}
  <1>1. running.options \in Choices \cup {DefaultOptions}
    BY DEF TypeOK
  <1>2. QED
    BY <1>1, OptionsTyped, BudgetAssumption DEF Interval, Option

\* What a refresh of c does to the timers and to the counts.
LEMMA RefreshTyped ==
  ASSUME TypeOK, NEW c \in Coordinators, NEW D \in SUBSET Kinds,
         NEW requests \in [D -> Nat], Refresh(c, requests)
  PROVE  /\ due' \in [Coordinators -> Nat] /\ runs' \in [Coordinators -> Nat]
         /\ sent' \in [Kinds -> Nat]
  <1>1. due' \in [Coordinators -> Nat]
    BY IntervalTyped DEF TypeOK, Refresh
  <1>2. runs' \in [Coordinators -> Nat]
    BY DEF TypeOK, Refresh
  <1>3. sent' \in [Kinds -> Nat]
    <2>1. \A k \in Kinds :
            (IF k \in DOMAIN requests THEN sent[k] + requests[k] ELSE sent[k]) \in Nat
      BY DEF TypeOK
    <2>2. QED
      BY <2>1 DEF Refresh
  <1>4. QED
    BY <1>1, <1>2, <1>3

LEMMA SliceTyped ==
  ASSUME TypeOK
  PROVE  Slice = listed
  BY Supported DEF TypeOK, Slice

LEMMA InitTyped == Init => TypeOK
  <1>1. SUFFICES ASSUME Init PROVE TypeOK
    OBVIOUS
  <1>2. PICK o \in Choices \cup {DefaultOptions}, file \in SpecFiles :
          /\ gated = (o # DefaultOptions)
          /\ options = o
          /\ running = MadeOf(o, gated, file)
    BY <1>1 DEF Init
  <1>3. gated \in BOOLEAN
    BY <1>2, Zenon
  <1>4. running \in MadeOfs
    BY <1>2, <1>3, MadeOfTyped
  <1>5. plain \in BOOLEAN
    BY <1>1, Zenon DEF Init, AsEstimated
  <1>6. reload \in BOOLEAN /\ aggregate \in BOOLEAN /\ warned \in BOOLEAN
    BY <1>1, Zenon DEF Init
  <1>7. fleet \in Nat /\ listed \in Nat /\ clock \in Nat /\ since \in Nat /\ changes \in 0..MaxChanges
    BY <1>1, BudgetAssumption DEF Init
  <1>8. due \in [Coordinators -> Nat] /\ runs \in [Coordinators -> Nat]
    BY <1>1 DEF Init
  <1>9. sent \in [Kinds -> Nat] /\ before \in [Kinds -> Nat]
    BY <1>1 DEF Init
  <1>10. QED
    BY <1>2, <1>3, <1>4, <1>5, <1>6, <1>7, <1>8, <1>9 DEF TypeOK, MadeOfs

LEMMA StepTyped == TypeOK /\ [Next]_vars => TypeOK'
  <1>1. SUFFICES ASSUME TypeOK, [Next]_vars PROVE TypeOK'
    OBVIOUS
  <1>2. ASSUME NEW o \in Choices, NEW file \in SpecFiles, SaveOptions(o, file) PROVE TypeOK'
    <2>1. changes' \in 0..MaxChanges
      BY <1>1, <1>2, BudgetAssumption DEF TypeOK, SaveOptions
    <2>2. reload' \in BOOLEAN
      BY <1>1, <1>2, Zenon DEF TypeOK, SaveOptions
    <2>3. QED
      BY <1>1, <1>2, <2>1, <2>2 DEF TypeOK, SaveOptions, hist
  <1>3. ASSUME NEW file \in SpecFiles, Reload(file) PROVE TypeOK'
    <2>1. running' \in MadeOfs
      BY <1>1, <1>3, MadeOfTyped DEF TypeOK, Reload, SetUp
    <2>2. plain' \in BOOLEAN
      BY <1>1, <1>3, Zenon DEF TypeOK, Reload
    <2>3. due' \in [Coordinators -> Nat] /\ runs' \in [Coordinators -> Nat]
      BY <1>1, <1>3 DEF TypeOK, Reload, SetUp
    <2>4. before' \in [Kinds -> Nat] /\ sent' \in [Kinds -> Nat]
      BY <1>1, <1>3 DEF TypeOK, Reload, Kinds
    <2>5. QED
      BY <1>1, <1>3, <2>1, <2>2, <2>3, <2>4 DEF TypeOK, Reload, SetUp, MadeOfs
  <1>4. ASSUME RefreshInventory PROVE TypeOK'
    <2> DEFINE requests == [inventory |-> Most(1, (fleet + PageSize - 1) \div PageSize)]
    <2>1. Refresh("inventory", requests)
      BY <1>4 DEF RefreshInventory
    <2>2. requests \in [{"inventory"} -> Nat]
      <3>1. fleet + PageSize - 1 \in Nat /\ PageSize \in Nat \ {0}
        BY <1>1, BudgetAssumption DEF TypeOK
      <3>2. (fleet + PageSize - 1) \div PageSize \in Nat
        BY <3>1, Division
      <3>3. Most(1, (fleet + PageSize - 1) \div PageSize) \in Nat
        BY <3>2 DEF Most
      <3>4. QED
        BY <3>3
    <2> HIDE DEF requests
    <2>3. /\ due' \in [Coordinators -> Nat] /\ runs' \in [Coordinators -> Nat]
          /\ sent' \in [Kinds -> Nat]
      BY <1>1, <2>1, <2>2, RefreshTyped DEF Coordinators, Kinds
    <2>4. QED
      BY <1>1, <1>4, <2>3 DEF TypeOK, RefreshInventory, Refresh, config, hist
  <1>5. ASSUME NEW answers \in BOOLEAN, RefreshState(answers) PROVE TypeOK'
    <2> DEFINE requests == [state    |-> (IF AskAggregate THEN 1 ELSE 0) + Slice,
                            fallback |-> IF AskAggregate /\ answers THEN 0 ELSE Slice,
                            location |-> IF running.options.location THEN Slice ELSE 0]
    <2>1. Refresh("state", requests)
      BY <1>5 DEF RefreshState
    <2>2. requests \in [{"state", "fallback", "location"} -> Nat]
      <3>1. Slice \in Nat
        BY <1>1, SliceTyped DEF TypeOK
      <3>2. QED
        BY <3>1
    <2> HIDE DEF requests
    <2>3. /\ due' \in [Coordinators -> Nat] /\ runs' \in [Coordinators -> Nat]
          /\ sent' \in [Kinds -> Nat]
      BY <1>1, <2>1, <2>2, RefreshTyped DEF Coordinators, Kinds
    <2>4. changes' \in 0..MaxChanges
      BY <1>1, <1>5, BudgetAssumption DEF TypeOK, RefreshState
    <2>5. aggregate' \in BOOLEAN /\ plain' \in BOOLEAN /\ warned' \in BOOLEAN
      BY <1>1, <1>5, Zenon DEF TypeOK, RefreshState
    <2>6. QED
      BY <1>1, <1>5, <2>3, <2>4, <2>5 DEF TypeOK, RefreshState, Refresh, config, hist
  <1>6. ASSUME NEW c \in {"scan", "config"}, RefreshPorts(c) PROVE TypeOK'
    <2>1. Refresh(c, [k \in {c} |-> listed]) /\ [k \in {c} |-> listed] \in [{c} -> Nat]
      BY <1>1, <1>6 DEF RefreshPorts, TypeOK
    <2>2. c \in Coordinators /\ {c} \in SUBSET Kinds
      BY DEF Coordinators, Kinds
    <2>3. /\ due' \in [Coordinators -> Nat] /\ runs' \in [Coordinators -> Nat]
          /\ sent' \in [Kinds -> Nat]
      BY <1>1, <2>1, <2>2, RefreshTyped
    <2>4. QED
      BY <1>1, <1>6, <2>3 DEF TypeOK, RefreshPorts, Refresh, config, hist
  <1>7. ASSUME NEW n \in Fleets, FleetChanges(n) PROVE TypeOK'
    <2>1. changes' \in 0..MaxChanges /\ fleet' \in Nat
      BY <1>1, <1>7, BudgetAssumption DEF TypeOK, FleetChanges
    <2>2. plain' \in BOOLEAN
      BY <1>1, <1>7, Zenon DEF TypeOK, FleetChanges
    <2>3. QED
      BY <1>1, <1>7, <2>1, <2>2 DEF TypeOK, FleetChanges, config, hist
  <1>8. ASSUME Tick PROVE TypeOK'
    <2>1. clock' \in Nat
      BY <1>1, <1>8 DEF TypeOK, Tick
    <2>2. QED
      BY <1>1, <1>8, <2>1 DEF TypeOK, Tick, config, hist
  <1>9. CASE UNCHANGED vars
    BY <1>1, <1>9 DEF TypeOK, vars, config, hist
  <1>10. QED
    BY <1>1, <1>2, <1>3, <1>4, <1>5, <1>6, <1>7, <1>8, <1>9 DEF Next

-------------------------------------------------------------------------------
(* The inductive invariant *)

LEMMA InitInv == Init => IInv
  <1>1. SUFFICES ASSUME Init PROVE IInv
    OBVIOUS
  <1>2. TypeOK
    BY <1>1, InitTyped
  <1>3. ClockInv
    <2>1. \A c \in Coordinators : due[c] = 0 /\ runs[c] = 0 /\ Interval(c) \in Nat \ {0}
      BY <1>1, <1>2, IntervalTyped DEF Init
    <2>2. QED
      BY <1>1, <2>1, BudgetAssumption DEF Init, ClockInv
  <1>4. GateInv
    <2>1. PICK o \in Choices \cup {DefaultOptions}, file \in SpecFiles :
            /\ gated => Accepts(o, file)
            /\ options = o
            /\ running = MadeOf(o, gated, file)
      BY <1>1 DEF Init
    <2>2. AggregateSupported(Load(o, file))
      BY LoadTyped, Supported, BudgetAssumption
    <2>3. gated => EstimateMonthlyRequests(o, TRUE) <= Ceiling
      BY <2>1, <2>2 DEF Accepts
    <2>4. running.options = o /\ running.gated = gated
      BY <2>1 DEF MadeOf
    <2>5. ~warned
      BY <1>1 DEF Init
    <2>6. QED
      BY <2>1, <2>3, <2>4, <2>5 DEF GateInv
  <1>5. SetUpInv
    BY <1>1 DEF Init, SetUpInv, Kinds
  <1>6. CountInv
    <2>1. /\ running.options = options /\ running.gated = gated
      BY <1>1 DEF Init, MadeOf
    <2>2. /\ \A k \in Kinds : before[k] = 0 /\ (k # "setup" => sent[k] = 0)
          /\ \A c \in Coordinators : runs[c] = 0
          /\ listed = 0
      BY <1>1 DEF Init
    <2>3. running.options.devices \in Nat /\ PageSize \in Nat
      BY <1>2, OptionsTyped, BudgetAssumption DEF TypeOK, Option
    <2>4. Calls \in Nat
      BY <2>3 DEF Calls, Least
    <2>5. plain => AsEstimated(running.options, running.gated, aggregate, fleet)
      BY <1>1, <2>1, Zenon DEF Init
    <2>6. QED
      BY <2>2, <2>3, <2>4, <2>5 DEF CountInv, Kinds, Coordinators
  <1>7. BeforeInv
    <2>1. since = 0 /\ \A k \in Kinds : before[k] = 0
      BY <1>1 DEF Init
    <2>2. /\ before["inventory"] = 0 /\ before["state"] = 0 /\ before["setup"] = 0
          /\ before["scan"] = 0 /\ before["config"] = 0
      BY <2>1 DEF Kinds, Coordinators
    <2>3. Ceiling + 1 \in Int /\ MonthSeconds \in Int /\ PageSize \in Int /\ PortInterval \in Int
      BY BudgetAssumption DEF Ceiling
    <2>4. ASSUME NEW C \in Int, NEW M \in Int, NEW p \in Int, NEW I \in Int
          PROVE  /\ M * (0 + 0) <= C * 0 + M * (0 * (2 + p))
                 /\ I * 0 <= p * (0 + I * 0)
      OBVIOUS
    <2>5. /\ MonthSeconds * (0 + 0) <= (Ceiling + 1) * 0 + MonthSeconds * (0 * (2 + PageSize))
          /\ PortInterval * 0 <= PageSize * (0 + PortInterval * 0)
      BY <2>3, <2>4, Zenon
    <2>6. QED
      BY <2>1, <2>2, <2>5, Zenon DEF BeforeInv
  <1>8. QED
    BY <1>2, <1>3, <1>4, <1>5, <1>6, <1>7 DEF IInv

LEMMA ClockStep == TypeOK /\ TypeOK' /\ ClockInv /\ [Next]_vars => ClockInv'
  <1>1. SUFFICES ASSUME TypeOK, TypeOK', ClockInv, [Next]_vars PROVE ClockInv'
    OBVIOUS
  <1>2. \A c \in Coordinators : Interval(c) \in Nat \ {0} /\ Interval(c)' \in Nat \ {0}
    <2>1. \A c \in Coordinators : Interval(c) \in Nat \ {0}
      BY <1>1, IntervalTyped
    <2>2. running'.options \in Choices \cup {DefaultOptions}
      BY <1>1 DEF TypeOK
    <2>3. \A c \in Coordinators : Interval(c)' \in Nat \ {0}
      BY <2>2, OptionsTyped, BudgetAssumption DEF Interval, Option
    <2>4. QED
      BY <2>1, <2>3
  <1>3. ASSUME UNCHANGED <<running, clock, since, due, runs>> PROVE ClockInv'
    BY <1>1, <1>3 DEF ClockInv, Interval
  <1>4. ASSUME NEW file \in SpecFiles, Reload(file) PROVE ClockInv'
    BY <1>1, <1>2, <1>4 DEF TypeOK, ClockInv, Reload, SetUp
  <1>5. ASSUME NEW c \in Coordinators, NEW requests, Refresh(c, requests),
               clock' = clock, since' = since, running' = running
        PROVE  ClockInv'
    <2>1. SUFFICES ASSUME NEW d \in Coordinators
          PROVE  /\ due'[d] = since + runs'[d] * Interval(d)
                 /\ clock <= due'[d] /\ due'[d] <= clock + Interval(d)
      BY <1>1, <1>5 DEF ClockInv, Interval
    <2>2. CASE d = c
      <3>1. due[c] = clock /\ due'[c] = clock + Interval(c) /\ runs'[c] = runs[c] + 1
        BY <1>1, <1>5 DEF Refresh, TypeOK
      <3>2. due[c] = since + runs[c] * Interval(c)
        BY <1>1 DEF ClockInv
      <3>3. runs[c] \in Nat /\ Interval(c) \in Nat /\ since \in Nat /\ clock \in Nat
        BY <1>1, <1>2 DEF TypeOK
      <3>4. (runs[c] + 1) * Interval(c) = runs[c] * Interval(c) + Interval(c)
        BY <3>3
      <3>5. runs[c] * Interval(c) \in Nat
        BY <3>3
      <3> HIDE <1>1
      <3>6. QED
        BY <2>2, <3>1, <3>2, <3>3, <3>4, <3>5
    <2>3. CASE d # c
      <3>1. due'[d] = due[d] /\ runs'[d] = runs[d]
        BY <1>1, <1>5, <2>3 DEF Refresh, TypeOK
      <3>2. QED
        BY <1>1, <3>1 DEF ClockInv
    <2>4. QED
      BY <2>2, <2>3
  <1>6. ASSUME Tick PROVE ClockInv'
    <2>1. PICK c \in Coordinators : /\ \A e \in Coordinators : due[c] <= due[e]
                                   /\ due[c] < MonthSeconds
                                   /\ clock' = due[c]
      BY <1>6 DEF Tick
    <2>2. UNCHANGED <<running, since, due, runs>>
      BY <1>6 DEF Tick, config, hist
    <2>3. \A e \in Coordinators : due[e] \in Nat /\ Interval(e)' = Interval(e)
      BY <1>1, <2>2 DEF TypeOK, Interval
    <2>4. clock \in Nat /\ since \in Nat /\ clock <= due[c]
      BY <1>1 DEF TypeOK, ClockInv
    <2>5. since' <= clock' /\ clock' < MonthSeconds
      BY <1>1, <2>1, <2>2, <2>3, <2>4 DEF ClockInv
    <2>6. ASSUME NEW e \in Coordinators
          PROVE  /\ due'[e] = since' + runs'[e] * Interval(e)'
                 /\ clock' <= due'[e] /\ due'[e] <= clock' + Interval(e)'
      <3>1. due[e] = since + runs[e] * Interval(e) /\ due[e] <= clock + Interval(e)
        BY <1>1 DEF ClockInv
      <3>2. QED
        BY <1>2, <2>1, <2>2, <2>3, <2>4, <3>1
    <2>7. QED
      BY <2>5, <2>6 DEF ClockInv
  <1>7. CASE \E o \in Choices, file \in SpecFiles : SaveOptions(o, file)
    BY <1>3, <1>7 DEF SaveOptions, hist
  <1>8. CASE RefreshInventory
    BY <1>5, <1>8 DEF RefreshInventory, Refresh, config, hist, Coordinators
  <1>9. ASSUME NEW answers \in BOOLEAN, RefreshState(answers) PROVE ClockInv'
    <2>1. PICK requests : Refresh("state", requests)
      BY <1>9 DEF RefreshState
    <2>2. QED
      BY <1>5, <2>1 DEF Refresh, config, hist, Coordinators
  <1>10. ASSUME NEW c \in {"scan", "config"}, RefreshPorts(c) PROVE ClockInv'
    <2>1. PICK requests : Refresh(c, requests)
      BY <1>10 DEF RefreshPorts
    <2>2. QED
      BY <1>5, <2>1 DEF Refresh, config, hist, Coordinators
  <1>11. CASE \E n \in Fleets : FleetChanges(n)
    BY <1>3, <1>11 DEF FleetChanges, config, hist
  <1>12. CASE UNCHANGED vars
    BY <1>3, <1>12 DEF vars, config, hist
  <1>13. QED
    BY <1>1, <1>4, <1>6, <1>7, <1>8, <1>9, <1>10, <1>11, <1>12 DEF Next

LEMMA GateStep == TypeOK /\ GateInv /\ [Next]_vars => GateInv'
  <1>1. SUFFICES ASSUME TypeOK, GateInv, [Next]_vars PROVE GateInv'
    OBVIOUS
  <1>2. ASSUME UNCHANGED <<options, gated, running, warned>> PROVE GateInv'
    BY <1>1, <1>2 DEF GateInv
  <1>3. ASSUME NEW o \in Choices, NEW file \in SpecFiles, SaveOptions(o, file) PROVE GateInv'
    <2>1. AggregateSupported(Load(o, file))
      BY LoadTyped, Supported, BudgetAssumption
    <2>2. EstimateMonthlyRequests(o, TRUE) <= Ceiling
      BY <1>3, <2>1 DEF SaveOptions, Accepts
    <2>3. QED
      BY <1>1, <1>3, <2>2 DEF GateInv, SaveOptions
  <1>4. ASSUME NEW file \in SpecFiles, Reload(file) PROVE GateInv'
    <2>1. /\ running'.options = options /\ running'.gated = gated /\ ~warned'
          /\ options' = options /\ gated' = gated
      BY <1>4 DEF Reload, SetUp, MadeOf
    <2>2. QED
      BY <1>1, <2>1 DEF GateInv
  <1>5. ASSUME NEW answers \in BOOLEAN, RefreshState(answers) PROVE GateInv'
    <2>1. options' = options /\ gated' = gated /\ running' = running
      BY <1>5 DEF RefreshState, Refresh, config
    <2>2. running.gated => ~LogBudgetWarning(running.options, running.matrix)
      <3>1. AggregateSupported(running.matrix)
        BY <1>1, Supported DEF TypeOK
      <3>2. running.options \in Option
        BY <1>1, OptionsTyped DEF TypeOK
      <3>3. EstimateMonthlyRequests(running.options, TRUE) \in Int /\ Ceiling \in Int
        <4>1. \A n \in Nat : n \in Int
          OBVIOUS
        <4>2. QED
          BY <3>2, <4>1, EstimateTyped, CeilingTyped, Zenon
      <3>4. running.gated => EstimateMonthlyRequests(running.options, TRUE) <= Ceiling
        BY <1>1 DEF GateInv
      <3>5. running.gated => ~(EstimateMonthlyRequests(running.options, TRUE) > Ceiling)
        <4>1. \A x, y \in Int : x <= y => ~(x > y)
          OBVIOUS
        <4>2. QED
          BY <3>3, <3>4, <4>1, Zenon
      <3>6. AggregateSupported(running.matrix) = TRUE
        BY <3>1 DEF AggregateSupported
      <3>7. QED
        BY <3>5, <3>6, Zenon DEF LogBudgetWarning
    <2>3. running.gated => ~warned'
      BY <1>1, <1>5, <2>2, Zenon DEF GateInv, RefreshState
    <2>4. QED
      BY <1>1, <2>1, <2>3 DEF GateInv
  <1>6. CASE RefreshInventory
    BY <1>2, <1>6 DEF RefreshInventory, Refresh, config
  <1>7. ASSUME NEW c \in {"scan", "config"}, RefreshPorts(c) PROVE GateInv'
    BY <1>2, <1>7 DEF RefreshPorts, Refresh, config
  <1>8. CASE \E n \in Fleets : FleetChanges(n)
    BY <1>2, <1>8 DEF FleetChanges, config
  <1>9. CASE Tick
    BY <1>2, <1>9 DEF Tick, config
  <1>10. CASE UNCHANGED vars
    BY <1>2, <1>10 DEF vars, config
  <1>11. QED
    BY <1>1, <1>3, <1>4, <1>5, <1>6, <1>7, <1>8, <1>9, <1>10 DEF Next

\* A refresh adds what it requests, and only that.
LEMMA RefreshSends ==
  ASSUME TypeOK, NEW c \in Coordinators, NEW requests, Refresh(c, requests)
  PROVE  /\ before' = before /\ since' = since /\ running' = running /\ fleet' = fleet
         /\ reload' = reload
         /\ \A k \in Kinds : /\ k \notin DOMAIN requests => sent'[k] = sent[k]
                             /\ k \in DOMAIN requests => sent'[k] = sent[k] + requests[k]
         /\ runs'[c] = runs[c] + 1
         /\ \A d \in Coordinators : d # c => runs'[d] = runs[d]
  BY DEF TypeOK, Refresh, config, hist

LEMMA SetUpStep == TypeOK /\ SetUpInv /\ [Next]_vars => SetUpInv'
  <1>1. SUFFICES ASSUME TypeOK, SetUpInv, [Next]_vars PROVE SetUpInv'
    OBVIOUS
  <1>2. before["setup"] \in Nat /\ sent["setup"] \in Nat /\ changes \in Nat /\ reload \in BOOLEAN
    BY <1>1, BudgetAssumption DEF TypeOK, Kinds
  <1>3. ASSUME sent'["setup"] = sent["setup"], before' = before, reload' = reload,
               changes' = changes \/ changes' = changes + 1
        PROVE  SetUpInv'
    BY <1>1, <1>2, <1>3 DEF SetUpInv
  <1>4. ASSUME NEW o \in Choices, NEW file \in SpecFiles, SaveOptions(o, file) PROVE SetUpInv'
    <2>1. sent' = sent /\ before' = before /\ changes' = changes + 1
      BY <1>4 DEF SaveOptions, hist
    <2>2. QED
      BY <1>1, <1>2, <2>1 DEF SetUpInv
  <1>5. ASSUME NEW file \in SpecFiles, Reload(file) PROVE SetUpInv'
    <2>1. /\ reload /\ ~reload' /\ before' = sent /\ changes' = changes
          /\ sent'["setup"] = sent["setup"] + 1
      BY <1>1, <1>5 DEF Reload, SetUp, TypeOK, Kinds
    <2>2. QED
      BY <1>1, <1>2, <2>1 DEF SetUpInv
  <1>6. ASSUME NEW c \in Coordinators, NEW requests, Refresh(c, requests),
               "setup" \notin DOMAIN requests, changes' = changes \/ changes' = changes + 1
        PROVE  SetUpInv'
    <2>1. /\ before' = before /\ reload' = reload
          /\ \A k \in Kinds : k \notin DOMAIN requests => sent'[k] = sent[k]
      BY <1>6 DEF Refresh, config, hist
    <2>2. sent'["setup"] = sent["setup"]
      BY <1>6, <2>1 DEF Kinds
    <2>3. QED
      BY <1>3, <1>6, <2>1, <2>2
  <1>7. CASE RefreshInventory
    <2>1. PICK requests : Refresh("inventory", requests) /\ DOMAIN requests = {"inventory"}
      BY <1>7 DEF RefreshInventory
    <2>2. QED
      BY <1>6, <1>7, <2>1 DEF RefreshInventory, Coordinators
  <1>8. ASSUME NEW answers \in BOOLEAN, RefreshState(answers) PROVE SetUpInv'
    <2>1. PICK requests : /\ Refresh("state", requests)
                          /\ DOMAIN requests = {"state", "fallback", "location"}
      BY <1>8 DEF RefreshState
    <2>2. QED
      BY <1>6, <1>8, <2>1 DEF RefreshState, Coordinators
  <1>9. ASSUME NEW c \in {"scan", "config"}, RefreshPorts(c) PROVE SetUpInv'
    <2>1. PICK requests : Refresh(c, requests) /\ DOMAIN requests = {c}
      BY <1>9 DEF RefreshPorts
    <2>2. QED
      BY <1>6, <1>9, <2>1 DEF RefreshPorts, Coordinators
  <1>10. CASE \E n \in Fleets : FleetChanges(n)
    BY <1>3, <1>10 DEF FleetChanges, config, hist
  <1>11. CASE Tick
    BY <1>3, <1>11 DEF Tick, config, hist
  <1>12. CASE UNCHANGED vars
    BY <1>3, <1>12 DEF vars, config, hist
  <1>13. QED
    BY <1>1, <1>4, <1>5, <1>7, <1>8, <1>9, <1>10, <1>11, <1>12 DEF Next

\* At a refresh since set-up, a coordinator sends at most p requests more.
LEMMA OneMore ==
  ASSUME NEW x \in Nat, NEW b \in Nat, NEW n \in Nat, NEW p \in Nat, NEW r \in Nat,
         x <= b + n * p, r <= p
  PROVE  x + r <= b + (n + 1) * p
  <1>1. (n + 1) * p = n * p + p /\ n * p \in Nat
    OBVIOUS
  <1>2. QED
    BY <1>1

LEMMA CountStep == TypeOK /\ TypeOK' /\ CountInv /\ [Next]_vars => CountInv'
  <1>1. SUFFICES ASSUME TypeOK, TypeOK', CountInv, [Next]_vars, plain' PROVE CountInv'
    BY DEF CountInv
  <1>2. /\ \A k \in Kinds : sent[k] \in Nat /\ before[k] \in Nat
        /\ \A c \in Coordinators : runs[c] \in Nat
        /\ listed \in Nat /\ fleet \in Nat /\ PageSize \in Nat \ {0}
    BY <1>1, BudgetAssumption DEF TypeOK
  <1>3. running.options.devices \in Nat
    BY <1>1, OptionsTyped DEF TypeOK, Option
  <1>4. Calls \in Nat
    BY <1>2, <1>3 DEF Calls, Least
  <1>5. ASSUME UNCHANGED <<running, aggregate, fleet, listed, before, runs, sent, plain>>
        PROVE  CountInv'
    BY <1>1, <1>5 DEF CountInv, Calls, AsEstimated
  <1>6. ASSUME NEW file \in SpecFiles, Reload(file) PROVE CountInv'
    <2>1. /\ plain /\ before' = sent /\ listed' = 0 /\ aggregate' /\ fleet' = fleet
          /\ running'.options = options /\ running'.gated = gated
          /\ AsEstimated(options, gated, TRUE, fleet)
          /\ \A c \in Coordinators : runs'[c] = 0
          /\ \A k \in Kinds \ {"setup"} : sent'[k] = sent[k]
      BY <1>1, <1>6 DEF Reload, SetUp, MadeOf, TypeOK
    <2>2. AsEstimated(running.options, running.gated, aggregate, fleet)'
      BY <2>1 DEF AsEstimated
    <2>3. running'.options.devices \in Nat /\ Calls' \in Nat
      <3>1. running'.options.devices \in Nat
        BY <1>1, OptionsTyped DEF TypeOK, Option
      <3>2. QED
        BY <1>2, <3>1 DEF Calls, Least
    <2>4. sent["location"] = 0 /\ sent["fallback"] = 0
      BY <1>1, <2>1 DEF CountInv
    <2>5. /\ 0 * Calls' = 0 /\ 0 * PageSize = 0
      <3>1. \A x \in Nat : 0 * x = 0
        OBVIOUS
      <3>2. PageSize \in Nat
        BY <1>2
      <3>3. QED
        BY <2>3, <3>1, <3>2, Zenon
    <2>6. /\ runs'["inventory"] = 0 /\ runs'["state"] = 0
          /\ \A c \in {"scan", "config"} : runs'[c] = 0
      BY <2>1 DEF Coordinators
    <2>7. /\ sent'["inventory"] = before'["inventory"] + 0
          /\ sent'["state"] <= before'["state"] + 0
          /\ \A c \in {"scan", "config"} : sent'[c] <= before'[c] + 0
          /\ sent'["location"] = 0 /\ sent'["fallback"] = 0
      BY <1>2, <2>1, <2>4 DEF Kinds, Coordinators
    <2>8. 0 <= running'.options.devices /\ 0 <= PageSize
      BY <1>2, <2>3
    <2>9. QED
      BY <2>1, <2>2, <2>5, <2>6, <2>7, <2>8, Zenon DEF CountInv
  <1>7. CASE RefreshInventory
    <2> DEFINE requests == [inventory |-> Most(1, (fleet + PageSize - 1) \div PageSize)]
    <2>1. /\ Refresh("inventory", requests) /\ listed' = fleet
          /\ aggregate' = aggregate /\ plain' = plain
      BY <1>7 DEF RefreshInventory
    <2>2. AsEstimated(running.options, running.gated, aggregate, fleet)
      BY <1>1, <2>1 DEF CountInv
    <2>3. DOMAIN requests = {"inventory"} /\ requests["inventory"] = 1
      <3>1. fleet <= PageSize
        BY <2>2 DEF AsEstimated
      <3> DEFINE q == (fleet + PageSize - 1) \div PageSize
                 r == (fleet + PageSize - 1) % PageSize
      <3>2. /\ q \in Nat /\ r \in Nat /\ fleet + PageSize - 1 = PageSize * q + r
        BY <1>2, Division
      <3>3. q <= 1
        <4> HIDE DEF q, r
        <4>1. SUFFICES ASSUME 2 <= q PROVE FALSE
          BY <3>2
        <4>2. PageSize * 2 <= PageSize * q
          BY <1>2, <3>2, <4>1, Monotone
        <4>3. PageSize * q \in Nat
          BY <1>2, <3>2
        <4>4. QED
          BY <1>2, <3>1, <3>2, <4>2, <4>3
      <3>4. Most(1, q) = 1
        <4> HIDE DEF q
        <4>1. QED
          BY <3>2, <3>3 DEF Most
      <3>5. QED
        BY <3>4
    <2> HIDE DEF requests
    <2>4. /\ before' = before /\ running' = running /\ fleet' = fleet
          /\ \A k \in Kinds : /\ k \notin DOMAIN requests => sent'[k] = sent[k]
                              /\ k \in DOMAIN requests => sent'[k] = sent[k] + requests[k]
          /\ runs'["inventory"] = runs["inventory"] + 1
          /\ \A d \in Coordinators : d # "inventory" => runs'[d] = runs[d]
      BY <1>1, <2>1, RefreshSends DEF Coordinators
    <2>5. /\ sent'["inventory"] = sent["inventory"] + 1
          /\ \A k \in Kinds \ {"inventory"} : sent'[k] = sent[k]
      <3>1. "inventory" \in Kinds /\ "inventory" \in DOMAIN requests
        BY <2>3, <2>4 DEF Kinds, Coordinators
      <3>2. ASSUME NEW k \in Kinds, k \notin DOMAIN requests PROVE sent'[k] = sent[k]
        BY <2>4, <3>2
      <3>3. QED
        BY <2>3, <2>4, <3>1, <3>2
    <2>6. fleet <= running.options.devices /\ fleet <= PageSize
      BY <2>2 DEF AsEstimated
    <2>7. AsEstimated(running.options, running.gated, aggregate, fleet)'
      BY <2>1, <2>2, <2>4 DEF AsEstimated
    <2>8. SUFFICES ASSUME plain PROVE CountInv'
      BY <2>1 DEF CountInv
    <2>9. /\ listed' <= running'.options.devices /\ listed' <= PageSize
      BY <2>1, <2>4, <2>6
    <2>10. /\ sent'["location"] = sent["location"] /\ sent'["fallback"] = sent["fallback"]
           /\ sent'["state"] = sent["state"]
           /\ sent'["scan"] = sent["scan"] /\ sent'["config"] = sent["config"]
           /\ runs'["state"] = runs["state"]
           /\ runs'["scan"] = runs["scan"] /\ runs'["config"] = runs["config"]
      BY <2>4, <2>5 DEF Kinds, Coordinators
    <2>11. sent'["inventory"] = before'["inventory"] + runs'["inventory"]
      <3>1. sent["inventory"] = before["inventory"] + runs["inventory"]
        BY <1>1, <2>8 DEF CountInv
      <3>2. /\ before["inventory"] \in Nat /\ runs["inventory"] \in Nat
            /\ before'["inventory"] = before["inventory"]
            /\ runs'["inventory"] = runs["inventory"] + 1
        BY <1>2, <2>4 DEF Kinds, Coordinators
      <3>3. QED
        BY <2>5, <3>1, <3>2
    <2>12. sent'["location"] = 0 /\ sent'["fallback"] = 0
      BY <1>1, <2>8, <2>10 DEF CountInv
    <2>13. sent'["state"] <= before'["state"] + runs'["state"] * Calls'
      <3>1. sent["state"] <= before["state"] + runs["state"] * Calls
        BY <1>1, <2>8 DEF CountInv
      <3>2. Calls' = Calls
        BY <2>4 DEF Calls
      <3>3. QED
        BY <2>4, <2>10, <3>1, <3>2
    <2>14. \A c \in {"scan", "config"} : sent'[c] <= before'[c] + runs'[c] * PageSize
      BY <1>1, <2>4, <2>8, <2>10 DEF CountInv
    <2>15. QED
      BY <2>7, <2>9, <2>11, <2>12, <2>13, <2>14 DEF CountInv
  <1>8. ASSUME NEW answers \in BOOLEAN, RefreshState(answers) PROVE CountInv'
    <2> DEFINE requests == [state    |-> (IF AskAggregate THEN 1 ELSE 0) + Slice,
                            fallback |-> IF AskAggregate /\ answers THEN 0 ELSE Slice,
                            location |-> IF running.options.location THEN Slice ELSE 0]
    <2>1. /\ Refresh("state", requests) /\ listed' = listed
          /\ plain /\ answers /\ aggregate' = (aggregate /\ answers)
      BY <1>1, <1>8 DEF RefreshState
    <2>2. /\ AsEstimated(running.options, running.gated, aggregate, fleet)
          /\ listed <= running.options.devices /\ listed <= PageSize
      BY <1>1, <2>1 DEF CountInv
    <2>3. Slice = listed
      BY <1>1, SliceTyped
    <2>4. AskAggregate \/ listed = 0
      <3>1. AggregateSupported(running.matrix)
        BY <1>1, Supported DEF TypeOK
      <3>2. QED
        BY <1>2, <2>2, <3>1 DEF AskAggregate, AsEstimated
    <2>5. /\ DOMAIN requests = {"state", "fallback", "location"}
          /\ requests["fallback"] = 0 /\ requests["location"] = 0
          /\ requests["state"] \in Nat /\ requests["state"] <= 1 + listed
      BY <1>2, <2>1, <2>2, <2>3, <2>4 DEF AsEstimated
    <2> HIDE DEF requests
    <2>6. /\ before' = before /\ running' = running /\ fleet' = fleet
          /\ \A k \in Kinds : /\ k \notin DOMAIN requests => sent'[k] = sent[k]
                              /\ k \in DOMAIN requests => sent'[k] = sent[k] + requests[k]
          /\ runs'["state"] = runs["state"] + 1
          /\ \A d \in Coordinators : d # "state" => runs'[d] = runs[d]
      BY <1>1, <2>1, RefreshSends DEF Coordinators
    <2>7. /\ sent'["state"] = sent["state"] + requests["state"]
          /\ \A k \in Kinds \ {"state"} : sent'[k] = sent[k]
      <3>1. "state" \in Kinds /\ "state" \in DOMAIN requests
        BY <1>2, <2>5, <2>6 DEF Kinds, Coordinators
      <3>2. ASSUME NEW k \in Kinds, k \notin DOMAIN requests PROVE sent'[k] = sent[k]
        BY <2>6, <3>2
      <3>3. QED
        BY <1>2, <2>5, <2>6, <3>1, <3>2
    <2>8. requests["state"] <= Calls
      BY <1>2, <1>3, <2>2, <2>5 DEF Calls, Least
    <2>9. sent'["state"] <= before'["state"] + runs'["state"] * Calls'
      <3>1. sent["state"] <= before["state"] + runs["state"] * Calls
        BY <1>1, <2>1 DEF CountInv
      <3>2. sent["state"] \in Nat /\ before["state"] \in Nat /\ runs["state"] \in Nat
        BY <1>2 DEF Kinds, Coordinators
      <3>3. sent["state"] + requests["state"] <= before["state"] + (runs["state"] + 1) * Calls
        BY <1>4, <2>5, <2>8, <3>1, <3>2, OneMore
      <3>4. Calls' = Calls
        BY <2>6 DEF Calls
      <3>5. QED
        BY <2>6, <2>7, <3>3, <3>4
    <2>10. AsEstimated(running.options, running.gated, aggregate, fleet)'
      BY <2>1, <2>2, <2>6 DEF AsEstimated
    <2>11. QED
      BY <1>1, <1>2, <2>1, <2>2, <2>6, <2>7, <2>9, <2>10 DEF CountInv, Kinds, Coordinators
  <1>9. ASSUME NEW c \in {"scan", "config"}, RefreshPorts(c) PROVE CountInv'
    <2> DEFINE requests == [k \in {c} |-> listed]
    <2>1. /\ Refresh(c, requests) /\ listed' = listed /\ plain
          /\ aggregate' = aggregate
      BY <1>1, <1>9 DEF RefreshPorts
    <2>2. DOMAIN requests = {c} /\ requests[c] = listed
      OBVIOUS
    <2> HIDE DEF requests
    <2>3. /\ before' = before /\ running' = running /\ fleet' = fleet
          /\ \A k \in Kinds : /\ k \notin DOMAIN requests => sent'[k] = sent[k]
                              /\ k \in DOMAIN requests => sent'[k] = sent[k] + requests[k]
          /\ runs'[c] = runs[c] + 1
          /\ \A d \in Coordinators : d # c => runs'[d] = runs[d]
      BY <1>1, <2>1, RefreshSends DEF Coordinators
    <2>4. /\ sent'[c] = sent[c] + listed
          /\ \A k \in Kinds \ {c} : sent'[k] = sent[k]
      <3>1. c \in Kinds /\ c \in DOMAIN requests
        BY <2>2, <2>3 DEF Kinds, Coordinators
      <3>2. ASSUME NEW k \in Kinds, k \notin DOMAIN requests PROVE sent'[k] = sent[k]
        BY <2>3, <3>2
      <3>3. QED
        BY <2>2, <2>3, <3>1, <3>2
    <2>5. sent'[c] <= before'[c] + runs'[c] * PageSize
      <3>1. sent[c] <= before[c] + runs[c] * PageSize /\ listed <= PageSize
        BY <1>1, <2>1 DEF CountInv
      <3>2. sent[c] \in Nat /\ before[c] \in Nat /\ runs[c] \in Nat
        BY <1>2 DEF Kinds, Coordinators
      <3>3. sent[c] + listed <= before[c] + (runs[c] + 1) * PageSize
        BY <1>2, <3>1, <3>2, OneMore
      <3>4. QED
        BY <2>3, <2>4, <3>3
    <2>6. Calls' = Calls
      BY <2>3 DEF Calls
    <2>7. AsEstimated(running.options, running.gated, aggregate, fleet)'
      BY <1>1, <2>1, <2>3 DEF AsEstimated, CountInv
    <2>8. QED
      BY <1>1, <2>1, <2>3, <2>4, <2>5, <2>6, <2>7 DEF CountInv, Kinds, Coordinators
  <1>10. ASSUME NEW n \in Fleets, FleetChanges(n) PROVE CountInv'
    <2>1. /\ plain /\ AsEstimated(running.options, running.gated, aggregate, n)
          /\ fleet' = n
          /\ UNCHANGED <<running, aggregate, listed, before, runs, sent>>
      BY <1>1, <1>10 DEF FleetChanges, config, hist
    <2>2. AsEstimated(running.options, running.gated, aggregate, fleet)'
      BY <2>1 DEF AsEstimated
    <2>3. Calls' = Calls
      BY <2>1 DEF Calls
    <2>4. QED
      BY <1>1, <2>1, <2>2, <2>3 DEF CountInv
  <1>11. CASE \E o \in Choices, file \in SpecFiles : SaveOptions(o, file)
    BY <1>5, <1>11 DEF SaveOptions, hist
  <1>12. CASE Tick
    BY <1>5, <1>12 DEF Tick, config, hist
  <1>13. CASE UNCHANGED vars
    BY <1>5, <1>13 DEF vars, config, hist
  <1>14. QED
    BY <1>1, <1>6, <1>7, <1>8, <1>9, <1>10, <1>11, <1>12, <1>13 DEF Next

\* Shares of two times, one after the other, are a share of the whole.
LEMMA Together ==
  ASSUME NEW M \in Nat, NEW C \in Nat, NEW e \in Nat, NEW t \in Nat, t <= e,
         NEW b \in Nat, NEW w \in Nat, NEW g \in Nat, NEW q \in Nat, NEW p \in Nat, NEW u \in Nat,
         M * b <= C * t + M * (g * (2 + p)), M * w <= C * (e - t) + M * (1 + q),
         q <= 1 + p, u <= b + w
  PROVE  M * u <= C * e + M * ((g + 1) * (2 + p))
  <1>1. M * u <= M * (b + w)
    BY Monotone
  <1>2. M * (1 + q) <= M * (2 + p)
    BY Monotone
  <1>3. M * (b + w) = M * b + M * w
    OBVIOUS
  <1>4. M * ((g + 1) * (2 + p)) = M * (g * (2 + p)) + M * (2 + p)
    OBVIOUS
  <1>5. C * (e - t) = C * e - C * t
    OBVIOUS
  <1>6. /\ M * u \in Int /\ M * (b + w) \in Int /\ M * b \in Int /\ M * w \in Int
        /\ M * (1 + q) \in Int /\ M * (2 + p) \in Int /\ M * (g * (2 + p)) \in Int
        /\ C * e \in Int /\ C * t \in Int
    OBVIOUS
  <1>7. QED
    BY <1>1, <1>2, <1>3, <1>4, <1>5, <1>6

LEMMA PortsTogether ==
  ASSUME NEW I \in Nat, NEW p \in Nat, NEW e \in Nat, NEW t \in Nat, t <= e,
         NEW b \in Nat, NEW w \in Nat, NEW g \in Nat, NEW u \in Nat,
         I * b <= p * (t + I * g), I * w <= p * ((e - t) + I), u <= b + w
  PROVE  I * u <= p * (e + I * (g + 1))
  <1>1. I * u <= I * (b + w)
    BY Monotone
  <1>2. I * (b + w) = I * b + I * w
    OBVIOUS
  <1>3. p * (t + I * g) + p * ((e - t) + I) = p * (e + I * (g + 1))
    OBVIOUS
  <1>4. /\ I * u \in Int /\ I * (b + w) \in Int /\ I * b \in Int /\ I * w \in Int
        /\ p * (t + I * g) \in Int /\ p * ((e - t) + I) \in Int
    OBVIOUS
  <1>5. QED
    BY <1>1, <1>2, <1>3, <1>4

\* So far, a plain month has sent its share of the time passed, beside the first
\* refreshes after each set-up.
LEMMA SoFar ==
  ASSUME IInv, plain
  PROVE  /\ MonthSeconds * (sent["inventory"] + sent["state"])
              <= (Ceiling + 1) * clock + MonthSeconds * (sent["setup"] * (2 + PageSize))
         /\ \A c \in {"scan", "config"} :
              PortInterval * sent[c] <= PageSize * (clock + PortInterval * sent["setup"])
  <1> DEFINE o == running.options
  <1>1. /\ \A k \in Kinds : sent[k] \in Nat /\ before[k] \in Nat
        /\ \A c \in Coordinators : runs[c] \in Nat
        /\ clock \in Nat /\ since \in Nat /\ since <= clock
    BY DEF IInv, TypeOK, ClockInv
  <1>2. PageSize \in Nat /\ MonthSeconds \in Nat /\ PortInterval \in Nat \ {0}
    BY BudgetAssumption
  <1>3. o \in Option /\ Most(60, o.inventory) = o.inventory /\ Most(60, o.state) = o.state
    BY OptionsTyped DEF IInv, TypeOK
  <1>4. o.devices \in Nat /\ o.inventory \in Nat /\ o.state \in Nat
    BY <1>3 DEF Option
  <1>5. Calls \in Nat /\ Calls <= 1 + o.devices /\ Calls <= 1 + PageSize
    BY <1>2, <1>4 DEF Calls, Least
  <1>6. sent["setup"] = before["setup"] + 1
    BY DEF IInv, SetUpInv
  <1>7. ASSUME NEW c \in Coordinators
        PROVE  runs[c] * Interval(c) <= (clock - since) + Interval(c)
    <2>1. due[c] = since + runs[c] * Interval(c) /\ due[c] <= clock + Interval(c)
      BY DEF IInv, ClockInv
    <2>2. Interval(c) \in Nat
      BY IntervalTyped DEF IInv
    <2>3. runs[c] * Interval(c) \in Nat
      BY <1>1, <2>2
    <2>4. QED
      BY <1>1, <2>1, <2>2, <2>3
  <1>8. clock - since \in Nat
    BY <1>1
  <1>9. MonthSeconds * (sent["inventory"] + sent["state"])
          <= (Ceiling + 1) * clock + MonthSeconds * (sent["setup"] * (2 + PageSize))
    <2> DEFINE n == runs["inventory"]
               m == runs["state"]
               b == before["inventory"] + before["state"]
               u == sent["inventory"] + sent["state"]
    <2>1. n \in Nat /\ m \in Nat /\ b \in Nat /\ u \in Nat /\ before["setup"] \in Nat
      BY <1>1 DEF Kinds, Coordinators
    <2>2. n * o.inventory <= (clock - since) + o.inventory /\ m * o.state <= (clock - since) + o.state
      BY <1>3, <1>7 DEF Interval, Coordinators
    <2>3. EstimateMonthlyRequests(o, TRUE) <= Ceiling
      BY DEF IInv, GateInv, CountInv, AsEstimated
    <2>4. MonthSeconds * (n + m * Calls)
            <= (Ceiling + 1) * (clock - since) + MonthSeconds * (1 + Calls)
      BY <1>3, <1>5, <1>8, <2>1, <2>2, <2>3, CeilingTyped, Share, Zenon
    <2>5. u <= b + (n + m * Calls)
      <3>1. /\ sent["inventory"] = before["inventory"] + n
            /\ sent["state"] <= before["state"] + m * Calls
        BY DEF IInv, CountInv
      <3>2. m * Calls \in Nat
        BY <1>5, <2>1
      <3>3. QED
        BY <1>1, <2>1, <3>1, <3>2 DEF Kinds, Coordinators
    <2>6. MonthSeconds * b
            <= (Ceiling + 1) * since + MonthSeconds * (before["setup"] * (2 + PageSize))
      BY DEF IInv, BeforeInv
    <2>7. n + m * Calls \in Nat /\ Ceiling + 1 \in Nat
      BY <1>5, <2>1, CeilingTyped
    <2> HIDE DEF n, m, b, u
    <2>8. MonthSeconds * u
            <= (Ceiling + 1) * clock + MonthSeconds * ((before["setup"] + 1) * (2 + PageSize))
      BY <1>1, <1>2, <1>5, <2>1, <2>4, <2>5, <2>6, <2>7, Together, Zenon
    <2>9. QED
      BY <1>6, <2>8 DEF u
  <1>10. ASSUME NEW c \in {"scan", "config"}
         PROVE  PortInterval * sent[c] <= PageSize * (clock + PortInterval * sent["setup"])
    <2>1. c \in Coordinators /\ c \in Kinds /\ "setup" \in Kinds /\ Interval(c) = PortInterval
      BY DEF Coordinators, Kinds, Interval
    <2>2. PortInterval * (runs[c] * PageSize) <= PageSize * ((clock - since) + PortInterval)
      BY <1>1, <1>2, <1>7, <1>8, <2>1, PortShare
    <2>3. sent[c] <= before[c] + runs[c] * PageSize
      BY DEF IInv, CountInv
    <2>4. PortInterval * before[c] <= PageSize * (since + PortInterval * before["setup"])
      BY DEF IInv, BeforeInv
    <2>5. runs[c] * PageSize \in Nat /\ PortInterval \in Nat
      BY <1>1, <1>2, <2>1
    <2>6. PortInterval * sent[c] <= PageSize * (clock + PortInterval * (before["setup"] + 1))
      BY <1>1, <1>2, <2>1, <2>2, <2>3, <2>4, <2>5, PortsTogether, Zenon
    <2>7. QED
      BY <1>6, <2>6
  <1>11. QED
    BY <1>9, <1>10

LEMMA BeforeStep == IInv /\ [Next]_vars => BeforeInv'
  <1>1. SUFFICES ASSUME IInv, [Next]_vars PROVE BeforeInv'
    OBVIOUS
  <1>2. ASSUME UNCHANGED <<before, since>>, plain' => plain PROVE BeforeInv'
    BY <1>1, <1>2 DEF IInv, BeforeInv
  <1>3. ASSUME NEW file \in SpecFiles, Reload(file) PROVE BeforeInv'
    <2>1. before' = sent /\ since' = clock /\ (plain' => plain)
      BY <1>3 DEF Reload, SetUp
    <2>2. QED
      BY <1>1, <2>1, SoFar, Zenon DEF BeforeInv
  <1>4. CASE \E o \in Choices, file \in SpecFiles : SaveOptions(o, file)
    BY <1>2, <1>4 DEF SaveOptions, hist
  <1>5. CASE RefreshInventory
    BY <1>2, <1>5 DEF RefreshInventory, Refresh, hist
  <1>6. ASSUME NEW answers \in BOOLEAN, RefreshState(answers) PROVE BeforeInv'
    BY <1>2, <1>6, Zenon DEF RefreshState, Refresh, hist
  <1>7. ASSUME NEW c \in {"scan", "config"}, RefreshPorts(c) PROVE BeforeInv'
    BY <1>2, <1>7, Zenon DEF RefreshPorts, Refresh, hist
  <1>8. ASSUME NEW n \in Fleets, FleetChanges(n) PROVE BeforeInv'
    BY <1>2, <1>8, Zenon DEF FleetChanges, hist
  <1>9. CASE Tick
    BY <1>2, <1>9 DEF Tick, hist
  <1>10. CASE UNCHANGED vars
    BY <1>2, <1>10 DEF vars, hist
  <1>11. QED
    BY <1>1, <1>3, <1>4, <1>5, <1>6, <1>7, <1>8, <1>9, <1>10 DEF Next

-------------------------------------------------------------------------------
(* Theorems *)

\* The clocks, the counts and what the coordinators were made of fit each other
\* in every reachable state.
THEOREM Inductive == Spec => []IInv
  <1>1. Init => IInv
    BY InitInv
  <1>2. IInv /\ [Next]_vars => IInv'
    BY StepTyped, ClockStep, GateStep, SetUpStep, CountStep, BeforeStep DEF IInv
  <1>3. QED
    BY <1>1, <1>2, PTL DEF Spec

\* load_endpoint_matrix: the aggregate path is always there, and the path of
\* async_get_device_history never.
THEOREM MatrixKeys == Spec => []KeysAreFrozen
  <1>1. IInv => KeysAreFrozen
    BY Supported DEF IInv, TypeOK, KeysAreFrozen
  <1>2. QED
    BY <1>1, Inductive, PTL

\* format_path: whatever file is read, as long as it names devices as the client
\* does, no request has a placeholder left in its path.
THEOREM PathsComplete == Spec => []PathsConcrete
  <1>1. Init => PathsConcrete
    <2>1. SUFFICES ASSUME Init PROVE PathsConcrete
      OBVIOUS
    <2>2. PICK o \in Choices \cup {DefaultOptions}, file \in SpecFiles : running = MadeOf(o, gated, file)
      BY <2>1 DEF Init
    <2>3. QED
      BY <2>2, LoadComplete, BudgetAssumption DEF MadeOf, PathsConcrete
  <1>2. PathsConcrete /\ [Next]_vars => PathsConcrete'
    <2>1. SUFFICES ASSUME PathsConcrete, [Next]_vars PROVE PathsConcrete'
      OBVIOUS
    <2>2. ASSUME running' = running PROVE PathsConcrete'
      BY <2>1, <2>2 DEF PathsConcrete
    <2>3. ASSUME NEW file \in SpecFiles, Reload(file) PROVE PathsConcrete'
      <3>1. running' = MadeOf(options, gated, file)
        BY <2>3 DEF Reload, SetUp
      <3>2. QED
        BY <3>1, LoadComplete, BudgetAssumption DEF MadeOf, PathsConcrete
    <2>4. QED
      BY <2>1, <2>2, <2>3 DEF Next, SaveOptions, RefreshInventory, RefreshState, RefreshPorts,
         Refresh, FleetChanges, Tick, config, vars
  <1>3. QED
    BY <1>1, <1>2, PTL DEF Spec

\* StateCoordinator never warns of options that the options flow has checked.
THEOREM GateSilencesWarning == Spec => []NoWarningAfterGate
  <1>1. IInv => NoWarningAfterGate
    BY DEF IInv, GateInv, NoWarningAfterGate
  <1>2. QED
    BY <1>1, Inductive, PTL

\* The whole intervals in a month cover it, but for less than one.
LEMMA Month ==
  MonthSeconds \div PortInterval \in Nat
    /\ MonthSeconds <= PortInterval * (MonthSeconds \div PortInterval + 1)
  <1> DEFINE d == MonthSeconds \div PortInterval
             r == MonthSeconds % PortInterval
  <1>1. PortInterval \in Nat \ {0}
    BY BudgetAssumption
  <1>2. d \in Nat /\ r \in Nat /\ MonthSeconds = PortInterval * d + r /\ r < PortInterval
    BY BudgetAssumption, Division
  <1> HIDE DEF d, r
  <1>3. PortInterval * (d + 1) = PortInterval * d + PortInterval /\ PortInterval * d \in Nat
    BY <1>1, <1>2
  <1>4. MonthSeconds <= PortInterval * (d + 1)
    BY <1>1, <1>2, <1>3
  <1>5. QED
    BY <1>2, <1>4 DEF d

\* The requests of a plain month, from their shares of it: u of the inventory and
\* the state, v of the ports, after g set-ups.
LEMMA MonthOfStates ==
  ASSUME NEW M \in Nat \ {0}, NEW C \in Nat, NEW e \in Nat, e < M, NEW u \in Nat,
         NEW g \in Nat, NEW p \in Nat, M * u <= C * e + M * (g * (2 + p))
  PROVE  u <= C + g * (2 + p)
  <1>1. C * e <= C * M
    BY Monotone
  <1>2. C * M + M * (g * (2 + p)) = M * (C + g * (2 + p))
    OBVIOUS
  <1>3. M * u \in Int /\ C * e \in Int /\ C * M \in Int /\ M * (g * (2 + p)) \in Int
    OBVIOUS
  <1>4. M * u <= M * (C + g * (2 + p)) /\ C + g * (2 + p) \in Int
    BY <1>1, <1>2, <1>3
  <1>5. u \in Int
    OBVIOUS
  <1>6. QED
    BY <1>4, <1>5, Cancel, Zenon

LEMMA MonthOfPorts ==
  ASSUME NEW I \in Nat \ {0}, NEW d \in Nat, NEW e \in Nat, e <= I * (d + 1), NEW v \in Nat,
         NEW g \in Nat, NEW p \in Nat, I * v <= p * (e + I * g)
  PROVE  v <= p * (d + 1 + g)
  <1>1. p * (e + I * g) <= p * (I * (d + 1) + I * g)
    <2>1. e + I * g <= I * (d + 1) + I * g /\ e + I * g \in Int /\ I * (d + 1) + I * g \in Int
      OBVIOUS
    <2>2. QED
      BY <2>1, Monotone, Zenon
  <1>2. p * (I * (d + 1) + I * g) = I * (p * (d + 1 + g))
    OBVIOUS
  <1>3. I * v \in Int /\ p * (e + I * g) \in Int /\ p * (I * (d + 1) + I * g) \in Int
        /\ p * (d + 1 + g) \in Int /\ v \in Int
    OBVIOUS
  <1>4. I * v <= I * (p * (d + 1 + g))
    BY <1>1, <1>2, <1>3
  <1>5. QED
    BY <1>3, <1>4, Cancel, Zenon

\* In a month as the estimate assumes, checked options stay within the quota.
THEOREM QuotaKept == Spec => []WithinQuota
  <1> DEFINE g == sent["setup"]
             d == MonthSeconds \div PortInterval
             u == sent["inventory"] + sent["state"]
             S == MaxChanges + 1
  <1>1. IInv => WithinQuota
    <2>1. SUFFICES ASSUME IInv, plain PROVE Total <= MaxMonthly
      BY DEF WithinQuota
    <2>2. /\ \A k \in Kinds : sent[k] \in Nat
          /\ clock \in Nat /\ clock < MonthSeconds /\ changes \in 0..MaxChanges
          /\ before["setup"] \in Nat
      BY <2>1 DEF IInv, TypeOK, ClockInv, Kinds
    <2>3. /\ PageSize \in Nat \ {0} /\ MonthSeconds \in Nat \ {0} /\ PortInterval \in Nat \ {0}
          /\ MaxChanges \in Nat /\ MaxMonthly \in Nat
      BY BudgetAssumption
    <2>4. g \in Nat /\ g <= S
      BY <2>1, <2>2, <2>3 DEF IInv, SetUpInv, Kinds
    <2>5. /\ u \in Nat /\ sent["scan"] \in Nat /\ sent["config"] \in Nat
          /\ sent["location"] = 0 /\ sent["fallback"] = 0
      BY <2>1, <2>2 DEF IInv, CountInv, Kinds, Coordinators
    <2>6. /\ MonthSeconds * u <= (Ceiling + 1) * clock + MonthSeconds * (g * (2 + PageSize))
          /\ PortInterval * sent["scan"] <= PageSize * (clock + PortInterval * g)
          /\ PortInterval * sent["config"] <= PageSize * (clock + PortInterval * g)
      BY <2>1, SoFar
    <2>7. d \in Nat /\ clock <= PortInterval * (d + 1)
      <3>1. d \in Nat /\ MonthSeconds <= PortInterval * (d + 1)
        BY Month
      <3>2. PortInterval * (d + 1) \in Nat
        BY <2>3, <3>1
      <3>3. QED
        BY <2>2, <2>3, <3>1, <3>2
    <2>8. Ceiling \in Nat /\ Ceiling + 1 \in Nat
      BY CeilingTyped
    <2>9. Total = u + sent["scan"] + sent["config"] + g
      BY <2>2, <2>5 DEF Total, Kinds, Coordinators
    <2>10. Ceiling + 1 + S * (3 + PageSize) + 2 * PageSize * (d + 1 + S) <= MaxMonthly
      BY HeadroomAssumption
    <2>11. S \in Nat
      BY <2>3
    <2>12. PageSize \in Nat
      BY <2>3
    <2> HIDE DEF g, d, u, S
    <2>13. u <= (Ceiling + 1) + g * (2 + PageSize)
      BY <2>2, <2>3, <2>4, <2>5, <2>6, <2>8, <2>12, MonthOfStates, Zenon
    <2>14. sent["scan"] <= PageSize * (d + 1 + g) /\ sent["config"] <= PageSize * (d + 1 + g)
      BY <2>2, <2>3, <2>4, <2>5, <2>6, <2>7, <2>12, MonthOfPorts, Zenon
    <2>15. g * (2 + PageSize) + g <= S * (3 + PageSize)
      <3>1. (3 + PageSize) * g <= (3 + PageSize) * S
        BY <2>4, <2>11, <2>12, Monotone
      <3>2. QED
        BY <2>4, <2>11, <2>12, <3>1
    <2>16. PageSize * (d + 1 + g) <= PageSize * (d + 1 + S)
      <3>1. d + 1 + g <= d + 1 + S /\ d + 1 + g \in Int /\ d + 1 + S \in Int
        BY <2>4, <2>7, <2>11
      <3>2. QED
        BY <2>12, <3>1, Monotone, Zenon
    <2>17. /\ g * (2 + PageSize) \in Nat /\ S * (3 + PageSize) \in Nat
           /\ PageSize * (d + 1 + g) \in Nat /\ PageSize * (d + 1 + S) \in Nat
      BY <2>4, <2>7, <2>11, <2>12
    <2>18. 2 * PageSize * (d + 1 + S) = PageSize * (d + 1 + S) + PageSize * (d + 1 + S)
      BY <2>7, <2>11, <2>12
    <2>19. QED
      BY <2>3, <2>4, <2>5, <2>8, <2>9, <2>10, <2>13, <2>14, <2>15, <2>16, <2>17, <2>18
  <1>2. QED
    BY <1>1, Inductive, PTL
===============================================================================
