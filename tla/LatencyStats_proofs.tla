------------------------ MODULE LatencyStats_proofs ------------------------
(***************************************************************************)
(* Theorems about the latency statistics for every history size and any    *)
(* number of pongs: the three percentile reads stay within the elements    *)
(* recorded although the callback appends between the emptiness test, the  *)
(* sort and the reads; and when no pong is late the summary is right.      *)
(***************************************************************************)
EXTENDS LatencyStats, FiniteSetTheorems, TLAPS

\* n * p / 100 is an index below n for every p under 100: a product that wraps
\* around only makes it smaller.
LEMMA IndexBelowCount ==
  ASSUME NEW k \in 1 .. HistorySize, NEW p \in {50, 90, 99}
  PROVE  PercentileIndex(k, p) \in 0 .. k - 1
<1>. DEFINE w == (k * p) % UIntMod
<1>1. HistorySize \in Nat /\ UIntMod \in Nat \ {0} /\ k \in Nat \ {0}
  BY LatencyStatsAssumption
<1>2. k * p \in Nat /\ k * p <= k * 99
  BY <1>1
<1>3. w \in 0 .. UIntMod - 1
  BY <1>1, <1>2
<1>4. w <= k * p
  <2>1. CASE k * p < UIntMod
    <3>1. w = k * p
      BY <1>1, <1>2, <2>1
    <3>. QED  BY <1>2, <3>1
  <2>2. CASE k * p >= UIntMod
    BY <1>1, <1>2, <1>3, <2>2
  <2>. QED  BY <1>1, <1>2, <2>1, <2>2
<1>5. w \in Nat /\ w <= k * 99
  BY <1>1, <1>2, <1>3, <1>4
<1>. HIDE DEF w
<1>6. w \div 100 \in 0 .. k - 1
  BY <1>1, <1>5
<1>. QED  BY <1>6 DEF PercentileIndex, w

\* The history is empty when the test starts.
LEMMA HistoryStarts == Init => HistoryInv
BY LatencyStatsAssumption DEF Init, HistoryInv

\* The count only grows, and not beyond the cap that pub_on_pong_sample checks.
LEMMA HistoryStep ==
  ASSUME HistoryInv, [Next]_vars
  PROVE  HistoryInv'
<1>1. HistorySize \in Nat \ {0}
  BY LatencyStatsAssumption
<1>2. CASE AppendHistory
  BY <1>1, <1>2 DEF AppendHistory, HasRoom, HistoryInv, mainVars
<1>3. CASE Callback /\ ~AppendHistory
  <2>1. lat_history_count' = lat_history_count /\ main_pc' = main_pc /\ n' = n
    BY <1>3 DEF Callback, Pong, AddSum, AddCount, SetMax, SetMin, StoreElement,
                SkipHistory, mainVars
  <2>. QED  BY <2>1 DEF HistoryInv
<1>4. CASE EndLoop
  BY <1>4 DEF EndLoop, HistoryInv, cbVars
<1>5. CASE SortHistory \/ SortOverStore
  BY <1>5 DEF SortHistory, SortOverStore, HistoryInv, cbVars
<1>6. CASE ReadCount
  BY <1>1, <1>6 DEF ReadCount, HistoryInv, cbVars
<1>7. CASE Main /\ main_pc \notin {"loop", "sort", "count"}
  BY <1>7 DEF Main, EndLoop, SortHistory, ReadCount, ReadPercentiles,
              ReadReceived, ReadSum, ReadAverage, ReadMin, ReadMax,
              HistoryInv, cbVars
<1>8. CASE UNCHANGED vars
  BY <1>8 DEF vars, HistoryInv
<1>9. Main => \/ EndLoop \/ SortHistory \/ ReadCount
              \/ main_pc \notin {"loop", "sort", "count"}
  BY DEF Main, ReadPercentiles, ReadReceived, ReadSum, ReadAverage, ReadMin,
         ReadMax
<1>. QED
  BY <1>2, <1>3, <1>4, <1>5, <1>6, <1>7, <1>8, <1>9 DEF Next

\* However pongs and the summary interleave, the history count stays within
\* the array and the main thread's copy within the count.
THEOREM HistoryInvariant == Spec => []HistoryInv
BY HistoryStarts, HistoryStep, PTL DEF Spec

\* The percentiles are read from elements the callback has recorded, in every
\* build, also where the history size times 99 does not fit an unsigned int.
THEOREM PercentilesAreInRange == Spec => []PercentilesInRange
<1>1. HistoryInv => PercentilesInRange
  <2>. SUFFICES ASSUME HistoryInv, main_pc = "percentiles", NEW p \in {50, 90, 99}
                PROVE  PercentileIndex(n, p) \in 0 .. n - 1
    BY DEF PercentilesInRange
  <2>1. n \in 1 .. HistorySize
    BY LatencyStatsAssumption DEF HistoryInv
  <2>. QED  BY <2>1, IndexBelowCount
<1>. QED  BY <1>1, HistoryInvariant, PTL

----------------------------------------------------------------------------
(* What the percentile reads find in a sorted history.                      *)

\* An average over at least one is a natural number.
LEMMA QuotientType ==
  ASSUME NEW s \in Nat, NEW c \in Nat \ {0}
  PROVE  s \div c \in Nat
OBVIOUS

\* A quotient lies between the bounds that hold for the dividend.
LEMMA QuotientBounds ==
  ASSUME NEW s \in Nat, NEW c \in Nat \ {0}, NEW lo \in Nat, NEW hi \in Nat,
         c * lo <= s, s <= c * hi
  PROVE  s \div c \in Nat /\ lo <= s \div c /\ s \div c <= hi
<1>1. s \div c \in Nat
  BY QuotientType
<1>2. lo <= s \div c
  OBVIOUS
<1>3. s \div c <= hi
  OBVIOUS
<1>. QED  BY <1>1, <1>2, <1>3

\* An index that does not wrap divides the elements as a percentile must: p percent
\* of them up to and including it, 100 - p percent from it on.
LEMMA IndexDivides ==
  ASSUME HistoryFits, NEW k \in 1 .. HistorySize, NEW p \in {50, 90, 99}
  PROVE  /\ 100 * (PercentileIndex(k, p) + 1) >= p * k
         /\ 100 * (k - PercentileIndex(k, p)) >= (100 - p) * k
<1>1. HistorySize \in Nat /\ UIntMod \in Nat \ {0} /\ HistorySize * 99 < UIntMod
  BY LatencyStatsAssumption DEF HistoryFits
<1>2. k * p \in 0 .. UIntMod - 1
  BY <1>1
<1>3. (k * p) % UIntMod = k * p
  BY <1>1, <1>2
<1>4. /\ 100 * (((k * p) \div 100) + 1) >= p * k
      /\ 100 * (k - ((k * p) \div 100)) >= (100 - p) * k
  BY <1>1
<1>. QED  BY <1>3, <1>4 DEF PercentileIndex

\* Of indices that do not wrap, the greater percentage has the greater one.
LEMMA IndexAscends ==
  ASSUME HistoryFits, NEW k \in 1 .. HistorySize
  PROVE  /\ PercentileIndex(k, 50) <= PercentileIndex(k, 90)
         /\ PercentileIndex(k, 90) <= PercentileIndex(k, 99)
<1>1. HistorySize \in Nat /\ UIntMod \in Nat \ {0} /\ HistorySize * 99 < UIntMod
  BY LatencyStatsAssumption DEF HistoryFits
<1>2. \A p \in {50, 90, 99} : k * p \in 0 .. UIntMod - 1
  BY <1>1
<1>3. \A p \in {50, 90, 99} : (k * p) % UIntMod = k * p
  BY <1>1, <1>2
<1>4. /\ (k * 50) \div 100 <= (k * 90) \div 100
      /\ (k * 90) \div 100 <= (k * 99) \div 100
  BY <1>1
<1>. QED  BY <1>3, <1>4 DEF PercentileIndex

\* The elements at some positions of an order are as many as the positions.
LEMMA OrderCounts ==
  ASSUME NEW k \in Nat, NEW order \in Orders(k), NEW At \in SUBSET (0 .. k - 1),
         NEW S \in SUBSET (1 .. k), \A j \in At : order[j] + 1 \in S
  PROVE  Cardinality(At) <= Cardinality(S) /\ Cardinality(S) \in Nat
<1>. DEFINE f == [j \in At |-> order[j] + 1]
<1>1. /\ order \in [0 .. k - 1 -> 0 .. k - 1]
      /\ \A i, j \in 0 .. k - 1 : order[i] = order[j] => i = j
  BY DEF Orders, Bijection, Injection, IsInjective
<1>2. f \in [At -> S]
  OBVIOUS
<1>3. ASSUME NEW i \in At, NEW j \in At, f[i] = f[j] PROVE i = j
  <2>1. i \in 0 .. k - 1 /\ j \in 0 .. k - 1
    OBVIOUS
  <2>2. order[i] \in 0 .. k - 1 /\ order[j] \in 0 .. k - 1
    BY <1>1, <2>1
  <2>3. order[i] + 1 = order[j] + 1
    BY <1>3
  <2>4. order[i] = order[j]
    BY <2>2, <2>3
  <2>. QED  BY <1>1, <2>1, <2>4
<1>4. f \in Injection(At, S)
  <2>. HIDE DEF f
  <2>. QED  BY <1>2, <1>3 DEF Injection, IsInjective
<1>5. IsFiniteSet(S)
  <2>1. IsFiniteSet(1 .. k)
    BY FS_Interval
  <2>. QED  BY <2>1, FS_Subset
<1>6. Cardinality(At) <= Cardinality(S)
  BY <1>4, <1>5, FS_Injection
<1>7. Cardinality(S) \in Nat
  BY <1>5, FS_CardinalityType
<1>. QED  BY <1>6, <1>7

\* What is read at the index of p is a p-th percentile of the pongs recorded.
LEMMA PercentileRead ==
  ASSUME HistoryFits, NEW k \in 1 .. HistorySize, NEW p \in {50, 90, 99}, NEW h,
         k <= Len(pongs), Len(pongs) \in Nat,
         \A i \in 1 .. Len(pongs) : pongs[i] \in Nat, AscendingPongs(h, k)
  PROVE  IsPercentile(h[PercentileIndex(k, p)], p, k)
<1>. DEFINE m == PercentileIndex(k, p)
            Low  == {i \in 1 .. k : pongs[i] <= h[m]}
            High == {i \in 1 .. k : pongs[i] >= h[m]}
<1>1. k \in Nat /\ HistorySize \in Nat
  BY LatencyStatsAssumption
<1>2. m \in 0 .. k - 1
  BY IndexBelowCount
<1>3. 100 * (m + 1) >= p * k /\ 100 * (k - m) >= (100 - p) * k
  <2>1. CASE p = 50
    BY <2>1, IndexDivides
  <2>2. CASE p = 90
    BY <2>2, IndexDivides
  <2>3. CASE p = 99
    BY <2>3, IndexDivides
  <2>. QED  BY <2>1, <2>2, <2>3
<1>4. PICK order \in Orders(k) : \A i \in 0 .. k - 1 : h[i] = pongs[order[i] + 1]
  BY DEF AscendingPongs
<1>5. order \in [0 .. k - 1 -> 0 .. k - 1]
  BY DEF Orders, Bijection, Injection
<1>6. \A i \in 0 .. k - 1 : order[i] + 1 \in 1 .. k /\ h[i] \in Nat
  <2>. TAKE i \in 0 .. k - 1
  <2>1. order[i] \in 0 .. k - 1 /\ h[i] = pongs[order[i] + 1]
    BY <1>4, <1>5
  <2>2. order[i] + 1 \in 1 .. k /\ order[i] + 1 \in 1 .. Len(pongs)
    BY <1>1, <2>1
  <2>. QED  BY <2>1, <2>2
<1>7. \A i, j \in 0 .. k - 1 : i <= j => h[i] <= h[j]
  BY <1>6 DEF AscendingPongs
<1>. HIDE DEF m
<1>8. \A j \in 0 .. m : order[j] + 1 \in Low
  BY <1>1, <1>2, <1>4, <1>6, <1>7
<1>9. \A j \in m .. k - 1 : order[j] + 1 \in High
  BY <1>1, <1>2, <1>4, <1>6, <1>7
<1>10. Low \in SUBSET (1 .. k) /\ High \in SUBSET (1 .. k)
  OBVIOUS
<1>. HIDE DEF Low, High
<1>11. Cardinality(Low) >= m + 1 /\ Cardinality(Low) \in Nat
  <2>. DEFINE At == 0 .. m
  <2>1. Cardinality(0 .. m) = m + 1
    BY <1>1, <1>2, FS_Interval
  <2>2. At \in SUBSET (0 .. k - 1) /\ Cardinality(At) = m + 1
    BY <1>1, <1>2, <2>1
  <2>3. \A j \in At : order[j] + 1 \in Low
    BY <1>8
  <2>. HIDE DEF At
  <2>4. Cardinality(At) <= Cardinality(Low) /\ Cardinality(Low) \in Nat
    BY <1>1, <1>4, <1>10, <2>2, <2>3, OrderCounts
  <2>. QED  BY <2>2, <2>4
<1>12. Cardinality(High) >= k - m /\ Cardinality(High) \in Nat
  <2>. DEFINE At == m .. k - 1
  <2>1. Cardinality(m .. k - 1) = k - m
    BY <1>1, <1>2, FS_Interval
  <2>2. At \in SUBSET (0 .. k - 1) /\ Cardinality(At) = k - m
    BY <1>1, <1>2, <2>1
  <2>3. \A j \in At : order[j] + 1 \in High
    BY <1>9
  <2>. HIDE DEF At
  <2>4. Cardinality(At) <= Cardinality(High) /\ Cardinality(High) \in Nat
    BY <1>1, <1>4, <1>10, <2>2, <2>3, OrderCounts
  <2>. QED  BY <1>1, <1>2, <2>2, <2>4
<1>13. 100 * Cardinality(Low) >= p * k /\ 100 * Cardinality(High) >= (100 - p) * k
  BY <1>1, <1>2, <1>3, <1>11, <1>12
<1>. QED  BY <1>13 DEF IsPercentile, Low, High, m

\* qsort leaves the history a history, the same elements ascending below k and
\* the others untouched.
LEMMA SortedHistory ==
  ASSUME NEW h \in [Index -> Nat], NEW k \in 0 .. HistorySize, NEW g \in Sorted(h, k)
  PROVE  /\ g \in [Index -> Nat]
         /\ \A i, j \in 0 .. k - 1 : i < j => g[i] <= g[j]
         /\ \E order \in Orders(k) : \A i \in 0 .. k - 1 : g[i] = h[order[i]]
<1>1. HistorySize \in Nat
  BY LatencyStatsAssumption
<1>2. PICK order \in Orders(k) : g = Rearranged(h, k, order)
  BY DEF Sorted
<1>3. order \in [0 .. k - 1 -> 0 .. k - 1]
  BY DEF Orders, Bijection, Injection
<1>4. g = [i \in Index |-> IF i < k THEN h[order[i]] ELSE h[i]]
  BY <1>2 DEF Rearranged
<1>5. \A i \in 0 .. k - 1 : i \in Index /\ order[i] \in Index
  BY <1>1, <1>3 DEF Index
<1>6. \A i \in Index : i < k => i \in 0 .. k - 1
  BY <1>1 DEF Index
<1>7. g \in [Index -> Nat]
  BY <1>4, <1>5, <1>6
<1>8. \A i \in 0 .. k - 1 : g[i] = h[order[i]]
  BY <1>1, <1>4, <1>5
<1>9. \A i, j \in 0 .. k - 1 : i < j => g[i] <= g[j]
  BY DEF Sorted
<1>. QED  BY <1>7, <1>8, <1>9

\* A sort that meets a store leaves the history a history.
LEMMA TornHistory ==
  ASSUME NEW h \in [Index -> Nat], NEW k \in 0 .. HistorySize, NEW v \in Nat,
         NEW g \in Torn(h, k, v)
  PROVE  g \in [Index -> Nat]
<1>. DEFINE Values == {h[i] : i \in 0 .. k - 1} \cup {v}
<1>1. HistorySize \in Nat /\ k \in Nat
  BY LatencyStatsAssumption
<1>2. PICK f \in [0 .. k - 1 -> Values] :
        g = [i \in Index |-> IF i < k THEN f[i] ELSE h[i]]
  BY DEF Torn
<1>3. \A i \in 0 .. k - 1 : i \in Index /\ h[i] \in Nat
  BY <1>1 DEF Index
<1>4. Values \subseteq Nat
  BY <1>3
<1>5. \A i \in Index : i < k => i \in 0 .. k - 1
  BY <1>1 DEF Index
<1>. QED  BY <1>2, <1>4, <1>5

----------------------------------------------------------------------------
(* Each part of StatsInv is preserved.                                      *)

\* A new pong is behind those every field has; the others keep their places.
LEMMA PongAppended ==
  ASSUME TypeOK, Pong
  PROVE  /\ pongs' \in Seq(Latencies) /\ Len(pongs') = Len(pongs) + 1
         /\ latency' = pongs'[Len(pongs')] /\ latency' \in Latencies
         /\ \A i \in 1 .. Len(pongs) : pongs'[i] = pongs[i]
         /\ cb_pc = "idle" /\ cb_pc' = "sum"
<1>. PICK v \in Latencies : latency' = v /\ pongs' = Append(pongs, v)
  BY DEF Pong
<1>. QED  BY DEF TypeOK, Pong

\* Every field keeps its type: the reads of the history are in range, and the
\* average is taken of at least one pong.
LEMMA TypeStep ==
  ASSUME TypeOK, HistoryInv, main_pc \in {"sum", "avg"} => lat_count > 0, [Next]_vars
  PROVE  TypeOK'
<1>. USE LatencyStatsAssumption DEF TypeOK, Index
<1>1. CASE Pong
  <2>1. late' \in BOOLEAN
    BY <1>1 DEF Pong
  <2>. QED  BY <1>1, <2>1, PongAppended DEF Pong, mainVars
<1>2. CASE AddSum
  BY <1>2 DEF AddSum, mainVars
<1>3. CASE AddCount
  BY <1>3 DEF AddCount, mainVars
<1>4. CASE SetMax
  BY <1>4 DEF SetMax, mainVars
<1>5. CASE SetMin
  <2>1. lat_min_us' \in Nat \cup {NoMin}
    BY <1>5 DEF SetMin
  <2>. QED  BY <1>5, <2>1 DEF SetMin, mainVars
<1>6. ASSUME NEW v \in Nat PROVE Clamped(v) \in Nat
  BY DEF Clamped
<1>7. CASE AppendHistory
  <2>1. lat_history' \in [Index -> Nat]
    BY <1>6, <1>7 DEF AppendHistory
  <2>2. lat_history_count' \in 0 .. HistorySize
    BY <1>7 DEF AppendHistory, HasRoom
  <2>. QED  BY <1>7, <2>1, <2>2 DEF AppendHistory, mainVars
<1>8. CASE StoreElement
  <2>1. lat_history' \in [Index -> Nat]
    BY <1>6, <1>8 DEF StoreElement
  <2>. QED  BY <1>8, <2>1 DEF StoreElement, mainVars
<1>9. CASE SkipHistory
  BY <1>9 DEF SkipHistory, mainVars
<1>10. CASE EndLoop
  <2>1. late' \in BOOLEAN /\ main_pc' \in {"sort", "received"}
    BY <1>10 DEF EndLoop
  <2>. QED  BY <1>10, <2>1 DEF EndLoop, cbVars
<1>11. CASE SortHistory
  <2>1. lat_history' \in [Index -> Nat]
    BY <1>11, SortedHistory DEF SortHistory
  <2>. QED  BY <1>11, <2>1 DEF SortHistory, cbVars
<1>12. CASE ReadCount
  BY <1>12 DEF ReadCount, cbVars
<1>13. CASE ReadPercentiles
  <2>1. n \in 1 .. HistorySize
    BY <1>13 DEF ReadPercentiles, HistoryInv
  <2>2. ASSUME NEW p \in {50, 90, 99} PROVE PercentileIndex(n, p) \in Index
    <3>1. PercentileIndex(n, p) \in 0 .. n - 1
      BY <2>1, IndexBelowCount
    <3>. QED  BY <2>1, <3>1
  <2>3. \A p \in {50, 90, 99} : lat_history[PercentileIndex(n, p)] \in Nat
    BY <2>2
  <2>4. result' \in [Fields -> Nat]
    BY <1>13, <2>3 DEF ReadPercentiles, Fields
  <2>. QED  BY <1>13, <2>4 DEF ReadPercentiles, cbVars
<1>14. CASE ReadReceived
  <2>1. result' \in [Fields -> Nat]
    BY <1>14 DEF ReadReceived, Fields
  <2>. QED  BY <1>14, <2>1 DEF ReadReceived, cbVars
<1>15. CASE ReadSum
  BY <1>15 DEF ReadSum, cbVars
<1>16. CASE ReadAverage
  <2>1. lat_count \in Nat \ {0} /\ avg_sum \in Nat
    BY <1>16 DEF ReadAverage
  <2>2. avg_sum \div lat_count \in Nat
    BY <2>1, QuotientType
  <2>3. result' \in [Fields -> Nat]
    BY <1>16, <2>2 DEF ReadAverage, Fields
  <2>. QED  BY <1>16, <2>3 DEF ReadAverage, cbVars
<1>17. CASE ReadMin
  <2>1. result' \in [Fields -> Nat]
    BY <1>17 DEF ReadMin, Fields
  <2>. QED  BY <1>17, <2>1 DEF ReadMin, cbVars
<1>18. CASE ReadMax
  <2>1. result' \in [Fields -> Nat]
    BY <1>18 DEF ReadMax, Fields
  <2>. QED  BY <1>18, <2>1 DEF ReadMax, cbVars
<1>19. CASE SortOverStore
  <2>1. lat_history' \in [Index -> Nat]
    BY <1>6, <1>19, TornHistory DEF SortOverStore
  <2>. QED  BY <1>19, <2>1 DEF SortOverStore
<1>20. CASE UNCHANGED vars
  BY <1>20 DEF vars
<1>. QED
  BY <1>1, <1>2, <1>3, <1>4, <1>5, <1>7, <1>8, <1>9, <1>10, <1>11, <1>12, <1>13,
     <1>14, <1>15, <1>16, <1>17, <1>18, <1>19, <1>20 DEF Next, Callback, Main

\* The callback that runs is the last pong's, and after the send loop a run
\* without a late pong has none.
LEMMA CallbackStep ==
  ASSUME TypeOK, CallbackOK, [Next]_vars
  PROVE  CallbackOK'
<1>. USE DEF TypeOK, CallbackOK
<1>1. CASE Pong
  <2>1. Len(pongs') > 0 /\ latency' = pongs'[Len(pongs')]
    BY <1>1, PongAppended
  <2>. QED  BY <1>1, <2>1 DEF Pong, mainVars
<1>2. CASE Callback /\ ~Pong
  <2>1. /\ pongs' = pongs /\ latency' = latency /\ main_pc' = main_pc
        /\ late' = late /\ cb_pc # "idle"
    BY <1>2 DEF Callback, AddSum, AddCount, SetMax, SetMin, AppendHistory,
                StoreElement, SkipHistory, mainVars
  <2>. QED  BY <2>1
<1>3. CASE EndLoop
  BY <1>3 DEF EndLoop, cbVars
<1>4. CASE Main /\ ~EndLoop
  <2>1. /\ cb_pc' = cb_pc /\ pongs' = pongs /\ latency' = latency
        /\ late' = late /\ main_pc # "loop" /\ main_pc' # "loop"
    BY <1>4 DEF Main, SortHistory, ReadCount, ReadPercentiles, ReadReceived, ReadSum,
                ReadAverage, ReadMin, ReadMax, cbVars
  <2>. QED  BY <2>1
<1>5. CASE SortOverStore
  BY <1>5 DEF SortOverStore
<1>6. CASE UNCHANGED vars
  BY <1>6 DEF vars
<1>. QED  BY <1>1, <1>2, <1>3, <1>4, <1>5, <1>6 DEF Next

\* Each of the four fields takes the last pong in at its own step.
LEMMA TotalsStep ==
  ASSUME TypeOK, CallbackOK, TotalsOK, [Next]_vars
  PROVE  TotalsOK'
<1>. DEFINE len == Len(pongs)
<1>1. /\ len \in Nat /\ pongs \in Seq(Latencies) /\ Latencies \subseteq Nat
      /\ \A i \in 1 .. len : pongs[i] \in Latencies /\ pongs[i] \in Nat
  <2>1. pongs \in Seq(Latencies) /\ Latencies \subseteq Nat
    BY LatencyStatsAssumption DEF TypeOK
  <2>2. len \in Nat /\ \A i \in 1 .. len : pongs[i] \in Latencies
    BY <2>1
  <2>. QED  BY <2>1, <2>2
<1>2. /\ lat_sum_us \in Nat /\ lat_count \in Nat /\ lat_max_us \in Nat
      /\ lat_min_us \in Nat \cup {NoMin}
  BY DEF TypeOK
<1>3. /\ Between(lat_sum_us, Past({"sum"})) /\ lat_count = Past(BeforeCount)
      /\ IsMax(lat_max_us, Past(BeforeMax)) /\ IsMin(lat_min_us, Past(BeforeMin))
  BY DEF TotalsOK
<1>4. CASE Pong
  <2>1. /\ Len(pongs') = len + 1 /\ \A i \in 1 .. len : pongs'[i] = pongs[i]
        /\ cb_pc = "idle" /\ cb_pc' = "sum"
    BY <1>4, PongAppended
  <2>2. \A S \in {{"sum"}, BeforeCount, BeforeMax, BeforeMin} : Past(S) = len /\ Past(S)' = len
    BY <1>1, <2>1 DEF Past, BeforeCount, BeforeMax, BeforeMin
  <2>3. UNCHANGED <<lat_sum_us, lat_count, lat_max_us, lat_min_us>>
    BY <1>4 DEF Pong
  <2>4. Between(lat_sum_us, Past({"sum"}))'
    BY <1>3, <2>1, <2>2, <2>3 DEF Between
  <2>5. IsMax(lat_max_us, Past(BeforeMax))'
    BY <1>1, <1>3, <2>1, <2>2, <2>3 DEF IsMax
  <2>6. IsMin(lat_min_us, Past(BeforeMin))'
    BY <1>1, <1>3, <2>1, <2>2, <2>3 DEF IsMin
  <2>. QED  BY <1>3, <2>2, <2>3, <2>4, <2>5, <2>6 DEF TotalsOK
<1>5. CASE Callback /\ cb_pc # "idle" /\ pongs' = pongs
  <2>1. len > 0 /\ latency = pongs[len] /\ latency \in Latencies
    BY <1>1, <1>5 DEF CallbackOK
  <2>2. CASE AddSum
    <3>1. /\ Past({"sum"}) = len - 1 /\ Past({"sum"})' = len
          /\ \A S \in {BeforeCount, BeforeMax, BeforeMin} : Past(S)' = Past(S)
      BY <1>5, <2>2 DEF AddSum, Past, BeforeCount, BeforeMax, BeforeMin
    <3>2. UNCHANGED <<lat_count, lat_max_us, lat_min_us, pongs>>
      BY <2>2 DEF AddSum
    <3>3. lat_sum_us' = lat_sum_us + latency
      BY <2>2 DEF AddSum
    <3>4. ASSUME NEW lo \in Latencies, \A i \in 1 .. len : lo <= pongs[i]
          PROVE  len * lo <= lat_sum_us'
      <4>1. (len - 1) * lo <= lat_sum_us
        BY <1>1, <1>3, <2>1, <3>1, <3>4 DEF Between
      <4>2. lo <= latency
        BY <1>1, <2>1, <3>4
      <4>3. len * lo = (len - 1) * lo + lo
        BY <1>1, <2>1
      <4>. QED  BY <1>1, <1>2, <2>1, <3>3, <4>1, <4>2, <4>3
    <3>5. ASSUME NEW hi \in Latencies, \A i \in 1 .. len : pongs[i] <= hi
          PROVE  lat_sum_us' <= len * hi
      <4>1. lat_sum_us <= (len - 1) * hi
        BY <1>1, <1>3, <2>1, <3>1, <3>5 DEF Between
      <4>2. latency <= hi
        BY <1>1, <2>1, <3>5
      <4>3. len * hi = (len - 1) * hi + hi
        BY <1>1, <2>1
      <4>. QED  BY <1>1, <1>2, <2>1, <3>3, <4>1, <4>2, <4>3
    <3>6. Between(lat_sum_us, Past({"sum"}))'
      BY <3>1, <3>2, <3>4, <3>5 DEF Between
    <3>7. IsMax(lat_max_us, Past(BeforeMax))' /\ IsMin(lat_min_us, Past(BeforeMin))'
      BY <1>3, <3>1, <3>2 DEF IsMax, IsMin
    <3>. QED  BY <1>3, <3>1, <3>2, <3>6, <3>7 DEF TotalsOK
  <2>3. CASE AddCount
    <3>1. /\ Past(BeforeCount) = len - 1 /\ Past(BeforeCount)' = len
          /\ \A S \in {{"sum"}, BeforeMax, BeforeMin} : Past(S)' = Past(S)
      BY <1>5, <2>3 DEF AddCount, Past, BeforeCount, BeforeMax, BeforeMin
    <3>2. /\ UNCHANGED <<lat_sum_us, lat_max_us, lat_min_us, pongs>>
          /\ lat_count' = lat_count + 1
      BY <2>3 DEF AddCount
    <3>3. Between(lat_sum_us, Past({"sum"}))'
      BY <1>3, <3>1, <3>2 DEF Between
    <3>4. IsMax(lat_max_us, Past(BeforeMax))' /\ IsMin(lat_min_us, Past(BeforeMin))'
      BY <1>3, <3>1, <3>2 DEF IsMax, IsMin
    <3>. QED  BY <1>1, <1>3, <3>1, <3>2, <3>3, <3>4 DEF TotalsOK
  <2>4. CASE SetMax
    <3>1. /\ Past(BeforeMax) = len - 1 /\ Past(BeforeMax)' = len
          /\ \A S \in {{"sum"}, BeforeCount, BeforeMin} : Past(S)' = Past(S)
      BY <1>5, <2>4 DEF SetMax, Past, BeforeCount, BeforeMax, BeforeMin
    <3>2. UNCHANGED <<lat_sum_us, lat_count, lat_min_us, pongs>>
      BY <2>4 DEF SetMax
    <3>3. lat_max_us' = IF latency > lat_max_us THEN latency ELSE lat_max_us
      BY <2>4 DEF SetMax
    <3>4. /\ \A i \in 1 .. len : pongs[i] <= lat_max_us'
          /\ \E i \in 1 .. len : pongs[i] = lat_max_us'
      <4>1. IsMax(lat_max_us, len - 1)
        BY <1>3, <3>1
      <4>2. \A i \in 1 .. len : i \in 1 .. len - 1 \/ i = len
        BY <1>1
      <4>3. \A i \in 1 .. len : pongs[i] <= lat_max_us'
        BY <1>1, <1>2, <2>1, <3>3, <4>1, <4>2 DEF IsMax
      <4>4. CASE latency > lat_max_us
        BY <1>1, <2>1, <3>3, <4>3, <4>4
      <4>5. CASE ~(latency > lat_max_us) /\ len = 1
        BY <1>1, <1>2, <2>1, <3>3, <4>1, <4>3, <4>5 DEF IsMax
      <4>6. CASE ~(latency > lat_max_us) /\ len # 1
        <5>1. PICK i \in 1 .. len - 1 : pongs[i] = lat_max_us
          BY <1>1, <2>1, <4>1, <4>6 DEF IsMax
        <5>. QED  BY <1>1, <3>3, <4>3, <4>6, <5>1
      <4>. QED  BY <4>4, <4>5, <4>6
    <3>5. IsMax(lat_max_us, Past(BeforeMax))'
      BY <2>1, <3>1, <3>2, <3>4 DEF IsMax
    <3>6. Between(lat_sum_us, Past({"sum"}))' /\ IsMin(lat_min_us, Past(BeforeMin))'
      BY <1>3, <3>1, <3>2 DEF Between, IsMin
    <3>. QED  BY <1>3, <3>1, <3>2, <3>5, <3>6 DEF TotalsOK
  <2>5. CASE SetMin
    <3>1. /\ Past(BeforeMin) = len - 1 /\ Past(BeforeMin)' = len
          /\ \A S \in {{"sum"}, BeforeCount, BeforeMax} : Past(S)' = Past(S)
      BY <1>5, <2>5 DEF SetMin, Past, BeforeCount, BeforeMax, BeforeMin
    <3>2. UNCHANGED <<lat_sum_us, lat_count, lat_max_us, pongs>>
      BY <2>5 DEF SetMin
    <3>3. lat_min_us' = IF lat_min_us = NoMin \/ latency < lat_min_us
                        THEN latency ELSE lat_min_us
      BY <2>5 DEF SetMin
    <3>4. /\ \A i \in 1 .. len : lat_min_us' <= pongs[i]
          /\ \E i \in 1 .. len : pongs[i] = lat_min_us'
      <4>1. IsMin(lat_min_us, len - 1)
        BY <1>3, <3>1
      <4>2. \A i \in 1 .. len : i \in 1 .. len - 1 \/ i = len
        BY <1>1
      <4>3. CASE len = 1
        <5>1. lat_min_us' = pongs[1]
          BY <2>1, <3>3, <4>1, <4>3 DEF IsMin
        <5>. QED  BY <1>1, <4>3, <5>1
      <4>4. CASE len # 1
        <5>1. PICK i \in 1 .. len - 1 : pongs[i] = lat_min_us
          BY <1>1, <2>1, <4>1, <4>4 DEF IsMin
        <5>2. lat_min_us \in Nat /\ lat_min_us # NoMin
          BY <1>1, <5>1 DEF NoMin
        <5>3. \A j \in 1 .. len : lat_min_us' <= pongs[j]
          BY <1>1, <2>1, <3>3, <4>1, <4>2, <5>2 DEF IsMin
        <5>. QED  BY <1>1, <2>1, <3>3, <5>1, <5>2, <5>3
      <4>. QED  BY <4>3, <4>4
    <3>5. IsMin(lat_min_us, Past(BeforeMin))'
      BY <2>1, <3>1, <3>2, <3>4 DEF IsMin
    <3>6. Between(lat_sum_us, Past({"sum"}))' /\ IsMax(lat_max_us, Past(BeforeMax))'
      BY <1>3, <3>1, <3>2 DEF Between, IsMax
    <3>. QED  BY <1>3, <3>1, <3>2, <3>5, <3>6 DEF TotalsOK
  <2>6. CASE AppendHistory \/ StoreElement \/ SkipHistory
    <3>1. \A S \in {{"sum"}, BeforeCount, BeforeMax, BeforeMin} : Past(S)' = Past(S)
      BY <1>5, <2>6 DEF AppendHistory, StoreElement, SkipHistory, Past, BeforeCount,
                        BeforeMax, BeforeMin
    <3>2. UNCHANGED <<lat_sum_us, lat_count, lat_max_us, lat_min_us, pongs>>
      BY <2>6 DEF AppendHistory, StoreElement, SkipHistory
    <3>3. /\ Between(lat_sum_us, Past({"sum"}))' /\ IsMax(lat_max_us, Past(BeforeMax))'
          /\ IsMin(lat_min_us, Past(BeforeMin))'
      BY <1>3, <3>1, <3>2 DEF Between, IsMax, IsMin
    <3>. QED  BY <1>3, <3>1, <3>2, <3>3 DEF TotalsOK
  <2>7. ~Pong
    BY <1>5 DEF Pong
  <2>. QED  BY <1>5, <2>2, <2>3, <2>4, <2>5, <2>6, <2>7 DEF Callback
<1>6. CASE UNCHANGED cbVars
  BY <1>6 DEF cbVars, TotalsOK, Between, IsMax, IsMin, Past
<1>7. CASE SortOverStore
  <2>1. \A S \in {{"sum"}, BeforeCount, BeforeMax, BeforeMin} : Past(S)' = Past(S)
    BY <1>7 DEF SortOverStore, Past, BeforeCount, BeforeMax, BeforeMin
  <2>2. UNCHANGED <<lat_sum_us, lat_count, lat_max_us, lat_min_us, pongs>>
    BY <1>7 DEF SortOverStore
  <2>3. /\ Between(lat_sum_us, Past({"sum"}))' /\ IsMax(lat_max_us, Past(BeforeMax))'
        /\ IsMin(lat_min_us, Past(BeforeMin))'
    BY <1>3, <2>1, <2>2 DEF Between, IsMax, IsMin
  <2>. QED  BY <1>3, <2>1, <2>2, <2>3 DEF TotalsOK
<1>8. \/ Pong \/ (Callback /\ cb_pc # "idle" /\ pongs' = pongs)
      \/ SortOverStore \/ UNCHANGED cbVars
  BY DEF Next, Callback, Main, AddSum, AddCount, SetMax, SetMin, AppendHistory,
         StoreElement, SkipHistory, EndLoop, SortHistory, ReadCount,
         ReadPercentiles, ReadReceived, ReadSum, ReadAverage, ReadMin, ReadMax,
         vars, cbVars
<1>. QED  BY <1>4, <1>5, <1>6, <1>7, <1>8

\* The history takes the last pong in while there is room, and keeps the first
\* pongs in their order until the main thread sorts it.
LEMMA RecordStep ==
  ASSUME LatenciesFit, TypeOK, CallbackOK, HistoryInv, RecordOK, [Next]_vars
  PROVE  RecordOK'
<1>. DEFINE len == Len(pongs)
            cnt == lat_history_count
<1>1. /\ len \in Nat /\ pongs \in Seq(Latencies) /\ HistorySize \in Nat \ {0}
      /\ cnt \in 0 .. HistorySize /\ lat_history \in [Index -> Nat]
  BY LatencyStatsAssumption DEF TypeOK
<1>2. /\ cnt = Room(Past(BeforeHistory))
      /\ cb_pc = "store" => cnt = len
      /\ main_pc \in {"loop", "sort"} =>
           \A i \in 0 .. cnt - 1 :
             lat_history[i] = pongs[i + 1] \/ (cb_pc = "store" /\ i = cnt - 1)
  BY DEF RecordOK
<1>3. cnt <= Past(BeforeHistory) /\ Past(BeforeHistory) <= len
  BY <1>1, <1>2 DEF Room, Past, CallbackOK, BeforeHistory, BeforeMin, BeforeMax,
                    BeforeCount
<1>4. CASE Pong
  <2>1. /\ Len(pongs') = len + 1 /\ \A i \in 1 .. len : pongs'[i] = pongs[i]
        /\ cb_pc = "idle" /\ cb_pc' = "sum"
    BY <1>4, PongAppended
  <2>2. Past(BeforeHistory) = len /\ Past(BeforeHistory)' = len
    BY <1>1, <2>1 DEF Past, BeforeHistory, BeforeMin, BeforeMax, BeforeCount
  <2>3. UNCHANGED <<cnt, lat_history, main_pc>>
    BY <1>4 DEF Pong, mainVars
  <2>4. \A i \in 0 .. cnt - 1 : i + 1 \in 1 .. len
    BY <1>1, <1>3, <2>2
  <2>5. main_pc' \in {"loop", "sort"} => \A i \in 0 .. cnt - 1 : lat_history[i] = pongs'[i + 1]
    BY <1>2, <2>1, <2>3, <2>4
  <2>. QED  BY <1>2, <2>1, <2>2, <2>3, <2>5 DEF RecordOK, Room
<1>5. CASE Callback /\ cb_pc # "idle" /\ pongs' = pongs
  <2>1. len > 0 /\ latency = pongs[len] /\ latency \in Latencies
    BY <1>1, <1>5 DEF CallbackOK
  <2>2. Clamped(latency) = latency
    BY <2>1, LatencyStatsAssumption DEF LatenciesFit, Clamped
  <2>3. CASE AddSum \/ AddCount \/ SetMax \/ SetMin
    <3>1. /\ Past(BeforeHistory)' = Past(BeforeHistory)
          /\ cb_pc # "store" /\ cb_pc' # "store"
      BY <1>5, <2>3 DEF AddSum, AddCount, SetMax, SetMin, Past, BeforeHistory,
                        BeforeMin, BeforeMax, BeforeCount
    <3>2. UNCHANGED <<cnt, lat_history, main_pc, pongs>>
      BY <2>3 DEF AddSum, AddCount, SetMax, SetMin, mainVars
    <3>. QED  BY <1>2, <3>1, <3>2 DEF RecordOK, Room
  <2>4. CASE SkipHistory
    <3>1. Past(BeforeHistory) = len - 1 /\ Past(BeforeHistory)' = len
      BY <1>5, <2>4 DEF SkipHistory, Past, BeforeHistory, BeforeMin, BeforeMax,
                        BeforeCount
    <3>2. /\ UNCHANGED <<cnt, lat_history, main_pc, pongs>> /\ cnt = HistorySize
          /\ cb_pc # "store" /\ cb_pc' # "store"
      BY <1>1, <2>4 DEF SkipHistory, HasRoom, mainVars
    <3>3. Room(len) = cnt
      BY <1>1, <1>2, <3>1, <3>2 DEF Room
    <3>. QED  BY <1>2, <3>1, <3>2, <3>3 DEF RecordOK
  <2>5. CASE AppendHistory
    <3>1. Past(BeforeHistory) = len - 1 /\ Past(BeforeHistory)' = len
      BY <1>5, <2>5 DEF AppendHistory, Past, BeforeHistory, BeforeMin, BeforeMax,
                        BeforeCount
    <3>2. cnt = len - 1 /\ cnt < HistorySize /\ cnt \in Index
      BY <1>1, <1>2, <2>5, <3>1 DEF AppendHistory, HasRoom, Room, Index
    <3>3. cnt' = len /\ main_pc' = main_pc /\ pongs' = pongs
      BY <1>1, <2>5, <3>2 DEF AppendHistory, mainVars
    <3>4. cnt' = Room(Past(BeforeHistory))'
      BY <1>1, <3>1, <3>2, <3>3 DEF Room
    <3>5. cb_pc # "store"
      BY <2>5 DEF AppendHistory
    <3>6. \/ cb_pc' = "idle" /\ lat_history' = [lat_history EXCEPT ![cnt] = latency]
          \/ cb_pc' = "store" /\ lat_history' = lat_history
      BY <2>2, <2>5 DEF AppendHistory
    <3>7. ASSUME main_pc \in {"loop", "sort"}, NEW i \in 0 .. len - 1
          PROVE  lat_history'[i] = pongs[i + 1] \/ (cb_pc' = "store" /\ i = len - 1)
      <4>1. CASE i = cnt
        BY <1>1, <2>1, <3>2, <3>6, <4>1
      <4>2. CASE i # cnt
        <5>1. i \in 0 .. cnt - 1 /\ lat_history[i] = pongs[i + 1]
          BY <1>1, <1>2, <3>2, <3>5, <3>7, <4>2
        <5>2. lat_history'[i] = lat_history[i]
          BY <1>1, <3>2, <3>6, <4>2 DEF Index
        <5>. QED  BY <5>1, <5>2
      <4>. QED  BY <4>1, <4>2
    <3>. QED  BY <3>3, <3>4, <3>7 DEF RecordOK
  <2>6. CASE StoreElement
    <3>1. Past(BeforeHistory) = len /\ Past(BeforeHistory)' = len
      BY <1>5, <2>6 DEF StoreElement, Past, BeforeHistory, BeforeMin, BeforeMax,
                        BeforeCount
    <3>2. /\ UNCHANGED <<cnt, main_pc, pongs>> /\ cb_pc = "store" /\ cb_pc' = "idle"
          /\ cnt = len
      BY <1>2, <2>6 DEF StoreElement, mainVars
    <3>3. lat_history' = [lat_history EXCEPT ![len - 1] = latency]
      BY <2>2, <2>6, <3>2 DEF StoreElement
    <3>4. ASSUME main_pc \in {"loop", "sort"}, NEW i \in 0 .. len - 1
          PROVE  lat_history'[i] = pongs[i + 1]
      <4>1. i \in Index /\ len - 1 \in Index
        BY <1>1, <2>1, <3>2 DEF Index
      <4>2. CASE i = len - 1
        BY <1>1, <2>1, <3>3, <4>1, <4>2
      <4>3. CASE i # len - 1
        BY <1>1, <1>2, <3>2, <3>3, <3>4, <4>1, <4>3
      <4>. QED  BY <4>2, <4>3
    <3>. QED  BY <1>2, <3>1, <3>2, <3>4 DEF RecordOK, Room
  <2>7. ~Pong
    BY <1>5 DEF Pong
  <2>. QED  BY <1>5, <2>3, <2>4, <2>5, <2>6, <2>7 DEF Callback
<1>6. CASE Main
  <2>1. CASE EndLoop
    BY <1>2, <2>1 DEF EndLoop, cbVars, RecordOK, Room, Past
  <2>2. CASE ~EndLoop
    <3>1. UNCHANGED cbVars /\ main_pc' \notin {"loop", "sort"}
      BY <1>6, <2>2 DEF Main, SortHistory, ReadCount, ReadPercentiles,
                ReadReceived, ReadSum, ReadAverage, ReadMin, ReadMax
    <3>. QED  BY <1>2, <3>1 DEF cbVars, RecordOK, Room, Past
  <2>. QED  BY <2>1, <2>2
<1>7. CASE SortOverStore
  <2>1. Past(BeforeHistory) = len /\ Past(BeforeHistory)' = len
    BY <1>7 DEF SortOverStore, Past, BeforeHistory, BeforeMin, BeforeMax, BeforeCount
  <2>2. /\ UNCHANGED <<cnt, pongs>> /\ cb_pc' = "idle" /\ main_pc' = "count"
    BY <1>7 DEF SortOverStore
  <2>. QED  BY <1>2, <2>1, <2>2 DEF RecordOK, Room
<1>8. CASE UNCHANGED vars
  BY <1>2, <1>8 DEF vars, RecordOK, Room, Past
<1>9. \/ Pong \/ (Callback /\ cb_pc # "idle" /\ pongs' = pongs)
      \/ Main \/ SortOverStore \/ UNCHANGED vars
  BY DEF Next, Callback, AddSum, AddCount, SetMax, SetMin, AppendHistory,
         StoreElement, SkipHistory
<1>. QED  BY <1>4, <1>5, <1>6, <1>7, <1>8, <1>9

\* The average has a pong to be taken of from the test of the count on.
LEMMA CountStep ==
  ASSUME TypeOK, main_pc \in {"sum", "avg"} => lat_count > 0, [Next]_vars
  PROVE  main_pc' \in {"sum", "avg"} => lat_count' > 0
<1>1. CASE Callback
  <2>1. main_pc' = main_pc /\ lat_count' \in {lat_count, lat_count + 1}
    BY <1>1 DEF Callback, Pong, AddSum, AddCount, SetMax, SetMin, AppendHistory,
                StoreElement, SkipHistory, mainVars
  <2>. QED  BY <2>1 DEF TypeOK
<1>2. CASE Main
  BY <1>2 DEF Main, EndLoop, SortHistory, ReadCount, ReadPercentiles, ReadReceived,
              ReadSum, ReadAverage, ReadMin, ReadMax, cbVars
<1>3. CASE SortOverStore
  BY <1>3 DEF SortOverStore
<1>4. CASE UNCHANGED vars
  BY <1>4 DEF vars
<1>. QED  BY <1>1, <1>2, <1>3, <1>4 DEF Next

----------------------------------------------------------------------------
(* What the summary finds when no pong is late.                             *)

\* Once no callback runs, every total is about all the pongs.
LEMMA TotalsDone ==
  ASSUME StatsInv, cb_pc = "idle"
  PROVE  /\ pongs \in Seq(Latencies) /\ Len(pongs) \in Nat
         /\ \A i \in 1 .. Len(pongs) : pongs[i] \in Latencies /\ pongs[i] \in Nat
         /\ Between(lat_sum_us, Len(pongs)) /\ lat_count = Len(pongs)
         /\ IsMax(lat_max_us, Len(pongs)) /\ IsMin(lat_min_us, Len(pongs))
         /\ lat_history_count = Room(Len(pongs))
         /\ lat_history_count \in 0 .. HistorySize /\ lat_history_count <= Len(pongs)
         /\ pongs # << >> => /\ lat_history_count > 0
                             /\ lat_max_us \in Latencies /\ lat_min_us \in Latencies
<1>1. pongs \in Seq(Latencies) /\ Latencies \subseteq Nat /\ HistorySize \in Nat \ {0}
  BY LatencyStatsAssumption DEF StatsInv, TypeOK
<1>2. /\ Len(pongs) \in Nat /\ \A i \in 1 .. Len(pongs) : pongs[i] \in Latencies
      /\ pongs = << >> <=> Len(pongs) = 0
  BY <1>1
<1>3. \A S \in {{"sum"}, BeforeCount, BeforeMax, BeforeMin, BeforeHistory} :
        Past(S) = Len(pongs)
  BY DEF Past, BeforeCount, BeforeMax, BeforeMin, BeforeHistory
<1>4. /\ Between(lat_sum_us, Len(pongs)) /\ lat_count = Len(pongs)
      /\ IsMax(lat_max_us, Len(pongs)) /\ IsMin(lat_min_us, Len(pongs))
  BY <1>3 DEF StatsInv, TotalsOK
<1>5. lat_history_count = Room(Len(pongs))
  BY <1>3 DEF StatsInv, RecordOK
<1>6. /\ lat_history_count \in 0 .. HistorySize /\ lat_history_count <= Len(pongs)
      /\ Len(pongs) # 0 => lat_history_count > 0
  BY <1>1, <1>2, <1>5 DEF Room
<1>7. pongs # << >> => lat_max_us \in Latencies /\ lat_min_us \in Latencies
  BY <1>2, <1>4 DEF IsMax, IsMin
<1>. QED  BY <1>1, <1>2, <1>4, <1>5, <1>6, <1>7

\* qsort on the first pongs in their order gives the first pongs ascending.
LEMMA SortsPongs ==
  ASSUME StatsInv, cb_pc = "idle", SortHistory
  PROVE  AscendingPongs(lat_history', lat_history_count)
<1>. DEFINE k == lat_history_count
<1>1. /\ lat_history \in [Index -> Nat] /\ k \in 0 .. HistorySize /\ k \in Nat
      /\ lat_history' \in Sorted(lat_history, k)
  BY LatencyStatsAssumption DEF StatsInv, TypeOK, SortHistory
<1>2. \A i \in 0 .. k - 1 : lat_history[i] = pongs[i + 1]
  BY DEF StatsInv, RecordOK, SortHistory
<1>3. PICK order \in Orders(k) : \A i \in 0 .. k - 1 : lat_history'[i] = lat_history[order[i]]
  BY <1>1, SortedHistory
<1>4. order \in [0 .. k - 1 -> 0 .. k - 1]
  BY <1>3 DEF Orders, Bijection, Injection
<1>5. \A i \in 0 .. k - 1 : lat_history'[i] = pongs[order[i] + 1]
  BY <1>2, <1>3, <1>4
<1>6. \A i, j \in 0 .. k - 1 : i < j => lat_history'[i] <= lat_history'[j]
  BY <1>1, SortedHistory
<1>. QED  BY <1>3, <1>5, <1>6 DEF AscendingPongs

\* The three reads of an ascending history.
LEMMA ReadsPercentiles ==
  ASSUME HistoryFits, StatsInv, cb_pc = "idle", pongs # << >>, ReadPercentiles,
         n = lat_history_count, AscendingPongs(lat_history, lat_history_count)
  PROVE  PercentilesOK'
<1>. DEFINE k == lat_history_count
            At(p) == lat_history[PercentileIndex(k, p)]
<1>1. /\ k \in 1 .. HistorySize /\ HistorySize \in Nat /\ k <= Len(pongs)
      /\ lat_history \in [Index -> Nat] /\ Len(pongs) \in Nat
      /\ \A i \in 1 .. Len(pongs) : pongs[i] \in Nat
  BY TotalsDone, LatencyStatsAssumption DEF StatsInv, TypeOK
<1>2. \A p \in {50, 90, 99} : IsPercentile(At(p), p, k)
  BY <1>1, PercentileRead
<1>3. \A p \in {50, 90, 99} : PercentileIndex(k, p) \in 0 .. k - 1
  BY <1>1, IndexBelowCount
<1>4. PICK order \in Orders(k) : \A i \in 0 .. k - 1 : lat_history[i] = pongs[order[i] + 1]
  BY DEF AscendingPongs
<1>5. order \in [0 .. k - 1 -> 0 .. k - 1]
  BY <1>4 DEF Orders, Bijection, Injection
<1>6. ASSUME NEW i \in 0 .. k - 1
      PROVE  /\ lat_history[i] \in Nat /\ lat_min_us <= lat_history[i]
             /\ lat_history[i] <= lat_max_us
  <2>1. order[i] \in 0 .. k - 1 /\ lat_history[i] = pongs[order[i] + 1]
    BY <1>4, <1>5
  <2>2. order[i] + 1 \in 1 .. Len(pongs)
    BY <1>1, <2>1
  <2>3. IsMax(lat_max_us, Len(pongs)) /\ IsMin(lat_min_us, Len(pongs))
    BY TotalsDone
  <2>4. lat_min_us <= pongs[order[i] + 1] /\ pongs[order[i] + 1] <= lat_max_us
    BY <2>2, <2>3 DEF IsMax, IsMin
  <2>5. pongs[order[i] + 1] \in Nat
    BY <1>1, <2>2
  <2>. QED  BY <2>1, <2>4, <2>5
<1>7. \A i, j \in 0 .. k - 1 : i <= j => lat_history[i] <= lat_history[j]
  BY <1>6 DEF AscendingPongs
<1>8. /\ PercentileIndex(k, 50) <= PercentileIndex(k, 90)
      /\ PercentileIndex(k, 90) <= PercentileIndex(k, 99)
  BY <1>1, IndexAscends
<1>9. At(50) <= At(90) /\ At(90) <= At(99)
  BY <1>3, <1>7, <1>8
<1>10. lat_min_us <= At(50) /\ At(99) <= lat_max_us
  BY <1>3, <1>6
<1>11. /\ result'["p50"] = At(50) /\ result'["p90"] = At(90) /\ result'["p99"] = At(99)
  <2>1. result \in [Fields -> Nat]
    BY DEF StatsInv, TypeOK
  <2>. QED  BY <2>1 DEF ReadPercentiles, Fields
<1>12. UNCHANGED <<pongs, lat_history_count, lat_min_us, lat_max_us>>
  BY DEF ReadPercentiles, cbVars
<1>13. /\ IsPercentile(At(50), 50, k) /\ IsPercentile(At(90), 90, k)
       /\ IsPercentile(At(99), 99, k)
  BY <1>2
<1>. QED  BY <1>9, <1>10, <1>11, <1>12, <1>13 DEF PercentilesOK, IsPercentile

\* The sum over the count lies between the extremes, which are bounds of the pongs.
LEMMA ReadsAverage ==
  ASSUME StatsInv, cb_pc = "idle", pongs # << >>, ReadAverage, avg_sum = lat_sum_us
  PROVE  AverageOK'
<1>. DEFINE c == lat_count
<1>1. /\ c = Len(pongs) /\ c \in Nat \ {0} /\ Between(lat_sum_us, c)
      /\ IsMax(lat_max_us, c) /\ IsMin(lat_min_us, c)
      /\ lat_max_us \in Latencies /\ lat_min_us \in Latencies
  <2>1. pongs # << >> => Len(pongs) # 0
    BY TotalsDone
  <2>. QED  BY <2>1, TotalsDone
<1>2. lat_sum_us \in Nat /\ lat_max_us \in Nat /\ lat_min_us \in Nat
  BY <1>1, LatencyStatsAssumption DEF StatsInv, TypeOK
<1>3. c * lat_min_us <= lat_sum_us /\ lat_sum_us <= c * lat_max_us
  BY <1>1 DEF Between, IsMax, IsMin
<1>4. /\ lat_min_us <= lat_sum_us \div c /\ lat_sum_us \div c <= lat_max_us
  BY <1>1, <1>2, <1>3, QuotientBounds
<1>5. result'["avg"] = lat_sum_us \div c
  <2>1. result \in [Fields -> Nat]
    BY DEF StatsInv, TypeOK
  <2>. QED  BY <2>1 DEF ReadAverage, Fields
<1>6. UNCHANGED <<lat_min_us, lat_max_us>>
  BY DEF ReadAverage, cbVars
<1>. QED  BY <1>4, <1>5, <1>6 DEF AverageOK

\* Percentiles that were right stay so while the pongs and the results are the same.
LEMMA PercentilesKept ==
  ASSUME PercentilesOK,
         UNCHANGED <<pongs, lat_history_count, lat_min_us, lat_max_us>>,
         \A f \in {"p50", "p90", "p99"} : result'[f] = result[f]
  PROVE  PercentilesOK'
BY DEF PercentilesOK, IsPercentile

\* Every step of a run without a late pong leaves the summary right so far.
LEMMA SummaryStep ==
  ASSUME HistoryFits, StatsInv, [Next]_vars
  PROVE  SummaryOK'
<1>. SUFFICES ASSUME ~late' PROVE SummaryOK'
  BY DEF SummaryOK
<1>1. /\ main_pc = "loop" => ~late
      /\ main_pc # "loop" /\ ~late => cb_pc = "idle"
      /\ ~late => SummaryOK
      /\ result \in [Fields -> Nat]
  BY DEF StatsInv, CallbackOK, TypeOK
<1>2. CASE main_pc' = "loop"
  BY <1>2 DEF SummaryOK, Summing
<1>3. CASE UNCHANGED vars
  BY <1>1, <1>3 DEF vars, SummaryOK, AscendingPongs, PercentilesOK, IsPercentile,
                    AverageOK
<1>4. CASE Callback
  <2>1. CASE Pong
    BY <1>2, <2>1 DEF Pong, mainVars
  <2>2. CASE ~Pong
    <3>1. cb_pc # "idle" /\ main_pc' = main_pc /\ late' = late
      BY <1>4, <2>2 DEF Callback, AddSum, AddCount, SetMax, SetMin, AppendHistory,
                        StoreElement, SkipHistory, mainVars
    <3>. QED  BY <1>1, <1>2, <3>1
  <2>. QED  BY <2>1, <2>2
<1>5. CASE EndLoop
  <2>1. cb_pc = "idle" /\ pongs' = pongs /\ lat_history_count' = lat_history_count
    BY <1>5 DEF EndLoop, cbVars
  <2>2. main_pc' = "received" => lat_history_count = 0
    <3>1. lat_history_count \in Nat
      BY <2>1, TotalsDone
    <3>. QED  BY <1>5, <3>1 DEF EndLoop
  <2>3. main_pc' = "received" => pongs' = << >>
    BY <2>1, <2>2, TotalsDone
  <2>4. main_pc' \in {"sort", "received"}
    BY <1>5 DEF EndLoop
  <2>. QED  BY <2>3, <2>4 DEF SummaryOK, Summing
<1>6. ASSUME Main, ~EndLoop
      PROVE  ~late /\ cb_pc = "idle" /\ SummaryOK /\ UNCHANGED cbVars
  <2>1. late' = late /\ main_pc # "loop" /\ UNCHANGED cbVars
    BY <1>6 DEF Main, SortHistory, ReadCount, ReadPercentiles, ReadReceived, ReadSum,
                ReadAverage, ReadMin, ReadMax
  <2>. QED  BY <1>1, <2>1
<1>7. CASE SortHistory
  <2>1. AscendingPongs(lat_history', lat_history_count)
    BY <1>6, <1>7, SortsPongs DEF Main, EndLoop, SortHistory
  <2>2. AscendingPongs(lat_history, lat_history_count)'
    BY <1>7, <2>1 DEF SortHistory, cbVars, AscendingPongs
  <2>. QED  BY <1>7, <2>2 DEF SortHistory, SummaryOK, Summing
<1>8. CASE ReadCount
  <2>1. AscendingPongs(lat_history, lat_history_count)
    BY <1>6, <1>8 DEF Main, EndLoop, ReadCount, SummaryOK
  <2>2. AscendingPongs(lat_history, lat_history_count)'
    BY <1>8, <2>1 DEF ReadCount, cbVars, AscendingPongs
  <2>. QED  BY <1>8, <2>2 DEF ReadCount, cbVars, SummaryOK, Summing
<1>9. CASE ReadPercentiles
  <2>1. /\ ~late /\ cb_pc = "idle" /\ n = lat_history_count
        /\ AscendingPongs(lat_history, lat_history_count)
    BY <1>6, <1>9 DEF Main, EndLoop, ReadPercentiles, SummaryOK
  <2>2. lat_history_count > 0
    BY <1>9, <2>1, LatencyStatsAssumption DEF ReadPercentiles, StatsInv, HistoryInv
  <2>3. pongs # << >> => PercentilesOK'
    BY <1>9, <2>1, ReadsPercentiles
  <2>4. /\ main_pc' = "received" /\ pongs' = pongs
        /\ lat_history_count' = lat_history_count
    BY <1>9 DEF ReadPercentiles, cbVars
  <2>5. lat_history_count # 0
    BY <2>2, LatencyStatsAssumption DEF StatsInv, TypeOK
  <2>. QED  BY <2>3, <2>4, <2>5 DEF SummaryOK
<1>10. CASE ReadReceived
  <2>1. /\ pongs # << >> => PercentilesOK
        /\ UNCHANGED cbVars
    BY <1>6, <1>10 DEF Main, EndLoop, ReadReceived, SummaryOK, Summing
  <2>2. \A f \in {"p50", "p90", "p99"} : result'[f] = result[f]
    BY <1>1, <1>10 DEF ReadReceived, Fields
  <2>3. pongs # << >> => PercentilesOK'
    BY <2>1, <2>2, <1>6, <1>10, PercentilesKept DEF cbVars, Main, EndLoop, ReadReceived
  <2>4. main_pc' = "min" => pongs = << >>
    <3>1. cb_pc = "idle"
      BY <1>6, <1>10 DEF Main, EndLoop, ReadReceived
    <3>2. lat_count = Len(pongs) /\ Len(pongs) \in Nat /\ pongs \in Seq(Latencies)
      BY <3>1, TotalsDone
    <3>. QED  BY <1>10, <3>2 DEF ReadReceived
  <2>5. main_pc' \in {"sum", "min"}
    BY <1>10 DEF ReadReceived
  <2>. QED  BY <2>1, <2>3, <2>4, <2>5 DEF SummaryOK, cbVars, Summing
<1>11. CASE ReadSum
  <2>1. pongs # << >> => PercentilesOK
    BY <1>6, <1>11 DEF Main, EndLoop, ReadSum, SummaryOK, Summing
  <2>2. pongs # << >> => PercentilesOK'
    BY <1>11, <2>1, PercentilesKept DEF ReadSum, cbVars
  <2>. QED  BY <1>11, <2>2 DEF ReadSum, cbVars, SummaryOK
<1>12. CASE ReadAverage
  <2>1. /\ ~late /\ cb_pc = "idle" /\ (pongs # << >> => PercentilesOK)
        /\ avg_sum = lat_sum_us
    BY <1>6, <1>12 DEF Main, EndLoop, ReadAverage, SummaryOK, Summing
  <2>2. \A f \in {"p50", "p90", "p99"} : result'[f] = result[f]
    BY <1>1, <1>12 DEF ReadAverage, Fields
  <2>3. pongs # << >> => PercentilesOK'
    BY <1>12, <2>1, <2>2, PercentilesKept DEF ReadAverage, cbVars
  <2>4. pongs # << >> => AverageOK'
    BY <1>12, <2>1, ReadsAverage
  <2>. QED  BY <1>12, <2>3, <2>4 DEF ReadAverage, cbVars, SummaryOK
<1>13. CASE ReadMin
  <2>1. /\ ~late /\ cb_pc = "idle"
        /\ pongs # << >> => PercentilesOK /\ AverageOK
    BY <1>6, <1>13 DEF Main, EndLoop, ReadMin, SummaryOK, Summing
  <2>2. \A f \in {"p50", "p90", "p99", "avg"} : result'[f] = result[f]
    BY <1>1, <1>13 DEF ReadMin, Fields
  <2>3. pongs # << >> => PercentilesOK'
    BY <1>13, <2>1, <2>2, PercentilesKept DEF ReadMin, cbVars
  <2>4. pongs # << >> => AverageOK'
    BY <1>13, <2>1, <2>2 DEF ReadMin, cbVars, AverageOK
  <2>5. pongs # << >> => lat_min_us \in Nat
    BY <2>1, TotalsDone, LatencyStatsAssumption
  <2>6. pongs # << >> => result'["min"] = lat_min_us
    BY <1>1, <1>13, <2>5 DEF ReadMin, Fields, NoMin
  <2>. QED  BY <1>13, <2>3, <2>4, <2>6 DEF ReadMin, cbVars, SummaryOK
<1>14. CASE ReadMax
  <2>1. pongs # << >> => PercentilesOK /\ AverageOK /\ result["min"] = lat_min_us
    BY <1>6, <1>14 DEF Main, EndLoop, ReadMax, SummaryOK, Summing
  <2>2. /\ \A f \in {"p50", "p90", "p99", "avg", "min"} : result'[f] = result[f]
        /\ result'["max"] = lat_max_us
    BY <1>1, <1>14 DEF ReadMax, Fields
  <2>3. pongs # << >> => PercentilesOK'
    BY <1>14, <2>1, <2>2, PercentilesKept DEF ReadMax, cbVars
  <2>4. pongs # << >> => AverageOK'
    BY <1>14, <2>1, <2>2 DEF ReadMax, cbVars, AverageOK
  <2>. QED  BY <1>14, <2>1, <2>2, <2>3, <2>4 DEF ReadMax, cbVars, SummaryOK
<1>15. CASE SortOverStore
  BY <1>1, <1>15 DEF SortOverStore
<1>. QED
  BY <1>3, <1>4, <1>5, <1>7, <1>8, <1>9, <1>10, <1>11, <1>12, <1>13, <1>14, <1>15
  DEF Next, Main

----------------------------------------------------------------------------
LEMMA StatsStart == Init => StatsInv
<1>. SUFFICES ASSUME Init PROVE StatsInv
  OBVIOUS
<1>. USE LatencyStatsAssumption
<1>1. TypeOK
  <2>1. pongs \in Seq(Latencies)
    BY DEF Init
  <2>2. late \in BOOLEAN
    BY DEF Init
  <2>3. /\ lat_history \in [Index -> Nat] /\ result \in [Fields -> Nat]
        /\ lat_history_count \in 0 .. HistorySize /\ n \in 0 .. HistorySize
    BY DEF Init
  <2>. QED  BY <2>1, <2>2, <2>3 DEF Init, TypeOK, NoMin
<1>2. HistoryInv
  BY HistoryStarts
<1>3. Len(pongs) = 0 /\ \A S : cb_pc \notin S => Past(S) = 0
  BY DEF Init, Past
<1>4. /\ Past({"sum"}) = 0 /\ Past(BeforeCount) = 0 /\ Past(BeforeMax) = 0
      /\ Past(BeforeMin) = 0 /\ Past(BeforeHistory) = 0
  BY <1>3 DEF Init, BeforeCount, BeforeMax, BeforeMin, BeforeHistory
<1>5. Between(lat_sum_us, 0) /\ IsMax(lat_max_us, 0) /\ IsMin(lat_min_us, 0)
  BY DEF Init, Between, IsMax, IsMin
<1>6. TotalsOK
  BY <1>4, <1>5 DEF TotalsOK, Init
<1>7. RecordOK
  BY <1>4 DEF RecordOK, Room, Init
<1>. QED  BY <1>1, <1>2, <1>6, <1>7 DEF StatsInv, CallbackOK, SummaryOK, Summing, Init

\* In every interleaving of pongs and summary the fields are what the pongs were,
\* if no latency exceeds the 32 bits of a history element and the history is not
\* so long that a percentile's index wraps.
THEOREM StatsInvariant ==
  ASSUME LatenciesFit, HistoryFits
  PROVE  Spec => []StatsInv
<1>1. ASSUME StatsInv, [Next]_vars PROVE StatsInv'
  <2>. USE <1>1
  <2>1. TypeOK'
    BY TypeStep DEF StatsInv
  <2>2. HistoryInv'
    BY HistoryStep DEF StatsInv
  <2>3. CallbackOK'
    BY CallbackStep DEF StatsInv
  <2>4. TotalsOK'
    BY TotalsStep DEF StatsInv
  <2>5. RecordOK'
    BY RecordStep DEF StatsInv
  <2>6. SummaryOK'
    BY SummaryStep
  <2>7. (main_pc \in {"sum", "avg"} => lat_count > 0)'
    BY CountStep DEF StatsInv
  <2>. QED  BY <2>1, <2>2, <2>3, <2>4, <2>5, <2>6, <2>7 DEF StatsInv
<1>2. StatsInv /\ [Next]_vars => StatsInv'
  BY <1>1
<1>. QED  BY <1>2, StatsStart, PTL DEF Spec

\* The types need no bound on the latencies or on the history's size: every field
\* keeps its type in any run, a late pong or a wrapped index included.
THEOREM StatsTyping == Spec => []TypeOK
<1>. DEFINE Inv == /\ TypeOK /\ HistoryInv
                   /\ main_pc \in {"sum", "avg"} => lat_count > 0
<1>1. Init => Inv
  BY StatsStart DEF StatsInv
<1>2. Inv /\ [Next]_vars => Inv'
  BY TypeStep, HistoryStep, CountStep
<1>. QED  BY <1>1, <1>2, PTL DEF Spec

\* When no pong is late, the summary's percentiles ascend and they and the mean lie
\* between the extremes, given that the latencies and the history's size fit.
THEOREM SummaryIsOrdered ==
  ASSUME LatenciesFit, HistoryFits
  PROVE  Spec => []SummaryOrdered
<1>1. ASSUME StatsInv PROVE SummaryOrdered
  <2>. SUFFICES ASSUME Summarised, ~late
                PROVE  /\ result["min"] <= result["p50"] /\ result["p50"] <= result["p90"]
                       /\ result["p90"] <= result["p99"] /\ result["p99"] <= result["max"]
                       /\ result["min"] <= result["avg"] /\ result["avg"] <= result["max"]
    BY DEF SummaryOrdered
  <2>1. pongs # << >>
    BY DEF Summarised
  <2>. QED
    BY <1>1, <2>1 DEF StatsInv, SummaryOK, Summarised, Summing, PercentilesOK, AverageOK
<1>2. StatsInv => SummaryOrdered
  BY <1>1
<1>. QED  BY <1>2, StatsInvariant, PTL

\* When no pong is late, the percentiles reported are those of the pongs the history
\* had room for, whatever their number and order, given that the latencies and the
\* history's size fit.
THEOREM PercentilesAreCorrect ==
  ASSUME LatenciesFit, HistoryFits
  PROVE  Spec => []PercentilesCorrect
<1>1. ASSUME StatsInv PROVE PercentilesCorrect
  <2>. SUFFICES ASSUME Summarised, ~late
                PROVE  /\ IsPercentile(result["p50"], 50, Room(Len(pongs)))
                       /\ IsPercentile(result["p90"], 90, Room(Len(pongs)))
                       /\ IsPercentile(result["p99"], 99, Room(Len(pongs)))
    BY DEF PercentilesCorrect, Room
  <2>1. pongs # << >>
    BY DEF Summarised
  <2>2. cb_pc = "idle"
    BY <1>1 DEF StatsInv, CallbackOK, Summarised
  <2>3. lat_history_count = Room(Len(pongs))
    BY <1>1, <2>2, TotalsDone
  <2>. QED
    BY <1>1, <2>1, <2>3 DEF StatsInv, SummaryOK, Summarised, Summing, PercentilesOK
<1>2. StatsInv => PercentilesCorrect
  BY <1>1
<1>. QED  BY <1>2, StatsInvariant, PTL
=============================================================================
