---------------------------- MODULE LatencyStats ---------------------------
(***************************************************************************)
(* The publisher's latency statistics in a build with a latency history    *)
(* (PERFTEST_LITE_LATENCY_HISTORY_SIZE > 0): the pong callback updates     *)
(* them field by field while the main thread, its time over, sorts and     *)
(* reads them.  Publisher.tla records a pong and fills in the result in    *)
(* one step each; here every access to a shared field is a step.           *)
(***************************************************************************)
EXTENDS Integers, Sequences, FiniteSets, Functions

CONSTANTS
  HistorySize,  \* PERFTEST_LITE_LATENCY_HISTORY_SIZE
  Latencies,    \* the latencies a pong can measure
  MaxPongs,     \* bound of the model: pongs in a run
  CountFirst,   \* the build may store the new count before the new element
  UIntMod       \* 2^32: the percentile indices are unsigned int products, and the
                \* history holds uint32_t

ASSUME LatencyStatsAssumption ==
  /\ HistorySize \in Nat \ {0}
  /\ Latencies \subseteq Nat
  /\ MaxPongs \in Nat
  /\ CountFirst \in BOOLEAN
  /\ UIntMod \in Nat \ {0}

\* no latency of 71 minutes: where the summary is compared with the pongs
LatenciesFit == Latencies \subseteq 0 .. UIntMod - 1

\* the percentile indices do not wrap; nothing in the code checks the size of the
\* history against the product's width
HistoryFits == HistorySize * 99 < UIntMod

VARIABLES
  main_pc,            \* where run_one_size is
  cb_pc,              \* where pub_on_pong_sample is, "idle" outside it
  latency,            \* its local
  lat_sum_us, lat_count, lat_min_us, lat_max_us,
  lat_history,        \* the heap array
  lat_history_count,
  n,                  \* local of run_one_size
  avg_sum,            \* the sum loaded for the average
  result,             \* *result_out
  pongs,              \* history: the latencies of the pongs so far, in order
  late                \* history: a pong was handled after the send loop ended

vars == <<main_pc, cb_pc, latency, lat_sum_us, lat_count, lat_min_us, lat_max_us,
          lat_history, lat_history_count, n, avg_sum, result, pongs, late>>

cbVars   == <<cb_pc, latency, lat_sum_us, lat_count, lat_min_us, lat_max_us,
              lat_history_count, pongs>>
mainVars == <<main_pc, n, avg_sum, result>>

Index  == 0 .. HistorySize - 1
NoMin  == -1   \* (uint64_t)-1, the initial minimum: above every latency
Fields == {"p50", "p90", "p99", "received", "avg", "min", "max"}

TypeOK ==
  /\ main_pc \in {"loop", "sort", "count", "percentiles", "received", "sum",
                  "avg", "min", "max", "done"}
  /\ cb_pc \in {"idle", "sum", "count", "max", "min", "history", "store"}
  /\ latency \in Nat
  /\ lat_sum_us \in Nat /\ lat_count \in Nat /\ lat_max_us \in Nat
  /\ lat_min_us \in Nat \cup {NoMin}
  /\ lat_history \in [Index -> Nat]
  /\ lat_history_count \in 0 .. HistorySize
  /\ n \in 0 .. HistorySize
  /\ avg_sum \in Nat
  /\ result \in [Fields -> Nat]
  /\ pongs \in Seq(Latencies)
  /\ late \in BOOLEAN

\* after the reset at the end of the warm-up; OSAPI_Heap_allocate has zeroed
\* the array (were it to fail, the history would stay empty)
Init ==
  /\ main_pc = "loop" /\ cb_pc = "idle" /\ latency = 0
  /\ lat_sum_us = 0 /\ lat_count = 0 /\ lat_min_us = NoMin /\ lat_max_us = 0
  /\ lat_history = [i \in Index |-> 0]
  /\ lat_history_count = 0
  /\ n = 0 /\ avg_sum = 0
  /\ result = [f \in Fields |-> 0]
  /\ pongs = << >> /\ late = FALSE

----------------------------------------------------------------------------
(* pub_on_pong_sample on a pong that is a latency sample. *)

Pong ==
  /\ cb_pc = "idle"
  /\ Len(pongs) < MaxPongs
  /\ \E v \in Latencies : latency' = v /\ pongs' = Append(pongs, v)
  /\ cb_pc' = "sum"
  /\ late' = (late \/ main_pc # "loop")
  /\ UNCHANGED <<lat_sum_us, lat_count, lat_min_us, lat_max_us, lat_history,
                 lat_history_count, mainVars>>

AddSum ==
  /\ cb_pc = "sum"
  /\ cb_pc' = "count"
  /\ lat_sum_us' = lat_sum_us + latency
  /\ UNCHANGED <<latency, lat_count, lat_min_us, lat_max_us, lat_history,
                 lat_history_count, pongs, late, mainVars>>

AddCount ==
  /\ cb_pc = "count"
  /\ cb_pc' = "max"
  /\ lat_count' = lat_count + 1
  /\ UNCHANGED <<latency, lat_sum_us, lat_min_us, lat_max_us, lat_history,
                 lat_history_count, pongs, late, mainVars>>

SetMax ==
  /\ cb_pc = "max"
  /\ cb_pc' = "min"
  /\ lat_max_us' = IF latency > lat_max_us THEN latency ELSE lat_max_us
  /\ UNCHANGED <<latency, lat_sum_us, lat_count, lat_min_us, lat_history,
                 lat_history_count, pongs, late, mainVars>>

\* mutant: the initial minimum compared as a signed number
SetMinSigned ==
  /\ cb_pc = "min"
  /\ cb_pc' = "history"
  /\ lat_min_us' = IF latency < lat_min_us THEN latency ELSE lat_min_us
  /\ UNCHANGED <<latency, lat_sum_us, lat_count, lat_max_us, lat_history,
                 lat_history_count, pongs, late, mainVars>>

SetMin ==
  /\ cb_pc = "min"
  /\ cb_pc' = "history"
  /\ lat_min_us' = IF lat_min_us = NoMin \/ latency < lat_min_us
                   THEN latency ELSE lat_min_us
  /\ UNCHANGED <<latency, lat_sum_us, lat_count, lat_max_us, lat_history,
                 lat_history_count, pongs, late, mainVars>>

\* mutant: room for one element too many
HasRoomOffByOne == lat_history_count <= HistorySize

HasRoom == lat_history_count < HistorySize

\* the history holds 32 bits of a 64 bit latency
Clamped(v) == IF v >= UIntMod THEN UIntMod - 1 ELSE v

\* lat_history[lat_history_count++] = v: C leaves open whether another thread
\* can see the new count before the new element, a build decides
AppendHistory ==
  /\ cb_pc = "history"
  /\ HasRoom
  /\ lat_history_count' = lat_history_count + 1
  /\ \/ /\ cb_pc' = "idle"
        /\ lat_history' = [lat_history EXCEPT ![lat_history_count] = Clamped(latency)]
     \/ /\ CountFirst
        /\ cb_pc' = "store"
        /\ UNCHANGED lat_history
  /\ UNCHANGED <<latency, lat_sum_us, lat_count, lat_min_us, lat_max_us, pongs,
                 late, mainVars>>

StoreElement ==
  /\ cb_pc = "store"
  /\ cb_pc' = "idle"
  /\ lat_history' = [lat_history EXCEPT ![lat_history_count - 1] = Clamped(latency)]
  /\ UNCHANGED <<latency, lat_sum_us, lat_count, lat_min_us, lat_max_us,
                 lat_history_count, pongs, late, mainVars>>

SkipHistory ==
  /\ cb_pc = "history"
  /\ ~HasRoom
  /\ cb_pc' = "idle"
  /\ UNCHANGED <<latency, lat_sum_us, lat_count, lat_min_us, lat_max_us,
                 lat_history, lat_history_count, pongs, late, mainVars>>

Callback ==
  Pong \/ AddSum \/ AddCount \/ SetMax \/ SetMin \/ AppendHistory
    \/ StoreElement \/ SkipHistory

----------------------------------------------------------------------------
(* run_one_size from the end of its send loop. *)

EndLoop ==
  /\ main_pc = "loop"
  /\ main_pc' = IF lat_history_count > 0 THEN "sort" ELSE "received"
  /\ late' = (cb_pc # "idle")
  /\ UNCHANGED <<cbVars, lat_history, n, avg_sum, result>>

\* the first k elements rearranged
Rearranged(h, k, order) ==
  [i \in DOMAIN h |-> IF i < k THEN h[order[i]] ELSE h[i]]

Orders(k) == Bijection(0 .. k - 1, 0 .. k - 1)

\* mutant: no qsort
Unsorted(h, k) == {h}

\* the first k elements in ascending order, the others where they were
Sorted(h, k) ==
  {g \in {Rearranged(h, k, order) : order \in Orders(k)} :
     \A i, j \in 0 .. k - 1 : i < j => g[i] <= g[j]}

\* qsort; what the callback appends meanwhile lies behind the part it sorts, but
\* for the element that was counted before: see SortOverStore
SortHistory ==
  /\ main_pc = "sort"
  /\ main_pc' = "count"
  /\ lat_history' \in Sorted(lat_history, lat_history_count)
  /\ UNCHANGED <<cbVars, n, avg_sum, result, late>>

\* the first k places hold any of their elements and of v
Torn(h, k, v) ==
  LET Values == {h[i] : i \in 0 .. k - 1} \cup {v}
  IN  {[i \in Index |-> IF i < k THEN f[i] ELSE h[i]] : f \in [0 .. k - 1 -> Values]}

\* the callback has counted its element and stores it while qsort is at work on
\* the part it belongs to
SortOverStore ==
  /\ main_pc = "sort" /\ cb_pc = "store"
  /\ main_pc' = "count" /\ cb_pc' = "idle"
  /\ lat_history' \in Torn(lat_history, lat_history_count, Clamped(latency))
  /\ UNCHANGED <<latency, lat_sum_us, lat_count, lat_min_us, lat_max_us,
                 lat_history_count, pongs, late, n, avg_sum, result>>

\* the count is read again after the sort
ReadCount ==
  /\ main_pc = "count"
  /\ main_pc' = "percentiles"
  /\ n' = lat_history_count
  /\ UNCHANGED <<cbVars, lat_history, avg_sum, result, late>>

\* mutant: rounded up
PercentileIndexUp(k, p) == ((k * p + 99) % UIntMod) \div 100

\* mutant: from the last index instead of the count
PercentileIndexBelow(k, p) == (((k - 1) * p) % UIntMod) \div 100

\* n * p / 100 in unsigned int
PercentileIndex(k, p) == ((k * p) % UIntMod) \div 100

ReadPercentiles ==
  /\ main_pc = "percentiles"
  /\ main_pc' = "received"
  /\ result' = [result EXCEPT !["p50"] = lat_history[PercentileIndex(n, 50)],
                              !["p90"] = lat_history[PercentileIndex(n, 90)],
                              !["p99"] = lat_history[PercentileIndex(n, 99)]]
  /\ UNCHANGED <<cbVars, lat_history, n, avg_sum, late>>

\* latency_samples_received, then lat_count ? ... for the average
ReadReceived ==
  /\ main_pc = "received"
  /\ result' = [result EXCEPT !["received"] = lat_count]
  /\ main_pc' = IF lat_count > 0 THEN "sum" ELSE "min"
  /\ UNCHANGED <<cbVars, lat_history, n, avg_sum, late>>

\* lat_sum_us / lat_count: the order of the two loads is the compiler's, this is
\* one of them; it matters only to a run with a late pong
ReadSum ==
  /\ main_pc = "sum"
  /\ main_pc' = "avg"
  /\ avg_sum' = lat_sum_us
  /\ UNCHANGED <<cbVars, lat_history, n, result, late>>

ReadAverage ==
  /\ main_pc = "avg"
  /\ main_pc' = "min"
  /\ result' = [result EXCEPT !["avg"] = avg_sum \div lat_count]
  /\ UNCHANGED <<cbVars, lat_history, n, avg_sum, late>>

ReadMin ==
  /\ main_pc = "min"
  /\ main_pc' = "max"
  /\ result' = [result EXCEPT !["min"] = IF lat_min_us = NoMin THEN 0
                                         ELSE lat_min_us]
  /\ UNCHANGED <<cbVars, lat_history, n, avg_sum, late>>

ReadMax ==
  /\ main_pc = "max"
  /\ main_pc' = "done"
  /\ result' = [result EXCEPT !["max"] = lat_max_us]
  /\ UNCHANGED <<cbVars, lat_history, n, avg_sum, late>>

Main ==
  EndLoop \/ SortHistory \/ ReadCount \/ ReadPercentiles \/ ReadReceived
    \/ ReadSum \/ ReadAverage \/ ReadMin \/ ReadMax

Next == Callback \/ Main \/ SortOverStore

Spec == Init /\ [][Next]_vars

----------------------------------------------------------------------------
Summarised == main_pc = "done" /\ Len(pongs) > 0

\* The three reads of the history stay within the elements recorded: the cap
\* keeps the count in range, and the index is below it (a product that wraps
\* only makes it smaller).
PercentilesInRange ==
  main_pc = "percentiles" =>
    \A p \in {50, 90, 99} : PercentileIndex(n, p) \in 0 .. n - 1

\* The inductive form of PercentilesInRange: the history is not empty once the
\* main thread has found it so, and only ever grows, up to its cap.
HistoryInv ==
  /\ lat_history_count \in 0 .. HistorySize
  /\ main_pc \in {"sort", "count"} => lat_history_count > 0
  /\ main_pc = "percentiles" => n \in 1 .. lat_history_count

\* When no pong is handled after the send loop, the summary is consistent:
\* the percentiles ascend and they and the mean lie between the extremes.
SummaryOrdered ==
  (Summarised /\ ~late) =>
    /\ result["min"] <= result["p50"] /\ result["p50"] <= result["p90"]
    /\ result["p90"] <= result["p99"] /\ result["p99"] <= result["max"]
    /\ result["min"] <= result["avg"] /\ result["avg"] <= result["max"]

\* v is a p-th percentile of the first k pongs: at least p percent of them do
\* not exceed it and at least 100 - p percent are not below it
IsPercentile(v, p, k) ==
  /\ 100 * Cardinality({i \in 1 .. k : pongs[i] <= v}) >= p * k
  /\ 100 * Cardinality({i \in 1 .. k : pongs[i] >= v}) >= (100 - p) * k

\* When no pong is handled after the send loop, what is reported are the
\* percentiles of the pongs the history had room for.
PercentilesCorrect ==
  (Summarised /\ ~late) =>
    LET k == IF Len(pongs) < HistorySize THEN Len(pongs) ELSE HistorySize
    IN  /\ IsPercentile(result["p50"], 50, k)
        /\ IsPercentile(result["p90"], 90, k)
        /\ IsPercentile(result["p99"], 99, k)

\* "Compute percentiles from sorted history": they ascend in every run.
PercentilesSorted ==
  main_pc = "done" =>
    result["p50"] <= result["p90"] /\ result["p90"] <= result["p99"]

----------------------------------------------------------------------------
(* The inductive invariant behind SummaryOrdered and PercentilesCorrect.    *)

\* the pongs whose callback is past these of its steps
Past(steps) == IF cb_pc \in steps THEN Len(pongs) - 1 ELSE Len(pongs)

BeforeCount   == {"sum", "count"}
BeforeMax     == BeforeCount \cup {"max"}
BeforeMin     == BeforeMax \cup {"min"}
BeforeHistory == BeforeMin \cup {"history"}

CallbackOK ==
  /\ cb_pc # "idle" => Len(pongs) > 0 /\ latency = pongs[Len(pongs)]
  /\ main_pc = "loop" => ~late
  /\ (main_pc # "loop" /\ ~late) => cb_pc = "idle"

\* the sum lies between as many times any bounds of the pongs added
Between(sum, k) ==
  /\ \A lo \in Latencies : (\A i \in 1 .. k : lo <= pongs[i]) => k * lo <= sum
  /\ \A hi \in Latencies : (\A i \in 1 .. k : pongs[i] <= hi) => sum <= k * hi

IsMax(v, k) ==
  /\ \A i \in 1 .. k : pongs[i] <= v
  /\ IF k = 0 THEN v = 0 ELSE \E i \in 1 .. k : pongs[i] = v

IsMin(v, k) ==
  /\ \A i \in 1 .. k : v <= pongs[i]
  /\ IF k = 0 THEN v = NoMin ELSE \E i \in 1 .. k : pongs[i] = v

TotalsOK ==
  /\ Between(lat_sum_us, Past({"sum"}))
  /\ lat_count = Past(BeforeCount)
  /\ IsMax(lat_max_us, Past(BeforeMax))
  /\ IsMin(lat_min_us, Past(BeforeMin))

Room(k) == IF k < HistorySize THEN k ELSE HistorySize

\* the history holds the first pongs in their order until it is sorted
RecordOK ==
  /\ lat_history_count = Room(Past(BeforeHistory))
  /\ cb_pc = "store" => lat_history_count = Len(pongs)
  /\ main_pc \in {"loop", "sort"} =>
       \A i \in 0 .. lat_history_count - 1 :
         \/ lat_history[i] = pongs[i + 1]
         \/ cb_pc = "store" /\ i = lat_history_count - 1

\* h holds the first k pongs in ascending order
AscendingPongs(h, k) ==
  /\ \A i, j \in 0 .. k - 1 : i < j => h[i] <= h[j]
  /\ \E order \in Orders(k) : \A i \in 0 .. k - 1 : h[i] = pongs[order[i] + 1]

PercentilesOK ==
  /\ IsPercentile(result["p50"], 50, lat_history_count)
  /\ IsPercentile(result["p90"], 90, lat_history_count)
  /\ IsPercentile(result["p99"], 99, lat_history_count)
  /\ lat_min_us <= result["p50"] /\ result["p50"] <= result["p90"]
  /\ result["p90"] <= result["p99"] /\ result["p99"] <= lat_max_us

AverageOK == lat_min_us <= result["avg"] /\ result["avg"] <= lat_max_us

Summing == {"received", "sum", "avg", "min", "max", "done"}

\* what a run without a late pong has found so far
SummaryOK ==
  ~late =>
    /\ main_pc \in {"count", "percentiles"} =>
         AscendingPongs(lat_history, lat_history_count)
    /\ main_pc = "percentiles" => n = lat_history_count
    /\ main_pc = "received" /\ lat_history_count = 0 => pongs = << >>
    /\ main_pc \in Summing /\ pongs # << >> => PercentilesOK
    /\ main_pc = "avg" => avg_sum = lat_sum_us
    /\ main_pc \in {"min", "max", "done"} /\ pongs # << >> => AverageOK
    /\ main_pc \in {"max", "done"} /\ pongs # << >> => result["min"] = lat_min_us
    /\ main_pc = "done" => result["max"] = lat_max_us

\* The callback's place says which fields have the last pong and the main
\* thread's which of them the summary has taken; what they hold is what the
\* pongs were, and after the sort the history is their ascending order.
StatsInv ==
  /\ TypeOK
  /\ HistoryInv
  /\ main_pc \in {"sum", "avg"} => lat_count > 0
  /\ CallbackOK
  /\ TotalsOK
  /\ RecordOK
  /\ SummaryOK
=============================================================================
