------------------------ MODULE PerftestLite_proofs ------------------------
(***************************************************************************)
(* Theorems about one test, for every number of samples, every queue and   *)
(* history size, both reliabilities and both modes.                        *)
(***************************************************************************)
EXTENDS PerftestLite, SequenceTheorems, TLAPS

----------------------------------------------------------------------------
(* Typing. *)

\* what a step does to the logs when it may write s on t
LogGrows(t, s) ==
  /\ log' \in [Topic -> Seq(Sample)]
  /\ \A u \in Topic : u # t => log'[u] = log[u]
  /\ Len(log'[t]) \in {Len(log[t]), Len(log[t]) + 1}
  /\ \A i \in 1 .. Len(log[t]) : log'[t][i] = log[t][i]
  /\ \A i \in 1 .. Len(log'[t]) : i > Len(log[t]) => log'[t][i] = s

\* A write of a sample, accepted or refused, leaves what was sent before alone
\* and adds at most that sample.
LEMMA WriteGrows ==
  ASSUME DdsTypeOK, NEW t \in Topic, NEW s \in Sample,
         Accept(t, s) \/ Refuse(t)
  PROVE  LogGrows(t, s)
<1>1. CASE log' = log
  BY <1>1 DEF LogGrows, DdsTypeOK
<1>2. CASE log' = [log EXCEPT ![t] = Append(@, s)]
  <2>. DEFINE q == log[t]
  <2>1. q \in Seq(Sample)
    BY DEF DdsTypeOK
  <2>2. /\ Append(q, s) \in Seq(Sample)
        /\ Len(Append(q, s)) = Len(q) + 1
        /\ \A i \in 1 .. Len(q) : Append(q, s)[i] = q[i]
        /\ Append(q, s)[Len(q) + 1] = s
    BY <2>1, AppendProperties
  <2>3. Len(q) \in Nat
    BY <2>1, LenProperties
  <2>4. log'[t] = Append(q, s) /\ \A u \in Topic : u # t => log'[u] = log[u]
    BY <1>2 DEF DdsTypeOK
  <2>5. log' \in [Topic -> Seq(Sample)]
    BY <1>2, <2>2 DEF DdsTypeOK
  <2>. QED  BY <2>2, <2>3, <2>4, <2>5 DEF LogGrows
<1>. QED  BY <1>1, <1>2 DEF Accept, Refuse

\* The samples the code writes are samples.
LEMMA SampleTypes ==
  ASSUME TypeOK
  PROVE  /\ InitSample \in Sample
         /\ FinalSample \in Sample
         /\ \A n \in Nat : DataSample(n) \in Sample
BY DEF TypeOK, PubTypeOK, Sample, Kind, InitSample, FinalSample, DataSample

\* A listener that takes a sample stays within its log.
LEMMA TakeTypes ==
  ASSUME DdsTypeOK, NEW t \in Topic, NEW i \in Pending(t), Take(t, i)
  PROVE  /\ i \in Nat /\ i > 0 /\ i > got[t] /\ i <= Len(log[t])
         /\ got' \in [Topic -> Nat]
         /\ got'[t] = i
         /\ \A u \in Topic : u # t => got'[u] = got[u]
         /\ log[t][i] \in Sample
<1>1. log[t] \in Seq(Sample) /\ got[t] \in Nat
  BY DEF DdsTypeOK
<1>2. Len(log[t]) \in Nat
  BY <1>1, LenProperties
<1>3. i \in Nat /\ i > 0 /\ i > got[t] /\ i <= Len(log[t])
  BY <1>1, <1>2 DEF Pending
<1>4. log[t][i] \in Sample
  BY <1>1, <1>2, <1>3, ElementOfSeq
<1>. QED  BY <1>3, <1>4 DEF Take, DdsTypeOK

\* What a callback is handling is a sample of its log.
LEMMA TakenType ==
  ASSUME DdsTypeOK, NEW t \in Topic, got[t] > 0, got[t] <= Len(log[t])
  PROVE  Taken(t) \in Sample /\ Taken(t).seq \in Nat /\ Taken(t).kind \in Kind
<1>1. log[t] \in Seq(Sample) /\ got[t] \in Nat
  BY DEF DdsTypeOK
<1>2. Taken(t) \in Sample
  BY <1>1, LenProperties, ElementOfSeq DEF Taken
<1>. QED  BY <1>2 DEF Sample

\* A write leaves the samples already taken where they are.
LEMMA CursorKept ==
  ASSUME DdsTypeOK, CursorOK,
         NEW t \in Topic, NEW s, LogGrows(t, s),
         got' = got, sub_cb' = sub_cb
  PROVE  CursorOK'
<1>1. \A u \in Topic : /\ log[u] \in Seq(Sample) /\ got[u] \in Nat
                       /\ Len(log[u]) \in Nat
                       /\ Len(log'[u]) \in Nat
                       /\ Len(log'[u]) >= Len(log[u])
  <2>. TAKE u \in Topic
  <2>1. log[u] \in Seq(Sample) /\ log'[u] \in Seq(Sample) /\ got[u] \in Nat
    BY DEF DdsTypeOK, LogGrows
  <2>2. Len(log[u]) \in Nat /\ Len(log'[u]) \in Nat
    BY <2>1, LenProperties
  <2>. QED  BY <2>1, <2>2 DEF LogGrows
<1>2. \A u \in Topic : got'[u] <= Len(log'[u])
  BY <1>1 DEF CursorOK
<1>3. sub_cb # "idle" => /\ got["ping"] \in 1 .. Len(log["ping"])
                         /\ log'["ping"][got["ping"]] = log["ping"][got["ping"]]
  BY <1>1 DEF CursorOK, LogGrows, Topic
<1>. QED  BY <1>2, <1>3 DEF CursorOK, Taken, IsFinal, DataSteps, TrailingSteps

\* The publisher's steps keep the types.
LEMMA PublisherTypes ==
  ASSUME TypeOK, CursorOK, PubMainStep \/ PubCallbackStep
  PROVE  TypeOK' /\ CursorOK'
<1>. USE DEF TypeOK, DdsTypeOK, PubTypeOK
<1>1. SubTypeOK'
  BY DEF SubTypeOK, PubMainStep, PubCallbackStep, subVars
<1>2. sub_cb' = sub_cb
  BY DEF PubMainStep, PubCallbackStep, subVars
<1>. SUFFICES DdsTypeOK' /\ PubTypeOK' /\ CursorOK'
  BY <1>1
<1>. DEFINE Still == log' = log /\ got' = got
<1>3. ASSUME Still PROVE CursorOK'
  BY <1>2, <1>3 DEF CursorOK, Taken, IsFinal
<1>4. CASE Matched
  BY <1>3, <1>4 DEF Matched, ddsVars
<1>5. CASE StartTest
  BY <1>3, <1>5 DEF StartTest, ddsVars
<1>6. CASE TakeSemaphore
  BY <1>3, <1>6 DEF TakeSemaphore, ddsVars
<1>7. CASE TakeTimeout
  BY <1>3, <1>7 DEF TakeTimeout, ddsVars
<1>8. CASE EndTest
  BY <1>3, <1>8 DEF EndTest, ddsVars
<1>9. CASE PubShutdown
  BY <1>3, <1>9 DEF PubShutdown, DeleteParticipant, ddsVars
<1>10. CASE WarmUp
  <2>1. InitSample \in Sample
    BY <1>10, SampleTypes DEF WarmUp
  <2>2. LogGrows("ping", InitSample)
    BY <1>10, <2>1, WriteGrows DEF WarmUp, Topic
  <2>3. CursorOK'
    BY <1>2, <1>10, <2>2, CursorKept DEF WarmUp, Topic
  <2>. QED  BY <1>10, <2>2, <2>3 DEF WarmUp, LogGrows
<1>11. CASE Send
  <2>1. DataSample(seq') \in Sample
    BY <1>11, SampleTypes DEF Send
  <2>2. LogGrows("ping", DataSample(seq'))
    BY <1>11, <2>1, WriteGrows DEF Send, Topic
  <2>3. CursorOK'
    BY <1>2, <1>11, <2>2, CursorKept DEF Send, Topic
  <2>4. pub_pc' \in {"take", "loop"} /\ seq' \in Nat /\ total' \in Nat
    BY <1>11 DEF Send
  <2>5. PubTypeOK'
    BY <1>11, <2>4 DEF Send
  <2>. QED  BY <1>11, <2>2, <2>3, <2>5 DEF Send, LogGrows
<1>12. CASE Finalize
  <2>1. FinalSample \in Sample
    BY <1>12, SampleTypes DEF Finalize
  <2>2. LogGrows("ping", FinalSample)
    BY <1>12, <2>1, WriteGrows DEF Finalize, Topic
  <2>3. CursorOK'
    BY <1>2, <1>12, <2>2, CursorKept DEF Finalize, Topic
  <2>. QED  BY <1>12, <2>2, <2>3 DEF Finalize, LogGrows
<1>13. CASE OnPong
  <2>1. PICK i \in Pending("pong") :
          Take("pong", i) /\ HandlePong(log["pong"][i].kind)
    BY <1>13 DEF OnPong
  <2>2. /\ got' \in [Topic -> Nat]
        /\ got'["pong"] <= Len(log["pong"])
        /\ got'["ping"] = got["ping"]
    BY <2>1, TakeTypes DEF Topic
  <2>3. CursorOK'
    BY <1>2, <1>13, <2>2 DEF OnPong, CursorOK, Taken, IsFinal, Topic
  <2>4. DdsTypeOK'
    BY <1>13, <2>2 DEF OnPong
  <2>5. finished_remote' \in BOOLEAN
    BY <2>1 DEF HandlePong
  <2>6. lat_count' \in Nat /\ pub_cb' \in {"idle", "give"}
    BY <2>1 DEF HandlePong
  <2>7. PubTypeOK'
    BY <1>13, <2>5, <2>6 DEF OnPong
  <2>. QED  BY <2>3, <2>4, <2>7
<1>14. CASE GiveSemaphore
  BY <1>3, <1>14 DEF GiveSemaphore, ddsVars
<1>. QED
  BY <1>4, <1>5, <1>6, <1>7, <1>8, <1>9, <1>10, <1>11, <1>12, <1>13, <1>14
     DEF PubMainStep, PubCallbackStep, PubMain, PubCallback

\* The subscriber's steps keep the types.
LEMMA SubscriberTypes ==
  ASSUME TypeOK, CursorOK, SubMainStep \/ SubCallbackStep
  PROVE  TypeOK' /\ CursorOK'
<1>. USE DEF TypeOK, DdsTypeOK, SubTypeOK
<1>1. PubTypeOK'
  BY DEF PubTypeOK, SubMainStep, SubCallbackStep, pubVars
<1>. SUFFICES DdsTypeOK' /\ SubTypeOK' /\ CursorOK'
  BY <1>1
<1>2. sub_cb # "idle" => Taken("ping").seq \in Nat /\ Taken("ping").kind \in Kind
  BY TakenType DEF CursorOK, Topic
<1>. DEFINE Still == log' = log /\ got' = got
<1>3. ASSUME Still, sub_cb' \in {sub_cb, "idle"} PROVE CursorOK'
  BY <1>3 DEF CursorOK, Taken, IsFinal, DataSteps, TrailingSteps
\* the callback goes on with the same sample
<1>4. ASSUME Still, sub_cb # "idle", Taken("ping").kind \in {"DATA", "DATA_PING"},
             sub_cb' \in DataSteps \cup {"echo", "idle"}
      PROVE  CursorOK'
  BY <1>4 DEF CursorOK, Taken, IsFinal, DataSteps, TrailingSteps
<1>5. ASSUME Still, sub_cb # "idle", IsFinal("ping", got["ping"]),
             sub_cb' \in TrailingSteps \cup {"echo"}
      PROVE  CursorOK'
  BY <1>5 DEF CursorOK, Taken, IsFinal, DataSteps, TrailingSteps
<1>6. CASE SubMatched
  BY <1>3, <1>6 DEF SubMatched, ResetSteps, ddsVars
<1>7. CASE ResetTotal
  BY <1>3, <1>7 DEF ResetTotal, ResetSteps, ddsVars
<1>8. CASE ResetSeq
  BY <1>3, <1>8 DEF ResetSeq, ResetSteps, ddsVars
<1>9. CASE ResetLost
  BY <1>3, <1>9 DEF ResetLost, ResetSteps, ddsVars
<1>10. CASE ResetFinished
  BY <1>3, <1>10 DEF ResetFinished, ResetSteps, ddsVars
<1>11. CASE Report
  BY <1>3, <1>11 DEF Report, ddsVars
<1>12. CASE SubShutdown
  BY <1>3, <1>12 DEF SubShutdown, DeleteParticipant, ddsVars
<1>13. CASE OnSample
  <2>1. PICK i \in Pending("ping") :
          Take("ping", i) /\ sub_cb' = FirstStep(log["ping"][i].kind)
    BY <1>13 DEF OnSample
  <2>2. /\ got' \in [Topic -> Nat] /\ got'["ping"] = i /\ i > 0
        /\ i <= Len(log["ping"]) /\ got'["pong"] = got["pong"]
        /\ log["ping"][i].kind \in Kind
    BY <2>1, TakeTypes DEF Topic, Sample
  <2>3. sub_cb' \in {"fin_check", "echo", "gap_check"}
    BY <2>1 DEF FirstStep
  <2>4. log' = log /\ Taken("ping")' = log["ping"][i]
    BY <1>13, <2>2 DEF OnSample, Taken
  <2>5. \A t \in Topic : got'[t] <= Len(log'[t])
    BY <2>2, <2>4 DEF CursorOK, Topic
  <2>6. /\ sub_cb' = "gap_check" => log["ping"][i].kind \in {"DATA", "DATA_PING"}
        /\ sub_cb' = "fin_check" => log["ping"][i].kind = "FINALIZATION"
    BY <2>1, <2>2 DEF FirstStep, Kind
  <2>7. CursorOK'
    BY <2>2, <2>3, <2>4, <2>5, <2>6
       DEF CursorOK, IsFinal, DataSteps, TrailingSteps
  <2>. QED  BY <1>13, <2>2, <2>3, <2>7 DEF OnSample
<1>14. CASE CheckFirst
  <2>1. CursorOK'
    BY <1>4, <1>14 DEF CheckFirst, ddsVars, CursorOK, DataSteps
  <2>. QED  BY <1>2, <1>14, <2>1 DEF CheckFirst, ddsVars
<1>15. CASE CheckGap
  <2>1. CursorOK'
    BY <1>4, <1>15 DEF CheckGap, ddsVars, CursorOK, DataSteps
  <2>. QED  BY <1>2, <1>15, <2>1 DEF CheckGap, ddsVars
<1>16. CASE StoreGap
  <2>1. CursorOK'
    BY <1>4, <1>16 DEF StoreGap, ddsVars, CursorOK, DataSteps
  <2>. QED  BY <1>2, <1>16, <2>1 DEF StoreGap, ddsVars
<1>17. CASE StoreSeq
  <2>1. CursorOK'
    BY <1>4, <1>17 DEF StoreSeq, ddsVars, CursorOK, DataSteps
  <2>. QED  BY <1>2, <1>17, <2>1 DEF StoreSeq, ddsVars
<1>18. CASE LoadTotal
  <2>1. CursorOK'
    BY <1>4, <1>18 DEF LoadTotal, ddsVars, CursorOK, DataSteps
  <2>. QED  BY <1>2, <1>18, <2>1 DEF LoadTotal, ddsVars
<1>19. CASE StoreTotal
  <2>1. CursorOK'
    BY <1>4, <1>19 DEF StoreTotal, ddsVars, CursorOK, DataSteps
  <2>. QED  BY <1>2, <1>19, <2>1 DEF StoreTotal, ddsVars
<1>20. CASE CheckFinished
  <2>1. CursorOK'
    BY <1>5, <1>20 DEF CheckFinished, ddsVars, CursorOK, TrailingSteps
  <2>. QED  BY <1>2, <1>20, <2>1 DEF CheckFinished, ddsVars
<1>21. CASE CheckTrailing
  <2>1. CursorOK'
    BY <1>5, <1>21 DEF CheckTrailing, ddsVars, CursorOK, TrailingSteps
  <2>. QED  BY <1>2, <1>21, <2>1 DEF CheckTrailing, ddsVars
<1>22. CASE StoreTrailing
  <2>1. CursorOK'
    BY <1>5, <1>22 DEF StoreTrailing, ddsVars, CursorOK, TrailingSteps
  <2>. QED  BY <1>2, <1>22, <2>1 DEF StoreTrailing, ddsVars
<1>23. CASE SetFinished
  <2>1. CursorOK'
    BY <1>5, <1>23 DEF SetFinished, ddsVars, CursorOK, TrailingSteps
  <2>. QED  BY <1>2, <1>23, <2>1 DEF SetFinished, ddsVars
<1>24. CASE Echo
  <2>1. Taken("ping") \in Sample
    BY <1>24, TakenType DEF Echo, CursorOK, Topic
  <2>2. LogGrows("pong", Taken("ping"))
    BY <1>24, <2>1, WriteGrows DEF Echo, Topic
  <2>3. \A t \in Topic : Len(log[t]) \in Nat /\ Len(log'[t]) \in Nat
    BY <2>2, LenProperties DEF LogGrows
  <2>4. CursorOK'
    BY <1>24, <2>2, <2>3 DEF Echo, CursorOK, LogGrows, Topic, DataSteps, TrailingSteps
  <2>. QED  BY <1>24, <2>2, <2>4 DEF Echo, LogGrows
<1>. QED
  BY <1>6, <1>7, <1>8, <1>9, <1>10, <1>11, <1>12, <1>13, <1>14, <1>15, <1>16, <1>17,
     <1>18, <1>19, <1>20, <1>21, <1>22, <1>23, <1>24
     DEF SubMainStep, SubCallbackStep, SubMain, SubCallback

\* Discovery keeps the types.
LEMMA DiscoveryTypes ==
  ASSUME TypeOK, CursorOK, DiscoveryStep
  PROVE  TypeOK' /\ CursorOK'
<1>1. PubTypeOK' /\ SubTypeOK' /\ CursorOK'
  BY DEF TypeOK, PubTypeOK, SubTypeOK, pubVars, subVars, CursorOK, Taken, IsFinal,
         DiscoveryStep, Discovery, WriterMatch, ReaderMatch, WriterUnmatch,
         ReaderUnmatch
<1>2. PICK t \in Topic : WriterMatch(t) \/ ReaderMatch(t)
                           \/ WriterUnmatch(t) \/ ReaderUnmatch(t)
  BY DEF DiscoveryStep, Discovery
<1>3. ReaderOf(t) \in Process
  BY DEF ReaderOf, Process
<1>4. CASE WriterMatch(t) \/ WriterUnmatch(t)
  BY <1>1, <1>4 DEF TypeOK, DdsTypeOK, WriterMatch, WriterUnmatch
<1>5. CASE ReaderMatch(t) \/ ReaderUnmatch(t)
  BY <1>1, <1>3, <1>5 DEF TypeOK, DdsTypeOK, ReaderMatch, ReaderUnmatch
<1>. QED  BY <1>2, <1>4, <1>5

\* TypeOK is an invariant, with CursorOK to make it inductive: every callback
\* handles a sample that its topic's log holds.
THEOREM Typing == Spec => [](TypeOK /\ CursorOK)
<1>1. Init => TypeOK /\ CursorOK
  <2>. SUFFICES ASSUME Init PROVE TypeOK /\ CursorOK
    OBVIOUS
  <2>. USE DEF Init, DdsInit, PubInit, SubInit
  <2>1. DdsTypeOK
    BY DEF DdsTypeOK, Topic, Process
  <2>2. PubTypeOK
    <3>1. {burst, seq, total, lat_count, pub_last_seq, attempts} \subseteq Nat
      OBVIOUS
    <3>2. pub_report \in [total_samples : Nat, latency_samples_received : Nat]
      OBVIOUS
    <3>. QED  BY <3>1, <3>2 DEF PubTypeOK
  <2>3. SubTypeOK
    <3>1. {register, total_received, last_seq, lost_samples} \subseteq Nat
      OBVIOUS
    <3>2. sub_report \in [total_samples : Nat, lost_samples : Nat]
      OBVIOUS
    <3>3. received \subseteq Nat /\ finished \in BOOLEAN
      OBVIOUS
    <3>. QED  BY <3>1, <3>2, <3>3 DEF SubTypeOK, ResetSteps
  <2>4. CursorOK
    BY EmptySeq DEF CursorOK, DataSteps, TrailingSteps
  <2>. QED  BY <2>1, <2>2, <2>3, <2>4 DEF TypeOK
<1>2. TypeOK /\ CursorOK /\ [Next]_vars => (TypeOK /\ CursorOK)'
  <2>. SUFFICES ASSUME TypeOK, CursorOK, [Next]_vars
                PROVE  TypeOK' /\ CursorOK'
    OBVIOUS
  <2>1. CASE UNCHANGED vars
    BY <2>1 DEF vars, ddsVars, pubVars, subVars, TypeOK, DdsTypeOK, PubTypeOK,
                SubTypeOK, CursorOK, Taken, IsFinal
  <2>. QED  BY <2>1, PublisherTypes, SubscriberTypes, DiscoveryTypes DEF Next
<1>. QED  BY <1>1, <1>2, PTL DEF Spec

----------------------------------------------------------------------------
(* The handshake that ends a test. *)

\* A write on one topic changes which samples are FINALIZATION only by the one
\* it adds.
LEMMA GrowthFinal ==
  ASSUME TypeOK, CursorOK, NEW t \in Topic, NEW s \in Sample, LogGrows(t, s)
  PROVE  /\ \A u \in Topic : Len(log[u]) \in Nat /\ Len(log'[u]) \in Nat
         /\ \A u \in Topic : got[u] \in Nat /\ got[u] <= Len(log[u])
         /\ \A u \in Topic : Len(log[u]) <= Len(log'[u])
         /\ \A u \in Topic : u # t => Len(log[u]) = Len(log'[u])
         /\ \A u \in Topic : \A i \in 1 .. Len(log[u]) :
              log'[u][i].kind = log[u][i].kind
         /\ \A i \in 1 .. Len(log'[t]) :
              i \in 1 .. Len(log[t]) \/ log'[t][i].kind = s.kind
<1>1. \A u \in Topic : Len(log[u]) \in Nat /\ Len(log'[u]) \in Nat
  BY LenProperties DEF LogGrows, TypeOK, DdsTypeOK
<1>2. \A u \in Topic : got[u] \in Nat /\ got[u] <= Len(log[u])
  BY DEF TypeOK, DdsTypeOK, CursorOK
<1>3. \A u \in Topic : Len(log[u]) <= Len(log'[u])
  BY <1>1 DEF LogGrows
<1>4. \A u \in Topic : u # t => log'[u] = log[u]
  BY DEF LogGrows
<1>5. \A u \in Topic : \A i \in 1 .. Len(log[u]) : log'[u][i].kind = log[u][i].kind
  BY <1>4 DEF LogGrows
<1>6. \A i \in 1 .. Len(log'[t]) :
        i \in 1 .. Len(log[t]) \/ log'[t][i].kind = s.kind
  BY <1>1 DEF LogGrows
<1>7. \A u \in Topic : u # t => Len(log[u]) = Len(log'[u])
  BY <1>4
<1>. QED  BY <1>1, <1>2, <1>3, <1>5, <1>6, <1>7

\* No FINALIZATION is in the log before the publisher has left its loop, and
\* until then the subscriber has not finished.
LEMMA NotFinalYet ==
  ASSUME FinishInv, pub_pc \notin {"final", "done"}
  PROVE  /\ \A i \in 1 .. Len(log["ping"]) : ~IsFinal("ping", i)
         /\ ~finished /\ ~finished_remote
         /\ ~(sub_cb = "echo" /\ IsFinal("ping", got["ping"]))
         /\ sub_cb \notin TrailingSteps \cup {"fin_check"}
<1>1. \A i \in 1 .. Len(log["ping"]) : ~IsFinal("ping", i)
  BY DEF FinishInv, FinalIsLate
<1>2. got["ping"] > 0 => got["ping"] \in 1 .. Len(log["ping"])
  <2>1. got["ping"] \in Nat /\ log["ping"] \in Seq(Sample) /\ got["ping"] <= Len(log["ping"])
    BY DEF FinishInv, TypeOK, DdsTypeOK, CursorOK, Topic
  <2>. QED  BY <2>1, LenProperties
<1>3. ~finished
  BY <1>1, <1>2 DEF FinishInv, FinishedFirst
<1>4. sub_cb # "idle" => got["ping"] > 0
  BY DEF FinishInv, CursorOK
<1>. QED
  BY <1>1, <1>2, <1>3, <1>4
     DEF FinishInv, FinishedFirst, CursorOK, TrailingSteps

\* The publisher's steps keep the handshake invariant.
LEMMA PublisherFinish ==
  ASSUME FinishInv, TypeOK', CursorOK', SettleSuffices,
         PubMainStep \/ PubCallbackStep
  PROVE  FinishInv'
<1>. USE DEF FinishInv
<1>1. UNCHANGED <<sub_pc, sub_cb, finished>>
  BY DEF PubMainStep, PubCallbackStep, subVars
<1>. SUFFICES FinalIsLate' /\ FinalIsLast' /\ FinishedFirst'
  OBVIOUS
<1>. DEFINE Still == log' = log /\ got' = got
\* a step that writes nothing and changes neither Early nor finished_remote
<1>2. ASSUME Still, Early' = Early, finished_remote' = finished_remote,
             pub_pc \in {"final", "done"} => pub_pc' \in {"final", "done"}
      PROVE  FinalIsLate' /\ FinalIsLast' /\ FinishedFirst'
  BY <1>1, <1>2
     DEF FinalIsLate, FinalIsLast, FinishedFirst, IsFinal, Testing
<1>3. CASE Matched
  BY <1>2, <1>3 DEF Matched, ddsVars, Early
<1>4. CASE TakeSemaphore
  BY <1>2, <1>4 DEF TakeSemaphore, ddsVars, Early
<1>5. CASE TakeTimeout
  BY <1>2, <1>5 DEF TakeTimeout, ddsVars, Early
<1>6. CASE EndTest
  BY <1>2, <1>6 DEF EndTest, ddsVars, Early
<1>7. CASE PubShutdown
  BY <1>2, <1>7 DEF PubShutdown, ddsVars, Early, DeleteParticipant
<1>8. CASE StartTest /\ SettleDone
  <2>1. Testing' /\ log' = log /\ got' = got /\ finished_remote' = finished_remote
    BY <1>1, <1>8 DEF StartTest, SettleDone, Settled, Testing, ddsVars
  <2>2. ~finished /\ ~finished_remote
    BY <1>8 DEF StartTest, FinalIsLate, Early
  <2>3. \A i \in 1 .. Len(log["ping"]) : ~IsFinal("ping", i)
    BY <1>8, NotFinalYet DEF StartTest
  <2>. QED
    BY <1>1, <2>1, <2>2, <2>3
       DEF FinalIsLate, FinalIsLast, FinishedFirst, IsFinal, Early
<1>9. CASE WarmUp
  <2>1. InitSample \in Sample /\ InitSample.kind # "FINALIZATION"
    BY <1>9, SampleTypes DEF WarmUp, InitSample, DataSample, TypeOK, PubTypeOK
  <2>2. LogGrows("ping", InitSample)
    BY <1>9, <2>1, WriteGrows DEF WarmUp, Topic, TypeOK
  <2>3. /\ \A i \in 1 .. Len(log["ping"]) : ~IsFinal("ping", i)
        /\ ~finished /\ ~finished_remote
        /\ ~(sub_cb = "echo" /\ IsFinal("ping", got["ping"]))
    BY <1>9, NotFinalYet DEF WarmUp
  <2>4. \A i \in 1 .. Len(log'["ping"]) : ~IsFinal("ping", i)'
    BY <2>1, <2>2, <2>3, GrowthFinal DEF IsFinal, Topic
  <2>5. log'["pong"] = log["pong"]
    BY <2>2 DEF LogGrows, Topic
  <2>6. ~(sub_cb = "echo" /\ IsFinal("ping", got["ping"]))'
    BY <1>9, <2>4 DEF CursorOK, WarmUp, TypeOK, DdsTypeOK, Topic
  <2>7. Early' = Early /\ finished_remote' = finished_remote
    BY <1>9 DEF WarmUp, Early
  <2>. QED
    BY <1>1, <2>3, <2>4, <2>5, <2>6, <2>7
       DEF FinalIsLate, FinalIsLast, FinishedFirst, IsFinal, Testing
<1>10. CASE Send
  <2>1. DataSample(seq') \in Sample /\ DataSample(seq').kind # "FINALIZATION"
    BY <1>10, SampleTypes DEF Send, InitSample, DataSample, TypeOK, PubTypeOK
  <2>2. LogGrows("ping", DataSample(seq'))
    BY <1>10, <2>1, WriteGrows DEF Send, Topic, TypeOK
  <2>3. /\ \A i \in 1 .. Len(log["ping"]) : ~IsFinal("ping", i)
        /\ ~finished /\ ~finished_remote
        /\ ~(sub_cb = "echo" /\ IsFinal("ping", got["ping"]))
    BY <1>10, NotFinalYet DEF Send
  <2>4. \A i \in 1 .. Len(log'["ping"]) : ~IsFinal("ping", i)'
    BY <2>1, <2>2, <2>3, GrowthFinal DEF IsFinal, Topic
  <2>5. log'["pong"] = log["pong"]
    BY <2>2 DEF LogGrows, Topic
  <2>6. ~(sub_cb = "echo" /\ IsFinal("ping", got["ping"]))'
    BY <1>10, <2>4 DEF CursorOK, Send, TypeOK, DdsTypeOK, Topic
  <2>7. Early' = Early /\ finished_remote' = finished_remote
    BY <1>10 DEF Send, Early
  <2>. QED
    BY <1>1, <2>3, <2>4, <2>5, <2>6, <2>7
       DEF FinalIsLate, FinalIsLast, FinishedFirst, IsFinal, Testing
<1>11. CASE Finalize
  <2>1. LogGrows("ping", FinalSample) /\ FinalSample \in Sample
    BY <1>11, SampleTypes, WriteGrows DEF Finalize, Topic, TypeOK
  <2>2. pub_pc' = "final" /\ pub_pc = "final" /\ got' = got
        /\ finished_remote' = finished_remote
    BY <1>11 DEF Finalize
  <2>3. FinalSample.kind = "FINALIZATION"
    BY DEF FinalSample
  <2>4. FinalIsLast'
    <3>. SUFFICES ASSUME NEW i \in 1 .. Len(log'["ping"]),
                         NEW j \in 1 .. Len(log'["ping"]),
                         i < j, log'["ping"][i].kind = "FINALIZATION"
                  PROVE  log'["ping"][j].kind = "FINALIZATION"
      BY DEF FinalIsLast, IsFinal
    <3>1. CASE j \in 1 .. Len(log["ping"])
      <4>1. i \in 1 .. Len(log["ping"])
        BY <2>1, <3>1, GrowthFinal DEF Topic
      <4>. QED
        BY <2>1, <3>1, <4>1, GrowthFinal DEF FinalIsLast, IsFinal, Topic
    <3>2. CASE j \notin 1 .. Len(log["ping"])
      BY <2>1, <2>3, <3>2, GrowthFinal DEF Topic
    <3>. QED  BY <3>1, <3>2
  <2>5. FinalIsLate'
    BY <1>1, <2>2 DEF FinalIsLate, Early, Testing
  <2>6. got["ping"] > 0 => (IsFinal("ping", got["ping"])' <=> IsFinal("ping", got["ping"]))
    BY <2>1, <2>2, GrowthFinal DEF IsFinal, Topic
  <2>7. log'["pong"] = log["pong"]
    BY <2>1 DEF LogGrows, Topic
  <2>8. sub_cb = "echo" => got["ping"] > 0
    BY DEF CursorOK
  <2>. QED
    BY <1>1, <2>2, <2>4, <2>5, <2>6, <2>7, <2>8 DEF FinishedFirst, IsFinal
<1>12. CASE OnPong
  <2>1. PICK i \in Pending("pong") :
          Take("pong", i) /\ HandlePong(log["pong"][i].kind)
    BY <1>12 DEF OnPong
  <2>2. i \in 1 .. Len(log["pong"]) /\ got'["ping"] = got["ping"]
    <3>1. i \in Nat /\ i > 0 /\ i <= Len(log["pong"]) /\ got'["ping"] = got["ping"]
      BY <2>1, TakeTypes DEF Topic, TypeOK
    <3>2. Len(log["pong"]) \in Nat
      BY LenProperties DEF TypeOK, DdsTypeOK, Topic
    <3>. QED  BY <3>1, <3>2
  <2>3. finished_remote' => finished
    BY <2>1, <2>2 DEF HandlePong, FinishedFirst, IsFinal
  <2>4. log' = log /\ pub_pc' = pub_pc
    BY <1>12 DEF OnPong
  <2>5. FinalIsLate' /\ FinalIsLast'
    BY <1>1, <2>3, <2>4 DEF FinalIsLate, FinalIsLast, Early, Testing, IsFinal
  <2>. QED  BY <1>1, <2>2, <2>3, <2>4, <2>5 DEF FinishedFirst, IsFinal
<1>13. CASE GiveSemaphore
  BY <1>2, <1>13 DEF GiveSemaphore, ddsVars, Early
<1>. QED
  BY <1>3, <1>4, <1>5, <1>6, <1>7, <1>8, <1>9, <1>10, <1>11, <1>12, <1>13
     DEF PubMainStep, PubCallbackStep, PubMain, PubCallback

\* The subscriber's steps keep the handshake invariant.
LEMMA SubscriberFinish ==
  ASSUME FinishInv, TypeOK', CursorOK', SubMainStep \/ SubCallbackStep
  PROVE  FinishInv'
<1>. USE DEF FinishInv
<1>1. UNCHANGED <<pub_pc, finished_remote>>
  BY DEF SubMainStep, SubCallbackStep, pubVars
<1>. SUFFICES FinalIsLate' /\ FinalIsLast' /\ FinishedFirst'
  OBVIOUS
<1>. DEFINE Still == log' = log /\ got' = got
\* a step of the main thread
<1>2. ASSUME Still, finished' = finished, sub_cb' \in {sub_cb, "idle"},
             Testing => Testing'
      PROVE  FinalIsLate' /\ FinalIsLast' /\ FinishedFirst'
  BY <1>1, <1>2
     DEF FinalIsLate, FinalIsLast, FinishedFirst, IsFinal, Early, TrailingSteps
\* a step of the callback on a sample that is not FINALIZATION
<1>3. ASSUME Still, finished' = finished, sub_pc' = sub_pc, sub_cb \in DataSteps,
             sub_cb' \in DataSteps \cup {"echo", "idle"}
      PROVE  FinalIsLate' /\ FinalIsLast' /\ FinishedFirst'
  <2>1. ~IsFinal("ping", got["ping"])
    BY <1>3 DEF CursorOK, Taken, IsFinal
  <2>2. sub_cb' \notin TrailingSteps
    BY <1>3 DEF DataSteps, TrailingSteps
  <2>. QED
    BY <1>1, <1>3, <2>1, <2>2
       DEF FinalIsLate, FinalIsLast, FinishedFirst, IsFinal, Early, Testing
\* a step of the callback between the test of finished and its assignment
<1>4. ASSUME Still, finished' = finished, sub_pc' = sub_pc, ~finished,
             sub_cb' \in TrailingSteps
      PROVE  FinalIsLate' /\ FinalIsLast' /\ FinishedFirst'
  <2>1. sub_cb' # "echo"
    BY <1>4 DEF TrailingSteps
  <2>. QED
    BY <1>1, <1>4, <2>1
       DEF FinalIsLate, FinalIsLast, FinishedFirst, IsFinal, Early, Testing
<1>5. CASE SubMatched
  BY <1>2, <1>5 DEF SubMatched, ddsVars, Testing
<1>6. CASE ResetTotal
  BY <1>2, <1>6 DEF ResetTotal, ddsVars, Testing
<1>7. CASE ResetSeq
  BY <1>2, <1>7 DEF ResetSeq, ddsVars, Testing
<1>8. CASE ResetLost
  BY <1>2, <1>8 DEF ResetLost, ddsVars, Testing
<1>9. CASE Report
  BY <1>2, <1>9 DEF Report, ddsVars, Testing
<1>10. CASE SubShutdown
  BY <1>2, <1>10 DEF SubShutdown, DeleteParticipant, ddsVars, Testing
<1>11. CASE ResetFinished
  <2>1. ~finished
    BY <1>11 DEF ResetFinished, FinalIsLate, Testing
  <2>2. Still /\ finished' = finished /\ sub_cb' = sub_cb /\ Testing'
    BY <1>11, <2>1 DEF ResetFinished, Testing, ddsVars, TypeOK, SubTypeOK
  <2>. QED  BY <1>2, <2>2
<1>12. CASE OnSample
  <2>1. PICK i \in Pending("ping") :
          Take("ping", i) /\ sub_cb' = FirstStep(log["ping"][i].kind)
    BY <1>12 DEF OnSample
  <2>2. /\ i \in 1 .. Len(log["ping"]) /\ got["ping"] \in Nat
        /\ got["ping"] < i /\ got'["ping"] = i
    <3>1. /\ i \in Nat /\ i > 0 /\ i <= Len(log["ping"])
          /\ got["ping"] < i /\ got'["ping"] = i
      BY <2>1, TakeTypes DEF Topic, TypeOK
    <3>2. Len(log["ping"]) \in Nat /\ got["ping"] \in Nat
      BY LenProperties DEF TypeOK, DdsTypeOK, Topic
    <3>. QED  BY <3>1, <3>2
  <2>3. log' = log /\ sub_pc' = sub_pc /\ finished' = finished
    BY <1>12 DEF OnSample
  <2>4. sub_cb' \notin TrailingSteps
    BY <2>1 DEF FirstStep, TrailingSteps
  <2>5. sub_cb' = "echo" => ~IsFinal("ping", i)
    BY <2>1 DEF FirstStep, IsFinal
  <2>6. finished => IsFinal("ping", i)
    BY <2>2 DEF FinishedFirst, FinalIsLast
  <2>7. FinalIsLate' /\ FinalIsLast'
    BY <1>1, <2>3 DEF FinalIsLate, FinalIsLast, IsFinal, Early, Testing
  <2>. QED
    BY <1>1, <2>2, <2>3, <2>4, <2>5, <2>6, <2>7 DEF FinishedFirst, IsFinal
<1>13. CASE CheckFirst
  BY <1>3, <1>13 DEF CheckFirst, ddsVars, DataSteps
<1>14. CASE CheckGap
  BY <1>3, <1>14 DEF CheckGap, ddsVars, DataSteps
<1>15. CASE StoreGap
  BY <1>3, <1>15 DEF StoreGap, ddsVars, DataSteps
<1>16. CASE StoreSeq
  BY <1>3, <1>16 DEF StoreSeq, ddsVars, DataSteps
<1>17. CASE LoadTotal
  BY <1>3, <1>17 DEF LoadTotal, ddsVars, DataSteps
<1>18. CASE StoreTotal
  BY <1>3, <1>18 DEF StoreTotal, ddsVars, DataSteps
<1>19. CASE CheckFinished
  <2>1. CASE finished
    <3>1. Still /\ finished' = finished /\ sub_pc' = sub_pc /\ sub_cb' = "echo"
      BY <1>19, <2>1 DEF CheckFinished, ddsVars
    <3>. QED
      BY <1>1, <2>1, <3>1
         DEF FinalIsLate, FinalIsLast, FinishedFirst, IsFinal, Early, Testing,
             TrailingSteps
  <2>2. CASE ~finished
    BY <1>4, <1>19, <2>2 DEF CheckFinished, ddsVars, TrailingSteps
  <2>. QED  BY <2>1, <2>2
<1>20. CASE CheckTrailing
  <2>1. ~finished
    BY <1>20 DEF CheckTrailing, FinishedFirst, TrailingSteps
  <2>. QED  BY <1>4, <1>20, <2>1 DEF CheckTrailing, ddsVars, TrailingSteps
<1>21. CASE StoreTrailing
  <2>1. ~finished
    BY <1>21 DEF StoreTrailing, FinishedFirst, TrailingSteps
  <2>. QED  BY <1>4, <1>21, <2>1 DEF StoreTrailing, ddsVars, TrailingSteps
<1>22. CASE SetFinished
  <2>1. /\ finished' /\ sub_cb' = "echo" /\ Still /\ sub_pc' = sub_pc
        /\ sub_cb = "fin_set"
    BY <1>22 DEF SetFinished, ddsVars
  <2>2. got["ping"] > 0 /\ IsFinal("ping", got["ping"])
    BY <2>1 DEF CursorOK, TrailingSteps
  <2>3. ~Early
    BY <2>1, NotFinalYet DEF Early, TrailingSteps
  <2>. QED
    BY <1>1, <2>1, <2>2, <2>3
       DEF FinalIsLate, FinalIsLast, FinishedFirst, IsFinal, Early, Testing,
           TrailingSteps
<1>23. CASE Echo
  <2>1. got["ping"] > 0 /\ Taken("ping") \in Sample
    BY <1>23, TakenType DEF Echo, CursorOK, Topic, TypeOK
  <2>2. LogGrows("pong", Taken("ping"))
    BY <1>23, <2>1, WriteGrows DEF Echo, Topic, TypeOK
  <2>3. /\ log'["ping"] = log["ping"] /\ got' = got /\ sub_cb' = "idle"
        /\ sub_pc' = sub_pc /\ finished' = finished /\ sub_cb = "echo"
    BY <1>23, <2>2 DEF Echo, LogGrows, Topic
  <2>4. ASSUME NEW i \in 1 .. Len(log'["pong"]), IsFinal("pong", i)'
        PROVE  finished
    <3>1. CASE i \in 1 .. Len(log["pong"])
      BY <2>1, <2>2, <2>4, <3>1, GrowthFinal DEF FinishedFirst, IsFinal, Topic
    <3>2. CASE Taken("ping").kind = "FINALIZATION"
      BY <2>3, <3>2 DEF FinishedFirst, IsFinal, Taken
    <3>. QED  BY <2>1, <2>2, <2>4, <3>1, <3>2, GrowthFinal DEF IsFinal, Topic
  <2>5. FinalIsLate' /\ FinalIsLast'
    BY <1>1, <2>3 DEF FinalIsLate, FinalIsLast, IsFinal, Early, Testing
  <2>. QED
    BY <1>1, <2>3, <2>4, <2>5 DEF FinishedFirst, IsFinal, TrailingSteps
<1>. QED
  BY <1>5, <1>6, <1>7, <1>8, <1>9, <1>10, <1>11, <1>12, <1>13, <1>14, <1>15, <1>16,
     <1>17, <1>18, <1>19, <1>20, <1>21, <1>22, <1>23
     DEF SubMainStep, SubCallbackStep, SubMain, SubCallback

\* Everything the handshake relies on is invariant, given that the settle sleep
\* outlasts discovery and the subscriber's reset.
THEOREM FinishInvariant ==
  ASSUME SettleSuffices
  PROVE  Spec => []FinishInv
<1>1. Init => FinalIsLate /\ FinalIsLast /\ FinishedFirst
  BY EmptySeq
     DEF Init, DdsInit, PubInit, SubInit, Topic, FinalIsLate, FinalIsLast,
         FinishedFirst, Early, TrailingSteps
<1>2. ASSUME FinishInv, [Next]_vars, TypeOK', CursorOK' PROVE FinishInv'
  <2>1. CASE UNCHANGED vars \/ DiscoveryStep
    <3>1. UNCHANGED <<log, got, pub_pc, finished_remote, sub_pc, sub_cb, finished>>
      BY <2>1 DEF vars, ddsVars, pubVars, subVars, DiscoveryStep, Discovery,
                  WriterMatch, ReaderMatch, WriterUnmatch, ReaderUnmatch
    <3>. QED
      BY <1>2, <3>1
         DEF FinishInv, FinalIsLate, FinalIsLast, FinishedFirst, IsFinal, Early,
             Testing
  <2>. QED  BY <1>2, <2>1, PublisherFinish, SubscriberFinish DEF Next
<1>3. FinalIsLate /\ FinalIsLast /\ FinishedFirst /\ TypeOK /\ CursorOK => FinishInv
  BY DEF FinishInv
<1>4. FinishInv /\ [Next]_vars /\ TypeOK' /\ CursorOK' => FinishInv'
  BY <1>2
<1>. QED  BY <1>1, <1>3, <1>4, Typing, PTL DEF Spec

\* The publisher stops retrying early only if the subscriber has finished: for
\* every reliability, mode and loss, an echo it counts is a FINALIZATION the
\* subscriber has acted on.
THEOREM FinishAgrees ==
  ASSUME SettleSuffices
  PROVE  Spec => []FinishAgreement
<1>1. FinishInv => FinishAgreement
  BY DEF FinishInv, FinishedFirst, FinishAgreement
<1>. QED  BY <1>1, FinishInvariant, PTL

\* Once the subscriber has finished, its statistics never change again: the main
\* thread reads a final result, whatever the callback still does.
THEOREM FinishFreezes ==
  ASSUME SettleSuffices
  PROVE  Spec => FinishedIsFinal
<1>. DEFINE Frozen == finished => /\ finished'
                                  /\ UNCHANGED <<total_received, last_seq, lost_samples>>
<1>1. ASSUME FinishInv, [Next]_vars, finished
      PROVE  finished' /\ UNCHANGED <<total_received, last_seq, lost_samples>>
  <2>. USE <1>1 DEF FinishInv
  <2>1. Testing
    BY DEF FinalIsLate
  <2>2. sub_cb \notin DataSteps \cup TrailingSteps
    BY DEF FinishedFirst, CursorOK, Taken, IsFinal
  <2>3. CASE SubMainStep
    BY <2>1, <2>3
       DEF SubMainStep, SubMain, SubMatched, ResetTotal, ResetSeq, ResetLost,
           ResetFinished, Report, SubShutdown, Testing
  <2>4. CASE SubCallbackStep
    BY <2>2, <2>4
       DEF SubCallbackStep, SubCallback, OnSample, CheckFirst, CheckGap, StoreGap,
           StoreSeq, LoadTotal, StoreTotal, CheckFinished, CheckTrailing,
           StoreTrailing, SetFinished, Echo, DataSteps, TrailingSteps
  <2>5. CASE UNCHANGED subVars
    BY <2>5 DEF subVars
  <2>. QED
    BY <2>3, <2>4, <2>5
       DEF Next, PubMainStep, PubCallbackStep, DiscoveryStep, vars
<1>2. FinishInv /\ [Next]_vars => [Frozen]_vars
  BY <1>1
<1>. QED  BY <1>2, FinishInvariant, PTL DEF Spec, FinishedIsFinal
=============================================================================
