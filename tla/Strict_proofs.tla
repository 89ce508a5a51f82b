---------------------------- MODULE Strict_proofs --------------------------
(***************************************************************************)
(* Strict ping-pong over a reliable transport: theorems for every number   *)
(* of samples and every size of the queues, whatever write refuses.        *)
(***************************************************************************)
EXTENDS Account_proofs

----------------------------------------------------------------------------
(* A topic with one sample. *)

\* A drained topic has nothing pending, and one with a single sample out has
\* that one.
LEMMA PendingOne ==
  ASSUME TypeOK, NEW t \in Topic
  PROVE  /\ Len(log[t]) \in Nat /\ got[t] \in Nat
         /\ Drained(t) => Pending(t) = {}
         /\ \A i \in Pending(t) : got[t] + 1 = Len(log[t]) => i = Len(log[t])
<1>1. Len(log[t]) \in Nat /\ got[t] \in Nat
  BY LenProperties DEF TypeOK, DdsTypeOK
<1>. QED  BY <1>1 DEF Pending, Drained

\* A write leaves its sample last on the topic, or the topic as it is; accepted by
\* a writer that has its reader it does the former.
LEMMA WriteLast ==
  ASSUME TypeOK, NEW t \in Topic, NEW s \in Sample, Accept(t, s) \/ Refuse(t)
  PROVE  /\ \A u \in Topic : u # t => log'[u] = log[u]
         /\ \/ log'[t] = log[t]
            \/ /\ Len(log'[t]) = Len(log[t]) + 1
               /\ log'[t][Len(log[t]) + 1] = s
         /\ (Accept(t, s) /\ writer_matched[t]) =>
              /\ Len(log'[t]) = Len(log[t]) + 1
              /\ log'[t][Len(log[t]) + 1] = s
<1>1. /\ log[t] \in Seq(Sample) /\ Len(log[t]) \in Nat
      /\ Append(log[t], s) \in Seq(Sample)
      /\ Len(Append(log[t], s)) = Len(log[t]) + 1
      /\ Append(log[t], s)[Len(log[t]) + 1] = s
  BY AppendProperties, LenProperties DEF TypeOK, DdsTypeOK
<1>. QED  BY <1>1 DEF Accept, Refuse, TypeOK, DdsTypeOK

----------------------------------------------------------------------------
(* The steps. *)

\* The publisher's steps: a sample leaves only when nothing is out, and the
\* semaphore is taken only when its pong has been handled.
LEMMA StrictPublisher ==
  ASSUME AccountInv, OneSampleOut, Reliable, LatencyTest, SettleSuffices,
         PubMainStep \/ PubCallbackStep
  PROVE  OneSampleOut'
<1>1. TypeOK
  BY DEF AccountInv, FinishInv
<1>2. sub_cb' = sub_cb
  BY DEF PubMainStep, PubCallbackStep, subVars
<1>3. /\ Len(log["ping"]) \in Nat /\ Len(log["pong"]) \in Nat
      /\ got["ping"] \in Nat /\ got["pong"] \in Nat
      /\ seq \in Nat /\ total \in Nat /\ lat_count \in Nat
      /\ pub_cb \in {"idle", "give"} /\ latency_sem \in {0, 1}
  BY <1>1, PendingOne DEF Topic, TypeOK, PubTypeOK
<1>4. CASE Matched
  BY <1>4 DEF Matched, OneSampleOut, Early, ddsVars
<1>5. CASE WarmUp
  <2>1. log'["pong"] = log["pong"]
    BY <1>1, <1>5, WriteLast, SampleTypes DEF WarmUp, Topic
  <2>. QED  BY <1>5, <2>1 DEF WarmUp, OneSampleOut, Early
<1>6. CASE StartTest
  <2>1. PubMainStep
    BY <1>6 DEF StartTest, PubMainStep, PubCallbackStep, PubCallback, OnPong,
                GiveSemaphore
  <2>2. Settled
    BY <1>6, <2>1 DEF StartTest, PubMainStep, SettleDone
  <2>3. latency_sem = 0
    BY <1>6 DEF StartTest, OneSampleOut, Early
  <2>4. NothingOut'
    BY <1>2, <1>6, <2>2, <2>3 DEF StartTest, Settled, NothingOut, Drained, Topic, ddsVars
  <2>. QED  BY <1>6, <2>4 DEF StartTest, OneSampleOut, Early
<1>7. CASE Send
  <2>1. NothingOut /\ pub_pc = "loop" /\ writer_matched["ping"]
    BY <1>7 DEF Send, OneSampleOut, AccountInv, PubLedger
  <2>2. CASE Accept("ping", DataSample(seq')) /\ pub_pc' = "take" /\ total' = total + 1
    <3>1. seq' = seq + 1 /\ DataSample(seq') = [kind |-> "DATA_PING", seq |-> seq']
      BY <1>7 DEF Send, DataSample, IsPing
    <3>2. DataSample(seq') \in Sample
      BY <1>1, <1>3, <3>1, SampleTypes
    <3>3. /\ log'["pong"] = log["pong"]
          /\ Len(log'["ping"]) = Len(log["ping"]) + 1
          /\ log'["ping"][Len(log["ping"]) + 1] = DataSample(seq')
      BY <1>1, <2>1, <2>2, <3>2, WriteLast DEF Topic
    <3>4. UNCHANGED <<got, pub_cb, latency_sem, lat_count>>
      BY <1>7 DEF Send
    <3>5. LastIsPing("ping")'
      BY <1>3, <3>1, <3>3 DEF LastIsPing
    <3>6. Awaited'
      BY <1>2, <1>3, <2>1, <2>2, <3>3, <3>4 DEF NothingOut, Awaited, Drained
    <3>. QED  BY <2>2, <3>5, <3>6 DEF OneSampleOut, Early
  <2>3. CASE Refuse("ping") /\ UNCHANGED <<total, pub_pc>>
    <3>1. NothingOut'
      BY <1>2, <1>7, <2>1, <2>3 DEF Send, Refuse, NothingOut, Drained
    <3>. QED  BY <2>1, <2>3, <3>1 DEF OneSampleOut, Early
  <2>4. Accept("ping", DataSample(seq')) => IsPing(seq')
    BY DEF IsPing
  <2>. QED  BY <1>7, <2>2, <2>3, <2>4 DEF Send
<1>8. CASE TakeSemaphore
  <2>1. Answered /\ pub_cb = "idle"
    BY <1>3, <1>8 DEF TakeSemaphore, OneSampleOut, Awaited, Answered
  <2>2. NothingOut'
    BY <1>2, <1>8, <2>1 DEF TakeSemaphore, Answered, NothingOut, Drained, ddsVars
  <2>. QED  BY <1>8, <2>2 DEF TakeSemaphore, OneSampleOut, Early
<1>9. ~TakeTimeout
  BY DEF TakeTimeout
<1>10. CASE EndTest
  <2>1. lat_count = total
    BY <1>10 DEF EndTest, OneSampleOut, NothingOut
  <2>. QED  BY <1>10, <2>1 DEF EndTest, OneSampleOut, Early
<1>11. CASE Finalize \/ PubShutdown
  BY <1>11 DEF Finalize, PubShutdown, OneSampleOut, Early
<1>12. CASE OnPong
  <2>1. PICK i \in Pending("pong") :
          Take("pong", i) /\ HandlePong(log["pong"][i].kind)
    BY <1>12 DEF OnPong
  <2>2. /\ i \in 1 .. Len(log["pong"]) /\ got' = [got EXCEPT !["pong"] = i]
        /\ got'["pong"] = i /\ got'["ping"] = got["ping"]
    <3>1. /\ i \in Nat /\ i > 0 /\ i <= Len(log["pong"])
          /\ got'["pong"] = i /\ got'["ping"] = got["ping"]
      BY <1>1, <2>1, TakeTypes DEF Topic, TypeOK
    <3>. QED  BY <1>3, <2>1, <3>1 DEF Take
  <2>3. UNCHANGED <<pub_pc, seq, total, latency_sem, pub_report, log>> /\ pub_cb = "idle"
    BY <1>12 DEF OnPong
  <2>4. ~Drained("pong")
    BY <1>1, <2>1, PendingOne DEF Topic
  <2>5. CASE Early
    <3>1. pub_cb' = pub_cb
      BY <2>1, <2>2, <2>5 DEF OneSampleOut, HandlePong
    <3>. QED  BY <2>3, <2>5, <3>1 DEF OneSampleOut, Early
  <2>6. CASE pub_pc = "take"
    <3>1. Awaited /\ Drained("ping") /\ got["pong"] + 1 = Len(log["pong"])
          /\ sub_cb = "idle" /\ LastIsPing("pong")
      BY <2>4, <2>6 DEF OneSampleOut, Awaited, Answered
    <3>2. i = Len(log["pong"])
      BY <1>1, <3>1, PendingOne DEF Topic
    <3>3. lat_count' = lat_count + 1 /\ pub_cb' = "give"
      BY <2>1, <3>1, <3>2 DEF LastIsPing, HandlePong
    <3>4. LastIsPing("ping")' /\ LastIsPing("pong")'
      BY <2>3, <2>6, <3>1 DEF OneSampleOut, LastIsPing
    <3>5. Answered'
      BY <1>2, <2>2, <2>3, <3>1, <3>2, <3>3, <3>4 DEF Answered, Awaited, Drained
    <3>. QED  BY <2>3, <2>6, <3>4, <3>5 DEF OneSampleOut, Early
  <2>7. CASE pub_pc = "loop"
    BY <2>4, <2>7 DEF OneSampleOut, NothingOut
  <2>8. CASE pub_pc \in {"final", "done"}
    BY <2>3, <2>8 DEF OneSampleOut, Early
  <2>. QED  BY <1>1, <2>5, <2>6, <2>7, <2>8 DEF Early, TypeOK, PubTypeOK
<1>13. CASE GiveSemaphore
  <2>1. /\ pub_cb = "give" /\ pub_cb' = "idle" /\ latency_sem' = 1
        /\ UNCHANGED <<pub_pc, seq, total, lat_count, pub_report, log, got>>
    BY <1>13 DEF GiveSemaphore, ddsVars
  <2>2. ~Early /\ pub_pc # "loop"
    BY <2>1 DEF OneSampleOut, NothingOut
  <2>3. CASE pub_pc = "take"
    <3>1. LastIsPing("ping") /\ Answered
      BY <2>1, <2>3 DEF OneSampleOut, Awaited
    <3>2. LastIsPing("ping")' /\ LastIsPing("pong")'
      BY <2>1, <3>1 DEF LastIsPing, Answered
    <3>3. Answered'
      BY <1>2, <2>1, <3>1, <3>2 DEF Answered, Drained
    <3>. QED  BY <2>1, <2>3, <3>2, <3>3 DEF OneSampleOut, Early
  <2>4. CASE pub_pc # "take"
    BY <2>1, <2>2, <2>4 DEF OneSampleOut, Early
  <2>. QED  BY <2>3, <2>4
<1>. QED
  BY <1>4, <1>5, <1>6, <1>7, <1>8, <1>9, <1>10, <1>11, <1>12, <1>13
     DEF PubMainStep, PubCallbackStep, PubMain, PubCallback

\* The subscriber's steps: it has a sample to handle only while one is awaited.
LEMMA StrictSubscriber ==
  ASSUME AccountInv, OneSampleOut, SubMainStep \/ SubCallbackStep
  PROVE  OneSampleOut'
<1>1. TypeOK /\ CursorOK
  BY DEF AccountInv, FinishInv
<1>2. UNCHANGED <<pub_pc, pub_cb, latency_sem, lat_count, seq, total, pub_report>>
  BY DEF SubMainStep, SubCallbackStep, pubVars
<1>3. /\ Len(log["ping"]) \in Nat /\ Len(log["pong"]) \in Nat
      /\ got["ping"] \in Nat /\ got["pong"] \in Nat
  BY <1>1, PendingOne DEF Topic
<1>4. pub_pc \in {"await", "warmup", "loop", "take", "final", "done"}
  BY <1>1 DEF TypeOK, PubTypeOK
\* a step that leaves the topics alone, by a callback that goes on if it is awaited
<1>5. ASSUME log' = log, got' = got,
             \/ sub_cb' = sub_cb
             \/ sub_cb # "idle"
      PROVE  OneSampleOut'
  <2>1. \A t \in Topic : Drained(t)' <=> Drained(t)
    BY <1>5 DEF Drained
  <2>2. \A t \in Topic : LastIsPing(t)' <=> LastIsPing(t)
    BY <1>2, <1>5 DEF LastIsPing
  <2>3. CASE sub_cb' = sub_cb
    BY <1>2, <1>5, <2>1, <2>2, <2>3
       DEF OneSampleOut, Early, NothingOut, Awaited, Answered, Topic
  <2>4. CASE sub_cb # "idle"
    <3>1. pub_pc # "loop"
      BY <2>4 DEF OneSampleOut, NothingOut
    <3>2. pub_pc = "take" => Awaited /\ Drained("ping") /\ Drained("pong")
      BY <2>4 DEF OneSampleOut, Awaited, Answered
    <3>3. pub_pc = "take" => Awaited'
      BY <1>2, <2>1, <3>2 DEF Awaited, Topic
    <3>. QED
      BY <1>2, <1>5, <2>2, <3>1, <3>3 DEF OneSampleOut, Early, Topic
  <2>. QED  BY <1>5, <2>3, <2>4
<1>6. CASE SubMainStep
  <2>1. log' = log /\ got' = got /\ (sub_cb' = sub_cb \/ sub_pc = "report")
    BY <1>6
       DEF SubMainStep, SubMain, SubMatched, ResetTotal, ResetSeq, ResetLost,
           ResetFinished, Report, SubShutdown, ddsVars
  <2>2. CASE sub_cb' = sub_cb
    BY <1>5, <2>1, <2>2
  <2>3. CASE sub_pc = "report"
    <3>1. pub_pc \in {"final", "done"}
      BY <2>3, NotFinalYet DEF AccountInv, Departures
    <3>. QED  BY <1>2, <3>1 DEF OneSampleOut, Early
  <2>. QED  BY <2>1, <2>2, <2>3
<1>7. CASE OnSample
  <2>1. PICK i \in Pending("ping") :
          Take("ping", i) /\ sub_cb' = FirstStep(log["ping"][i].kind)
    BY <1>7 DEF OnSample
  <2>2. i \in Nat /\ got'["ping"] = i /\ got'["pong"] = got["pong"] /\ log' = log
        /\ sub_cb = "idle"
    BY <1>1, <1>7, <2>1, TakeTypes DEF OnSample, Topic, TypeOK
  <2>3. ~Drained("ping")
    BY <1>1, <2>1, PendingOne DEF Topic
  <2>4. CASE pub_pc = "take"
    <3>1. Awaited /\ got["ping"] + 1 = Len(log["ping"]) /\ Drained("pong")
      BY <2>3, <2>4 DEF OneSampleOut, Awaited, Answered
    <3>2. i = Len(log["ping"])
      BY <1>1, <3>1, PendingOne DEF Topic
    <3>3. Awaited' /\ LastIsPing("ping")'
      BY <1>2, <2>2, <2>4, <3>1, <3>2
         DEF OneSampleOut, Awaited, Drained, LastIsPing
    <3>. QED  BY <1>2, <2>4, <3>3 DEF OneSampleOut, Early
  <2>5. CASE pub_pc # "take"
    BY <1>2, <2>2, <2>3, <2>5 DEF OneSampleOut, NothingOut, Early
  <2>. QED  BY <2>4, <2>5
<1>8. CASE Echo
  <2>1. sub_cb = "echo" /\ sub_cb' = "idle" /\ got' = got
    BY <1>8 DEF Echo
  <2>2. got["ping"] > 0 /\ got["ping"] <= Len(log["ping"]) /\ Taken("ping") \in Sample
    BY <1>1, <2>1, TakenType DEF CursorOK, TypeOK, Topic
  <2>3. /\ log'["ping"] = log["ping"]
        /\ \/ log'["pong"] = log["pong"]
           \/ /\ Len(log'["pong"]) = Len(log["pong"]) + 1
              /\ log'["pong"][Len(log["pong"]) + 1] = Taken("ping")
    BY <1>1, <1>8, <2>2, WriteLast DEF Echo, Topic
  <2>4. CASE Early
    <3>1. Taken("ping").kind = "INITIALIZATION"
      <4>1. got["ping"] \in 1 .. Len(log["ping"])
        BY <1>3, <2>2
      <4>2. ~IsFinal("ping", got["ping"]) /\ ~IsData(got["ping"])
        BY <2>4, <4>1, NotFinalYet DEF AccountInv, PubLedger, LogOrdered, Early
      <4>. QED  BY <2>2, <4>2 DEF IsFinal, IsData, Taken, Sample, Kind
    <3>2. LogGrows("pong", Taken("ping"))
      BY <1>1, <1>8, <2>2, WriteGrows DEF Echo, Topic, TypeOK
    <3>3. \A k \in 1 .. Len(log'["pong"]) : log'["pong"][k].kind = "INITIALIZATION"
      BY <1>1, <2>2, <2>4, <3>1, <3>2, GrowthFinal DEF OneSampleOut, Topic
    <3>. QED  BY <1>2, <2>4, <3>3 DEF OneSampleOut, Early
  <2>5. CASE pub_pc = "take"
    <3>1. LastIsPing("ping") /\ Awaited /\ Drained("ping") /\ Drained("pong")
      BY <2>1, <2>5 DEF OneSampleOut, Awaited, Answered
    <3>2. LastIsPing("ping")'
      BY <1>2, <2>3, <3>1 DEF LastIsPing
    <3>3. Taken("ping") = [kind |-> "DATA_PING", seq |-> seq]
      BY <3>1 DEF LastIsPing, Drained, Taken
    <3>4. Awaited'
      BY <1>2, <1>3, <2>1, <2>3, <3>1, <3>3 DEF Awaited, Drained, LastIsPing
    <3>. QED  BY <1>2, <2>5, <3>2, <3>4 DEF OneSampleOut, Early
  <2>6. CASE pub_pc \in {"loop", "final", "done"}
    BY <1>2, <2>1, <2>6 DEF OneSampleOut, NothingOut, Early
  <2>. QED  BY <1>4, <2>4, <2>5, <2>6 DEF Early
<1>9. ASSUME SubCallbackStep, ~OnSample, ~Echo PROVE OneSampleOut'
  <2>1. log' = log /\ got' = got /\ sub_cb # "idle"
    BY <1>9
       DEF SubCallbackStep, SubCallback, CheckFirst, CheckGap, StoreGap, StoreSeq,
           LoadTotal, StoreTotal, CheckFinished, CheckTrailing, StoreTrailing,
           SetFinished, ddsVars
  <2>. QED  BY <1>5, <2>1
<1>. QED  BY <1>6, <1>7, <1>8, <1>9

\* In strict reliable mode one sample at a time goes round the two topics, given
\* that the settle sleep outlasts discovery and the warm-up.
THEOREM StrictInvariant ==
  ASSUME SettleSuffices
  PROVE  Spec => []StrictInv
<1>1. Init => StrictInv
  BY EmptySeq
     DEF Init, DdsInit, PubInit, StrictInv, OneSampleOut, Early, Topic
<1>2. ASSUME StrictInv, AccountInv, [Next]_vars PROVE StrictInv'
  <2>1. pub_pc' = "take" => LatencyTest
    BY <1>2
       DEF StrictInv, Next, PubMainStep, PubCallbackStep, SubMainStep,
           SubCallbackStep, DiscoveryStep, PubMain, PubCallback, Matched, WarmUp,
           StartTest, Send, TakeSemaphore, TakeTimeout, EndTest, Finalize,
           PubShutdown, OnPong, GiveSemaphore, vars, pubVars
  <2>2. ASSUME Reliable, LatencyTest PROVE OneSampleOut'
    <3>1. OneSampleOut
      BY <1>2, <2>2 DEF StrictInv
    <3>2. CASE UNCHANGED vars \/ DiscoveryStep
      <4>1. UNCHANGED <<log, got, pubVars, subVars>>
        BY <3>2 DEF vars, ddsVars, pubVars, subVars, DiscoveryStep, Discovery,
                    WriterMatch, ReaderMatch, WriterUnmatch, ReaderUnmatch
      <4>. QED
        BY <3>1, <4>1
           DEF OneSampleOut, NothingOut, Awaited, Answered, Drained, LastIsPing,
               Early, pubVars, subVars
    <3>3. CASE PubMainStep \/ PubCallbackStep
      BY <1>2, <2>2, <3>1, <3>3, StrictPublisher
    <3>4. CASE SubMainStep \/ SubCallbackStep
      BY <1>2, <3>1, <3>4, StrictSubscriber
    <3>. QED  BY <1>2, <3>2, <3>3, <3>4 DEF Next
  <2>. QED  BY <2>1, <2>2 DEF StrictInv
<1>3. StrictInv /\ AccountInv /\ [Next]_vars => StrictInv'
  BY <1>2
<1>. QED  BY <1>1, <1>3, AccountInvariant, PTL DEF Spec

\* Every ping a reliable publisher sends in strict mode is measured before the
\* next one leaves, and the report says so.
THEOREM LatencyIsComplete ==
  ASSUME SettleSuffices
  PROVE  Spec => []LatencyComplete
<1>1. StrictInv => LatencyComplete
  BY DEF StrictInv, OneSampleOut, LatencyComplete
<1>. QED  BY <1>1, StrictInvariant, PTL

\* With a reliable transport the binary semaphore is never a pong behind: a wait
\* returns for the ping just sent.  (In best effort it may not.)
THEOREM TakesAnswerPings ==
  ASSUME SettleSuffices, Reliable
  PROVE  Spec => TakeAnswersPing
<1>. DEFINE Answers == TakeSemaphore => Taken("pong").seq = seq
<1>1. ASSUME StrictInv, TakeSemaphore PROVE Taken("pong").seq = seq
  <2>1. Answered
    BY <1>1 DEF StrictInv, OneSampleOut, Awaited, TakeSemaphore
  <2>. QED  BY <2>1 DEF Answered, LastIsPing, Drained, Taken
<1>2. StrictInv /\ [Next]_vars => [Answers]_vars
  BY <1>1
<1>. QED  BY <1>2, StrictInvariant, PTL DEF Spec, TakeAnswersPing
=============================================================================
