--------------------------- MODULE Account_proofs --------------------------
(***************************************************************************)
(* The two processes' books in one test: theorems for every number of      *)
(* samples, every loss, both reliabilities and both modes.                 *)
(***************************************************************************)
EXTENDS PerftestLite_proofs, FiniteSetTheorems

----------------------------------------------------------------------------
(* The log of samples and the set of their numbers. *)

\* The numbers sent are finitely many numbers from 1 to seq.
LEMMA SentFinite ==
  ASSUME TypeOK, LogOrdered
  PROVE  /\ SentSeqs \subseteq 1 .. seq
         /\ SentSeqs \subseteq Nat
         /\ IsFiniteSet(SentSeqs)
         /\ \A R \in SUBSET SentSeqs : IsFiniteSet(R) /\ Cardinality(R) \in Nat
<1>1. seq \in Nat
  BY DEF TypeOK, PubTypeOK
<1>2. SentSeqs \subseteq 1 .. seq
  BY DEF SentSeqs, LogOrdered
<1>3. IsFiniteSet(1 .. seq)
  BY <1>1, FS_Interval
<1>4. \A R \in SUBSET SentSeqs : IsFiniteSet(R)
  BY <1>2, <1>3, FS_Subset
<1>. QED  BY <1>1, <1>2, <1>4, FS_CardinalityType

\* A write of a sample on the ping topic adds its number to those sent if it is
\* data and the write put it in the log, and nothing else.
LEMMA WriteSent ==
  ASSUME TypeOK, CursorOK, NEW s \in Sample, LogGrows("ping", s)
  PROVE  /\ SentSeqs \subseteq SentSeqs'
         /\ s.kind \notin {"DATA", "DATA_PING"} => SentSeqs' = SentSeqs
         /\ (s.kind \in {"DATA", "DATA_PING"} /\ Len(log'["ping"]) > Len(log["ping"])) =>
              SentSeqs' = SentSeqs \cup {s.seq}
<1>. DEFINE m == Len(log["ping"])
            n == Len(log'["ping"])
<1>1. m \in Nat /\ n \in Nat /\ m <= n
  BY GrowthFinal DEF Topic
<1>2. \A i \in 1 .. m : log'["ping"][i] = log["ping"][i]
  BY DEF LogGrows
<1>3. \A i \in 1 .. n : i \in 1 .. m \/ log'["ping"][i] = s
  BY <1>1 DEF LogGrows
<1>4. \A i \in 1 .. m : i \in 1 .. n
  BY <1>1
<1>. HIDE DEF m, n
<1>5. SentSeqs = {log["ping"][i].seq : i \in {j \in 1 .. m : IsData(j)}}
  BY DEF SentSeqs, m
<1>6. SentSeqs' = {log'["ping"][i].seq : i \in {j \in 1 .. n : IsData(j)'}}
  BY DEF SentSeqs, n
<1>7. \A i \in 1 .. m : IsData(i)' <=> IsData(i)
  BY <1>2 DEF IsData
<1>8. SentSeqs \subseteq SentSeqs'
  BY <1>2, <1>4, <1>5, <1>6, <1>7
<1>9. SentSeqs' \subseteq SentSeqs \cup {s.seq}
  BY <1>2, <1>3, <1>5, <1>6, <1>7
<1>10. ASSUME s.kind \notin {"DATA", "DATA_PING"} PROVE SentSeqs' \subseteq SentSeqs
  <2>1. \A i \in 1 .. n : IsData(i)' => i \in 1 .. m
    BY <1>3, <1>10 DEF IsData
  <2>. QED  BY <1>2, <1>5, <1>6, <1>7, <2>1
<1>11. ASSUME s.kind \in {"DATA", "DATA_PING"}, n > m PROVE s.seq \in SentSeqs'
  <2>1. \A i \in 1 .. n : i = n => IsData(i)' /\ log'["ping"][i] = s
    BY <1>1, <1>3, <1>11 DEF IsData
  <2>2. n \in 1 .. n
    BY <1>1, <1>11
  <2>. QED  BY <1>6, <2>1, <2>2
<1>. QED  BY <1>8, <1>9, <1>10, <1>11 DEF m, n
\* A warm-up or a FINALIZATION sample leaves the numbers sent alone; a data
\* sample adds one, and the writer has its reader.
LEMMA SendSent ==
  ASSUME TypeOK, CursorOK, LogOrdered, PubLedger, Send
  PROVE  /\ SentSeqs \subseteq SentSeqs'
         /\ total' = Cardinality(SentSeqs')
<1>1. seq \in Nat /\ seq' = seq + 1 /\ pub_pc = "loop" /\ total \in Nat
  BY DEF Send, TypeOK, PubTypeOK
<1>2. total = Cardinality(SentSeqs)
  BY DEF PubLedger
<1>3. IsFiniteSet(SentSeqs) /\ SentSeqs \subseteq 1 .. seq
  BY SentFinite
<1>4. CASE Accept("ping", DataSample(seq')) /\ total' = total + 1
  <2>. DEFINE s == DataSample(seq')
  <2>1. s \in Sample /\ s.kind \in {"DATA", "DATA_PING"} /\ s.seq = seq'
    BY <1>1, SampleTypes DEF DataSample
  <2>2. LogGrows("ping", s)
    BY <1>4, <2>1, WriteGrows DEF TypeOK, Topic
  <2>3. Len(log'["ping"]) > Len(log["ping"])
    <3>1. writer_matched["ping"]
      BY <1>1 DEF PubLedger
    <3>2. log["ping"] \in Seq(Sample) /\ log'["ping"] = Append(log["ping"], s)
      BY <1>4, <3>1 DEF Accept, TypeOK, DdsTypeOK, Topic
    <3>3. Len(log'["ping"]) = Len(log["ping"]) + 1 /\ Len(log["ping"]) \in Nat
      BY <2>1, <3>2, AppendProperties, LenProperties
    <3>. QED  BY <3>3
  <2>. HIDE DEF s
  <2>4. SentSeqs' = SentSeqs \cup {s.seq}
    BY <2>1, <2>2, <2>3, WriteSent
  <2>5. s.seq \notin SentSeqs
    BY <1>1, <1>3, <2>1
  <2>6. Cardinality(SentSeqs \cup {s.seq}) = Cardinality(SentSeqs) + 1
    BY <1>3, <2>5, FS_AddElement
  <2>. QED  BY <1>2, <1>4, <2>4, <2>6
<1>5. CASE Refuse("ping") /\ total' = total
  <2>1. SentSeqs' = SentSeqs
    BY <1>5 DEF Refuse, SentSeqs, IsData
  <2>. QED  BY <1>2, <1>5, <2>1
<1>. QED  BY <1>4, <1>5 DEF Send

----------------------------------------------------------------------------
(* The publisher's steps. *)

\* what the publisher may add to the ping topic: warm-up samples, data with the
\* next number, and FINALIZATION with the last one
Writes(s) ==
  /\ LogGrows("ping", s)
  /\ s.kind \in {"DATA", "DATA_PING"} =>
       pub_pc = "loop" /\ seq' = seq + 1 /\ s.seq = seq'
  /\ s.kind = "FINALIZATION" => pub_pc = "final" /\ s.seq = pub_last_seq

\* No step of the publisher does anything else to the ping topic.
LEMMA PublisherWrites ==
  ASSUME TypeOK, PubMainStep \/ PubCallbackStep
  PROVE  \E s \in Sample : Writes(s)
<1>. USE DEF Writes
<1>1. ASSUME log' = log PROVE \E s \in Sample : Writes(s)
  <2>1. LogGrows("ping", InitSample)
    BY <1>1, LenProperties DEF LogGrows, TypeOK, DdsTypeOK, Topic
  <2>. QED  BY <2>1, SampleTypes DEF InitSample
<1>2. CASE WarmUp
  <2>1. InitSample \in Sample /\ InitSample.kind = "INITIALIZATION"
    BY SampleTypes DEF InitSample
  <2>2. LogGrows("ping", InitSample)
    BY <1>2, <2>1, WriteGrows DEF WarmUp, TypeOK, Topic
  <2>. QED  BY <2>1, <2>2
<1>3. CASE Send
  <2>1. seq' \in Nat /\ seq' = seq + 1 /\ pub_pc = "loop"
    BY <1>3 DEF Send, TypeOK, PubTypeOK
  <2>2. /\ DataSample(seq') \in Sample
        /\ DataSample(seq').kind # "FINALIZATION"
        /\ DataSample(seq').seq = seq'
    BY <2>1, SampleTypes DEF DataSample
  <2>3. LogGrows("ping", DataSample(seq'))
    BY <1>3, <2>2, WriteGrows DEF Send, TypeOK, Topic
  <2>. QED  BY <2>1, <2>2, <2>3
<1>4. CASE Finalize
  <2>1. /\ FinalSample \in Sample
        /\ FinalSample.kind = "FINALIZATION"
        /\ FinalSample.seq = pub_last_seq
    BY SampleTypes DEF FinalSample
  <2>2. LogGrows("ping", FinalSample)
    BY <1>4, <2>1, WriteGrows DEF Finalize, TypeOK, Topic
  <2>. QED  BY <1>4, <2>1, <2>2 DEF Finalize
<1>. QED
  BY <1>1, <1>2, <1>3, <1>4
     DEF PubMainStep, PubCallbackStep, PubMain, PubCallback, Matched, StartTest,
         TakeSemaphore, TakeTimeout, EndTest, PubShutdown, OnPong, GiveSemaphore,
         ddsVars

\* What a step of the publisher does to its own books.
LEMMA PublisherSteps ==
  ASSUME AccountInv, PubMainStep \/ PubCallbackStep
  PROVE  /\ got'["ping"] = got["ping"]
         /\ seq \in Nat /\ seq' \in {seq, seq + 1}
         /\ pub_last_seq' = pub_last_seq \/ pub_pc = "loop"
         /\ pub_pc \in {"final", "done"} => /\ pub_pc' \in {"final", "done"}
                                           /\ seq' = seq /\ total' = total
                                           /\ pub_report' = pub_report
                                           /\ pub_last_seq' = pub_last_seq
         /\ Early' => Early /\ seq' = seq
         /\ writer_matched' = writer_matched
         /\ pub_pc = "done" => pub_pc' = "done"
         /\ up'["sub"] = up["sub"]
         /\ up' = up \/ pub_pc' = "done"
<1>1. seq \in Nat /\ up \in [Process -> BOOLEAN] /\ got \in [Topic -> Nat]
  BY DEF AccountInv, FinishInv, TypeOK, DdsTypeOK, PubTypeOK
<1>2. CASE OnPong
  <2>1. got'["ping"] = got["ping"]
    BY <1>1, <1>2 DEF OnPong, Take, Topic
  <2>. QED  BY <1>1, <1>2, <2>1 DEF OnPong, Early
<1>3. CASE StartTest
  <2>1. seq = 0
    BY <1>3 DEF StartTest, AccountInv, PubLedger, Early
  <2>. QED  BY <1>3, <2>1 DEF StartTest, ddsVars, Early
<1>4. CASE PubShutdown
  BY <1>1, <1>4 DEF PubShutdown, DeleteParticipant, Process, Early
<1>5. CASE Send
  BY <1>1, <1>5 DEF Send, Early
<1>6. CASE EndTest
  BY <1>1, <1>6 DEF EndTest, ddsVars, Early
<1>. QED
  BY <1>1, <1>2, <1>3, <1>4, <1>5, <1>6
     DEF PubMainStep, PubCallbackStep, PubMain, PubCallback, Matched, WarmUp,
         TakeSemaphore, TakeTimeout, Finalize, GiveSemaphore, ddsVars,
         Early

\* The publisher's steps keep the log in order and its books right.
LEMMA PublisherBooks ==
  ASSUME AccountInv, FinishInv', SettleSuffices, PubMainStep \/ PubCallbackStep
  PROVE  LogOrdered' /\ PubLedger'
<1>. USE DEF AccountInv
<1>1. TypeOK /\ CursorOK
  BY DEF FinishInv
<1>2. PICK s \in Sample : Writes(s)
  BY <1>1, PublisherWrites
<1>3. LogGrows("ping", s)
  BY <1>2 DEF Writes
<1>. DEFINE m == Len(log["ping"])
            n == Len(log'["ping"])
<1>4. m \in Nat /\ n \in {m, m + 1}
  BY <1>1, <1>3, GrowthFinal DEF LogGrows, Topic
<1>5. \A i \in 1 .. m : log'["ping"][i] = log["ping"][i]
  BY <1>3 DEF LogGrows
<1>6. \A i \in 1 .. n : i \in 1 .. m \/ (i = m + 1 /\ log'["ping"][i] = s)
  BY <1>3, <1>4 DEF LogGrows
<1>7. /\ seq \in Nat /\ seq' \in {seq, seq + 1}
      /\ pub_last_seq' = pub_last_seq \/ pub_pc = "loop"
      /\ Early' => Early /\ seq' = seq
      /\ writer_matched' = writer_matched
  BY PublisherSteps
<1>. HIDE DEF m, n
<1>8. \A i \in 1 .. n :
        /\ IsData(i)' => log'["ping"][i].seq \in 1 .. seq'
        /\ IsFinal("ping", i)' => log'["ping"][i].seq = pub_last_seq'
  <2>. TAKE i \in 1 .. n
  <2>1. CASE i \in 1 .. m
    <3>1. IsData(i)' => log'["ping"][i].seq \in 1 .. seq'
      BY <1>5, <1>7, <2>1 DEF LogOrdered, IsData, m
    <3>2. IsFinal("ping", i)' => pub_last_seq' = pub_last_seq
      BY <1>5, <1>7, <2>1, NotFinalYet DEF IsFinal, m
    <3>. QED  BY <1>5, <2>1, <3>1, <3>2 DEF LogOrdered, IsFinal, m
  <2>2. CASE i = m + 1 /\ log'["ping"][i] = s
    BY <1>2, <1>7, <2>2 DEF Writes, IsData, IsFinal
  <2>. QED  BY <1>6, <2>1, <2>2
<1>9. \A i, j \in 1 .. n :
        (i < j /\ IsData(i)' /\ IsData(j)') =>
           log'["ping"][i].seq < log'["ping"][j].seq
  <2>. SUFFICES ASSUME NEW i \in 1 .. n, NEW j \in 1 .. n, i < j,
                       IsData(i)', IsData(j)'
                PROVE  log'["ping"][i].seq < log'["ping"][j].seq
    OBVIOUS
  <2>1. i \in 1 .. m /\ IsData(i) /\ log'["ping"][i] = log["ping"][i]
    BY <1>4, <1>5, <1>6 DEF IsData
  <2>2. CASE j \in 1 .. m
    BY <1>5, <2>1, <2>2 DEF LogOrdered, IsData, m
  <2>3. CASE log'["ping"][j] = s
    <3>1. log'["ping"][j].seq = seq + 1
      BY <1>2, <2>3 DEF Writes, IsData
    <3>2. log["ping"][i].seq \in 1 .. seq
      BY <2>1 DEF LogOrdered, m
    <3>. QED  BY <1>7, <2>1, <3>1, <3>2
  <2>. QED  BY <1>6, <2>2, <2>3
<1>10. LogOrdered'
  BY <1>8, <1>9 DEF LogOrdered, n
<1>11. total' = Cardinality(SentSeqs')
  <2>1. CASE Send
    BY <1>1, <2>1, SendSent
  <2>2. CASE ~Send
    <3>1. s.kind \notin {"DATA", "DATA_PING"} \/ log' = log
      BY <1>2, <2>2
         DEF Writes, PubMainStep, PubCallbackStep, PubMain, PubCallback, Matched,
             WarmUp, StartTest, TakeSemaphore, TakeTimeout, EndTest, Finalize,
             PubShutdown, OnPong, GiveSemaphore, ddsVars
    <3>2. SentSeqs' = SentSeqs
      BY <1>1, <1>3, <3>1, WriteSent DEF SentSeqs, IsData
    <3>3. total' = total
      <4>1. CASE StartTest
        <5>1. SentSeqs = {}
          BY <4>1, SentFinite, <1>1 DEF StartTest, PubLedger, Early
        <5>. QED  BY <4>1, <5>1, FS_EmptySet DEF StartTest, PubLedger
      <4>. QED
        BY <2>2, <4>1
           DEF PubMainStep, PubCallbackStep, PubMain, PubCallback, Matched,
               WarmUp, TakeSemaphore, TakeTimeout, EndTest, Finalize,
               PubShutdown, OnPong, GiveSemaphore, ddsVars
    <3>. QED  BY <3>2, <3>3 DEF PubLedger
  <2>. QED  BY <2>1, <2>2
<1>12. pub_pc' \in {"loop", "take"} => writer_matched["ping"]
  <2>1. CASE StartTest
    <3>1. PubMainStep
      BY <2>1 DEF StartTest, PubMainStep, PubCallbackStep, PubCallback, OnPong,
                  GiveSemaphore
    <3>. QED  BY <2>1, <3>1 DEF StartTest, PubMainStep, SettleDone, Settled, Topic
  <2>. QED
    BY <2>1
       DEF PubLedger, PubMainStep, PubCallbackStep, PubMain, PubCallback, Matched,
           WarmUp, Send, TakeSemaphore, TakeTimeout, EndTest, Finalize,
           PubShutdown, OnPong, GiveSemaphore
<1>13. pub_pc' \in {"final", "done"} =>
         pub_last_seq' = seq' /\ pub_report'.total_samples = total'
  <2>1. CASE EndTest
    BY <2>1 DEF EndTest
  <2>2. ~EndTest /\ pub_pc' \in {"final", "done"} => pub_pc \in {"final", "done"}
    BY DEF PubMainStep, PubCallbackStep, PubMain, PubCallback, Matched,
           WarmUp, StartTest, Send, TakeSemaphore, TakeTimeout, Finalize,
           PubShutdown, OnPong, GiveSemaphore
  <2>. QED  BY <2>1, <2>2, PublisherSteps DEF PubLedger
<1>14. Early' => seq' = 0
  BY <1>7 DEF PubLedger
<1>15. PubLedger'
  BY <1>7, <1>11, <1>12, <1>13, <1>14 DEF PubLedger
<1>. QED  BY <1>10, <1>15

\* The publisher's steps leave the subscriber's books right.
LEMMA PublisherKeeps ==
  ASSUME AccountInv, FinishInv', PubMainStep \/ PubCallbackStep
  PROVE  CursorAhead' /\ Counted' /\ NoneMissed' /\ LossFollowed' /\ Departures'
<1>. USE DEF AccountInv
<1>1. TypeOK /\ CursorOK
  BY DEF FinishInv
<1>2. PICK s \in Sample : Writes(s)
  BY <1>1, PublisherWrites
<1>3. LogGrows("ping", s)
  BY <1>2 DEF Writes
<1>. DEFINE m == Len(log["ping"])
            n == Len(log'["ping"])
            g == got["ping"]
<1>4. m \in Nat /\ n \in {m, m + 1} /\ g \in Nat /\ g <= m
  BY <1>1, <1>3, GrowthFinal DEF LogGrows, Topic
<1>5. \A i \in 1 .. m : log'["ping"][i] = log["ping"][i]
  BY <1>3 DEF LogGrows
<1>6. \A i \in 1 .. n : i \in 1 .. m \/ (i = m + 1 /\ log'["ping"][i] = s)
  BY <1>3, <1>4 DEF LogGrows
<1>7. /\ seq \in Nat /\ seq' \in {seq, seq + 1}
      /\ pub_last_seq' = pub_last_seq \/ pub_pc = "loop"
      /\ got'["ping"] = g
      /\ pub_pc = "done" => pub_pc' = "done"
      /\ up'["sub"] = up["sub"]
      /\ up' = up \/ pub_pc' = "done"
  BY PublisherSteps
<1>8. UNCHANGED subVars
  BY DEF PubMainStep, PubCallbackStep
<1>9. SentSeqs \subseteq SentSeqs'
  BY <1>1, <1>3, WriteSent
<1>10. last_seq \in Nat
  BY <1>1 DEF TypeOK, SubTypeOK
<1>. HIDE DEF m, n, g
<1>11. sub_cb # "idle" => Taken("ping")' = Taken("ping")
  <2>1. sub_cb # "idle" => g \in 1 .. m
    BY <1>1, <1>4 DEF CursorOK, g
  <2>. QED  BY <1>5, <1>7, <2>1 DEF Taken, g
<1>12. CursorAhead'
  <2>1. last_seq <= seq'
    BY <1>7, <1>10 DEF CursorAhead
  <2>2. ASSUME NEW i \in g + 1 .. n, IsData(i)' PROVE last_seq < log'["ping"][i].seq
    <3>1. i \in 1 .. n
      BY <1>4
    <3>2. CASE i \in 1 .. m
      BY <1>5, <2>2, <3>2 DEF CursorAhead, IsData, m, g
    <3>3. CASE log'["ping"][i] = s
      BY <1>2, <1>7, <1>10, <2>2, <3>3 DEF CursorAhead, Writes, IsData
    <3>. QED  BY <1>6, <3>1, <3>2, <3>3
  <2>3. sub_cb \in DataSteps \/ sub_cb \in CountSteps => sub_cb # "idle"
    BY DEF DataSteps, CountSteps
  <2>. QED
    BY <1>7, <1>8, <1>11, <2>1, <2>2, <2>3 DEF CursorAhead, subVars, n
<1>13. Counted'
  BY <1>8, <1>9 DEF Counted, subVars
<1>14. NoneMissed'
  <2>1. \A i \in 1 .. g : log'["ping"][i] = log["ping"][i]
    BY <1>4, <1>5
  <2>. QED  BY <1>7, <1>8, <2>1 DEF NoneMissed, IsData, subVars, g
<1>15. LossFollowed'
  <2>1. \/ pub_last_seq' = pub_last_seq
        \/ ~finished /\ sub_cb \notin TrailingSteps
    BY <1>7, NotFinalYet
  <2>2. ExactTo' = ExactTo
    BY <1>8, <1>11 DEF ExactTo, CountSteps, subVars
  <2>3. sub_cb' = sub_cb /\ received' = received /\ register' = register
        /\ lost_samples' = lost_samples /\ finished' = finished
        /\ last_seq' = last_seq /\ total_received' = total_received
    BY <1>8 DEF subVars
  <2>4. CASE finished \/ sub_cb = "fin_set"
    BY <1>11, <2>1, <2>3, <2>4 DEF LossFollowed, LostUpTo, TrailingSteps
  <2>5. CASE ~(finished \/ sub_cb = "fin_set")
    BY <1>11, <2>1, <2>2, <2>3, <2>5 DEF LossFollowed, LostUpTo, TrailingSteps
  <2>. QED  BY <2>4, <2>5
<1>16. Departures'
  BY <1>7, <1>8 DEF Departures, subVars
<1>. QED  BY <1>12, <1>13, <1>14, <1>15, <1>16

----------------------------------------------------------------------------
(* The subscriber's steps. *)

\* Until the publisher has started its test the subscriber has nothing on its
\* books, so that its reset of the statistics changes nothing.
LEMMA EarlyBooks ==
  ASSUME AccountInv, ~Testing
  PROVE  /\ received = {} /\ total_received = 0
         /\ last_seq = 0 /\ lost_samples = 0 /\ ~finished
<1>. USE DEF AccountInv
<1>1. Early /\ ~finished
  BY DEF FinishInv, FinalIsLate
<1>2. SentSeqs = {} /\ seq = 0
  BY <1>1, SentFinite DEF PubLedger, FinishInv
<1>3. received = {} /\ total_received = 0
  BY <1>2, FS_EmptySet DEF Counted
<1>4. last_seq = 0
  BY <1>2 DEF CursorAhead, FinishInv, TypeOK, SubTypeOK
<1>5. sub_cb # "fin_set"
  BY <1>1, NotFinalYet DEF Early, TrailingSteps
<1>6. lost_samples = 0
  BY <1>1, <1>3, <1>5 DEF LossFollowed, LostUpTo
<1>. QED  BY <1>1, <1>3, <1>4, <1>6

\* A finished subscriber's callback handles only FINALIZATION, and has nothing
\* left to store.
LEMMA FinishedCallback ==
  ASSUME FinishInv, finished
  PROVE  /\ sub_cb \in {"idle", "fin_check", "echo"}
         /\ \A i \in 1 .. got["ping"] : IsData(i) => i # got["ping"]
<1>1. IsFinal("ping", got["ping"]) /\ sub_cb \notin TrailingSteps
  BY DEF FinishInv, FinishedFirst
<1>2. sub_cb \notin DataSteps
  BY <1>1 DEF FinishInv, CursorOK, Taken, IsFinal
<1>3. sub_cb \in {"idle", "fin_check", "echo"}
  BY <1>1, <1>2 DEF FinishInv, TypeOK, SubTypeOK, DataSteps, TrailingSteps
<1>. QED  BY <1>1, <1>3 DEF IsData, IsFinal

\* The subscriber has no part in the publisher's books.
LEMMA SubscriberLeaves ==
  ASSUME AccountInv, SubMainStep \/ SubCallbackStep
  PROVE  /\ LogOrdered' /\ PubLedger'
         /\ log'["ping"] = log["ping"]
         /\ SentSeqs' = SentSeqs
         /\ UNCHANGED <<pubVars, writer_matched>>
<1>1. UNCHANGED pubVars
  BY DEF SubMainStep, SubCallbackStep
<1>2. log'["ping"] = log["ping"]
  <2>1. CASE Echo
    BY <2>1 DEF Echo, Accept, Refuse, AccountInv, FinishInv, TypeOK, DdsTypeOK, Topic
  <2>. QED
    BY <2>1
       DEF SubMainStep, SubCallbackStep, SubMain, SubCallback, SubMatched,
           ResetTotal, ResetSeq, ResetLost, ResetFinished, Report, SubShutdown,
           OnSample, CheckFirst, CheckGap, StoreGap, StoreSeq, LoadTotal,
           StoreTotal, CheckFinished, CheckTrailing, StoreTrailing, SetFinished,
           ddsVars
<1>3. writer_matched' = writer_matched
  BY DEF SubMainStep, SubCallbackStep, SubMain, SubCallback, SubMatched,
         ResetTotal, ResetSeq, ResetLost, ResetFinished, Report, SubShutdown,
         OnSample, CheckFirst, CheckGap, StoreGap, StoreSeq, LoadTotal,
         StoreTotal, CheckFinished, CheckTrailing, StoreTrailing, SetFinished,
         Echo, ddsVars
<1>4. SentSeqs' = SentSeqs
  BY <1>2 DEF SentSeqs, IsData
<1>5. LogOrdered'
  BY <1>1, <1>2 DEF AccountInv, LogOrdered, IsData, IsFinal, pubVars
<1>6. PubLedger'
  BY <1>1, <1>3, <1>4 DEF AccountInv, PubLedger, Early, pubVars
<1>. QED  BY <1>1, <1>2, <1>3, <1>4, <1>5, <1>6

\* The steps of the subscriber's main thread keep its books right: before the
\* test there is nothing to erase, and after it nothing moves.
LEMMA SubMainKeeps ==
  ASSUME AccountInv, SubMainStep
  PROVE  CursorAhead' /\ Counted' /\ NoneMissed' /\ LossFollowed' /\ Departures'
<1>. USE DEF AccountInv
<1>1. /\ log'["ping"] = log["ping"] /\ SentSeqs' = SentSeqs
      /\ seq' = seq /\ pub_last_seq' = pub_last_seq /\ pub_pc' = pub_pc
  BY SubscriberLeaves DEF pubVars
<1>. DEFINE Same ==
       /\ got' = got /\ received' = received /\ register' = register
       /\ total_received' = total_received /\ last_seq' = last_seq
       /\ lost_samples' = lost_samples /\ finished' = finished
<1>2. ASSUME Same, sub_cb' = sub_cb
      PROVE  CursorAhead' /\ Counted' /\ NoneMissed' /\ LossFollowed'
  <2>1. Taken("ping")' = Taken("ping")
    BY <1>1, <1>2 DEF Taken
  <2>2. CursorAhead' /\ Counted' /\ NoneMissed'
    BY <1>1, <1>2, <2>1 DEF CursorAhead, Counted, NoneMissed, IsData
  <2>3. LossFollowed'
    BY <1>1, <1>2, <2>1 DEF LossFollowed, LostUpTo, ExactTo
  <2>. QED  BY <2>2, <2>3
<1>3. CASE SubMatched
  <2>1. Same /\ sub_cb' = sub_cb /\ up' = up /\ sub_pc # "done"
        /\ sub_pc' \notin {"report", "done"}
    BY <1>3 DEF SubMatched, ddsVars
  <2>. QED  BY <1>1, <1>2, <2>1 DEF Departures
<1>4. CASE ResetTotal \/ ResetSeq \/ ResetLost \/ ResetFinished
  <2>1. ~Testing /\ sub_cb' = sub_cb /\ up' = up /\ sub_pc # "done"
        /\ sub_pc' \notin {"report", "done"}
    BY <1>4 DEF ResetTotal, ResetSeq, ResetLost, ResetFinished, Testing, ddsVars
  <2>2. received = {} /\ total_received = 0 /\ last_seq = 0 /\ lost_samples = 0
        /\ finished = FALSE
    BY <2>1, EarlyBooks DEF FinishInv, TypeOK, SubTypeOK
  <2>3. Same
    BY <1>4, <2>2 DEF ResetTotal, ResetSeq, ResetLost, ResetFinished, ddsVars
  <2>. QED  BY <1>1, <1>2, <2>1, <2>3 DEF Departures
<1>5. CASE Report
  <2>1. Same /\ sub_cb' = sub_cb /\ up' = up /\ sub_pc # "done"
        /\ sub_pc' = "report" /\ finished
        /\ sub_report' = [total_samples |-> total_received,
                          lost_samples |-> lost_samples]
    BY <1>5 DEF Report, ddsVars
  <2>. QED  BY <1>1, <1>2, <2>1 DEF Departures
<1>6. CASE SubShutdown
  <2>1. Same /\ sub_cb' = "idle" /\ sub_pc' = "done" /\ sub_pc = "report"
        /\ sub_report' = sub_report /\ up' = [up EXCEPT !["sub"] = FALSE]
    BY <1>6 DEF SubShutdown, DeleteParticipant
  <2>2. finished /\ sub_cb \in {"idle", "fin_check", "echo"}
    BY <2>1, FinishedCallback DEF Departures
  <2>3. CursorAhead' /\ Counted'
    BY <1>1, <2>1, <2>2 DEF CursorAhead, Counted, IsData, CountSteps, DataSteps
  <2>4. NoneMissed'
    BY <1>1, <2>1, <2>2 DEF NoneMissed, IsData, DataSteps
  <2>5. LossFollowed'
    BY <1>1, <2>1, <2>2 DEF LossFollowed, LostUpTo
  <2>6. Departures'
    BY <1>1, <2>1, <2>2
       DEF Departures, FinishInv, TypeOK, DdsTypeOK, Process
  <2>. QED  BY <2>3, <2>4, <2>5, <2>6
<1>. QED  BY <1>3, <1>4, <1>5, <1>6 DEF SubMainStep, SubMain

\* What is known of a data sample while the callback handles it.
LEMMA DataTaken ==
  ASSUME AccountInv, sub_cb \in DataSteps
  PROVE  /\ Taken("ping").seq \in 1 .. seq
         /\ Taken("ping").seq \in SentSeqs
         /\ got["ping"] > 0 /\ IsData(got["ping"])
         /\ ~finished /\ up["sub"] /\ sub_pc \notin {"report", "done"}
<1>. USE DEF AccountInv
<1>1. sub_cb # "idle"
  BY DEF DataSteps
<1>2. got["ping"] \in 1 .. Len(log["ping"]) /\ IsData(got["ping"])
  <2>1. got["ping"] > 0 /\ got["ping"] <= Len(log["ping"]) /\ got["ping"] \in Nat
    BY <1>1 DEF FinishInv, CursorOK, TypeOK, DdsTypeOK, Topic
  <2>2. Len(log["ping"]) \in Nat
    BY LenProperties DEF FinishInv, TypeOK, DdsTypeOK, Topic
  <2>. QED  BY <2>1, <2>2 DEF FinishInv, CursorOK, Taken, IsData
<1>3. Taken("ping").seq \in 1 .. seq /\ Taken("ping").seq \in SentSeqs
  BY <1>2 DEF LogOrdered, SentSeqs, Taken
<1>4. ~finished
  BY FinishedCallback DEF DataSteps
<1>. QED  BY <1>1, <1>2, <1>3, <1>4 DEF Departures

\* A callback that begins finds the sample in front of those accounted for.
LEMMA OnSampleKeeps ==
  ASSUME AccountInv, SubCallbackStep, OnSample
  PROVE  CursorAhead' /\ Counted' /\ NoneMissed' /\ LossFollowed' /\ Departures'
<1>. USE DEF AccountInv
<1>1. PICK i \in Pending("ping") :
        Take("ping", i) /\ sub_cb' = FirstStep(log["ping"][i].kind)
  BY DEF OnSample
<1>2. /\ i \in Nat /\ i > 0 /\ i <= Len(log["ping"]) /\ i > got["ping"]
      /\ got'["ping"] = i /\ log["ping"][i] \in Sample
  BY <1>1, TakeTypes DEF Topic, FinishInv, TypeOK
<1>3. got["ping"] \in Nat /\ Len(log["ping"]) \in Nat
  BY LenProperties DEF FinishInv, TypeOK, DdsTypeOK, Topic
<1>4. sub_cb' \in {"fin_check", "echo", "gap_check"}
  BY <1>1 DEF FirstStep
<1>5. sub_cb' = "gap_check" <=> IsData(i)
  BY <1>1, <1>2 DEF FirstStep, IsData, Sample, Kind
<1>6. sub_cb = "idle"
  BY DEF OnSample
<1>7. /\ log' = log /\ up' = up /\ sub_pc' = sub_pc /\ received' = received
      /\ total_received' = total_received /\ last_seq' = last_seq
      /\ lost_samples' = lost_samples /\ finished' = finished
      /\ sub_report' = sub_report /\ seq' = seq /\ pub_last_seq' = pub_last_seq
      /\ SentSeqs' = SentSeqs /\ register' = register /\ pub_pc' = pub_pc
  BY SubscriberLeaves DEF OnSample, pubVars
<1>8. CursorAhead'
  <2>1. Taken("ping")' = log["ping"][i]
    BY <1>2, <1>7 DEF Taken
  <2>2. IsData(i) => last_seq < log["ping"][i].seq
    BY <1>2, <1>3 DEF CursorAhead
  <2>3. \A j \in i + 1 .. Len(log["ping"]) : j \in got["ping"] + 1 .. Len(log["ping"])
    BY <1>2, <1>3
  <2>4. sub_cb' \notin CountSteps /\ (sub_cb' \in DataSteps => IsData(i))
    BY <1>4, <1>5 DEF CountSteps, DataSteps
  <2>. QED
    BY <1>2, <1>7, <2>1, <2>2, <2>3, <2>4 DEF CursorAhead, IsData
<1>9. Counted'
  BY <1>4, <1>6, <1>7 DEF Counted, CountSteps
<1>10. NoneMissed'
  <2>. SUFFICES ASSUME Reliable, KeepAll, NEW j \in 1 .. i, IsData(j)
                PROVE  \/ log["ping"][j].seq \in received
                       \/ j = i /\ sub_cb' \in DataSteps
    BY <1>2, <1>7 DEF NoneMissed, IsData
  <2>1. i = got["ping"] + 1
    BY <1>1, <1>2, <1>3 DEF Take, MayMiss
  <2>2. CASE j = i
    BY <1>5, <2>2 DEF DataSteps
  <2>3. CASE j # i
    BY <1>3, <1>6, <2>1, <2>3 DEF NoneMissed, DataSteps
  <2>. QED  BY <2>2, <2>3
<1>11. LossFollowed'
  BY <1>4, <1>6, <1>7 DEF LossFollowed, LostUpTo, ExactTo, CountSteps
<1>12. Departures'
  <2>1. up["sub"]
    BY <1>1 DEF Take, ReaderOf
  <2>. QED  BY <1>7, <2>1 DEF Departures
<1>. QED  BY <1>8, <1>9, <1>10, <1>11, <1>12

\* The steps of the callback on a data sample bring the books up to date.
LEMMA DataKeeps ==
  ASSUME AccountInv, SubCallbackStep, sub_cb \in DataSteps
  PROVE  CursorAhead' /\ Counted' /\ NoneMissed' /\ LossFollowed' /\ Departures'
<1>. USE DEF AccountInv
<1>. DEFINE q == Taken("ping").seq
<1>1. /\ log'["ping"] = log["ping"] /\ SentSeqs' = SentSeqs
      /\ seq' = seq /\ pub_last_seq' = pub_last_seq /\ pub_pc' = pub_pc
  BY SubscriberLeaves DEF pubVars
<1>2. /\ q \in 1 .. seq /\ q \in SentSeqs /\ got["ping"] > 0 /\ IsData(got["ping"])
      /\ ~finished /\ up["sub"] /\ sub_pc \notin {"report", "done"}
  BY DataTaken
<1>3. seq \in Nat /\ q \in Nat /\ last_seq \in Nat /\ lost_samples \in Nat
      /\ total_received \in Nat /\ register \in Nat /\ got["ping"] \in Nat
  <2>1. seq \in Nat /\ got["ping"] \in Nat
    BY DEF FinishInv, TypeOK, PubTypeOK, DdsTypeOK, Topic
  <2>2. {last_seq, lost_samples, total_received, register} \subseteq Nat
    BY DEF FinishInv, TypeOK, SubTypeOK
  <2>. QED  BY <1>2, <2>1, <2>2
<1>4. \A i \in got["ping"] + 1 .. Len(log["ping"]) :
        IsData(i) => last_seq < log["ping"][i].seq /\ q < log["ping"][i].seq
  <2>. SUFFICES ASSUME NEW i \in got["ping"] + 1 .. Len(log["ping"]), IsData(i)
                PROVE  last_seq < log["ping"][i].seq /\ q < log["ping"][i].seq
    OBVIOUS
  <2>1. Len(log["ping"]) \in Nat
    BY LenProperties DEF FinishInv, TypeOK, DdsTypeOK, Topic
  <2>2. i \in 1 .. Len(log["ping"]) /\ got["ping"] \in 1 .. Len(log["ping"])
        /\ got["ping"] < i
    BY <1>2, <1>3, <2>1
  <2>. QED  BY <1>2, <2>2 DEF LogOrdered, CursorAhead, Taken
<1>5. \A r \in received : r \in 1 .. seq /\ r <= last_seq
  BY SentFinite DEF Counted, FinishInv
<1>6. sub_cb \notin CountSteps => last_seq < q
  BY DEF CursorAhead
<1>7. sub_cb # "count_store" => \/ CheckFirst \/ CheckGap \/ StoreGap \/ StoreSeq \/ LoadTotal
  BY DEF SubCallbackStep, SubCallback, DataSteps, OnSample, StoreTotal,
         CheckFinished, CheckTrailing, StoreTrailing, SetFinished, Echo
<1>8. sub_cb = "count_store" => StoreTotal
  BY DEF SubCallbackStep, SubCallback, OnSample, CheckFirst, CheckGap, StoreGap,
         StoreSeq, LoadTotal, CheckFinished, CheckTrailing, StoreTrailing,
         SetFinished, Echo
<1>. HIDE DEF q
\* the steps before the sample is counted
<1>9. ASSUME sub_cb # "count_store"
      PROVE  /\ log' = log /\ got' = got /\ up' = up /\ sub_pc' = sub_pc
             /\ received' = received /\ total_received' = total_received
             /\ finished' = finished /\ Taken("ping")' = Taken("ping")
             /\ sub_cb' \in DataSteps
  BY <1>7, <1>9
     DEF CheckFirst, CheckGap, StoreGap, StoreSeq, LoadTotal, ddsVars, Taken,
         DataSteps
<1>10. ASSUME sub_cb # "count_store" PROVE NoneMissed' /\ Departures'
  BY <1>1, <1>2, <1>9, <1>10 DEF NoneMissed, Departures, IsData, DataSteps
<1>11. CASE CheckFirst
  <2>1. /\ sub_cb = "gap_check" /\ sub_cb' = IF last_seq # 0 THEN "gap" ELSE "seq"
        /\ register' = register /\ last_seq' = last_seq
        /\ lost_samples' = lost_samples
    BY <1>11 DEF CheckFirst
  <2>2. last_seq = 0 <=> received = {}
    BY <1>5, <2>1 DEF Counted, CountSteps
  <2>3. LostUpTo(lost_samples, last_seq)
    BY <1>2, <2>1 DEF LossFollowed, ExactTo, CountSteps
  <2>4. LossFollowed'
    BY <1>2, <1>9, <2>1, <2>2, <2>3 DEF LossFollowed, LostUpTo, ExactTo, CountSteps, q
  <2>5. CursorAhead' /\ Counted'
    BY <1>1, <1>6, <1>9, <2>1
       DEF CursorAhead, Counted, IsData, CountSteps, DataSteps
  <2>. QED  BY <1>10, <2>1, <2>4, <2>5
<1>12. CASE CheckGap
  <2>1. /\ sub_cb = "gap" /\ last_seq' = last_seq /\ lost_samples' = lost_samples
        /\ \/ /\ q > last_seq + 1
              /\ register' = lost_samples + (q - last_seq - 1)
              /\ sub_cb' = "gap_store"
           \/ q <= last_seq + 1 /\ sub_cb' = "seq"
    BY <1>3, <1>12 DEF CheckGap, q
  <2>2. LostUpTo(lost_samples, last_seq) /\ received # {}
    BY <1>2, <2>1 DEF LossFollowed, ExactTo, CountSteps
  <2>3. sub_cb' = "seq" => q - 1 = last_seq
    BY <1>3, <1>6, <2>1 DEF CountSteps
  <2>4. LossFollowed'
    BY <1>2, <1>9, <2>1, <2>2, <2>3 DEF LossFollowed, LostUpTo, ExactTo, CountSteps, q
  <2>5. CursorAhead' /\ Counted'
    BY <1>1, <1>6, <1>9, <2>1
       DEF CursorAhead, Counted, IsData, CountSteps, DataSteps
  <2>. QED  BY <1>10, <2>1, <2>4, <2>5
<1>13. CASE StoreGap
  <2>1. /\ sub_cb = "gap_store" /\ last_seq' = last_seq /\ lost_samples' = register
        /\ sub_cb' = "seq"
    BY <1>13 DEF StoreGap
  <2>2. LostUpTo(lost_samples, last_seq) /\ received # {}
        /\ register = lost_samples + (q - last_seq - 1)
    BY <1>2, <2>1 DEF LossFollowed, ExactTo, CountSteps, q
  <2>3. PICK f \in received : /\ \A r \in received : f <= r
                              /\ lost_samples + total_received = last_seq + 1 - f
    BY <2>2 DEF LostUpTo
  <2>4. register + total_received = (q - 1) + 1 - f
    BY <1>3, <1>5, <2>2, <2>3
  <2>5. LossFollowed'
    BY <1>2, <1>9, <2>1, <2>3, <2>4 DEF LossFollowed, LostUpTo, ExactTo, CountSteps, q
  <2>6. CursorAhead' /\ Counted'
    BY <1>1, <1>6, <1>9, <2>1
       DEF CursorAhead, Counted, IsData, CountSteps, DataSteps
  <2>. QED  BY <1>10, <2>1, <2>5, <2>6
<1>14. CASE StoreSeq
  <2>1. /\ sub_cb = "seq" /\ last_seq' = q /\ lost_samples' = lost_samples
        /\ sub_cb' = "count"
    BY <1>14 DEF StoreSeq, q
  <2>2. LostUpTo(lost_samples, q - 1)
    BY <1>2, <2>1 DEF LossFollowed, ExactTo, CountSteps, q
  <2>3. LossFollowed'
    BY <1>2, <1>9, <2>1, <2>2 DEF LossFollowed, LostUpTo, ExactTo, CountSteps, q
  <2>4. CursorAhead'
    BY <1>1, <1>2, <1>4, <1>9, <2>1
       DEF CursorAhead, IsData, CountSteps, DataSteps, q
  <2>5. Counted'
    BY <1>1, <1>3, <1>5, <1>6, <1>9, <2>1 DEF Counted, CountSteps
  <2>. QED  BY <1>10, <2>1, <2>3, <2>4, <2>5
<1>15. CASE LoadTotal
  <2>1. /\ sub_cb = "count" /\ last_seq' = last_seq /\ lost_samples' = lost_samples
        /\ sub_cb' = "count_store" /\ register' = total_received + 1
    BY <1>15 DEF LoadTotal
  <2>2. LostUpTo(lost_samples, q - 1)
    BY <1>2, <2>1 DEF LossFollowed, ExactTo, CountSteps, q
  <2>3. LossFollowed'
    BY <1>2, <1>9, <2>1, <2>2 DEF LossFollowed, LostUpTo, ExactTo, CountSteps, q
  <2>4. CursorAhead' /\ Counted'
    BY <1>1, <1>9, <2>1 DEF CursorAhead, Counted, IsData, CountSteps, DataSteps
  <2>. QED  BY <1>10, <2>1, <2>3, <2>4
<1>16. CASE StoreTotal
  <2>1. /\ sub_cb = "count_store" /\ sub_cb' \in {"echo", "idle"}
        /\ total_received' = register /\ received' = received \cup {q}
        /\ log' = log /\ got' = got /\ up' = up /\ sub_pc' = sub_pc
        /\ last_seq' = last_seq /\ lost_samples' = lost_samples
        /\ finished' = finished
    BY <1>16 DEF StoreTotal, ddsVars, q
  <2>2. last_seq = q /\ q \notin received /\ register = total_received + 1
    BY <2>1 DEF CursorAhead, Counted, CountSteps, q
  <2>3. LostUpTo(lost_samples, q - 1)
    BY <1>2, <2>1 DEF LossFollowed, ExactTo, CountSteps, q
  <2>4. total_received' = Cardinality(received')
    <3>1. IsFiniteSet(received)
      BY SentFinite DEF Counted, FinishInv
    <3>. QED  BY <2>1, <2>2, <3>1, FS_AddElement DEF Counted
  <2>5. LostUpTo(lost_samples, last_seq)'
    <3>1. CASE received = {}
      <4>1. lost_samples = 0 /\ total_received = 0
        BY <2>3, <3>1, FS_EmptySet DEF LostUpTo, Counted
      <4>2. received' = {q} /\ total_received' = 1
        BY <2>1, <2>2, <3>1, <4>1
      <4>. QED  BY <1>3, <2>1, <2>2, <4>1, <4>2 DEF LostUpTo
    <3>2. CASE received # {}
      <4>1. PICK f \in received : /\ \A r \in received : f <= r
                                  /\ lost_samples + total_received = (q - 1) + 1 - f
        BY <2>3, <3>2 DEF LostUpTo
      <4>2. f \in received' /\ \A r \in received' : f <= r
        BY <1>5, <2>1, <2>2, <4>1
      <4>3. lost_samples' + total_received' = last_seq' + 1 - f
        BY <1>3, <1>5, <2>1, <2>2, <4>1
      <4>. QED  BY <4>2, <4>3 DEF LostUpTo
    <3>. QED  BY <3>1, <3>2
  <2>6. LossFollowed'
    BY <1>2, <2>1, <2>5 DEF LossFollowed, ExactTo, CountSteps
  <2>7. CursorAhead'
    BY <1>1, <2>1 DEF CursorAhead, IsData, CountSteps, DataSteps
  <2>8. Counted'
    BY <1>1, <1>2, <1>3, <2>1, <2>2, <2>4 DEF Counted, CountSteps
  <2>9. NoneMissed'
    BY <1>1, <2>1 DEF NoneMissed, IsData, Taken, q
  <2>10. Departures'
    BY <1>1, <1>2, <2>1 DEF Departures
  <2>. QED  BY <2>6, <2>7, <2>8, <2>9, <2>10
<1>. QED  BY <1>7, <1>8, <1>11, <1>12, <1>13, <1>14, <1>15, <1>16

\* So do its steps on a FINALIZATION sample, and the echo.
LEMMA FinalKeeps ==
  ASSUME AccountInv, SubCallbackStep, sub_cb \in TrailingSteps \cup {"fin_check", "echo"}
  PROVE  CursorAhead' /\ Counted' /\ NoneMissed' /\ LossFollowed' /\ Departures'
<1>. USE DEF AccountInv
<1>1. /\ log'["ping"] = log["ping"] /\ SentSeqs' = SentSeqs
      /\ seq' = seq /\ pub_last_seq' = pub_last_seq /\ pub_pc' = pub_pc
  BY SubscriberLeaves DEF pubVars
<1>2. CheckFinished \/ CheckTrailing \/ StoreTrailing \/ SetFinished \/ Echo
  BY DEF SubCallbackStep, SubCallback, TrailingSteps, OnSample, CheckFirst,
         CheckGap, StoreGap, StoreSeq, LoadTotal, StoreTotal
<1>3. /\ got' = got /\ up' = up /\ sub_pc' = sub_pc /\ sub_report' = sub_report
      /\ received' = received /\ total_received' = total_received
      /\ last_seq' = last_seq
      /\ sub_cb' \in TrailingSteps \cup {"idle", "echo"}
      /\ finished => finished' /\ lost_samples' = lost_samples
  <2>1. finished => sub_cb \in {"fin_check", "echo"}
    BY FinishedCallback DEF TrailingSteps
  <2>. QED
    BY <1>2, <2>1
       DEF CheckFinished, CheckTrailing, StoreTrailing, SetFinished, Echo, ddsVars,
           TrailingSteps
<1>4. sub_cb # "idle" /\ sub_cb \notin DataSteps /\ sub_cb' \notin DataSteps
  BY <1>3 DEF DataSteps, TrailingSteps
<1>5. CursorAhead' /\ Counted' /\ NoneMissed'
  BY <1>1, <1>3, <1>4
     DEF CursorAhead, Counted, NoneMissed, IsData, CountSteps, DataSteps
<1>6. Departures'
  BY <1>1, <1>3, <1>4 DEF Departures
\* the sample carries the last number used
<1>7. sub_cb \in TrailingSteps =>
        /\ Taken("ping").seq = pub_last_seq
        /\ pub_last_seq = seq /\ last_seq <= pub_last_seq
        /\ ~finished
  <2>. SUFFICES ASSUME sub_cb \in TrailingSteps
                PROVE  /\ Taken("ping").seq = pub_last_seq
                       /\ pub_last_seq = seq /\ last_seq <= pub_last_seq
                       /\ ~finished
    OBVIOUS
  <2>1. got["ping"] > 0 /\ got["ping"] <= Len(log["ping"]) /\ got["ping"] \in Nat
        /\ IsFinal("ping", got["ping"])
    BY <1>4 DEF FinishInv, CursorOK, TypeOK, DdsTypeOK, Topic
  <2>2. Len(log["ping"]) \in Nat
    BY LenProperties DEF FinishInv, TypeOK, DdsTypeOK, Topic
  <2>3. got["ping"] \in 1 .. Len(log["ping"])
    BY <2>1, <2>2
  <2>4. pub_pc \in {"final", "done"}
    BY <2>1, <2>3 DEF FinishInv, FinalIsLate
  <2>. QED
    BY <2>1, <2>3, <2>4
       DEF LogOrdered, PubLedger, CursorAhead, Taken, FinishInv, FinishedFirst
<1>8. /\ last_seq \in Nat /\ lost_samples \in Nat /\ total_received \in Nat
      /\ pub_last_seq \in Nat /\ register \in Nat
  BY DEF FinishInv, TypeOK, PubTypeOK, SubTypeOK
<1>9. \A r \in received : r \in Nat
  BY DEF FinishInv, TypeOK, SubTypeOK
<1>10. CASE CheckFinished
  <2>1. /\ sub_cb = "fin_check" /\ lost_samples' = lost_samples
        /\ finished' = finished /\ sub_cb' = IF finished THEN "echo" ELSE "fin_gap"
    BY <1>10 DEF CheckFinished
  <2>2. LossFollowed'
    BY <1>1, <1>3, <2>1 DEF LossFollowed, LostUpTo, ExactTo, CountSteps
  <2>. QED  BY <1>5, <1>6, <2>2
<1>11. CASE CheckTrailing
  <2>1. /\ sub_cb = "fin_gap" /\ lost_samples' = lost_samples /\ finished' = finished
        /\ \/ /\ pub_last_seq > last_seq /\ sub_cb' = "fin_store"
              /\ register' = lost_samples + (pub_last_seq - last_seq)
           \/ pub_last_seq = last_seq /\ sub_cb' = "fin_set"
    BY <1>7, <1>8, <1>11 DEF CheckTrailing, TrailingSteps
  <2>2. LostUpTo(lost_samples, last_seq) /\ ~finished
    BY <1>7, <2>1 DEF LossFollowed, ExactTo, CountSteps, TrailingSteps
  <2>3. received = {} => last_seq = 0 /\ lost_samples = 0
    BY <2>1, <2>2 DEF Counted, CountSteps, LostUpTo
  <2>4. LossFollowed'
    BY <1>1, <1>3, <2>1, <2>2, <2>3 DEF LossFollowed, LostUpTo, ExactTo, CountSteps
  <2>. QED  BY <1>5, <1>6, <2>4
<1>12. CASE StoreTrailing
  <2>1. /\ sub_cb = "fin_store" /\ lost_samples' = register /\ finished' = finished
        /\ sub_cb' = "fin_set"
    BY <1>12 DEF StoreTrailing
  <2>2. /\ LostUpTo(lost_samples, last_seq) /\ last_seq < pub_last_seq
        /\ register = lost_samples + (pub_last_seq - last_seq)
    BY <1>7, <2>1 DEF LossFollowed, ExactTo, CountSteps, TrailingSteps
  <2>3. CASE received = {}
    <3>1. last_seq = 0 /\ lost_samples = 0
      BY <2>1, <2>2, <2>3 DEF Counted, CountSteps, LostUpTo
    <3>2. lost_samples' = pub_last_seq
      BY <1>8, <2>1, <2>2, <3>1
    <3>3. LossFollowed'
      BY <1>1, <1>3, <2>1, <2>3, <3>2 DEF LossFollowed
    <3>. QED  BY <1>5, <1>6, <3>3
  <2>4. CASE received # {}
    <3>1. PICK f \in received : /\ \A r \in received : f <= r
                                /\ lost_samples + total_received = last_seq + 1 - f
      BY <2>2, <2>4 DEF LostUpTo
    <3>2. register + total_received = pub_last_seq + 1 - f
      BY <1>8, <1>9, <2>2, <3>1
    <3>3. LossFollowed'
      BY <1>1, <1>3, <2>1, <2>4, <3>1, <3>2 DEF LossFollowed, LostUpTo
    <3>. QED  BY <1>5, <1>6, <3>3
  <2>. QED  BY <2>3, <2>4
<1>13. CASE SetFinished
  <2>1. /\ sub_cb = "fin_set" /\ lost_samples' = lost_samples /\ finished'
        /\ sub_cb' = "echo"
    BY <1>13 DEF SetFinished
  <2>2. LossFollowed'
    BY <1>1, <1>3, <2>1 DEF LossFollowed, LostUpTo
  <2>. QED  BY <1>5, <1>6, <2>2
<1>14. CASE Echo
  <2>1. /\ sub_cb = "echo" /\ lost_samples' = lost_samples /\ finished' = finished
        /\ sub_cb' = "idle"
    BY <1>14 DEF Echo
  <2>2. LossFollowed'
    BY <1>1, <1>3, <2>1 DEF LossFollowed, LostUpTo, ExactTo, CountSteps
  <2>. QED  BY <1>5, <1>6, <2>2
<1>. QED  BY <1>2, <1>10, <1>11, <1>12, <1>13, <1>14

----------------------------------------------------------------------------
(* The books are right at every step. *)

\* Discovery touches no book; the ping writer loses its reader only when the
\* subscriber is gone, and then the publisher has left its loop.
LEMMA DiscoveryKeeps ==
  ASSUME AccountInv, DiscoveryStep
  PROVE  /\ LogOrdered' /\ PubLedger' /\ CursorAhead' /\ Counted' /\ NoneMissed'
         /\ LossFollowed' /\ Departures'
<1>. USE DEF AccountInv
<1>1. PICK t \in Topic : WriterMatch(t) \/ ReaderMatch(t)
                           \/ WriterUnmatch(t) \/ ReaderUnmatch(t)
  BY DEF DiscoveryStep, Discovery
<1>2. log' = log /\ got' = got /\ up' = up
  BY <1>1 DEF WriterMatch, ReaderMatch, WriterUnmatch, ReaderUnmatch
<1>3. UNCHANGED <<pubVars, subVars>>
  BY DEF DiscoveryStep
<1>4. SentSeqs' = SentSeqs /\ Taken("ping")' = Taken("ping")
  BY <1>2 DEF SentSeqs, IsData, Taken
<1>5. writer_matched["ping"] => writer_matched'["ping"] \/ ~up["sub"]
  BY <1>1
     DEF WriterMatch, ReaderMatch, WriterUnmatch, ReaderUnmatch, ReaderOf, Topic,
         FinishInv, TypeOK, DdsTypeOK
<1>6. ~up["sub"] => pub_pc \in {"final", "done"}
  <2>1. ~up["sub"] => finished
    BY DEF Departures
  <2>2. finished => pub_pc \in {"final", "done"}
    BY NotFinalYet
  <2>. QED  BY <2>1, <2>2
<1>7. PubLedger'
  BY <1>3, <1>4, <1>5, <1>6 DEF PubLedger, Early, pubVars
<1>8. LogOrdered' /\ CursorAhead' /\ Counted' /\ NoneMissed'
  BY <1>2, <1>3, <1>4
     DEF LogOrdered, CursorAhead, Counted, NoneMissed, IsData, IsFinal, pubVars, subVars
<1>9. LossFollowed' /\ Departures'
  BY <1>2, <1>3, <1>4 DEF LossFollowed, LostUpTo, ExactTo, Departures, pubVars, subVars
<1>. QED  BY <1>7, <1>8, <1>9

\* Both processes' counters are exact at every step, given that the settle sleep
\* outlasts discovery and the subscriber's reset.
THEOREM AccountInvariant ==
  ASSUME SettleSuffices
  PROVE  Spec => []AccountInv
<1>. DEFINE Books == /\ LogOrdered /\ PubLedger /\ CursorAhead /\ Counted
                     /\ NoneMissed /\ LossFollowed /\ Departures
<1>1. Init => Books
  <2>. SUFFICES ASSUME Init PROVE Books
    OBVIOUS
  <2>. USE DEF Init, DdsInit, PubInit, SubInit
  <2>1. log["ping"] = << >> /\ got["ping"] = 0
    BY DEF Topic
  <2>2. SentSeqs = {}
    BY <2>1, EmptySeq DEF SentSeqs
  <2>3. LogOrdered /\ PubLedger
    BY <2>1, <2>2, EmptySeq, FS_EmptySet DEF LogOrdered, PubLedger, Early
  <2>4. CursorAhead /\ Counted /\ NoneMissed
    BY <2>1, <2>2, EmptySeq, FS_EmptySet
       DEF CursorAhead, Counted, NoneMissed, DataSteps, CountSteps
  <2>5. LossFollowed
    BY DEF LossFollowed, LostUpTo
  <2>6. Departures
    BY DEF Departures, Process
  <2>. QED  BY <2>3, <2>4, <2>5, <2>6
<1>2. ASSUME AccountInv, [Next]_vars, FinishInv' PROVE Books'
  <2>1. CASE UNCHANGED vars
    BY <1>2, <2>1
       DEF AccountInv, vars, ddsVars, pubVars, subVars, LogOrdered, PubLedger,
           CursorAhead, Counted, NoneMissed, LossFollowed, LostUpTo, ExactTo,
           Departures, SentSeqs, IsData, IsFinal, Taken, Early
  <2>2. CASE PubMainStep \/ PubCallbackStep
    BY <1>2, <2>2, PublisherBooks, PublisherKeeps
  <2>3. CASE SubMainStep
    BY <1>2, <2>3, SubscriberLeaves, SubMainKeeps
  <2>4. CASE SubCallbackStep
    <3>1. LogOrdered' /\ PubLedger'
      BY <1>2, <2>4, SubscriberLeaves
    <3>2. CASE OnSample
      BY <1>2, <2>4, <3>1, <3>2, OnSampleKeeps
    <3>3. CASE sub_cb \in DataSteps
      BY <1>2, <2>4, <3>1, <3>3, DataKeeps
    <3>4. CASE sub_cb \in TrailingSteps \cup {"fin_check", "echo"}
      BY <1>2, <2>4, <3>1, <3>4, FinalKeeps
    <3>5. OnSample \/ sub_cb \in DataSteps \cup TrailingSteps \cup {"fin_check", "echo"}
      BY <2>4
         DEF SubCallbackStep, SubCallback, CheckFirst, CheckGap, StoreGap,
             StoreSeq, LoadTotal, StoreTotal, CheckFinished, CheckTrailing,
             StoreTrailing, SetFinished, Echo, DataSteps, TrailingSteps
    <3>. QED  BY <3>2, <3>3, <3>4, <3>5
  <2>5. CASE DiscoveryStep
    BY <1>2, <2>5, DiscoveryKeeps
  <2>. QED  BY <1>2, <2>1, <2>2, <2>3, <2>4, <2>5 DEF Next
<1>3. FinishInv /\ Books => AccountInv
  BY DEF AccountInv
<1>4. AccountInv /\ [Next]_vars /\ FinishInv' => Books'
  BY <1>2
<1>. HIDE DEF Books
<1>. QED  BY <1>1, <1>3, <1>4, FinishInvariant, PTL DEF Spec

----------------------------------------------------------------------------
(* What the books say. *)

\* Counting: of the numbers from the least of R up to n, those not in R are as
\* many as the interval has beyond R.
LEMMA SkippedCount ==
  ASSUME NEW R \in SUBSET Nat, NEW n \in Nat, NEW f \in R,
         \A r \in R : f <= r /\ r <= n
  PROVE  n + 1 - f = Cardinality(R)
                       + Cardinality({s \in 1 .. n : s \notin R /\ \E r \in R : r < s})
<1>. DEFINE K == {s \in 1 .. n : s \notin R /\ \E r \in R : r < s}
<1>1. f \in Nat /\ f <= n
  OBVIOUS
<1>2. f .. n = K \cup R /\ K \cap R = {}
  <2>1. \A s \in f .. n : s \in K \/ s \in R
    BY <1>1
  <2>2. \A s \in K \cup R : s \in f .. n
    BY <1>1
  <2>. QED  BY <2>1, <2>2
<1>3. IsFiniteSet(f .. n) /\ Cardinality(f .. n) = n - f + 1
  BY <1>1, FS_Interval
<1>4. IsFiniteSet(K) /\ IsFiniteSet(R)
  BY <1>2, <1>3, FS_Subset
<1>. HIDE DEF K
<1>5. Cardinality(K) \in Nat /\ Cardinality(R) \in Nat
  BY <1>4, FS_CardinalityType
<1>6. Cardinality(K \cup R) = Cardinality(K) + Cardinality(R) - Cardinality(K \cap R)
  BY <1>4, FS_Union
<1>7. n - f + 1 = Cardinality(K) + Cardinality(R)
  <2>1. Cardinality(K \cup R) = n - f + 1
    BY <1>2, <1>3
  <2>2. Cardinality(K \cap R) = 0
    BY <1>2, FS_EmptySet
  <2>. QED  BY <1>5, <1>6, <2>1, <2>2
<1>. QED  BY <1>1, <1>5, <1>7 DEF K

\* What LostUpTo says of lost_samples is what LossExact asks of it.
LEMMA MissingCount ==
  ASSUME AccountInv, NEW n \in Nat, last_seq <= n, received # {},
         LostUpTo(lost_samples, n)
  PROVE  lost_samples = Cardinality(Missing(n))
<1>1. PICK f \in received : /\ \A r \in received : f <= r
                            /\ lost_samples + total_received = n + 1 - f
  BY DEF LostUpTo
<1>2. received \subseteq Nat /\ last_seq \in Nat /\ lost_samples \in Nat
      /\ total_received \in Nat
  BY DEF AccountInv, FinishInv, TypeOK, SubTypeOK
<1>3. \A r \in received : f <= r /\ r <= n
  BY <1>1, <1>2 DEF AccountInv, Counted
<1>4. Missing(n) = {s \in 1 .. n : s \notin received /\ \E r \in received : r < s}
  BY DEF Missing
<1>5. n + 1 - f = Cardinality(received) + Cardinality(Missing(n))
  <2>1. n + 1 - f = Cardinality(received)
          + Cardinality({s \in 1 .. n : s \notin received /\ \E r \in received : r < s})
    BY <1>2, <1>3, SkippedCount
  <2>. QED  BY <1>4, <2>1
<1>6. total_received = Cardinality(received)
  BY DEF AccountInv, Counted
<1>7. IsFiniteSet(Missing(n)) 
  <2>1. Missing(n) \subseteq 1 .. n /\ IsFiniteSet(1 .. n)
    BY FS_Interval DEF Missing
  <2>. QED  BY <2>1, FS_Subset
<1>8. Cardinality(Missing(n)) \in Nat
  BY <1>7, FS_CardinalityType
<1>. QED  BY <1>1, <1>2, <1>5, <1>6, <1>8

\* Between two callbacks, total_received and lost_samples are exactly the samples
\* received and those skipped, for every pattern of loss.
THEOREM LossIsExact ==
  ASSUME SettleSuffices
  PROVE  Spec => []LossExact
<1>1. ASSUME AccountInv PROVE LossExact
  <2>. USE <1>1 DEF AccountInv
  <2>. SUFFICES ASSUME Testing, sub_cb = "idle"
                PROVE  lost_samples = Cardinality(
                         Missing(IF finished THEN pub_last_seq ELSE last_seq))
    BY DEF LossExact, Counted
  <2>1. seq \in Nat /\ last_seq \in Nat /\ pub_last_seq \in Nat
    BY DEF FinishInv, TypeOK, PubTypeOK, SubTypeOK
  <2>2. finished => last_seq <= pub_last_seq
    BY NotFinalYet DEF PubLedger, CursorAhead
  <2>3. CASE finished
    <3>1. CASE received = {}
      <4>1. lost_samples = pub_last_seq
        BY <2>3, <3>1 DEF LossFollowed
      <4>2. Missing(pub_last_seq) = 1 .. pub_last_seq
        BY <3>1 DEF Missing
      <4>3. Cardinality(1 .. pub_last_seq) = pub_last_seq
        BY <2>1, FS_Interval
      <4>. QED  BY <2>3, <4>1, <4>2, <4>3
    <3>2. CASE received # {}
      <4>1. LostUpTo(lost_samples, pub_last_seq)
        BY <2>3, <3>2 DEF LossFollowed
      <4>. QED  BY <2>1, <2>2, <2>3, <3>2, <4>1, MissingCount
    <3>. QED  BY <3>1, <3>2
  <2>4. CASE ~finished
    <3>1. LostUpTo(lost_samples, last_seq)
      BY <2>4 DEF LossFollowed, ExactTo, CountSteps
    <3>2. CASE received = {}
      <4>1. last_seq = 0 /\ lost_samples = 0
        BY <3>1, <3>2 DEF Counted, CountSteps, LostUpTo
      <4>2. Missing(0) = {}
        BY DEF Missing
      <4>. QED  BY <2>4, <4>1, <4>2, FS_EmptySet
    <3>3. CASE received # {}
      BY <2>1, <2>4, <3>1, <3>3, MissingCount
    <3>. QED  BY <3>2, <3>3
  <2>. QED  BY <2>3, <2>4
<1>. QED  BY <1>1, AccountInvariant, PTL

\* The subscriber's report never claims more than the publisher's, and with a
\* KEEP_ALL reliable writer the two agree.
THEOREM ReportsAgree ==
  ASSUME SettleSuffices
  PROVE  Spec => []ReportsReconcile
<1>1. ASSUME AccountInv PROVE ReportsReconcile
  <2>. USE <1>1 DEF AccountInv
  <2>. SUFFICES ASSUME sub_pc \in {"report", "done"}
                PROVE  /\ total_received <= pub_report.total_samples
                       /\ total_received + lost_samples <= pub_last_seq
                       /\ (Reliable /\ KeepAll) =>
                            total_received = pub_report.total_samples
    BY DEF ReportsReconcile, Departures
  <2>1. finished
    BY DEF Departures
  <2>2. pub_report.total_samples = Cardinality(SentSeqs)
    BY <2>1, NotFinalYet DEF PubLedger
  <2>3. total_received <= Cardinality(SentSeqs)
    BY SentFinite, FS_Subset DEF Counted, FinishInv
  <2>4. total_received + lost_samples <= pub_last_seq
    <3>1. /\ received \subseteq 1 .. seq /\ seq \in Nat /\ pub_last_seq \in Nat
          /\ total_received \in Nat /\ lost_samples \in Nat
      BY SentFinite DEF Counted, FinishInv, TypeOK, PubTypeOK, SubTypeOK
    <3>2. CASE received = {}
      BY <2>1, <3>1, <3>2, FS_EmptySet DEF LossFollowed, Counted
    <3>3. CASE received # {}
      <4>1. PICK f \in received : lost_samples + total_received = pub_last_seq + 1 - f
        BY <2>1, <3>3 DEF LossFollowed, LostUpTo
      <4>. QED  BY <3>1, <4>1
    <3>. QED  BY <3>2, <3>3
  <2>5. ASSUME Reliable, KeepAll PROVE SentSeqs \subseteq received
    <3>. SUFFICES ASSUME NEW i \in 1 .. Len(log["ping"]), IsData(i)
                  PROVE  log["ping"][i].seq \in received
      BY DEF SentSeqs
    <3>1. got["ping"] \in 1 .. Len(log["ping"]) /\ IsFinal("ping", got["ping"])
      <4>1. Len(log["ping"]) \in Nat /\ got["ping"] \in Nat
            /\ got["ping"] <= Len(log["ping"])
        BY LenProperties DEF FinishInv, TypeOK, DdsTypeOK, CursorOK, Topic
      <4>. QED  BY <2>1, <4>1 DEF FinishInv, FinishedFirst
    <3>2. i < got["ping"]
      <4>1. ~IsFinal("ping", i)
        BY DEF IsData, IsFinal
      <4>. QED  BY <3>1, <4>1 DEF FinishInv, FinalIsLast
    <3>. QED  BY <2>5, <3>1, <3>2 DEF NoneMissed
  <2>6. (Reliable /\ KeepAll) => total_received = Cardinality(SentSeqs)
    <3>1. (Reliable /\ KeepAll) => SentSeqs = received
      BY <2>5 DEF Counted
    <3>. QED  BY <3>1 DEF Counted
  <2>. QED  BY <2>2, <2>3, <2>4, <2>6
<1>. QED  BY <1>1, AccountInvariant, PTL

----------------------------------------------------------------------------
(* The test as a whole. *)

\* A step that shows nothing to the abstract test.
LEMMA Stutter ==
  ASSUME UNCHANGED <<seq, total, total_received, lost_samples, finished,
                     finished_remote, up>>,
         pub_pc \in {"final", "done"} <=> pub_pc' \in {"final", "done"}
  PROVE  UNCHANGED S!svars
BY DEF S!svars

\* the subscriber never has more on its books than the publisher has used up
Within ==
  /\ total_received <= total
  /\ total_received + lost_samples <= seq
  /\ {total_received, lost_samples, seq, total} \subseteq Nat

\* That holds at every step, whatever lost_samples stands for at it.
LEMMA BooksWithin ==
  ASSUME AccountInv
  PROVE  Within
<1>. USE DEF AccountInv
<1>1. total_received <= total
  BY SentFinite, FS_Subset DEF Counted, PubLedger, FinishInv
<1>2. /\ received \subseteq 1 .. seq /\ pub_last_seq \in Nat
      /\ {total_received, lost_samples, seq, total, last_seq} \subseteq Nat
  BY SentFinite DEF Counted, FinishInv, TypeOK, PubTypeOK, SubTypeOK
<1>3. finished \/ sub_cb = "fin_set" => pub_last_seq = seq
  <2>1. finished \/ sub_cb = "fin_set" => pub_pc \in {"final", "done"}
    BY NotFinalYet DEF TrailingSteps
  <2>. QED  BY <2>1 DEF PubLedger
<1>4. ExactTo \in Int /\ ExactTo <= seq
  <2>1. CASE sub_cb \in CountSteps \cup {"seq"}
    <3>1. Taken("ping").seq \in 1 .. seq
      BY <2>1, DataTaken DEF CountSteps, DataSteps
    <3>. QED  BY <1>2, <2>1, <3>1 DEF ExactTo
  <2>2. CASE sub_cb \notin CountSteps \cup {"seq"}
    BY <1>2, <2>2 DEF ExactTo, CursorAhead
  <2>. QED  BY <2>1, <2>2
<1>5. total_received + lost_samples <= seq
  <2>1. CASE received = {}
    <3>1. total_received = 0
      BY <2>1, FS_EmptySet DEF Counted
    <3>2. lost_samples <= seq
      BY <1>2, <1>3, <2>1 DEF LossFollowed, LostUpTo
    <3>. QED  BY <1>2, <3>1, <3>2
  <2>2. CASE received # {}
    <3>1. PICK n \in Int : n <= seq /\ LostUpTo(lost_samples, n)
      <4>1. CASE finished \/ sub_cb = "fin_set"
        <5>1. LostUpTo(lost_samples, pub_last_seq)
          BY <2>2, <4>1 DEF LossFollowed
        <5>2. pub_last_seq \in Int /\ pub_last_seq <= seq
          BY <1>2, <1>3, <4>1
        <5>. QED  BY <5>1, <5>2
      <4>2. CASE ~(finished \/ sub_cb = "fin_set")
        BY <1>4, <4>2 DEF LossFollowed
      <4>. QED  BY <4>1, <4>2
    <3>2. PICK f \in received : lost_samples + total_received = n + 1 - f
      BY <2>2, <3>1 DEF LostUpTo
    <3>. QED  BY <1>2, <3>1, <3>2
  <2>. QED  BY <2>1, <2>2
<1>. QED  BY <1>1, <1>2, <1>5 DEF Within

\* A step that only adds to the subscriber's books accounts for samples.
LEMMA AccountStep ==
  ASSUME Within, Within', ~finished, up["sub"],
         total_received' >= total_received, lost_samples' >= lost_samples,
         UNCHANGED <<seq, total, pub_pc, finished, finished_remote, up>>
  PROVE  S!Account
<1>1. /\ total_received' \in total_received .. total
      /\ lost_samples' \in lost_samples .. seq
      /\ total_received' + lost_samples' <= seq
  BY DEF Within
<1>2. "sub" \notin {p \in Process : ~up[p]}
  OBVIOUS
<1>. QED  BY <1>1, <1>2 DEF S!Account

\* Every step of the publisher is one of the abstract test's or shows nothing.
LEMMA PublisherRefines ==
  ASSUME AccountInv, FinishInv', PubMainStep \/ PubCallbackStep
  PROVE  [S!Next]_S!svars
<1>. USE DEF AccountInv
<1>1. UNCHANGED <<total_received, lost_samples, finished>>
  BY DEF PubMainStep, PubCallbackStep, subVars
<1>2. CASE Matched \/ WarmUp \/ TakeSemaphore \/ TakeTimeout \/ Finalize \/ GiveSemaphore
  <2>1. /\ UNCHANGED <<seq, total, finished_remote, up>>
        /\ pub_pc \in {"final", "done"} <=> pub_pc' \in {"final", "done"}
    BY <1>2 DEF Matched, WarmUp, TakeSemaphore, TakeTimeout, Finalize,
                GiveSemaphore, ddsVars
  <2>. QED  BY <1>1, <2>1, Stutter
<1>3. CASE StartTest
  <2>1. seq = 0 /\ SentSeqs = {}
    BY <1>3, SentFinite DEF StartTest, PubLedger, Early, FinishInv
  <2>2. total = 0
    BY <2>1, FS_EmptySet DEF PubLedger
  <2>3. /\ UNCHANGED <<seq, total, finished_remote, up>>
        /\ pub_pc \in {"final", "done"} <=> pub_pc' \in {"final", "done"}
    BY <1>3, <2>1, <2>2 DEF StartTest, ddsVars
  <2>. QED  BY <1>1, <2>3, Stutter
<1>4. CASE Send
  <2>1. /\ seq' = seq + 1 /\ total' \in {total, total + 1}
        /\ finished_remote' = finished_remote /\ up' = up
        /\ pub_pc \notin {"final", "done"} /\ pub_pc' \notin {"final", "done"}
    BY <1>4 DEF Send
  <2>2. S!Use
    BY <1>1, <2>1 DEF S!Use
  <2>. QED  BY <2>2 DEF S!Next
<1>5. CASE EndTest
  <2>1. /\ UNCHANGED <<seq, total, finished_remote, up>>
        /\ pub_pc \notin {"final", "done"} /\ pub_pc' \in {"final", "done"}
    BY <1>5 DEF EndTest, ddsVars
  <2>2. S!End
    BY <1>1, <2>1 DEF S!End
  <2>. QED  BY <2>2 DEF S!Next
<1>6. CASE PubShutdown
  <2>1. /\ UNCHANGED <<seq, total, finished_remote>>
        /\ pub_pc \in {"final", "done"} /\ pub_pc' \in {"final", "done"}
        /\ up' = [up EXCEPT !["pub"] = FALSE] /\ up \in [Process -> BOOLEAN]
    BY <1>6 DEF PubShutdown, DeleteParticipant, FinishInv, TypeOK, DdsTypeOK
  <2>2. {p \in Process : ~up'[p]} = {p \in Process : ~up[p]} \cup {"pub"}
    BY <2>1 DEF Process
  <2>3. ~up["sub"] => finished
    BY DEF Departures
  <2>4. S!Stop
    BY <1>1, <2>1, <2>2, <2>3 DEF S!Stop
  <2>. QED  BY <2>4 DEF S!Next
<1>7. CASE OnPong
  <2>1. PICK i \in Pending("pong") :
          Take("pong", i) /\ HandlePong(log["pong"][i].kind)
    BY <1>7 DEF OnPong
  <2>2. UNCHANGED <<seq, total, up, pub_pc>>
    BY <1>7 DEF OnPong
  <2>3. CASE finished_remote' = finished_remote
    BY <1>1, <2>2, <2>3, Stutter
  <2>4. CASE log["pong"][i].kind = "FINALIZATION"
    <3>1. finished_remote' = TRUE
      BY <2>1, <2>4 DEF HandlePong
    <3>2. finished
      BY <1>1, <3>1 DEF FinishInv, FinishedFirst
    <3>3. "pub" \notin {p \in Process : ~up[p]}
      BY <2>1 DEF Take, ReaderOf
    <3>4. S!Answer
      BY <1>1, <2>2, <3>1, <3>2, <3>3 DEF S!Answer
    <3>. QED  BY <3>4 DEF S!Next
  <2>5. log["pong"][i].kind # "FINALIZATION" => finished_remote' = finished_remote
    BY <2>1 DEF HandlePong, FinishInv, TypeOK, PubTypeOK
  <2>. QED  BY <2>3, <2>4, <2>5
<1>. QED
  BY <1>2, <1>3, <1>4, <1>5, <1>6, <1>7
     DEF PubMainStep, PubCallbackStep, PubMain, PubCallback

\* So is every step of the subscriber.
LEMMA SubscriberRefines ==
  ASSUME AccountInv, AccountInv', Within, Within', SubMainStep \/ SubCallbackStep
  PROVE  [S!Next]_S!svars
<1>. USE DEF AccountInv
<1>1. UNCHANGED <<seq, total, pub_pc, finished_remote>>
  BY DEF SubMainStep, SubCallbackStep, pubVars
<1>. DEFINE Idle == UNCHANGED <<total_received, lost_samples, finished, up>>
<1>2. ASSUME Idle PROVE [S!Next]_S!svars
  BY <1>1, <1>2, Stutter
<1>3. CASE \/ SubMatched \/ Report \/ OnSample \/ CheckFirst \/ CheckGap \/ StoreSeq
           \/ LoadTotal \/ CheckFinished \/ CheckTrailing \/ Echo
  BY <1>2, <1>3
     DEF SubMatched, Report, OnSample, CheckFirst, CheckGap, StoreSeq, LoadTotal,
         CheckFinished, CheckTrailing, Echo, ddsVars
<1>4. CASE ResetTotal \/ ResetSeq \/ ResetLost \/ ResetFinished
  <2>1. ~Testing
    BY <1>4 DEF ResetTotal, ResetSeq, ResetLost, ResetFinished, Testing
  <2>2. total_received = 0 /\ lost_samples = 0 /\ finished = FALSE
    BY <2>1, EarlyBooks DEF FinishInv, TypeOK, SubTypeOK
  <2>3. Idle
    BY <1>4, <2>2 DEF ResetTotal, ResetSeq, ResetLost, ResetFinished, ddsVars
  <2>. QED  BY <1>2, <2>3
<1>5. CASE StoreTotal
  <2>1. register = total_received + 1 /\ ~finished /\ up["sub"]
    BY <1>5, DataTaken DEF StoreTotal, Counted, DataSteps
  <2>2. S!Account
    BY <1>1, <1>5, <2>1, AccountStep DEF StoreTotal, ddsVars, Within
  <2>. QED  BY <2>2 DEF S!Next
<1>6. CASE StoreGap
  <2>1. /\ register = lost_samples + (Taken("ping").seq - last_seq - 1)
        /\ last_seq < Taken("ping").seq /\ ~finished /\ up["sub"]
        /\ Taken("ping").seq \in 1 .. seq
    BY <1>6, DataTaken DEF StoreGap, LossFollowed, CursorAhead, DataSteps, CountSteps
  <2>2. last_seq \in Nat
    BY DEF FinishInv, TypeOK, SubTypeOK
  <2>3. register >= lost_samples
    BY <2>1, <2>2 DEF Within
  <2>4. S!Account
    BY <1>1, <1>6, <2>1, <2>3, AccountStep DEF StoreGap, ddsVars, Within
  <2>. QED  BY <2>4 DEF S!Next
<1>7. CASE StoreTrailing
  <2>1. /\ register = lost_samples + (pub_last_seq - last_seq)
        /\ last_seq < pub_last_seq /\ ~finished /\ up["sub"]
    BY <1>7
       DEF StoreTrailing, LossFollowed, FinishInv, FinishedFirst, TrailingSteps,
           Departures
  <2>2. last_seq \in Nat /\ pub_last_seq \in Nat
    BY DEF FinishInv, TypeOK, SubTypeOK, PubTypeOK
  <2>3. register >= lost_samples
    BY <2>1, <2>2 DEF Within
  <2>4. S!Account
    BY <1>1, <1>7, <2>1, <2>3, AccountStep DEF StoreTrailing, ddsVars, Within
  <2>. QED  BY <2>4 DEF S!Next
<1>8. CASE SetFinished
  <2>1. /\ UNCHANGED <<total_received, lost_samples, up>> /\ finished' = TRUE
        /\ up["sub"] /\ sub_cb = "fin_set"
    BY <1>8 DEF SetFinished, ddsVars, Departures
  <2>2. pub_pc \in {"final", "done"}
    BY <2>1, NotFinalYet DEF TrailingSteps
  <2>3. "sub" \notin {p \in Process : ~up[p]}
    BY <2>1
  <2>4. S!Finish
    BY <1>1, <2>1, <2>2, <2>3 DEF S!Finish
  <2>. QED  BY <2>4 DEF S!Next
<1>9. CASE SubShutdown
  <2>1. /\ UNCHANGED <<total_received, lost_samples, finished>> /\ finished
        /\ up' = [up EXCEPT !["sub"] = FALSE] /\ up \in [Process -> BOOLEAN]
    BY <1>9 DEF SubShutdown, DeleteParticipant, Departures, FinishInv, TypeOK, DdsTypeOK
  <2>2. {p \in Process : ~up'[p]} = {p \in Process : ~up[p]} \cup {"sub"}
    BY <2>1 DEF Process
  <2>3. pub_pc \in {"final", "done"}
    BY <2>1, NotFinalYet
  <2>4. S!Stop
    BY <1>1, <2>1, <2>2, <2>3 DEF S!Stop
  <2>. QED  BY <2>4 DEF S!Next
<1>. QED
  BY <1>3, <1>4, <1>5, <1>6, <1>7, <1>8, <1>9
     DEF SubMainStep, SubCallbackStep, SubMain, SubCallback

\* The two processes, their four threads and the transport implement the abstract
\* test: no sample is counted twice or after the end, the subscriber leaves only
\* when it has finished, and no echo is taken for an answer before that.
THEOREM Refines ==
  ASSUME SettleSuffices
  PROVE  Spec => SessionRefined
<1>1. Init => S!Init
  BY DEF Init, DdsInit, PubInit, SubInit, S!Init, Process
<1>2. AccountInv => Within
  BY BooksWithin
<1>3. ASSUME AccountInv, AccountInv', Within, Within', [Next]_vars
      PROVE  [S!Next]_S!svars
  <2>1. CASE UNCHANGED vars \/ DiscoveryStep
    <3>1. UNCHANGED <<seq, total, total_received, lost_samples, finished,
                      finished_remote, up, pub_pc>>
      BY <2>1 DEF vars, ddsVars, pubVars, subVars, DiscoveryStep, Discovery,
                  WriterMatch, ReaderMatch, WriterUnmatch, ReaderUnmatch
    <3>. QED  BY <3>1, Stutter
  <2>2. CASE PubMainStep \/ PubCallbackStep
    BY <1>3, <2>2, PublisherRefines DEF AccountInv
  <2>3. CASE SubMainStep \/ SubCallbackStep
    BY <1>3, <2>3, SubscriberRefines
  <2>. QED  BY <1>3, <2>1, <2>2, <2>3 DEF Next
<1>4. AccountInv /\ AccountInv' /\ Within /\ Within' /\ [Next]_vars => [S!Next]_S!svars
  BY <1>3
<1>. QED  BY <1>1, <1>2, <1>4, AccountInvariant, PTL DEF Spec, SessionRefined, S!Spec
=============================================================================
