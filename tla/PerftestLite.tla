---------------------------- MODULE PerftestLite ---------------------------
(***************************************************************************)
(* One test: a publisher process and a subscriber process over the two     *)
(* topics.  Each process runs its main thread and its listener callback;   *)
(* the four threads, discovery and delivery interleave freely.             *)
(***************************************************************************)
EXTENDS Publisher, Subscriber, FiniteSets

CONSTANT
  SettleSuffices  \* timing: what the publisher's one-second settle sleep awaits has happened when it ends

ASSUME SettleAssumption == SettleSuffices \in BOOLEAN

vars == <<ddsVars, pubVars, subVars>>

Init == DdsInit /\ PubInit /\ SubInit

(* The settle sleep is there to let discovery finish and the warm-up drain: *)
(* all four endpoints have matched, the subscriber polls, and no warm-up    *)
(* sample is still queued in a reliable writer or being handled.  Nothing   *)
(* in the code waits for any of it.                                         *)
Settled ==
  /\ \A t \in Topic : writer_matched[t] /\ matched_pubs[ReaderOf(t)] >= 1
  /\ sub_pc = "poll"
  /\ sub_cb = "idle" /\ pub_cb = "idle"
  /\ Reliable => \A t \in Topic : got[t] = Len(log[t])

SettleDone == (pub_pc = "warmup" /\ pub_pc' = "loop" /\ SettleSuffices) => Settled

PubMainStep     == PubMain /\ SettleDone /\ UNCHANGED subVars
PubCallbackStep == PubCallback /\ UNCHANGED subVars
SubMainStep     == SubMain /\ UNCHANGED pubVars
SubCallbackStep == SubCallback /\ UNCHANGED pubVars
DiscoveryStep   == Discovery /\ UNCHANGED <<pubVars, subVars>>

Next == PubMainStep \/ PubCallbackStep \/ SubMainStep \/ SubCallbackStep
          \/ DiscoveryStep

Spec == Init /\ [][Next]_vars

(* A thread that can run does, and while both processes live their          *)
(* endpoints discover each other and a reliable writer gets its samples     *)
(* through.  A best-effort sample may stay undelivered for ever, so there   *)
(* only a callback that has begun is fair.  How long the test lasts is the  *)
(* publisher's clock's business: it ends by MaxSeq samples at the latest.   *)
FairSpec ==
  /\ Spec
  /\ WF_vars(PubMainStep)
  /\ WF_vars(SubMainStep)
  /\ WF_vars(PubCallbackStep /\ pub_cb # "idle")
  /\ WF_vars(SubCallbackStep /\ sub_cb # "idle")
  /\ WF_vars(PubCallbackStep /\ Reliable /\ BothUp)
  /\ WF_vars(SubCallbackStep /\ Reliable /\ BothUp)
  /\ \A t \in Topic : /\ WF_vars(WriterMatch(t) /\ DiscoveryStep)
                      /\ WF_vars(ReaderMatch(t) /\ DiscoveryStep)

----------------------------------------------------------------------------
(* Safety. *)

\* Every variable keeps its type.
TypeOK == DdsTypeOK /\ PubTypeOK /\ SubTypeOK

Testing == sub_pc \in {"poll", "report", "done"}

\* the sequence numbers up to n that the subscriber skipped after its first one
Missing(n) ==
  {s \in 1 .. n : s \notin received
                    /\ (received = {} \/ \E r \in received : r < s)}

\* Between two callbacks the subscriber's statistics are exact: total_received
\* counts each sample received once, and lost_samples every number skipped,
\* up to the last one received or, after FINALIZATION, the last one used.
LossExact ==
  (Testing /\ sub_cb = "idle") =>
    /\ total_received = Cardinality(received)
    /\ lost_samples =
         Cardinality(Missing(IF finished THEN pub_last_seq ELSE last_seq))

\* The publisher stops retrying FINALIZATION early only if the subscriber has
\* finished too: an echo is never read as an answer it is not.
FinishAgreement == finished_remote => finished

\* What the two processes report fits together: the subscriber has not counted
\* more samples than were sent, and with a KEEP_ALL reliable writer it has
\* counted them all.
ReportsReconcile ==
  sub_pc \in {"report", "done"} =>
    /\ sub_report.total_samples <= pub_report.total_samples
    /\ sub_report.total_samples + sub_report.lost_samples <= pub_last_seq
    /\ (Reliable /\ KeepAll) =>
         sub_report.total_samples = pub_report.total_samples

\* In strict reliable mode every sample sent has a measured latency, which the
\* publisher reports.
LatencyComplete ==
  (LatencyTest /\ Reliable /\ pub_pc \in {"final", "done"}) =>
    pub_report.latency_samples_received = pub_report.total_samples

(* Action properties. *)

\* Once the subscriber has finished, nothing it reports changes any more.
FinishedIsFinal ==
  [][finished => /\ finished'
                 /\ UNCHANGED <<total_received, last_seq, lost_samples>>]_vars

\* semaphore_take returns for the pong of the ping just sent, not an older one.
TakeAnswersPing ==
  [][TakeSemaphore => Taken("pong").seq = seq]_vars

(* Liveness. *)

\* The publisher always ends: no wait in it is for ever.
PublisherStops == <>(pub_pc = "done")

\* A subscriber that has handled a FINALIZATION sample stops.
SubscriberStops ==
  (got["ping"] > 0 /\ Taken("ping").kind = "FINALIZATION") ~> (sub_pc = "done")

----------------------------------------------------------------------------
(* Refinement: the test as a whole does what Session promises. *)

S == INSTANCE Session WITH
       used     <- seq,
       sent     <- total,
       counted  <- total_received,
       lost     <- lost_samples,
       ended    <- pub_pc \in {"final", "done"},
       answered <- finished_remote,
       stopped  <- {p \in Process : ~up[p]}

\* Every step of the two processes, their callbacks and the transport is a step
\* of the abstract test or changes nothing it shows: no sample is counted twice
\* or after the end, the subscriber leaves only when it has finished, and the
\* publisher takes no echo for an answer before that.
SessionRefined == S!Spec

----------------------------------------------------------------------------
(* The inductive invariant behind FinishAgreement and FinishedIsFinal.      *)

DataSteps     == {"gap_check", "gap", "gap_store", "seq", "count", "count_store"}
TrailingSteps == {"fin_gap", "fin_store", "fin_set"}

IsFinal(t, i) == log[t][i].kind = "FINALIZATION"

\* the publisher has not reset its statistics yet
Early == pub_pc \in {"await", "warmup"}

\* readers are within their logs, and a callback has a sample of its kind
CursorOK ==
  /\ \A t \in Topic : got[t] <= Len(log[t])
  /\ sub_cb # "idle" => got["ping"] > 0
  /\ sub_cb \in DataSteps => Taken("ping").kind \in {"DATA", "DATA_PING"}
  /\ sub_cb \in TrailingSteps \cup {"fin_check"} => IsFinal("ping", got["ping"])

\* FINALIZATION is sent by a publisher that has left its loop, and by then the
\* subscriber has reset its statistics
FinalIsLate ==
  /\ Early => ~finished /\ ~finished_remote
  /\ ~Early => Testing
  /\ (\E i \in 1 .. Len(log["ping"]) : IsFinal("ping", i)) =>
       pub_pc \in {"final", "done"}

\* nothing but FINALIZATION follows FINALIZATION
FinalIsLast ==
  \A i, j \in 1 .. Len(log["ping"]) :
    (i < j /\ IsFinal("ping", i)) => IsFinal("ping", j)

\* finished is set once, by a FINALIZATION sample, before that is echoed
FinishedFirst ==
  /\ finished => got["ping"] > 0 /\ IsFinal("ping", got["ping"])
  /\ sub_cb \in TrailingSteps => ~finished
  /\ (sub_cb = "echo" /\ IsFinal("ping", got["ping"])) => finished
  /\ (\E i \in 1 .. Len(log["pong"]) : IsFinal("pong", i)) => finished
  /\ finished_remote => finished

\* FINALIZATION sets SubCtx.finished, which nothing resets, before the publisher
\* sees its echo: the whole argument in one state predicate.
FinishInv ==
  /\ TypeOK
  /\ CursorOK
  /\ FinalIsLate
  /\ FinalIsLast
  /\ FinishedFirst
----------------------------------------------------------------------------
(* The inductive invariant behind LossExact, ReportsReconcile and           *)
(* SessionRefined: the two processes' books, through every step.            *)

CountSteps == {"count", "count_store"}

IsData(i) == log["ping"][i].kind \in {"DATA", "DATA_PING"}

\* the sequence numbers of the samples sent
SentSeqs ==
  {log["ping"][i].seq : i \in {j \in 1 .. Len(log["ping"]) : IsData(j)}}

\* samples leave in the order of their numbers, FINALIZATION with the last one
LogOrdered ==
  /\ \A i \in 1 .. Len(log["ping"]) :
       /\ IsData(i) => log["ping"][i].seq \in 1 .. seq
       /\ IsFinal("ping", i) => log["ping"][i].seq = pub_last_seq
  /\ \A i, j \in 1 .. Len(log["ping"]) :
       (i < j /\ IsData(i) /\ IsData(j)) => log["ping"][i].seq < log["ping"][j].seq

\* the publisher counts what it has sent, to a reader it keeps until the end
PubLedger ==
  /\ Early => seq = 0
  /\ pub_pc \in {"loop", "take"} => writer_matched["ping"]
  /\ pub_pc \in {"final", "done"} =>
       pub_last_seq = seq /\ pub_report.total_samples = total
  /\ total = Cardinality(SentSeqs)

\* a sample not yet accounted for has a number beyond those that are
CursorAhead ==
  /\ last_seq <= seq
  /\ \A i \in got["ping"] + 1 .. Len(log["ping"]) :
       IsData(i) => last_seq < log["ping"][i].seq
  /\ sub_cb \in DataSteps \ CountSteps => last_seq < Taken("ping").seq
  /\ sub_cb \in CountSteps => last_seq = Taken("ping").seq

\* each sample received was sent and is counted once
Counted ==
  /\ received \subseteq SentSeqs
  /\ \A r \in received : r <= last_seq
  /\ sub_cb \in CountSteps => last_seq \notin received
  /\ (received = {} /\ sub_cb \notin CountSteps) => last_seq = 0
  /\ total_received = Cardinality(received)
  /\ sub_cb = "count_store" => register = total_received + 1

\* with a KEEP_ALL reliable writer every sample taken has been or is being counted
NoneMissed ==
  (Reliable /\ KeepAll) =>
    \A i \in 1 .. got["ping"] :
      IsData(i) => \/ log["ping"][i].seq \in received
                   \/ i = got["ping"] /\ sub_cb \in DataSteps

\* k numbers are missing from the first one received up to n
LostUpTo(k, n) ==
  \/ received = {} /\ k = 0
  \/ \E f \in received : /\ \A r \in received : f <= r
                         /\ k + total_received = n + 1 - f

\* the number up to which lost_samples is exact
ExactTo ==
  IF sub_cb \in CountSteps \cup {"seq"} THEN Taken("ping").seq - 1 ELSE last_seq

\* lost_samples is exact throughout, or will be with the register's value
LossFollowed ==
  /\ IF finished \/ sub_cb = "fin_set"
     THEN \/ received = {} /\ lost_samples = pub_last_seq
          \/ received # {} /\ LostUpTo(lost_samples, pub_last_seq)
     ELSE LostUpTo(lost_samples, ExactTo)
  /\ sub_cb \in {"gap", "gap_store"} => received # {}
  /\ sub_cb = "gap_store" =>
       register = lost_samples + (Taken("ping").seq - last_seq - 1)
  /\ sub_cb = "fin_store" =>
       /\ last_seq < pub_last_seq
       /\ register = lost_samples + (pub_last_seq - last_seq)

\* a process leaves after its last word, the subscriber's being its report
Departures ==
  /\ up["sub"] \/ (sub_pc = "done" /\ sub_cb = "idle")
  /\ up["pub"] \/ pub_pc = "done"
  /\ sub_pc \in {"report", "done"} =>
       /\ finished
       /\ sub_report = [total_samples |-> total_received,
                        lost_samples |-> lost_samples]

\* total_received and lost_samples are exact, or about to be, at every step of
\* the callback, and never run ahead of what the publisher has sent.
AccountInv ==
  /\ FinishInv
  /\ LogOrdered
  /\ PubLedger
  /\ CursorAhead
  /\ Counted
  /\ NoneMissed
  /\ LossFollowed
  /\ Departures
----------------------------------------------------------------------------
(* The inductive invariant behind TakeAnswersPing and LatencyComplete: in   *)
(* strict reliable mode the two topics hold one sample at a time.           *)

Drained(t) == got[t] = Len(log[t])

\* the last sample sent on a topic is the ping of this iteration or its pong
LastIsPing(t) ==
  Len(log[t]) > 0 /\ log[t][Len(log[t])] = [kind |-> "DATA_PING", seq |-> seq]

\* nothing is on its way or being handled, and every ping is measured
NothingOut ==
  /\ Drained("ping") /\ Drained("pong")
  /\ sub_cb = "idle" /\ pub_cb = "idle"
  /\ latency_sem = 0
  /\ lat_count = total

\* this iteration's ping is queued, then handled (its echo may be refused), and
\* then its pong is queued
Awaited ==
  /\ pub_cb = "idle" /\ latency_sem = 0
  /\ lat_count + 1 = total
  /\ \/ got["ping"] + 1 = Len(log["ping"]) /\ Drained("pong") /\ sub_cb = "idle"
     \/ Drained("ping") /\ Drained("pong")
     \/ /\ Drained("ping") /\ got["pong"] + 1 = Len(log["pong"])
        /\ sub_cb = "idle" /\ LastIsPing("pong")

\* the pong's callback has counted it and gives, or has given, the semaphore
Answered ==
  /\ Drained("ping") /\ Drained("pong") /\ LastIsPing("pong")
  /\ sub_cb = "idle"
  /\ lat_count = total
  /\ latency_sem = IF pub_cb = "give" THEN 0 ELSE 1

\* the four positions of the publisher's main thread
OneSampleOut ==
  /\ Early => /\ latency_sem = 0 /\ pub_cb = "idle"
              /\ \A i \in 1 .. Len(log["pong"]) :
                   log["pong"][i].kind = "INITIALIZATION"
  /\ pub_pc = "loop" => NothingOut
  /\ pub_pc = "take" => LastIsPing("ping") /\ (Awaited \/ Answered)
  /\ pub_pc \in {"final", "done"} =>
       pub_report.latency_samples_received = pub_report.total_samples

\* In strict reliable mode a ping, its echo and its semaphore follow each other;
\* outside the wait nothing of them is left.
StrictInv ==
  /\ pub_pc = "take" => LatencyTest
  /\ (Reliable /\ LatencyTest) => OneSampleOut
=============================================================================
