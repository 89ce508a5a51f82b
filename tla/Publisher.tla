----------------------------- MODULE Publisher -----------------------------
(***************************************************************************)
(* The publisher engine, perftest_lite_pub.c, from the moment its          *)
(* endpoints exist: the main thread (perftest_lite_publisher, run_one_size)*)
(* and the listener callback for pongs (pub_on_pong_sample).               *)
(***************************************************************************)
EXTENDS Dds

CONSTANTS
  LatencyTest,    \* -latencyTest: every sample is a ping, wait for its pong
  LatencyCount,   \* -latencyCount: otherwise every n-th sample is a ping
  InitBurst,      \* PERFTEST_LITE_INIT_BURST
  FinalAttempts,  \* at most this many FINALIZATION samples (10 in the code)
  MaxSeq          \* bound of the model: samples a run can send before its time ends

ASSUME PublisherAssumption ==
  /\ LatencyTest \in BOOLEAN
  /\ {LatencyCount, InitBurst, FinalAttempts, MaxSeq} \subseteq Nat

VARIABLES
  pub_pc,           \* where the main thread is
  burst,            \* warm-up samples written
  seq, total,       \* locals of run_one_size
  latency_sem,      \* the binary semaphore: 0 or 1
  lat_count,        \* PubCtx.lat_count
  finished_remote,  \* PubCtx.finished_remote
  pub_last_seq,     \* PubCtx.last_seq
  attempts,         \* FINALIZATION samples written
  pub_cb,           \* where the pong callback is
  pub_report        \* the PerftestLiteSizeResult

pubVars == <<pub_pc, burst, seq, total, latency_sem, lat_count, finished_remote,
             pub_last_seq, attempts, pub_cb, pub_report>>

PubTypeOK ==
  /\ pub_pc \in {"await", "warmup", "loop", "take", "final", "done"}
  /\ {burst, seq, total, lat_count, pub_last_seq, attempts} \subseteq Nat
  /\ latency_sem \in {0, 1}
  /\ finished_remote \in BOOLEAN
  /\ pub_cb \in {"idle", "give"}
  /\ pub_report \in [total_samples : Nat, latency_samples_received : Nat]

PubInit ==
  /\ pub_pc = "await"
  /\ burst = 0 /\ seq = 0 /\ total = 0
  /\ latency_sem = 0 /\ lat_count = 0
  /\ finished_remote = FALSE
  /\ pub_last_seq = 0 /\ attempts = 0
  /\ pub_cb = "idle"
  /\ pub_report = [total_samples |-> 0, latency_samples_received |-> 0]

----------------------------------------------------------------------------
(* The main thread. *)

\* while (ctx.matched_pubs < 1) sleep: only the pong reader's match counts
Matched ==
  /\ pub_pc = "await"
  /\ matched_pubs["pub"] >= 1
  /\ pub_pc' = "warmup"
  /\ UNCHANGED <<burst, seq, total, latency_sem, lat_count, finished_remote,
                 pub_last_seq, attempts, pub_cb, pub_report, ddsVars>>

InitSample == [kind |-> "INITIALIZATION", seq |-> 0]

\* one write of the warm-up burst; its result is ignored
WarmUp ==
  /\ pub_pc = "warmup"
  /\ burst < InitBurst
  /\ Accept("ping", InitSample) \/ Refuse("ping")
  /\ burst' = burst + 1
  /\ UNCHANGED <<pub_pc, seq, total, latency_sem, lat_count, finished_remote,
                 pub_last_seq, attempts, pub_cb, pub_report,
                 got, writer_matched, matched_pubs, up>>

\* the end of the one-second settle sleep, and the reset of the statistics
StartTest ==
  /\ pub_pc = "warmup"
  /\ burst = InitBurst
  /\ pub_pc' = "loop"
  /\ lat_count' = 0 /\ total' = 0 /\ seq' = 0
  /\ UNCHANGED <<burst, latency_sem, finished_remote, pub_last_seq, attempts,
                 pub_cb, pub_report, ddsVars>>

IsPing(s) == LatencyTest \/ (LatencyCount > 0 /\ s % LatencyCount = 0)

DataSample(s) ==
  [kind |-> IF IsPing(s) THEN "DATA_PING" ELSE "DATA", seq |-> s]

\* one iteration of the send loop up to the semaphore: the sequence number is
\* used up whether or not the write succeeds
Send ==
  /\ pub_pc = "loop"
  /\ seq < MaxSeq
  /\ seq' = seq + 1
  /\ \/ /\ Accept("ping", DataSample(seq'))
        /\ total' = total + 1
        /\ pub_pc' = IF IsPing(seq') /\ LatencyTest THEN "take" ELSE "loop"
     \/ /\ Refuse("ping")
        /\ UNCHANGED <<total, pub_pc>>
  /\ UNCHANGED <<burst, latency_sem, lat_count, finished_remote, pub_last_seq,
                 attempts, pub_cb, pub_report,
                 got, writer_matched, matched_pubs, up>>

TakeSemaphore ==
  /\ pub_pc = "take"
  /\ latency_sem = 1
  /\ latency_sem' = 0
  /\ pub_pc' = "loop"
  /\ UNCHANGED <<burst, seq, total, lat_count, finished_remote, pub_last_seq,
                 attempts, pub_cb, pub_report, ddsVars>>

\* after 200 ms, unless the test is reliable
TakeTimeout ==
  /\ pub_pc = "take"
  /\ ~Reliable
  /\ latency_sem = 0
  /\ pub_pc' = "loop"
  /\ UNCHANGED <<burst, seq, total, latency_sem, lat_count, finished_remote,
                 pub_last_seq, attempts, pub_cb, pub_report, ddsVars>>

\* the execution time is over: fill in the result
EndTest ==
  /\ pub_pc = "loop"
  /\ pub_pc' = "final"
  /\ pub_last_seq' = seq
  /\ pub_report' = [total_samples |-> total,
                    latency_samples_received |-> lat_count]
  /\ UNCHANGED <<burst, seq, total, latency_sem, lat_count, finished_remote,
                 attempts, pub_cb, ddsVars>>

\* mutant: the FINALIZATION sample leaves without the last sequence number
FinalSampleUnstamped == [kind |-> "FINALIZATION", seq |-> 0]

FinalSample == [kind |-> "FINALIZATION", seq |-> pub_last_seq]

Finalize ==
  /\ pub_pc = "final"
  /\ attempts < FinalAttempts
  /\ ~finished_remote
  /\ Accept("ping", FinalSample) \/ Refuse("ping")
  /\ attempts' = attempts + 1
  /\ UNCHANGED <<pub_pc, burst, seq, total, latency_sem, lat_count,
                 finished_remote, pub_last_seq, pub_cb, pub_report,
                 got, writer_matched, matched_pubs, up>>

\* mutant: no limit on the FINALIZATION samples, the echo must come
PubShutdownOnEcho ==
  /\ pub_pc = "final"
  /\ finished_remote
  /\ pub_pc' = "done"
  /\ pub_cb' = "idle"
  /\ DeleteParticipant("pub")
  /\ UNCHANGED <<burst, seq, total, latency_sem, lat_count, finished_remote,
                 pub_last_seq, attempts, pub_report,
                 log, got, writer_matched, matched_pubs>>

\* a callback in flight ends with the participant
PubShutdown ==
  /\ pub_pc = "final"
  /\ attempts = FinalAttempts \/ finished_remote
  /\ pub_pc' = "done"
  /\ pub_cb' = "idle"
  /\ DeleteParticipant("pub")
  /\ UNCHANGED <<burst, seq, total, latency_sem, lat_count, finished_remote,
                 pub_last_seq, attempts, pub_report,
                 log, got, writer_matched, matched_pubs>>

PubMain ==
  Matched \/ WarmUp \/ StartTest \/ Send \/ TakeSemaphore \/ TakeTimeout
    \/ EndTest \/ Finalize \/ PubShutdown

----------------------------------------------------------------------------
(* The pong callback. *)

\* mutant: INITIALIZATION echoes are latency samples too
HandlePongKeepInit(kind) ==
  /\ finished_remote' = (finished_remote \/ kind = "FINALIZATION")
  /\ IF kind = "FINALIZATION"
     THEN UNCHANGED <<lat_count, pub_cb>>
     ELSE lat_count' = lat_count + 1 /\ pub_cb' = "give"

\* mutant: every pong that is not a latency sample ends the retries
HandlePongAnyFinal(kind) ==
  /\ finished_remote' = (finished_remote \/ kind # "DATA_PING")
  /\ IF kind # "DATA_PING"
     THEN UNCHANGED <<lat_count, pub_cb>>
     ELSE lat_count' = lat_count + 1 /\ pub_cb' = "give"

\* mutant: a latency sample does not wake the sender
HandlePongNoWake(kind) ==
  /\ finished_remote' = (finished_remote \/ kind = "FINALIZATION")
  /\ lat_count' = IF kind = "DATA_PING" THEN lat_count + 1 ELSE lat_count
  /\ UNCHANGED pub_cb

\* INITIALIZATION echoes are dropped, a FINALIZATION echo ends the retries, and
\* any other pong is a latency sample that wakes the sender
HandlePong(kind) ==
  /\ finished_remote' = (finished_remote \/ kind = "FINALIZATION")
  /\ IF kind \in {"INITIALIZATION", "FINALIZATION"}
     THEN UNCHANGED <<lat_count, pub_cb>>
     ELSE lat_count' = lat_count + 1 /\ pub_cb' = "give"

\* pub_on_pong_sample up to semaphore_give
OnPong ==
  /\ pub_cb = "idle"
  /\ \E i \in Pending("pong") :
       Take("pong", i) /\ HandlePong(log["pong"][i].kind)
  /\ UNCHANGED <<pub_pc, burst, seq, total, latency_sem, pub_last_seq, attempts,
                 pub_report, log, writer_matched, matched_pubs, up>>

\* mutant: a counting semaphore
GiveSemaphoreCounting ==
  /\ pub_cb = "give"
  /\ latency_sem' = latency_sem + 1
  /\ pub_cb' = "idle"
  /\ UNCHANGED <<pub_pc, burst, seq, total, lat_count, finished_remote,
                 pub_last_seq, attempts, pub_report, ddsVars>>

\* semaphore_give: a binary semaphore does not count
GiveSemaphore ==
  /\ pub_cb = "give"
  /\ latency_sem' = 1
  /\ pub_cb' = "idle"
  /\ UNCHANGED <<pub_pc, burst, seq, total, lat_count, finished_remote,
                 pub_last_seq, attempts, pub_report, ddsVars>>

PubCallback == OnPong \/ GiveSemaphore
=============================================================================
