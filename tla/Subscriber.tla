----------------------------- MODULE Subscriber ----------------------------
(***************************************************************************)
(* The subscriber engine, perftest_lite_sub.c, from the moment its         *)
(* endpoints exist.  The main thread resets the statistics after the match *)
(* and reads them at the end; the listener callback updates them.  Nothing *)
(* orders the two threads, so every access to a shared field is a step of  *)
(* its own, and `field += x' is a load and a store.                        *)
(***************************************************************************)
EXTENDS Dds

VARIABLES
  sub_pc,          \* where the main thread is
  sub_cb,          \* where sub_on_sample is, "idle" outside the callback
  register,        \* the value sub_on_sample has loaded and not yet stored
  total_received,  \* SubCtx.total_received
  last_seq,        \* SubCtx.last_seq
  lost_samples,    \* SubCtx.lost_samples
  finished,        \* SubCtx.finished
  sub_report,      \* the PerftestLiteSizeResult
  received         \* history: the sequence numbers counted in total_received

subVars == <<sub_pc, sub_cb, register, total_received, last_seq, lost_samples,
             finished, sub_report, received>>

ResetSteps == {"reset_total", "reset_seq", "reset_lost", "reset_finished"}

SubTypeOK ==
  /\ sub_pc \in ResetSteps \cup {"await", "poll", "report", "done"}
  /\ sub_cb \in {"idle", "gap_check", "gap", "gap_store", "seq", "count",
                 "count_store", "fin_check", "fin_gap", "fin_store", "fin_set",
                 "echo"}
  /\ {register, total_received, last_seq, lost_samples} \subseteq Nat
  /\ finished \in BOOLEAN
  /\ sub_report \in [total_samples : Nat, lost_samples : Nat]
  /\ received \subseteq Nat

SubInit ==
  /\ sub_pc = "await" /\ sub_cb = "idle" /\ register = 0
  /\ total_received = 0 /\ last_seq = 0 /\ lost_samples = 0
  /\ finished = FALSE
  /\ sub_report = [total_samples |-> 0, lost_samples |-> 0]
  /\ received = {}

----------------------------------------------------------------------------
(* The main thread. *)

SubMatched ==
  /\ sub_pc = "await"
  /\ matched_pubs["sub"] >= 1
  /\ sub_pc' = "reset_total"
  /\ UNCHANGED <<sub_cb, register, total_received, last_seq, lost_samples,
                 finished, sub_report, received, ddsVars>>

ResetTotal ==
  /\ sub_pc = "reset_total"
  /\ sub_pc' = "reset_seq"
  /\ total_received' = 0
  /\ UNCHANGED <<sub_cb, register, last_seq, lost_samples, finished, sub_report,
                 received, ddsVars>>

ResetSeq ==
  /\ sub_pc = "reset_seq"
  /\ sub_pc' = "reset_lost"
  /\ last_seq' = 0
  /\ UNCHANGED <<sub_cb, register, total_received, lost_samples, finished,
                 sub_report, received, ddsVars>>

ResetLost ==
  /\ sub_pc = "reset_lost"
  /\ sub_pc' = "reset_finished"
  /\ lost_samples' = 0
  /\ UNCHANGED <<sub_cb, register, total_received, last_seq, finished,
                 sub_report, received, ddsVars>>

ResetFinished ==
  /\ sub_pc = "reset_finished"
  /\ sub_pc' = "poll"
  /\ finished' = FALSE
  /\ UNCHANGED <<sub_cb, register, total_received, last_seq, lost_samples,
                 sub_report, received, ddsVars>>

\* mutant: the poll loop ends with the match, not with the test
ReportUnmatched ==
  /\ sub_pc = "poll"
  /\ finished \/ matched_pubs["sub"] = 0
  /\ sub_pc' = "report"
  /\ sub_report' = [total_samples |-> total_received,
                    lost_samples |-> lost_samples]
  /\ UNCHANGED <<sub_cb, register, total_received, last_seq, lost_samples,
                 finished, received, ddsVars>>

\* while (!ctx.finished) sleep; then capture the result
Report ==
  /\ sub_pc = "poll"
  /\ finished
  /\ sub_pc' = "report"
  /\ sub_report' = [total_samples |-> total_received,
                    lost_samples |-> lost_samples]
  /\ UNCHANGED <<sub_cb, register, total_received, last_seq, lost_samples,
                 finished, received, ddsVars>>

\* a callback in flight ends with the participant, its echo unsent
SubShutdown ==
  /\ sub_pc = "report"
  /\ sub_pc' = "done"
  /\ sub_cb' = "idle"
  /\ DeleteParticipant("sub")
  /\ UNCHANGED <<register, total_received, last_seq, lost_samples, finished,
                 sub_report, received, log, got, writer_matched, matched_pubs>>

SubMain ==
  SubMatched \/ ResetTotal \/ ResetSeq \/ ResetLost \/ ResetFinished
    \/ Report \/ SubShutdown

----------------------------------------------------------------------------
(* The ping callback, sub_on_sample, on the sample the reader took last. *)

\* mutant: warm-up samples are counted as data
FirstStepCountInit(kind) ==
  IF kind = "FINALIZATION" THEN "fin_check" ELSE "gap_check"

\* mutant: FINALIZATION is echoed and otherwise ignored
FirstStepEchoFinal(kind) ==
  IF kind \in {"FINALIZATION", "INITIALIZATION"} THEN "echo" ELSE "gap_check"

FirstStep(kind) ==
  CASE kind = "FINALIZATION"   -> "fin_check"
    [] kind = "INITIALIZATION" -> "echo"
    [] OTHER                   -> "gap_check"

OnSample ==
  /\ sub_cb = "idle"
  /\ \E i \in Pending("ping") :
       /\ Take("ping", i)
       /\ sub_cb' = FirstStep(log["ping"][i].kind)
  /\ UNCHANGED <<sub_pc, register, total_received, last_seq, lost_samples,
                 finished, sub_report, received,
                 log, writer_matched, matched_pubs, up>>

\* mutant: what was sent before the first sample received is lost too
CheckFirstAlways ==
  /\ sub_cb = "gap_check"
  /\ sub_cb' = "gap"
  /\ UNCHANGED <<sub_pc, register, total_received, last_seq, lost_samples,
                 finished, sub_report, received, ddsVars>>

\* c->last_seq != 0
CheckFirst ==
  /\ sub_cb = "gap_check"
  /\ sub_cb' = IF last_seq # 0 THEN "gap" ELSE "seq"
  /\ UNCHANGED <<sub_pc, register, total_received, last_seq, lost_samples,
                 finished, sub_report, received, ddsVars>>

\* seq > c->last_seq + 1: the samples in between were lost
CheckGap ==
  /\ sub_cb = "gap"
  /\ IF Taken("ping").seq > last_seq + 1
     THEN /\ register' = lost_samples + (Taken("ping").seq - last_seq - 1)
          /\ sub_cb' = "gap_store"
     ELSE /\ sub_cb' = "seq"
          /\ UNCHANGED register
  /\ UNCHANGED <<sub_pc, total_received, last_seq, lost_samples, finished,
                 sub_report, received, ddsVars>>

StoreGap ==
  /\ sub_cb = "gap_store"
  /\ lost_samples' = register
  /\ sub_cb' = "seq"
  /\ UNCHANGED <<sub_pc, register, total_received, last_seq, finished,
                 sub_report, received, ddsVars>>

StoreSeq ==
  /\ sub_cb = "seq"
  /\ last_seq' = Taken("ping").seq
  /\ sub_cb' = "count"
  /\ UNCHANGED <<sub_pc, register, total_received, lost_samples, finished,
                 sub_report, received, ddsVars>>

LoadTotal ==
  /\ sub_cb = "count"
  /\ register' = total_received + 1
  /\ sub_cb' = "count_store"
  /\ UNCHANGED <<sub_pc, total_received, last_seq, lost_samples, finished,
                 sub_report, received, ddsVars>>

StoreTotal ==
  /\ sub_cb = "count_store"
  /\ total_received' = register
  /\ received' = received \cup {Taken("ping").seq}
  /\ sub_cb' = IF Taken("ping").kind = "DATA_PING" THEN "echo" ELSE "idle"
  /\ UNCHANGED <<sub_pc, register, last_seq, lost_samples, finished, sub_report,
                 ddsVars>>

\* mutant: every FINALIZATION sample counts the trailing loss
CheckFinishedNever ==
  /\ sub_cb = "fin_check"
  /\ sub_cb' = "fin_gap"
  /\ UNCHANGED <<sub_pc, register, total_received, last_seq, lost_samples,
                 finished, sub_report, received, ddsVars>>

CheckFinished ==
  /\ sub_cb = "fin_check"
  /\ sub_cb' = IF finished THEN "echo" ELSE "fin_gap"
  /\ UNCHANGED <<sub_pc, register, total_received, last_seq, lost_samples,
                 finished, sub_report, received, ddsVars>>

\* trailing loss: FINALIZATION carries the last sequence number sent
CheckTrailing ==
  /\ sub_cb = "fin_gap"
  /\ IF Taken("ping").seq > last_seq
     THEN /\ register' = lost_samples + (Taken("ping").seq - last_seq)
          /\ sub_cb' = "fin_store"
     ELSE /\ sub_cb' = "fin_set"
          /\ UNCHANGED register
  /\ UNCHANGED <<sub_pc, total_received, last_seq, lost_samples, finished,
                 sub_report, received, ddsVars>>

StoreTrailing ==
  /\ sub_cb = "fin_store"
  /\ lost_samples' = register
  /\ sub_cb' = "fin_set"
  /\ UNCHANGED <<sub_pc, register, total_received, last_seq, finished,
                 sub_report, received, ddsVars>>

SetFinished ==
  /\ sub_cb = "fin_set"
  /\ finished' = TRUE
  /\ sub_cb' = "echo"
  /\ UNCHANGED <<sub_pc, register, total_received, last_seq, lost_samples,
                 sub_report, received, ddsVars>>

\* pong_w->write: its result is ignored
Echo ==
  /\ sub_cb = "echo"
  /\ Accept("pong", Taken("ping")) \/ Refuse("pong")
  /\ sub_cb' = "idle"
  /\ UNCHANGED <<sub_pc, register, total_received, last_seq, lost_samples,
                 finished, sub_report, received,
                 got, writer_matched, matched_pubs, up>>

SubCallback ==
  OnSample \/ CheckFirst \/ CheckGap \/ StoreGap \/ StoreSeq \/ LoadTotal
    \/ StoreTotal \/ CheckFinished \/ CheckTrailing \/ StoreTrailing
    \/ SetFinished \/ Echo
=============================================================================
