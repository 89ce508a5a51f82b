-------------------------------- MODULE Dds --------------------------------
(***************************************************************************)
(* The transport as the two engines see it through middleware_micro.c: a   *)
(* "ping" topic from the publisher to the subscriber and a "pong" topic    *)
(* back.  The code of this repository decides the QoS (create_writer), the *)
(* result of write and the order in which a callback sees what take        *)
(* returned; discovery and delivery belong to RTI Connext Micro and are    *)
(* modelled by what the engines rely on:                                   *)
(*                                                                         *)
(*   - volatile durability: a sample written before the writer has matched *)
(*     the reader is sent to nobody;                                       *)
(*   - the writer and the reader of a topic discover each other            *)
(*     independently, and so do the two topics;                            *)
(*   - a reader never sees a topic's samples twice or out of order; what a *)
(*     best-effort reader does not see is lost.                            *)
(*                                                                         *)
(* A topic is the log of all samples ever sent on it plus the index of the *)
(* last one its reader has taken.                                          *)
(***************************************************************************)
EXTENDS Integers, Sequences

CONSTANTS
  Reliable,      \* -reliable was given to both processes
  KeepAll,       \* a reliable writer keeps all samples: not the zero copy build
  MaxSamples,    \* PERFTEST_LITE_DW_MAX_SAMPLES_*
  Depth,         \* PERFTEST_LITE_DW_HISTORY_DEPTH_*
  WriteMayFail   \* write may fail although the writer's queue has room

\* the #if directives of perftest_lite_config.h
DepthInRange == Depth \in 1 .. MaxSamples

ASSUME DdsAssumption ==
  /\ {Reliable, KeepAll, WriteMayFail} \subseteq BOOLEAN
  /\ MaxSamples \in Nat \ {0}
  /\ DepthInRange

VARIABLES
  log,             \* per topic, the samples sent to the matched reader
  got,             \* per topic, the index of the last sample taken
  writer_matched,  \* per topic, the writer has discovered the reader
  matched_pubs,    \* per process, PubCtx.matched_pubs and SubCtx.matched_pubs
  up               \* per process, its participant exists

ddsVars == <<log, got, writer_matched, matched_pubs, up>>

Topic   == {"ping", "pong"}
Process == {"pub", "sub"}

WriterOf(t) == IF t = "ping" THEN "pub" ELSE "sub"
ReaderOf(t) == IF t = "ping" THEN "sub" ELSE "pub"

Kind   == {"INITIALIZATION", "DATA", "DATA_PING", "FINALIZATION"}
Sample == [kind : Kind, seq : Nat]

DdsTypeOK ==
  /\ log \in [Topic -> Seq(Sample)]
  /\ got \in [Topic -> Nat]
  /\ writer_matched \in [Topic -> BOOLEAN]
  /\ matched_pubs \in [Process -> Nat]
  /\ up \in [Process -> BOOLEAN]

DdsInit ==
  /\ log = [t \in Topic |-> << >>]
  /\ got = [t \in Topic |-> 0]
  /\ writer_matched = [t \in Topic |-> FALSE]
  /\ matched_pubs = [p \in Process |-> 0]
  /\ up = [p \in Process |-> TRUE]

----------------------------------------------------------------------------
(* Discovery. *)

BothUp == up["pub"] /\ up["sub"]

WriterMatch(t) ==
  /\ BothUp
  /\ ~writer_matched[t]
  /\ writer_matched' = [writer_matched EXCEPT ![t] = TRUE]
  /\ UNCHANGED <<log, got, matched_pubs, up>>

\* on_subscription_matched(change = 1) in the process that owns the reader
ReaderMatch(t) ==
  /\ BothUp
  /\ matched_pubs[ReaderOf(t)] = 0
  /\ matched_pubs' = [matched_pubs EXCEPT ![ReaderOf(t)] = @ + 1]
  /\ UNCHANGED <<log, got, writer_matched, up>>

\* the peer's participant is gone: both its endpoints are
WriterUnmatch(t) ==
  /\ writer_matched[t]
  /\ ~up[ReaderOf(t)]
  /\ writer_matched' = [writer_matched EXCEPT ![t] = FALSE]
  /\ UNCHANGED <<log, got, matched_pubs, up>>

\* on_subscription_matched(change = -1)
ReaderUnmatch(t) ==
  /\ matched_pubs[ReaderOf(t)] > 0
  /\ ~up[WriterOf(t)]
  /\ matched_pubs' = [matched_pubs EXCEPT ![ReaderOf(t)] = @ - 1]
  /\ UNCHANGED <<log, got, writer_matched, up>>

Discovery ==
  \E t \in Topic : WriterMatch(t) \/ ReaderMatch(t)
                     \/ WriterUnmatch(t) \/ ReaderUnmatch(t)

----------------------------------------------------------------------------
(* write(): a sample is accepted, and sent if the writer has matched, or   *)
(* refused with an error.                                                  *)

\* a KEEP_ALL writer holds every sample its reader has not taken
Full(t) ==
  /\ Reliable /\ KeepAll
  /\ writer_matched[t]
  /\ Len(log[t]) - got[t] >= MaxSamples

Accept(t, sample) ==
  /\ ~Full(t)
  /\ log' = IF writer_matched[t]
            THEN [log EXCEPT ![t] = Append(@, sample)]
            ELSE log

Refuse(t) ==
  /\ Full(t) \/ WriteMayFail
  /\ log' = log

(* take(): the next sample the listener sees.  A best-effort reader may    *)
(* miss any sample; a reliable one only those a KEEP_LAST writer has       *)
(* overwritten.                                                            *)

MayMiss(t, j) == ~Reliable \/ (~KeepAll /\ j + Depth <= Len(log[t]))

Take(t, i) ==
  /\ up[ReaderOf(t)]
  /\ matched_pubs[ReaderOf(t)] > 0
  /\ \A j \in got[t] + 1 .. i - 1 : MayMiss(t, j)
  /\ got' = [got EXCEPT ![t] = i]

Pending(t) == got[t] + 1 .. Len(log[t])

\* the sample the reader's listener took last: the one its callback handles
Taken(t) == log[t][got[t]]

\* mw->shutdown(): the participant and all its endpoints are deleted
DeleteParticipant(p) == up' = [up EXCEPT ![p] = FALSE]
=============================================================================
