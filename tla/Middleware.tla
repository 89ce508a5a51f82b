----------------------------- MODULE Middleware ----------------------------
(***************************************************************************)
(* middleware_micro.c in one process: what micro_init, create_writer,      *)
(* create_reader, write and shutdown leave behind when any of the calls    *)
(* they make may fail.  The engine that calls them is Lifecycle's.         *)
(***************************************************************************)
EXTENDS Build, Naturals, Sequences

CONSTANT Pool  \* samples a zero copy writer can lend

ASSUME PoolAssumption == Pool \in Nat \ {0}

VARIABLES
  build, transport,  \* fixed: the build, and the transport asked for
  dpse,              \* fixed: static discovery (DPSE), not dynamic (DPDE)
  participant,       \* "none", "live" or "deleted"
  udp_property,      \* the UDP property on the heap is nobody's: it was leaked
  writer,            \* "none"; "dds": a DataWriter only; "ready": MicroWriter too
  reader,            \* how far the DataReader is: see CreateReader
  reader_ctx,        \* the MicroReader the listener is called with
  writer_ctx,        \* a MicroWriter is on the heap
  name_copies,       \* the topic and type names duplicated for a DPSE assertion
  free, queued, lost,  \* zero copy samples: to lend, written, never given back
  loan               \* the writing thread's: "none", "held", "failed" (to discard)

configVars == <<build, transport, dpse>>
heapVars   == <<writer_ctx, name_copies>>
poolVars   == <<free, queued, lost, loan>>
mwVars == <<configVars, participant, udp_property, writer, reader, reader_ctx,
            heapVars, poolVars>>

NameCopies == {"subscription_names", "publication_names"}

MwTypeOK ==
  /\ participant \in {"none", "live", "deleted"}
  /\ udp_property \in BOOLEAN
  /\ writer \in {"none", "dds", "ready"}
  /\ reader \in {"none", "alloc", "listening", "asserted", "ready"}
  /\ reader_ctx \in {"none", "live", "freed"}
  /\ writer_ctx \in BOOLEAN /\ name_copies \subseteq NameCopies
  /\ free \in 0 .. Pool /\ queued \in 0 .. Pool /\ lost \in 0 .. Pool
  /\ loan \in {"none", "held", "failed"}

\* both engines are compiled in, so that one process may have either role
MwInit ==
  /\ build \in {b \in Builds : b.pub /\ b.sub}
  /\ transport \in Transport
  /\ dpse \in BOOLEAN
  /\ participant = "none" /\ udp_property = FALSE
  /\ writer = "none" /\ reader = "none" /\ reader_ctx = "none"
  /\ writer_ctx = FALSE /\ name_copies = {}
  /\ free = Pool /\ queued = 0 /\ lost = 0 /\ loan = "none"

----------------------------------------------------------------------------
(* init: the calls that may fail, in order. *)

UdpSteps      == <<"udp_property", "udp_if_table", "udp">>
ShmemSteps    == <<"shmem">>
ZeroCopySteps == <<"zcopy", "notif_mech", "notif_prop", "notif">>
DiscoverySteps == <<"discovery", "discovery_name">>
ShmemQos      == <<"shmem_transports", "shmem_locators">>
ZeroCopyQos   == <<"zcopy_transports", "zcopy_locators">>
EntitySteps   == (IF dpse THEN <<"remote_participant">> ELSE << >>)
                   \o <<"type", "topics", "groups">>

InitSteps ==
  LET Select(shmem, zcopy) ==
        CASE transport = "SHMEM"    -> shmem
          [] transport = "ZeroCopy" -> zcopy
          [] OTHER                  -> << >>
  IN  <<"transport", "wh", "rh">> \o UdpSteps
        \o Select(ShmemSteps, ZeroCopySteps) \o DiscoverySteps
        \o Select(ShmemQos, ZeroCopyQos) \o <<"participant">> \o EntitySteps

\* the steps before the n-th succeed and the n-th fails; none does if there is
\* no such step.  Nothing is undone: a participant that exists stays, and so
\* does the UDP property that could not be registered
MicroInit(n) ==
  LET failed  == IF n <= Len(InitSteps) THEN InitSteps[n] ELSE "nothing"
      reached == {InitSteps[i] : i \in 1 .. n - 1}
  IN  /\ failed = "transport" <=> ~TransportSupported(build, transport)
      /\ participant' = IF "participant" \in reached THEN "live" ELSE "none"
      /\ udp_property' = (failed \in {"udp_if_table", "udp"})
      /\ UNCHANGED <<configVars, writer, reader, reader_ctx, heapVars, poolVars>>

InitOK(n) == n > Len(InitSteps)

----------------------------------------------------------------------------
(* Endpoints.  Static discovery knows the peer's endpoints by the object    *)
(* ids each side gives to its own and asserts for the other's.              *)

LocalWriterId(topic)  == IF topic = "ping" THEN 101 ELSE 211

LocalReaderId(topic)  == IF topic = "ping" THEN 111 ELSE 201

\* mutant: the id of the reader is asserted for the writer
RemoteWriterIdOfReader(topic) == IF topic = "ping" THEN 111 ELSE 201

RemoteWriterId(topic) == IF topic = "ping" THEN 101 ELSE 211

RemoteReaderId(topic) == IF topic = "ping" THEN 111 ELSE 201

\* the peer, which runs the same code, is found by this reader and finds it
Discoverable(topic) ==
  dpse => /\ RemoteWriterId(topic) = LocalWriterId(topic)
          /\ RemoteReaderId(topic) = LocalReaderId(topic)

\* assert_remote_* duplicates two names and frees them on no path; a copy that
\* cannot be made fails the assertion, and the other one may exist
Duplicate(names) == name_copies' = name_copies \cup {names}

\* the DataWriter, the remote subscription (DPSE) or the MicroWriter may fail,
\* and what exists by then stays: NULL is returned with a DataWriter alive
MicroCreateWriter ==
  /\ writer' \in {"none", "dds", "ready"}
  /\ writer_ctx' = (writer' = "ready")
  /\ \/ dpse /\ writer' # "none" /\ Duplicate("subscription_names")
     \/ (dpse => writer' # "ready") /\ UNCHANGED name_copies
  /\ UNCHANGED <<configVars, participant, udp_property, reader, reader_ctx,
                 poolVars>>

readerUnchanged == UNCHANGED <<configVars, participant, udp_property, writer,
                               writer_ctx, poolVars>>

AllocReader ==
  /\ reader = "none" /\ reader_ctx = "none"
  /\ \/ reader' = "alloc" /\ reader_ctx' = "live"
     \/ UNCHANGED <<reader, reader_ctx>>
  /\ readerUnchanged /\ UNCHANGED name_copies

\* from here on the listener may be called
CreateDataReader ==
  /\ reader = "alloc"
  /\ \/ reader' = "listening" /\ UNCHANGED reader_ctx
     \/ reader' = "none" /\ reader_ctx' = "freed"
  /\ readerUnchanged /\ UNCHANGED name_copies

\* on failure the DataReader stays, with a listener whose data is freed
AssertPublication ==
  /\ dpse
  /\ reader = "listening" /\ reader_ctx = "live"
  /\ \/ /\ reader' = "asserted" /\ UNCHANGED reader_ctx
        /\ Duplicate("publication_names")
     \/ /\ reader' = "listening" /\ reader_ctx' = "freed"
        /\ Duplicate("publication_names") \/ UNCHANGED name_copies
  /\ readerUnchanged

\* r->base.take, the last assignment before the reader is returned
SetTake ==
  /\ reader = IF dpse THEN "asserted" ELSE "listening"
  /\ reader' = "ready"
  /\ UNCHANGED <<reader_ctx, name_copies>>
  /\ readerUnchanged

\* a static participant that has not been told of a writer matches none
Listening(topic) ==
  /\ participant = "live"
  /\ reader \in {"asserted", "ready"} \cup (IF dpse THEN {} ELSE {"listening"})
  /\ Discoverable(topic)

\* mutant: shutdown keeps the participant for the next run
MicroShutdownKeep ==
  /\ UNCHANGED participant
  /\ reader' = "none" /\ writer' = "none"
  /\ free' = Pool /\ queued' = 0 /\ lost' = 0 /\ loan' = "none"
  /\ UNCHANGED <<configVars, udp_property, reader_ctx, heapVars>>

\* the DDS entities go with the participant, the writer's samples with them;
\* the registry, the MicroReader, the MicroWriter and the copied names stay
MicroShutdown ==
  /\ participant' = IF participant = "live" THEN "deleted" ELSE participant
  /\ reader' = "none" /\ writer' = "none"
  /\ free' = Pool /\ queued' = 0 /\ lost' = 0 /\ loan' = "none"
  /\ UNCHANGED <<configVars, udp_property, reader_ctx, heapVars>>

----------------------------------------------------------------------------
(* write, for the thread that has the writer. *)

writeUnchanged == UNCHANGED <<configVars, participant, udp_property, writer,
                              reader, reader_ctx, heapVars>>

ZeroCopy == transport = "ZeroCopy"

\* one call that either works or does not; or no loan to be had
MicroWrite(ok) ==
  /\ loan = "none"
  /\ ZeroCopy => ~ok
  /\ writeUnchanged /\ UNCHANGED poolVars

\* mutant: an exhausted pool is not noticed
GetLoanUnchecked ==
  /\ ZeroCopy /\ loan = "none"
  /\ loan' = "held" /\ free' = free - 1
  /\ writeUnchanged /\ UNCHANGED <<queued, lost>>

GetLoan ==
  /\ ZeroCopy /\ loan = "none"
  /\ free > 0
  /\ loan' = "held" /\ free' = free - 1
  /\ writeUnchanged /\ UNCHANGED <<queued, lost>>

WriteLoan ==
  /\ loan = "held"
  /\ loan' = "none" /\ queued' = queued + 1
  /\ writeUnchanged /\ UNCHANGED <<free, lost>>

\* mutant: a failed write returns without the goto
WriteLoanFailsForgets ==
  /\ loan = "held"
  /\ loan' = "none"
  /\ writeUnchanged /\ UNCHANGED <<free, queued, lost>>

\* copy_for_write or write fails: goto discard_loan
WriteLoanFails ==
  /\ loan = "held"
  /\ loan' = "failed"
  /\ writeUnchanged /\ UNCHANGED <<free, queued, lost>>

\* discard_loan, which only logs its own failure
DiscardLoan ==
  /\ loan = "failed"
  /\ loan' = "none"
  /\ \/ free' = free + 1 /\ UNCHANGED lost
     \/ lost' = lost + 1 /\ UNCHANGED free
  /\ writeUnchanged /\ UNCHANGED queued

\* a written sample that its readers are done with can be lent again
Recycle ==
  /\ queued > 0
  /\ queued' = queued - 1 /\ free' = free + 1
  /\ writeUnchanged /\ UNCHANGED <<lost, loan>>
=============================================================================
