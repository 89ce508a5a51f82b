-------------------------- MODULE Lifecycle_proofs -------------------------
(***************************************************************************)
(* Theorems about an engine's way in and its ways out, for every build,    *)
(* transport and zero copy pool, and for every call that may fail.         *)
(***************************************************************************)
EXTENDS Lifecycle, SequenceTheorems, TLAPS

\* the calls of micro_init
Step ==
  {"transport", "wh", "rh", "udp_property", "udp_if_table", "udp", "shmem",
   "zcopy", "notif_mech", "notif_prop", "notif", "discovery", "discovery_name",
   "shmem_transports", "shmem_locators", "zcopy_transports", "zcopy_locators",
   "participant", "remote_participant", "type", "topics", "groups"}

\* what MicroInit may have come to: nothing but the participant and the UDP
\* property is touched, and a complete initialisation has a participant
LEMMA InitEffect ==
  ASSUME NEW n \in 1 .. Len(InitSteps) + 1, MicroInit(n)
  PROVE  /\ participant' \in {"none", "live"}
         /\ udp_property' \in BOOLEAN
         /\ InitOK(n) => participant' = "live" /\ ~udp_property'
         /\ UNCHANGED <<configVars, writer, reader, reader_ctx, heapVars, poolVars>>
<1>. DEFINE Sel(shmem, zcopy) ==
              CASE transport = "SHMEM"    -> shmem
                [] transport = "ZeroCopy" -> zcopy
                [] OTHER                  -> << >>
            Before == <<"transport", "wh", "rh">> \o UdpSteps
                        \o Sel(ShmemSteps, ZeroCopySteps) \o DiscoverySteps
                        \o Sel(ShmemQos, ZeroCopyQos)
            Until == Before \o <<"participant">>
<1>1. Before \in Seq(Step) /\ EntitySteps \in Seq(Step)
  <2>. USE EmptySeq DEF Step
  <2>1. /\ ShmemSteps \in Seq(Step) /\ ShmemQos \in Seq(Step)
        /\ ZeroCopySteps \in Seq(Step) /\ ZeroCopyQos \in Seq(Step)
    BY DEF ShmemSteps, ZeroCopySteps, ShmemQos, ZeroCopyQos
  <2>2. /\ <<"transport", "wh", "rh">> \in Seq(Step)
        /\ UdpSteps \in Seq(Step) /\ DiscoverySteps \in Seq(Step)
    BY DEF UdpSteps, DiscoverySteps
  <2>3. EntitySteps \in Seq(Step)
    <3>1. /\ <<"remote_participant">> \in Seq(Step)
          /\ <<"type", "topics", "groups">> \in Seq(Step)
      OBVIOUS
    <3>2. << >> \in Seq(Step)
      OBVIOUS
    <3>3. CASE dpse
      BY <3>1, <3>3 DEF EntitySteps
    <3>4. CASE ~dpse
      BY <3>1, <3>2, <3>4 DEF EntitySteps
    <3>. QED  BY <3>3, <3>4
  <2>4. Sel(ShmemSteps, ZeroCopySteps) \in Seq(Step)
        /\ Sel(ShmemQos, ZeroCopyQos) \in Seq(Step)
    BY <2>1
  <2>. HIDE DEF Sel
  <2>. QED  BY <2>2, <2>3, <2>4
<1>2. InitSteps = Until \o EntitySteps
  BY DEF InitSteps
<1>3. \E k \in 1 .. Len(InitSteps) : InitSteps[k] = "participant"
  <2>. HIDE DEF Before
  <2>1. /\ Until \in Seq(Step)
        /\ Len(Until) = Len(Before) + 1
        /\ Until[Len(Before) + 1] = "participant"
        /\ Len(Before) \in Nat
    <3>1. <<"participant">> \in Seq(Step) /\ Len(<<"participant">>) = 1
          /\ <<"participant">>[1] = "participant"
      BY DEF Step
    <3>2. Len(Before) \in Nat
      BY <1>1, LenProperties
    <3>. QED  BY <1>1, <3>1, <3>2, ConcatProperties
  <2>. HIDE DEF Until
  <2>2. /\ Len(InitSteps) = Len(Until) + Len(EntitySteps)
        /\ InitSteps[Len(Before) + 1] = "participant"
        /\ Len(EntitySteps) \in Nat
    <3>1. Len(EntitySteps) \in Nat /\ Len(Until) \in Nat
      BY <1>1, <2>1, LenProperties
    <3>2. /\ Len(Until \o EntitySteps) = Len(Until) + Len(EntitySteps)
          /\ \A i \in 1 .. Len(Until) + Len(EntitySteps) :
               (Until \o EntitySteps)[i] =
                 IF i <= Len(Until) THEN Until[i] ELSE EntitySteps[i - Len(Until)]
      BY <1>1, <2>1, ConcatProperties
    <3>. QED  BY <1>2, <2>1, <3>1, <3>2
  <2>. QED  BY <2>1, <2>2
<1>4. Len(InitSteps) \in Nat
  <2>. HIDE DEF Before
  <2>. QED  BY <1>1, <1>2, LenProperties
<1>. HIDE DEF Until, Before
<1>5. /\ participant' \in {"none", "live"} /\ udp_property' \in BOOLEAN
      /\ UNCHANGED <<configVars, writer, reader, reader_ctx, heapVars, poolVars>>
  BY DEF MicroInit
<1>6. CASE InitOK(n)
  <2>1. n = Len(InitSteps) + 1
    BY <1>4, <1>6 DEF InitOK
  <2>2. "participant" \in {InitSteps[i] : i \in 1 .. n - 1}
    BY <1>3, <1>4, <2>1
  <2>3. participant' = "live"
    BY <2>2 DEF MicroInit
  <2>4. ~udp_property'
    <3>1. ~ (n <= Len(InitSteps))
      BY <1>4, <2>1
    <3>. QED  BY <3>1 DEF MicroInit
  <2>. QED  BY <1>5, <2>3, <2>4
<1>. QED  BY <1>5, <1>6

\* What an engine may leave behind is fixed with the discovery it is built for.
LEMMA LeaksFixed ==
  ASSUME UNCHANGED dpse
  PROVE  Leaks' = Leaks
BY DEF Leaks, AdapterLeaks

\* Nothing exists when the engine is called.
LEMMA LifecycleStarts == Init => LifecycleInv
<1>. SUFFICES ASSUME Init PROVE LifecycleInv
  OBVIOUS
<1>1. TypeOK
  <2>1. MwTypeOK
    <3>1. udp_property \in BOOLEAN /\ writer_ctx \in BOOLEAN
      BY DEF Init, MwInit
    <3>. QED  BY <3>1, PoolAssumption DEF Init, MwInit, MwTypeOK
  <2>2. todo \in Seq(Resource \cup {"participant"})
    BY EmptySeq DEF Init
  <2>. QED  BY <2>1, <2>2 DEF Init, TypeOK
<1>2. LoansAccounted
  BY PoolAssumption DEF Init, MwInit, LoansAccounted
<1>3. PlaceOK
  BY DEF Init, MwInit, PlaceOK, Resource
<1>4. CleanupOK
  BY DEF Init, CleanupOK
<1>5. CallbackOK
  BY DEF Init, MwInit, CallbackOK, Used, Resource
<1>6. AdapterOK
  BY DEF Init, MwInit, AdapterOK
<1>. QED  BY <1>1, <1>2, <1>3, <1>4, <1>5, <1>6 DEF LifecycleInv

----------------------------------------------------------------------------
(* The main thread on its way in. *)

\* whatever init leaves behind, no listener exists
LEMMA InitKeeps ==
  ASSUME LifecycleInv, InitMiddleware
  PROVE  LifecycleInv'
<1>. PICK n \in 1 .. Len(InitSteps) + 1 :
       /\ MicroInit(n)
       /\ IF InitOK(n) THEN Goto("writer") ELSE Exit("MIDDLEWARE", << >>)
  BY DEF InitMiddleware
<1>1. /\ participant' \in {"none", "live"} /\ udp_property' \in BOOLEAN
      /\ InitOK(n) => participant' = "live" /\ ~udp_property'
      /\ UNCHANGED <<configVars, writer, reader, reader_ctx, heapVars, poolVars>>
  BY InitEffect
<1>2. /\ pc = "init" /\ UNCHANGED <<role, matched, pinged, cb, res>>
      /\ \/ /\ InitOK(n) /\ pc' = "writer" /\ UNCHANGED <<rc, todo>>
         \/ pc' = "cleanup" /\ rc' = "MIDDLEWARE" /\ todo' = << >>
  BY DEF InitMiddleware, Goto, Exit
<1>. USE <1>1, <1>2 DEF LifecycleInv, configVars, heapVars, poolVars
<1>3. TypeOK'
  <2>1. MwTypeOK'
    BY DEF TypeOK, MwTypeOK
  <2>2. todo' \in Seq(Resource \cup {"participant"})
    BY EmptySeq DEF TypeOK
  <2>. QED  BY <2>1, <2>2 DEF TypeOK
<1>4. LoansAccounted'
  BY DEF LoansAccounted
<1>5. PlaceOK'
  BY DEF PlaceOK, Since, EndpointsReady, Resource
<1>6. CleanupOK'
  BY DEF CleanupOK, PlaceOK, Since, Resource
<1>7. CallbackOK'
  BY DEF CallbackOK, PlaceOK, Since, EndpointsReady, Used, Resource
<1>8. AdapterOK'
  BY DEF AdapterOK, PlaceOK
<1>. QED  BY <1>3, <1>4, <1>5, <1>6, <1>7, <1>8

\* the endpoints are made before anything that could need them
LEMMA EndpointsKeep ==
  ASSUME LifecycleInv, CreateWriter \/ CreateReader
  PROVE  LifecycleInv'
<1>. USE DEF LifecycleInv, configVars, heapVars, poolVars
<1>1. /\ UNCHANGED <<role, rc, todo, matched, pinged, cb, res>>
      /\ UNCHANGED <<build, transport, dpse, participant, udp_property,
                     free, queued, lost, loan>>
      /\ \/ pc = "writer" /\ pc' = "reader" /\ UNCHANGED <<reader, reader_ctx>>
         \/ pc = "reader" /\ pc' \in {"reader", "check"} /\ UNCHANGED writer
  BY DEF CreateWriter, CreateReader, MicroCreateWriter, Goto, AllocReader,
         CreateDataReader, AssertPublication, SetTake, readerUnchanged
<1>2. /\ writer' \in {"none", "dds", "ready"}
      /\ reader' \in {"none", "alloc", "listening", "asserted", "ready"}
      /\ reader_ctx' \in {"none", "live", "freed"}
      /\ writer_ctx' \in BOOLEAN /\ name_copies' \subseteq NameCopies
      /\ CallbackOK => ~ (cb # "idle" /\ dpse /\ reader = "listening")
  BY DEF CreateWriter, CreateReader, MicroCreateWriter, AllocReader,
         CreateDataReader, AssertPublication, SetTake, readerUnchanged,
         Duplicate, NameCopies, TypeOK, MwTypeOK, CallbackOK
<1>3. TypeOK'
  BY <1>1, <1>2 DEF TypeOK, MwTypeOK
<1>4. LoansAccounted'
  BY <1>1 DEF LoansAccounted
<1>5. PlaceOK'
  BY <1>1 DEF PlaceOK, Since, EndpointsReady, Resource
<1>6. CleanupOK'
  BY <1>1 DEF CleanupOK
<1>7. CallbackOK'
  <2>1. CASE CreateWriter
    BY <1>1, <2>1 DEF CallbackOK, PlaceOK, EndpointsReady, CreateWriter,
                      MicroCreateWriter, Goto
  <2>2. CASE CreateReader
    BY <1>1, <1>2, <2>2
       DEF CallbackOK, PlaceOK, EndpointsReady, CreateReader, AllocReader,
           CreateDataReader, AssertPublication, SetTake, readerUnchanged
  <2>. QED  BY <2>1, <2>2
<1>8. AdapterOK'
  <2>1. CASE CreateWriter
    <3>1. /\ pc = "writer" /\ pc' = "reader" /\ reader = "none"
          /\ writer_ctx' = (writer' = "ready")
      BY <1>1, <2>1 DEF CreateWriter, MicroCreateWriter, PlaceOK
    <3>2. \/ dpse /\ name_copies' = name_copies \cup {"subscription_names"}
          \/ (dpse => writer' # "ready") /\ name_copies' = name_copies
      BY <2>1 DEF CreateWriter, MicroCreateWriter, Duplicate
    <3>. QED  BY <1>1, <3>1, <3>2 DEF AdapterOK
  <2>2. CASE CreateReader
    <3>1. /\ writer_ctx' = writer_ctx /\ name_copies \subseteq name_copies'
          /\ name_copies' # name_copies => dpse
          /\ pc = "reader" /\ pc' \in {"reader", "check"}
      BY <1>1, <2>2 DEF CreateReader, AllocReader, CreateDataReader,
                        AssertPublication, SetTake, readerUnchanged, Duplicate
    <3>2. reader' = "ready" => reader_ctx' = "live"
      BY <2>2 DEF CreateReader, AllocReader, CreateDataReader, AssertPublication,
                  SetTake, CallbackOK, AdapterOK
    <3>3. dpse /\ reader' \in {"asserted", "ready"} => "publication_names" \in name_copies'
      BY <2>2 DEF CreateReader, AllocReader, CreateDataReader, AssertPublication,
                  SetTake, AdapterOK, Duplicate
    <3>. QED  BY <1>1, <3>1, <3>2, <3>3 DEF AdapterOK
  <2>. QED  BY <2>1, <2>2
<1>. QED  BY <1>3, <1>4, <1>5, <1>6, <1>7, <1>8

\* The cleanup lists of an engine name resources or the participant.
LEMMA CleanupLists ==
  LET S == Resource \cup {"participant"}
  IN  /\ <<"participant">> \in Seq(S)
      /\ <<"participant", "semaphore">> \in Seq(S)
      /\ <<"participant", "semaphore", "history">> \in Seq(S)
      /\ <<"sample", "participant", "log", "semaphore", "history">> \in Seq(S)
BY DEF Resource

\* what the publisher makes on its way in, and the cleanup of each early return
LEMMA MainKeeps ==
  ASSUME LifecycleInv,
         \/ CheckEndpoints \/ CreateSemaphore \/ AllocHistory \/ CreateSample
         \/ Await \/ OpenLog \/ EndRun
  PROVE  LifecycleInv'
<1>. USE DEF LifecycleInv
<1>1. /\ UNCHANGED <<role, matched, pinged, cb>> /\ UNCHANGED mwVars
      /\ pc \notin {"init", "writer", "reader", "cleanup"}
  BY DEF CheckEndpoints, CreateSemaphore, AllocHistory, CreateSample, Await,
         OpenLog, EndRun, Goto, Exit
<1>. USE <1>1 DEF mwVars, configVars, heapVars, poolVars
<1>2. LoansAccounted'
  BY DEF LoansAccounted
<1>3. TypeOK'
  <2>1. MwTypeOK'
    BY DEF TypeOK, MwTypeOK
  <2>2. res' \in [Resource -> {"none", "live", "freed"}]
    <3>1. res' = res \/ \E r \in Resource : res' = [res EXCEPT ![r] = "live"]
      BY DEF CheckEndpoints, CreateSemaphore, AllocHistory, CreateSample, Await,
             OpenLog, EndRun, Create, Resource
    <3>. QED  BY <3>1 DEF TypeOK
  <2>3. todo' \in Seq(Resource \cup {"participant"})
    <3>1. \/ todo' = todo
          \/ todo' = <<"participant">>
          \/ todo' = <<"participant", "semaphore">>
          \/ todo' = <<"participant", "semaphore", "history">>
          \/ todo' = <<"sample", "participant", "log", "semaphore", "history">>
      BY DEF CheckEndpoints, CreateSemaphore, AllocHistory, CreateSample, Await,
             OpenLog, EndRun, Goto, Exit
    <3>2. todo \in Seq(Resource \cup {"participant"})
      BY DEF TypeOK
    <3>. QED  BY <3>1, <3>2, CleanupLists
  <2>4. /\ pc' \in {"semaphore", "history", "sample", "await", "log", "run",
                    "cleanup"}
        /\ rc' = rc \/ rc' \in {"OK", "OS", "MIDDLEWARE", "TYPE"}
    BY DEF CheckEndpoints, CreateSemaphore, AllocHistory, CreateSample, Await,
           OpenLog, EndRun, Goto, Exit
  <2>. QED  BY <2>1, <2>2, <2>3, <2>4 DEF TypeOK
<1>4. PlaceOK'
  <2>1. CASE Await
    BY <2>1 DEF Await, Goto, Exit, Create, TypeOK, PlaceOK, Since,
                EndpointsReady, Resource
  <2>2. CASE AllocHistory
    BY <2>2 DEF AllocHistory, Goto, Exit, Create, TypeOK, PlaceOK, Since,
                EndpointsReady, Resource
  <2>3. CASE CheckEndpoints
    BY <2>3 DEF CheckEndpoints, Goto, Exit, Create, TypeOK, PlaceOK, Since,
                EndpointsReady, Resource
  <2>4. CASE CreateSemaphore
    BY <2>4 DEF CreateSemaphore, Goto, Exit, Create, TypeOK, PlaceOK, Since,
                EndpointsReady, Resource
  <2>5. CASE CreateSample
    BY <2>5 DEF CreateSample, Goto, Exit, Create, TypeOK, PlaceOK, Since,
                EndpointsReady, Resource
  <2>6. CASE OpenLog
    BY <2>6 DEF OpenLog, Goto, Exit, Create, TypeOK, PlaceOK, Since,
                EndpointsReady, Resource
  <2>7. CASE EndRun
    BY <2>7 DEF EndRun, Goto, Exit, Create, TypeOK, PlaceOK, Since,
                EndpointsReady, Resource
  <2>. QED  BY <2>1, <2>2, <2>3, <2>4, <2>5, <2>6, <2>7
<1>5. CleanupOK'
  <2>1. CASE Await
    BY <2>1 DEF Await, Goto, Exit, Create, TypeOK, PlaceOK, CleanupOK, Since,
                Leaks, Used, Resource
  <2>2. CASE AllocHistory
    BY <2>2 DEF AllocHistory, Goto, Exit, Create, TypeOK, PlaceOK, CleanupOK,
                Since, Leaks, Used, Resource
  <2>3. CASE CheckEndpoints
    BY <2>3 DEF CheckEndpoints, Goto, Exit, Create, TypeOK, PlaceOK, CleanupOK,
                Since, Leaks, Used, Resource
  <2>4. CASE CreateSemaphore
    <3>1. \A r \in Resource : res[r] = "none"
      BY <2>4 DEF CreateSemaphore, PlaceOK, Since, TypeOK, Resource
    <3>2. CASE pc' = "history" /\ UNCHANGED todo
      BY <2>4, <3>2 DEF CreateSemaphore, CleanupOK
    <3>3. CASE Exit("OS", <<"participant">>) /\ UNCHANGED res
      BY <3>1, <3>3 DEF Exit, CleanupOK, Used
    <3>. QED  BY <2>4, <3>2, <3>3 DEF CreateSemaphore, Create, Goto
  <2>5. CASE CreateSample
    BY <2>5 DEF CreateSample, Goto, Exit, Create, TypeOK, PlaceOK, CleanupOK,
                Since, Leaks, Used, Resource
  <2>6. CASE OpenLog
    BY <2>6 DEF OpenLog, Goto, Exit, Create, TypeOK, PlaceOK, CleanupOK, Since,
                Leaks, Used, Resource
  <2>7. CASE EndRun
    BY <2>7 DEF EndRun, Goto, Exit, Create, TypeOK, PlaceOK, CleanupOK, Since,
                Leaks, Used, Resource
  <2>. QED  BY <2>1, <2>2, <2>3, <2>4, <2>5, <2>6, <2>7
<1>6. CallbackOK'
  <2>1. CASE Await
    BY <2>1 DEF Await, Goto, Exit, Create, TypeOK, PlaceOK, CallbackOK,
                EndpointsReady, Used, Resource
  <2>2. CASE AllocHistory
    BY <2>2 DEF AllocHistory, Goto, Exit, Create, TypeOK, PlaceOK, CallbackOK,
                EndpointsReady, Used, Resource
  <2>3. CASE CheckEndpoints
    BY <2>3 DEF CheckEndpoints, Goto, Exit, Create, TypeOK, PlaceOK, CallbackOK,
                EndpointsReady, Used, Resource
  <2>4. CASE CreateSemaphore
    BY <2>4 DEF CreateSemaphore, Goto, Exit, Create, TypeOK, PlaceOK,
                CallbackOK, EndpointsReady, Used, Resource
  <2>5. CASE CreateSample
    BY <2>5 DEF CreateSample, Goto, Exit, Create, TypeOK, PlaceOK, CallbackOK,
                EndpointsReady, Used, Resource
  <2>6. CASE OpenLog
    BY <2>6 DEF OpenLog, Goto, Exit, Create, TypeOK, PlaceOK, CallbackOK,
                EndpointsReady, Used, Resource
  <2>7. CASE EndRun
    BY <2>7 DEF EndRun, Goto, Exit, Create, TypeOK, PlaceOK, CallbackOK,
                EndpointsReady, Used, Resource
  <2>. QED  BY <2>1, <2>2, <2>3, <2>4, <2>5, <2>6, <2>7
<1>7. AdapterOK'
  <2>1. /\ pc' = "cleanup" /\ rc' # "MIDDLEWARE" => EndpointsReady
        /\ dpse' = dpse
    BY DEF CheckEndpoints, CreateSemaphore, AllocHistory, CreateSample, Await,
           OpenLog, EndRun, Goto, Exit, PlaceOK
  <2>2. EndpointsReady =>
          reader_ctx = "live" /\ writer_ctx /\ (dpse => name_copies = NameCopies)
    BY DEF EndpointsReady, AdapterOK, NameCopies, TypeOK, MwTypeOK
  <2>. QED  BY <2>1, <2>2 DEF AdapterOK
<1>. QED  BY <1>2, <1>3, <1>4, <1>5, <1>6, <1>7

----------------------------------------------------------------------------
(* The way out. *)

\* a cleanup call: the callback ends with the participant, and what it uses is
\* freed when the participant is gone
LEMMA CleanUpKeeps ==
  ASSUME LifecycleInv, CleanUp
  PROVE  LifecycleInv'
<1>. DEFINE S == Resource \cup {"participant"}
<1>. USE DEF LifecycleInv
<1>1. /\ pc = "cleanup" /\ pc' = "cleanup" /\ todo # << >> /\ todo' = Tail(todo)
      /\ UNCHANGED <<role, rc, matched, pinged>>
      /\ UNCHANGED <<build, transport, dpse, udp_property, reader_ctx, writer_ctx,
                     name_copies>>
  BY DEF CleanUp, MicroShutdown, mwVars, configVars, heapVars
<1>2. /\ todo \in Seq(S) /\ Len(todo) \in Nat /\ Len(todo) > 0
      /\ Head(todo) = todo[1] /\ todo[1] \in S
      /\ Tail(todo) \in Seq(S) /\ Len(Tail(todo)) = Len(todo) - 1
      /\ \A i \in 1 .. Len(Tail(todo)) : Tail(todo)[i] = todo[i + 1]
  BY <1>1, HeadTailProperties, EmptySeq, LenProperties DEF TypeOK
<1>3. CASE todo[1] = "participant"
  <2>1. /\ UNCHANGED res /\ cb' = "idle"
        /\ participant' # "live" /\ participant' \in {"none", "live", "deleted"}
        /\ reader' = "none" /\ writer' = "none"
        /\ free' = Pool /\ queued' = 0 /\ lost' = 0 /\ loan' = "none"
    BY <1>2, <1>3 DEF CleanUp, MicroShutdown, TypeOK, MwTypeOK
  <2>2. TypeOK'
    BY <1>1, <1>2, <2>1, PoolAssumption DEF TypeOK, MwTypeOK
  <2>3. LoansAccounted'
    BY <2>1, PoolAssumption DEF LoansAccounted
  <2>4. PlaceOK'
    BY <1>1, <2>1 DEF PlaceOK, EndpointsReady
  <2>5. CallbackOK'
    BY <2>1 DEF CallbackOK
  <2>6. CleanupOK'
    <3>1. ASSUME NEW r \in Resource, res[r] = "live"
          PROVE  r \in Leaks[rc] \/ \E i \in 1 .. Len(todo') : todo'[i] = r
      <4>1. CASE r \in Leaks[rc]
        BY <4>1
      <4>2. CASE \E i \in 1 .. Len(todo) : todo[i] = r
        <5>1. PICK i \in 1 .. Len(todo) : todo[i] = r
          BY <4>2
        <5>2. i # 1
          BY <1>3, <5>1, <3>1 DEF Resource
        <5>3. i - 1 \in 1 .. Len(todo') /\ todo'[i - 1] = r
          BY <1>1, <1>2, <5>1, <5>2
        <5>. QED  BY <5>3
      <4>. QED  BY <1>1, <3>1, <4>1, <4>2 DEF CleanupOK
    <3>. QED  BY <1>1, <2>1, <3>1, LeaksFixed DEF CleanupOK
  <2>7. AdapterOK'
    BY <1>1, <2>1 DEF AdapterOK
  <2>. QED  BY <2>2, <2>3, <2>4, <2>5, <2>6, <2>7
<1>4. CASE todo[1] # "participant"
  <2>1. /\ UNCHANGED mwVars /\ UNCHANGED cb
        /\ todo[1] \in Resource
        /\ res' = [res EXCEPT ![todo[1]] = IF @ = "live" THEN "freed" ELSE @]
    BY <1>2, <1>4 DEF CleanUp
  <2>. USE <2>1 DEF mwVars, configVars, heapVars, poolVars
  <2>2. todo[1] \in Used => participant # "live"
    BY <1>1, <1>2 DEF CleanupOK
  <2>3. /\ res' \in [Resource -> {"none", "live", "freed"}]
        /\ \A r \in Resource : /\ r # todo[1] => res'[r] = res[r]
                              /\ res'[r] # "none" => res[r] # "none"
        /\ res'[todo[1]] # "live"
    BY DEF TypeOK
  <2>4. TypeOK'
    BY <1>1, <1>2, <2>3 DEF TypeOK, MwTypeOK
  <2>5. LoansAccounted'
    BY DEF LoansAccounted
  <2>6. PlaceOK'
    BY <1>1, <2>3 DEF PlaceOK, EndpointsReady
  <2>7. CallbackOK'
    BY <1>1, <2>2, <2>3 DEF CallbackOK, EndpointsReady, Used, Resource
  <2>8. CleanupOK'
    <3>1. ASSUME NEW i \in 1 .. Len(todo'), todo'[i] \in Used,
                 participant' = "live"
          PROVE  \E j \in 1 .. i - 1 : todo'[j] = "participant"
      <4>1. i + 1 \in 1 .. Len(todo) /\ todo[i + 1] \in Used
        BY <1>1, <1>2, <3>1
      <4>2. PICK j \in 1 .. (i + 1) - 1 : todo[j] = "participant"
        BY <3>1, <4>1 DEF CleanupOK
      <4>3. j # 1
        BY <1>4, <4>2
      <4>4. j - 1 \in 1 .. i - 1 /\ todo'[j - 1] = "participant"
        BY <1>1, <1>2, <3>1, <4>2, <4>3
      <4>. QED  BY <4>4
    <3>2. ASSUME NEW x \in S, x # todo[1], \E i \in 1 .. Len(todo) : todo[i] = x
          PROVE  \E i \in 1 .. Len(todo') : todo'[i] = x
      <4>1. PICK i \in 1 .. Len(todo) : todo[i] = x
        BY <3>2
      <4>2. i - 1 \in 1 .. Len(todo') /\ todo'[i - 1] = x
        BY <1>1, <1>2, <3>2, <4>1
      <4>. QED  BY <4>2
    <3>3. \A r \in Resource : res'[r] = "live" =>
            r \in Leaks[rc'] \/ \E i \in 1 .. Len(todo') : todo'[i] = r
      BY <1>1, <2>3, <3>2 DEF CleanupOK
    <3>4. participant' = "live" =>
            \/ rc' = "MIDDLEWARE" /\ reader' = "none"
            \/ \E i \in 1 .. Len(todo') : todo'[i] = "participant"
      BY <1>1, <1>4, <3>2 DEF CleanupOK
    <3>. QED  BY <1>1, <3>1, <3>3, <3>4, LeaksFixed DEF CleanupOK
  <2>9. AdapterOK'
    BY <1>1 DEF AdapterOK
  <2>. QED  BY <2>4, <2>5, <2>6, <2>7, <2>8, <2>9
<1>. QED  BY <1>3, <1>4

----------------------------------------------------------------------------
(* The writer and the callback. *)

\* the part of the type invariant that the pool's arithmetic needs
PoolTypeOK ==
  /\ free \in 0 .. Pool /\ queued \in 0 .. Pool /\ lost \in 0 .. Pool
  /\ loan \in {"none", "held", "failed"}

\* a write moves one zero copy sample and nothing else of the engine
LEMMA WriteKeeps ==
  ASSUME LifecycleInv, Write
  PROVE  LifecycleInv'
<1>. USE DEF LifecycleInv
<1>1. /\ UNCHANGED <<role, pc, rc, todo, res, matched>>
      /\ UNCHANGED <<build, transport, dpse, participant, udp_property, writer,
                     reader, reader_ctx, writer_ctx, name_copies>>
      /\ pinged' \in BOOLEAN
      /\ \/ UNCHANGED cb
         \/ role = "sub" /\ cb' = "idle"
      /\ role = "pub" => pc = "run"
  BY DEF Write, Writing, WriteReturns, MicroWrite, GetLoan, WriteLoan,
         WriteLoanFails, DiscardLoan, engineVars, writeUnchanged, configVars,
         heapVars, TypeOK
<1>2. LoansAccounted' /\ PoolTypeOK'
  <2>1. PoolTypeOK /\ LoansAccounted
    BY DEF TypeOK, MwTypeOK, PoolTypeOK
  <2>. USE <2>1, PoolAssumption DEF LoansAccounted, PoolTypeOK
  <2>. HIDE DEF LifecycleInv
  <2>2. CASE GetLoan
    BY <2>2 DEF GetLoan
  <2>3. CASE WriteLoan
    BY <2>3 DEF WriteLoan
  <2>4. CASE WriteLoanFails
    BY <2>4 DEF WriteLoanFails
  <2>5. CASE DiscardLoan
    BY <2>5 DEF DiscardLoan
  <2>6. CASE UNCHANGED poolVars
    BY <2>6 DEF poolVars
  <2>. QED  BY <2>2, <2>3, <2>4, <2>5, <2>6 DEF Write, MicroWrite
<1>3. TypeOK'
  BY <1>1, <1>2 DEF TypeOK, MwTypeOK, PoolTypeOK
<1>4. PlaceOK'
  BY <1>1 DEF PlaceOK, EndpointsReady
<1>5. CleanupOK'
  BY <1>1, LeaksFixed DEF CleanupOK
<1>6. pinged => pinged'
  BY DEF Write, WriteReturns, engineVars
<1>7. CallbackOK'
  BY <1>1, <1>6 DEF CallbackOK, PlaceOK, EndpointsReady, TypeOK
<1>8. AdapterOK'
  BY <1>1 DEF AdapterOK
<1>. QED  BY <1>2, <1>3, <1>4, <1>5, <1>7, <1>8

\* a callback begins only with a listener that is called, and moves nothing but
\* itself and matched
LEMMA CallbackKeeps ==
  ASSUME LifecycleInv, Callback
  PROVE  LifecycleInv'
<1>. USE DEF LifecycleInv
<1>1. /\ UNCHANGED <<role, pc, rc, todo, res, pinged>> /\ UNCHANGED mwVars
      /\ matched' \in BOOLEAN
      /\ cb' \in {"idle", "match", "take", "history", "log", "give", "echo"}
  BY DEF Callback, OnMatch, CountMatch, OnDataAvailable, OnSample, Record,
         CallbackStep, TypeOK
<1>. USE <1>1 DEF mwVars, configVars, heapVars, poolVars
<1>2. TypeOK'
  BY DEF TypeOK, MwTypeOK
<1>3. LoansAccounted' /\ PlaceOK' /\ CleanupOK' /\ AdapterOK'
  BY LeaksFixed DEF LoansAccounted, PlaceOK, CleanupOK, AdapterOK, EndpointsReady
<1>4. CallbackOK'
  <2>1. CASE OnMatch \/ OnDataAvailable
    BY <2>1 DEF OnMatch, OnDataAvailable, CallbackStep, Listening,
                DataMayArrive,
                EndpointsReady, CallbackOK, TypeOK
  <2>2. CASE OnSample
    BY <2>2 DEF OnSample, CallbackStep, EndpointsReady, CallbackOK, TypeOK
  <2>3. CASE CountMatch \/ Record
    BY <2>3 DEF CountMatch, Record, CallbackStep, EndpointsReady, CallbackOK
  <2>. QED  BY <2>1, <2>2, <2>3 DEF Callback
<1>. QED  BY <1>2, <1>3, <1>4

\* every step of the engine, of its callback and of the writer keeps the invariant
LEMMA LifecycleStep ==
  ASSUME LifecycleInv, [Next]_vars
  PROVE  LifecycleInv'
<1>1. CASE RecycleStep
  <2>1. UNCHANGED engineVars
        /\ UNCHANGED <<build, transport, dpse, participant, udp_property, writer,
                       reader, reader_ctx, writer_ctx, name_copies>>
    BY <1>1 DEF RecycleStep, Recycle, writeUnchanged, configVars, heapVars
  <2>2. PoolTypeOK /\ LoansAccounted
    BY DEF LifecycleInv, TypeOK, MwTypeOK, PoolTypeOK
  <2>3. LoansAccounted' /\ PoolTypeOK'
    BY <1>1, <2>2, PoolAssumption
       DEF RecycleStep, Recycle, LoansAccounted, PoolTypeOK
  <2>4. TypeOK'
    BY <2>1, <2>3 DEF LifecycleInv, engineVars, TypeOK, MwTypeOK, PoolTypeOK
  <2>5. PlaceOK' /\ CleanupOK' /\ CallbackOK' /\ AdapterOK'
    BY <2>1, LeaksFixed
       DEF LifecycleInv, engineVars, PlaceOK, CleanupOK, CallbackOK, AdapterOK,
           EndpointsReady
  <2>. QED  BY <2>3, <2>4, <2>5 DEF LifecycleInv
<1>2. CASE UNCHANGED vars
  BY <1>2, LeaksFixed
     DEF vars, engineVars, mwVars, configVars, heapVars, poolVars, LifecycleInv,
         TypeOK, MwTypeOK, LoansAccounted, PlaceOK, CleanupOK, CallbackOK,
         AdapterOK, EndpointsReady
<1>. QED
  BY <1>1, <1>2, InitKeeps, EndpointsKeep, MainKeeps, CleanUpKeeps, WriteKeeps,
     CallbackKeeps DEF Next, MainStep

----------------------------------------------------------------------------
(* The theorems. *)

\* Whatever call of the middleware or of the engine fails, the main thread's
\* position, the cleanup left and the callback's position say what exists.
THEOREM LifecycleInvariant == Spec => []LifecycleInv
BY LifecycleStarts, LifecycleStep, PTL DEF Spec

\* micro_write and its discard_loan path lose no zero copy sample, but by a
\* discard that fails: for every pool size.
THEOREM LoansConserved == Spec => []LoansAccounted
<1>1. LifecycleInv => LoansAccounted
  BY DEF LifecycleInv
<1>. QED  BY <1>1, LifecycleInvariant, PTL

\* No call that fails takes a variable out of its type: in particular the pool
\* never hands out a loan it does not have.
THEOREM EngineTyping == Spec => []TypeOK
<1>1. LifecycleInv => TypeOK
  BY DEF LifecycleInv
<1>. QED  BY <1>1, LifecycleInvariant, PTL

\* If no sample arrives before both endpoints are complete, the listener callback
\* never uses what is not there: on no way out is the participant the later one
\* to go.
THEOREM CallbackIsSafe ==
  ASSUME QuietSetup
  PROVE  Spec => []CallbackSafe
<1>1. ASSUME LifecycleInv PROVE CallbackSafe
  <2>. USE <1>1 DEF LifecycleInv
  <2>1. CASE cb = "match"
    <3>1. Needs[cb] = {"reader_ctx"} /\ reader_ctx = "live"
      BY <2>1 DEF Needs, CallbackOK
    <3>. QED  BY <3>1 DEF CallbackSafe, Usable
  <2>2. CASE cb = "take"
    <3>1. /\ Needs[cb] = {"reader_ctx", "take"}
          /\ reader_ctx = "live" /\ reader = "ready"
      BY <2>2, QuietSetup DEF Needs, CallbackOK, EndpointsReady
    <3>. QED  BY <3>1 DEF CallbackSafe, Usable
  <2>3. CASE cb = "echo"
    <3>1. Needs[cb] = {"writer"} /\ writer = "ready"
      BY <2>3, QuietSetup DEF Needs, CallbackOK, EndpointsReady
    <3>. QED  BY <3>1 DEF CallbackSafe, Usable
  <2>4. CASE cb \in {"history", "log", "give"}
    <3>1. /\ res["history"] # "freed" /\ res["log"] # "freed"
          /\ res["semaphore"] = "live"
      BY <2>4 DEF CallbackOK, Used
    <3>2. Needs[cb] \subseteq {"history", "log", "semaphore"}
      BY <2>4 DEF Needs
    <3>. QED  BY <3>1, <3>2 DEF CallbackSafe, Usable
  <2>5. CASE cb = "idle"
    BY <2>5 DEF CallbackSafe, Needs
  <2>. QED  BY <2>1, <2>2, <2>3, <2>4, <2>5 DEF TypeOK
<1>2. LifecycleInv => CallbackSafe
  BY <1>1
<1>. QED  BY <1>2, LifecycleInvariant, PTL

\* Every return of an engine gives back all but what Leaks names, and a return
\* without an error leaves exactly what micro_shutdown never frees: the MicroReader,
\* the MicroWriter and, in static discovery, the duplicated names.  No listener is
\* left that could call into the stack of a function that has returned.
THEOREM ReturnsRelease == Spec => []ReturnReleases
<1>1. ASSUME LifecycleInv, Returned
      PROVE  /\ Held \subseteq Leaks[rc]
             /\ rc = "OK" => Held = AdapterLeaks
             /\ reader = "none" /\ cb = "idle"
  <2>. USE <1>1 DEF LifecycleInv, Returned
  <2>1. \A x : ~ \E i \in 1 .. Len(todo) : todo[i] = x
    BY EmptySeq
  <2>2. participant = "live" => rc = "MIDDLEWARE" /\ reader = "none"
    BY <2>1 DEF CleanupOK
  <2>3. reader = "none" /\ cb = "idle"
    BY <2>2 DEF PlaceOK, CallbackOK
  <2>4. udp_property => rc = "MIDDLEWARE"
    BY DEF PlaceOK
  <2>5. \A r \in Resource : res[r] = "live" => r \in Leaks[rc]
    BY <2>1 DEF CleanupOK
  <2>6. rc \in {"OK", "TYPE", "OS", "MIDDLEWARE"} /\ name_copies \subseteq NameCopies
    BY DEF TypeOK, MwTypeOK
  <2>7. AdapterLeaks \subseteq Leaks[rc]
    BY <2>6 DEF Leaks
  <2>8. name_copies \subseteq AdapterLeaks
    BY <2>6 DEF AdapterOK, AdapterLeaks
  <2>9. Held \subseteq Leaks[rc]
    <3>1. /\ {"MicroReader", "MicroWriter"} \subseteq Leaks[rc]
          /\ name_copies \subseteq Leaks[rc]
      BY <2>7, <2>8 DEF AdapterLeaks
    <3>2. participant = "live" => "participant" \in Leaks[rc]
      BY <2>2 DEF Leaks
    <3>3. udp_property => "udp_property" \in Leaks[rc]
      BY <2>4 DEF Leaks
    <3>. HIDE DEF Leaks
    <3>. QED  BY <2>5, <3>1, <3>2, <3>3 DEF Held
  <2>10. ASSUME rc = "OK" PROVE Held = AdapterLeaks
    <3>1. Held \subseteq AdapterLeaks
      BY <2>9, <2>10 DEF Leaks
    <3>2. /\ reader_ctx = "live" /\ writer_ctx
          /\ dpse => name_copies = NameCopies
      BY <2>10 DEF AdapterOK
    <3>3. AdapterLeaks \subseteq Held
      BY <3>2 DEF Held, AdapterLeaks
    <3>. QED  BY <3>1, <3>3
  <2>. QED  BY <2>3, <2>9, <2>10
<1>2. LifecycleInv => ReturnReleases
  BY <1>1 DEF ReturnReleases
<1>. QED  BY <1>2, LifecycleInvariant, PTL
=============================================================================
