----------------------------- MODULE Lifecycle -----------------------------
(***************************************************************************)
(* One engine in one process, from its call to its return: what            *)
(* perftest_lite_publisher and perftest_lite_subscriber create, in which   *)
(* order they give it back on every way out, and the listener callback     *)
(* that uses it all meanwhile.  The test itself is PerftestLite's.         *)
(***************************************************************************)
EXTENDS Middleware

CONSTANT
  QuietSetup  \* timing: no sample arrives before both endpoints are complete

ASSUME QuietAssumption == QuietSetup \in BOOLEAN

VARIABLES
  role,     \* fixed: "pub" or "sub"
  pc,       \* where the main thread is
  rc,       \* what the engine returns
  todo,     \* the cleanup calls left before it returns
  res,      \* the resources of the publisher: "none", "live" or "freed"
  matched,  \* matched_pubs > 0
  pinged,   \* a sample of this process has been written
  cb        \* where the listener callback is

engineVars == <<role, pc, rc, todo, res, matched, pinged, cb>>
vars == <<engineVars, mwVars>>

Resource == {"semaphore", "history", "sample", "log"}

TypeOK ==
  /\ MwTypeOK
  /\ role \in {"pub", "sub"}
  /\ pc \in {"init", "writer", "reader", "check", "semaphore", "history",
             "sample", "await", "log", "run", "cleanup"}
  /\ rc \in {"OK", "OS", "MIDDLEWARE", "TYPE"}
  /\ todo \in Seq(Resource \cup {"participant"})
  /\ res \in [Resource -> {"none", "live", "freed"}]
  /\ {matched, pinged} \subseteq BOOLEAN
  /\ cb \in {"idle", "match", "take", "history", "log", "give", "echo"}

Init ==
  /\ MwInit
  /\ role \in {"pub", "sub"}
  /\ pc = "init" /\ rc = "OK" /\ todo = << >>
  /\ res = [r \in Resource |-> "none"]
  /\ matched = FALSE /\ pinged = FALSE
  /\ cb = "idle"

WriterTopic == IF role = "pub" THEN "ping" ELSE "pong"
ReaderTopic == IF role = "pub" THEN "pong" ELSE "ping"

----------------------------------------------------------------------------
(* The main thread.  Every early return is an Exit with its own cleanup.    *)

Goto(place) == pc' = place /\ UNCHANGED <<role, rc, todo, matched, pinged, cb>>

Exit(code, cleanup) ==
  /\ pc' = "cleanup" /\ rc' = code /\ todo' = cleanup
  /\ UNCHANGED <<role, matched, pinged, cb>>

\* mw->init; its failure returns at once
InitMiddleware ==
  /\ pc = "init"
  /\ \E n \in 1 .. Len(InitSteps) + 1 :
       /\ MicroInit(n)
       /\ IF InitOK(n) THEN Goto("writer") ELSE Exit("MIDDLEWARE", << >>)
  /\ UNCHANGED res

CreateWriter ==
  /\ pc = "writer"
  /\ MicroCreateWriter
  /\ Goto("reader")
  /\ UNCHANGED res

CreateReader ==
  /\ pc = "reader"
  /\ AllocReader \/ CreateDataReader \/ AssertPublication \/ SetTake
  /\ Goto(IF reader_ctx' # "live" \/ reader' = "ready" THEN "check" ELSE "reader")
  /\ UNCHANGED res

EndpointsReady == writer = "ready" /\ reader = "ready"

CheckEndpoints ==
  /\ pc = "check"
  /\ IF EndpointsReady
     THEN Goto(IF role = "pub" THEN "semaphore" ELSE "await")
     ELSE Exit("MIDDLEWARE", <<"participant">>)
  /\ UNCHANGED <<res, mwVars>>

Create(r, ok) ==
  IF ok THEN res' = [res EXCEPT ![r] = "live"] ELSE UNCHANGED res

CreateSemaphore ==
  /\ pc = "semaphore"
  /\ \E ok \in BOOLEAN :
       /\ Create("semaphore", ok)
       /\ IF ok THEN Goto("history") ELSE Exit("OS", <<"participant">>)
  /\ UNCHANGED mwVars

\* a build without a history, or no memory for it, makes no difference
AllocHistory ==
  /\ pc = "history"
  /\ \E ok \in BOOLEAN : Create("history", ok)
  /\ Goto("sample")
  /\ UNCHANGED mwVars

CreateSample ==
  /\ pc = "sample"
  /\ \E ok \in BOOLEAN :
       /\ Create("sample", ok)
       /\ IF ok THEN Goto("await")
          ELSE Exit("TYPE", <<"participant", "semaphore", "history">>)
  /\ UNCHANGED mwVars

Await ==
  /\ pc = "await"
  /\ matched
  /\ Goto(IF role = "pub" THEN "log" ELSE "run")
  /\ UNCHANGED <<res, mwVars>>

\* -latencyLog may not be given; a file that cannot be opened ends the run
OpenLog ==
  /\ pc = "log"
  /\ \/ UNCHANGED res /\ Goto("run")
     \/ \E ok \in BOOLEAN :
          /\ Create("log", ok)
          /\ IF ok THEN Goto("run")
             ELSE Exit("OS", <<"participant", "semaphore">>)
  /\ UNCHANGED mwVars

\* mutant: the semaphore and the history go before the participant
EndRunParticipantLast ==
  /\ pc = "run" /\ (role = "pub" => loan = "none")
  /\ Exit("OK", IF role = "pub"
                THEN <<"sample", "log", "semaphore", "history", "participant">>
                ELSE <<"participant">>)
  /\ UNCHANGED <<res, mwVars>>

EndRun ==
  /\ pc = "run" /\ (role = "pub" => loan = "none")
  /\ Exit("OK", IF role = "pub"
                THEN <<"sample", "participant", "log", "semaphore", "history">>
                ELSE <<"participant">>)
  /\ UNCHANGED <<res, mwVars>>

\* shutdown ends the callback; what was never created is skipped
CleanUp ==
  /\ pc = "cleanup" /\ todo # << >>
  /\ todo' = Tail(todo)
  /\ IF Head(todo) = "participant"
     THEN MicroShutdown /\ cb' = "idle" /\ UNCHANGED res
     ELSE /\ res' = [res EXCEPT ![Head(todo)] =
                       IF @ = "live" THEN "freed" ELSE @]
          /\ UNCHANGED <<mwVars, cb>>
  /\ UNCHANGED <<role, pc, rc, matched, pinged>>

Returned == pc = "cleanup" /\ todo = << >>

----------------------------------------------------------------------------
(* Writing: the publisher's main thread, or the subscriber's callback.      *)

Writing == IF role = "pub" THEN pc = "run" ELSE cb = "echo"

WriteReturns(ok) ==
  /\ pinged' = (pinged \/ ok)
  /\ cb' = IF role = "sub" THEN "idle" ELSE cb
  /\ UNCHANGED <<role, pc, rc, todo, res, matched>>

Write ==
  /\ Writing
  /\ \/ \E ok \in BOOLEAN : MicroWrite(ok) /\ WriteReturns(ok)
     \/ GetLoan /\ UNCHANGED engineVars
     \/ WriteLoan /\ WriteReturns(TRUE)
     \/ WriteLoanFails /\ UNCHANGED engineVars
     \/ DiscardLoan /\ WriteReturns(FALSE)

----------------------------------------------------------------------------
(* The listener callback, in a thread of the middleware.                    *)

\* the peer runs when it has matched this process: a static peer as soon as it
\* knows the participant, a dynamic one when it has found this side's writer
PeerMayWrite == dpse \/ writer # "none"

\* pongs answer pings; pings come from a peer that is running
DataMayArrive ==
  /\ IF role = "pub" THEN pinged ELSE PeerMayWrite
  /\ QuietSetup => EndpointsReady

CallbackStep(next) ==
  /\ cb' = next
  /\ UNCHANGED <<role, pc, rc, todo, res, matched, pinged, mwVars>>

OnMatch ==
  /\ cb = "idle" /\ Listening(ReaderTopic) /\ ~matched
  /\ CallbackStep("match")

CountMatch ==
  /\ cb = "match"
  /\ cb' = "idle" /\ matched' = TRUE
  /\ UNCHANGED <<role, pc, rc, todo, res, pinged, mwVars>>

OnDataAvailable ==
  /\ cb = "idle" /\ Listening(ReaderTopic) /\ matched /\ DataMayArrive
  /\ CallbackStep("take")

\* take hands the sample to sub_on_sample, which echoes it or not, or to
\* pub_on_pong_sample, which drops it or records a latency.  A call through a
\* pointer that is not set yet has no outcome the model could go on with
OnSample ==
  /\ cb = "take" /\ reader = "ready"
  /\ \/ CallbackStep("idle")
     \/ CallbackStep(IF role = "sub" THEN "echo" ELSE "history")

Record ==
  \/ cb = "history" /\ CallbackStep("log")
  \/ cb = "log" /\ CallbackStep("give")
  \/ cb = "give" /\ CallbackStep("idle")

Callback == OnMatch \/ CountMatch \/ OnDataAvailable \/ OnSample \/ Record

----------------------------------------------------------------------------
MainStep ==
  InitMiddleware \/ CreateWriter \/ CreateReader \/ CheckEndpoints
    \/ CreateSemaphore \/ AllocHistory \/ CreateSample \/ Await \/ OpenLog
    \/ EndRun \/ CleanUp

RecycleStep == Recycle /\ UNCHANGED engineVars

Next == MainStep \/ Write \/ Callback \/ RecycleStep

Spec == Init /\ [][Next]_vars

\* the peer is there: it is found, and a callback that has begun goes on
FairSpec ==
  /\ Spec
  /\ WF_vars(MainStep)
  /\ WF_vars(OnMatch) /\ WF_vars(CountMatch)
  /\ WF_vars(Callback /\ cb # "idle") /\ WF_vars(Write /\ cb = "echo")

----------------------------------------------------------------------------
(* Properties. *)

\* what there is for a callback to use
Usable ==
  {r \in {"reader_ctx", "take", "writer", "history", "log", "semaphore"} :
     \/ r = "reader_ctx" /\ reader_ctx = "live"
     \/ r = "take"       /\ reader = "ready"
     \/ r = "writer"     /\ writer = "ready"
     \/ r = "history"    /\ res["history"] # "freed"
     \/ r = "log"        /\ res["log"] # "freed"
     \/ r = "semaphore"  /\ res["semaphore"] = "live"}

Needs ==
  [idle |-> {}, match |-> {"reader_ctx"}, take |-> {"reader_ctx", "take"},
   history |-> {"history"}, log |-> {"log"}, give |-> {"semaphore"},
   echo |-> {"writer"}]

\* Whatever the listener callback uses next exists: no way out of an engine frees
\* the semaphore, the history, the log or the reader while a callback can run.
CallbackSafe == Needs[cb] \subseteq Usable

\* The subscriber's callback never echoes through a writer it does not have.
EchoHasWriter == cb = "echo" => writer = "ready"

\* what is still allocated; what the registry has taken over is the registry's,
\* which the process keeps
Held ==
  {r \in Resource : res[r] = "live"}
    \cup (IF participant = "live" THEN {"participant"} ELSE {})
    \cup (IF udp_property THEN {"udp_property"} ELSE {})
    \cup (IF reader_ctx = "live" THEN {"MicroReader"} ELSE {})
    \cup (IF writer_ctx THEN {"MicroWriter"} ELSE {})
    \cup name_copies

\* what the adapter allocates with a pair of endpoints and never frees
AdapterLeaks ==
  {"MicroReader", "MicroWriter"} \cup (IF dpse THEN NameCopies ELSE {})

\* what an engine may leave behind, by its return code
Leaks ==
  [OK |-> AdapterLeaks, TYPE |-> AdapterLeaks,
   OS |-> AdapterLeaks \cup {"sample", "history"},
   MIDDLEWARE |-> AdapterLeaks \cup {"participant", "udp_property"}]

\* An engine that returns has given back all but what Leaks names: after a
\* success that is exactly the adapter's structures for the two endpoints, which
\* micro_shutdown does not free.  None returns while a listener could call into
\* its stack.
ReturnReleases ==
  Returned =>
    /\ Held \subseteq Leaks[rc]
    /\ rc = "OK" => Held = AdapterLeaks
    /\ reader = "none" /\ cb = "idle"

\* No zero copy sample gets lost but by a discard that fails: each is free,
\* written, in the hands of the writing thread, or counted lost.
LoansAccounted ==
  free + queued + lost + (IF loan = "none" THEN 0 ELSE 1) = Pool

\* An engine whose peer runs does not wait for the match for ever: the object
\* ids each side asserts are those the other one uses.
AwaitEnds == (pc = "await") ~> (pc # "await")

----------------------------------------------------------------------------
(* The inductive invariant behind CallbackSafe, ReturnReleases and          *)
(* LoansAccounted.                                                          *)

\* the places of the main thread at which a resource may exist
Since ==
  [semaphore |-> {"history", "sample", "await", "log", "run", "cleanup"},
   history   |-> {"sample", "await", "log", "run", "cleanup"},
   sample    |-> {"await", "log", "run", "cleanup"},
   log       |-> {"run", "cleanup"}]

\* the main thread's position says what exists
PlaceOK ==
  /\ pc = "init" => participant = "none"
  /\ pc \notin {"init", "cleanup"} => participant = "live"
  /\ pc \in {"init", "writer"} => reader = "none" /\ reader_ctx = "none"
  /\ participant # "live" => reader = "none"
  /\ udp_property => pc = "cleanup" /\ rc = "MIDDLEWARE"
  /\ pc \in {"semaphore", "history", "sample", "await", "log", "run"} =>
       EndpointsReady
  /\ \A r \in Resource : res[r] # "none" => role = "pub" /\ pc \in Since[r]
  /\ pc \in {"semaphore", "history", "sample", "log"} => role = "pub"
  /\ role = "pub" /\ pc \in {"history", "sample", "await", "log", "run"} =>
       res["semaphore"] = "live"
  /\ role = "pub" /\ pinged => pc \in {"run", "cleanup"}

\* what the callback uses is freed after the participant only
Used == {"semaphore", "history", "log"}

\* the cleanup that is left: nothing the callback uses goes before the
\* participant, and all that is still held goes, but for the leaks
CleanupOK ==
  /\ pc # "cleanup" => todo = << >>
  /\ \A i \in 1 .. Len(todo) :
       todo[i] \in Used =>
         participant # "live" \/ \E j \in 1 .. i - 1 : todo[j] = "participant"
  /\ pc = "cleanup" =>
       /\ \A r \in Resource : res[r] = "live" =>
            r \in Leaks[rc] \/ \E i \in 1 .. Len(todo) : todo[i] = r
       /\ participant = "live" =>
            \/ rc = "MIDDLEWARE" /\ reader = "none"
            \/ \E i \in 1 .. Len(todo) : todo[i] = "participant"

\* a callback has a reader whose data is live, and one that handles a sample
\* has all it needs
CallbackOK ==
  /\ participant = "live" => \A r \in Used : res[r] # "freed"
  /\ reader \in {"alloc", "asserted", "ready"} \/ (reader = "listening" /\ ~dpse) =>
       reader_ctx = "live"
  /\ cb # "idle" => /\ participant = "live"
                    /\ reader \in {"asserted", "ready"}
                         \/ (reader = "listening" /\ ~dpse)
  /\ cb \in {"history", "log", "give"} => role = "pub"
  /\ cb = "echo" => role = "sub"
  /\ (QuietSetup /\ cb \notin {"idle", "match"}) => EndpointsReady
  /\ (role = "pub" /\ cb \notin {"idle", "match"}) => pinged
  /\ (role = "pub" /\ pinged /\ participant = "live") => res["semaphore"] = "live"

\* what the adapter keeps on the heap for an endpoint that is complete, and for
\* every engine that came past its test of the endpoints
AdapterOK ==
  /\ name_copies # {} => dpse
  /\ writer = "ready" =>
       writer_ctx /\ (dpse => "subscription_names" \in name_copies)
  /\ reader = "ready" => reader_ctx = "live"
  /\ dpse /\ reader \in {"asserted", "ready"} => "publication_names" \in name_copies
  /\ pc = "cleanup" /\ rc # "MIDDLEWARE" =>
       reader_ctx = "live" /\ writer_ctx /\ (dpse => name_copies = NameCopies)

\* The main thread's position, the cleanup that is left and the callback's
\* position together say what exists: the argument for the safety of an engine.
LifecycleInv ==
  /\ TypeOK
  /\ LoansAccounted
  /\ PlaceOK
  /\ CleanupOK
  /\ AdapterOK
  /\ CallbackOK
=============================================================================
