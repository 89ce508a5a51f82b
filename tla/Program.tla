------------------------------ MODULE Program ------------------------------
(***************************************************************************)
(* The program around the engines: perftest_lite_main_cli parses, runs     *)
(* perftest_lite_main, renders the results and turns the return code into  *)
(* an exit code; an embedded application calls perftest_lite_main itself   *)
(* ("api") with arguments no parser has seen.  An engine is its outcome,   *)
(* the sizes of the samples it writes and the result row it fills in.      *)
(***************************************************************************)
EXTENDS CommandLine, Sequences

CONSTANT ApiArgs  \* fields an application may set: a set of sets of them

VARIABLES
  entry,     \* fixed: "cli" or "api"
  capacity,  \* fixed: PerftestLiteResults.size_capacity, 0 for no storage
  csv,       \* fixed: the renderer compiled in
  pc,        \* where the program is
  rc,        \* what perftest_lite_main returns
  udp,       \* what micro_init gives the UDP transport: interface and peer
  sample,    \* the publisher's sample
  wire,      \* the samples written
  results,   \* PerftestLiteResults.sizes up to size_count: the fields written
  g_role,    \* the renderer's static variable
  rendered,  \* per row rendered, the fields printed
  exit       \* the exit code; -1 before

fixedVars == <<entry, capacity, csv>>
runVars == <<pc, rc, udp, sample, wire, results, g_role, rendered, exit>>
vars == <<parserVars, fixedVars, runVars>>

PubFields == {"size", "total", "latency_samples", "avg", "min", "max", "p50",
              "p90", "p99", "throughput", "lost", "elapsed"}
SubFields == {"size", "total", "avg", "min", "max", "throughput", "lost",
              "elapsed"}

TypeOK ==
  /\ pc \in {"parse", "main", "init", "engine", "warmup", "test", "final",
             "returned", "begin", "row", "end", "exit"}
  /\ rc \in {"OK", "BAD_ARGS", "OS", "MIDDLEWARE", "TYPE"}
  /\ Len(results) <= capacity
  /\ {results[i] : i \in 1 .. Len(results)} \subseteq {PubFields, SubFields}
  /\ Len(rendered) <= Len(results)
  /\ exit \in -1 .. 4

\* an application starts from the defaults and sets some fields
Init ==
  /\ ParserInit
  /\ \/ entry = "cli" /\ capacity = 1 /\ pc = "parse"
     \/ entry = "api" /\ capacity \in {0, 1} /\ pc = "main"
  /\ csv \in BOOLEAN
  /\ rc = "OK" /\ udp = << >>
  /\ sample = NewSample(build, layout) /\ wire = {}
  /\ results = << >> /\ g_role = "pub" /\ rendered = << >>
  /\ exit = -1

Goto(place) == pc' = place /\ UNCHANGED <<parserVars, fixedVars>>

----------------------------------------------------------------------------
(* perftest_lite_main_cli and perftest_lite_main. *)

ParseOption ==
  /\ pc = "parse" /\ Parse
  /\ UNCHANGED <<fixedVars, runVars>>

ExitFailure == 1

\* help and a parse error end the program at once
Parsed ==
  /\ pc = "parse" /\ parsed # "no"
  /\ exit' = CASE parsed = "OK" -> exit [] parsed = "HELP" -> 0
               [] OTHER -> ExitFailure
  /\ Goto(IF parsed = "OK" THEN "main" ELSE "exit")
  /\ UNCHANGED <<rc, udp, sample, wire, results, g_role, rendered>>

\* the application's own arguments
SetArguments ==
  /\ entry = "api" /\ pc = "main" /\ given = {}
  /\ \E fields \in ApiArgs :
       /\ args' = [f \in DOMAIN args |->
                     IF f \in DOMAIN fields THEN fields[f] ELSE args[f]]
       /\ given' = DOMAIN fields
  /\ UNCHANGED <<build, layout, options, parsed, fixedVars, runVars>>

\* mutant: a row is written whatever the capacity
ReturnUnbounded(code, row) ==
  /\ rc' = code
  /\ results' = results \o row
  /\ Goto("returned")

\* perftest_lite_main returns; an engine that has succeeded fills in a row
Return(code, row) ==
  /\ rc' = code
  /\ results' = IF Len(results) < capacity THEN results \o row ELSE results
  /\ Goto("returned")

Built(role) == IF role = "pub" THEN build.pub ELSE build.sub

\* validate_input, then the engine of the role if it is compiled in
Main ==
  /\ pc = "main"
  /\ IF SizeOK(build, layout, args.datalen) /\ Built(args.role)
     THEN Goto("init") /\ UNCHANGED <<rc, results>>
     ELSE Return("BAD_ARGS", << >>)
  /\ UNCHANGED <<udp, sample, wire, g_role, rendered, exit>>

\* micro_init as far as the arguments decide: the transport, and for UDP the
\* interface and the peer; the other transports have locators of their own
InitMiddleware ==
  /\ pc = "init"
  /\ IF TransportSupported(build, args.transport_id)
     THEN /\ udp' = [interface |-> args.nic,
                     peer |-> CASE args.transport_id = "SHMEM" -> "_shmem"
                                [] args.transport_id = "ZeroCopy" -> "127.0.0.1"
                                [] OTHER -> args.peer]
          /\ Goto("engine") /\ UNCHANGED <<rc, results>>
     ELSE Return("MIDDLEWARE", << >>) /\ UNCHANGED udp
  /\ UNCHANGED <<sample, wire, g_role, rendered, exit>>

\* the other ways an engine may fail, as Lifecycle has them
EngineFails ==
  /\ pc = "engine"
  /\ \E code \in {"MIDDLEWARE"} \cup
                 (IF args.role = "pub" THEN {"OS", "TYPE"} ELSE {}) :
       Return(code, << >>)
  /\ UNCHANGED <<udp, sample, wire, g_role, rendered, exit>>

\* perftest_lite_subscriber to its end
Subscribe ==
  /\ pc = "engine" /\ args.role = "sub"
  /\ Return("OK", <<SubFields>>)
  /\ UNCHANGED <<udp, sample, wire, g_role, rendered, exit>>

----------------------------------------------------------------------------
(* The publisher's samples: one sample object, whose kind and size change.  *)

\* a zero copy write sends a loaned sample, any other the one it is given
Sent(s) ==
  IF args.transport_id = "ZeroCopy"
  THEN CopyForWrite(NewSample(build, layout), s) ELSE s

Write(s, next) ==
  /\ sample' = s
  /\ wire' = wire \cup {Sent(s)}
  /\ Goto(next)
  /\ UNCHANGED <<rc, udp, results, g_role, rendered, exit>>

SizeTo(s, n) == SetSampleSize(build, layout, s, n)

\* the fixed warm-up size, or the test's if the type refuses that
Publish ==
  /\ pc = "engine" /\ args.role = "pub"
  /\ LET s == SetKind(sample, "INITIALIZATION")
         n == IF SizeOK(build, layout, InitSampleSize) THEN InitSampleSize
              ELSE args.datalen
     IN  Write(SizeTo(s, n), "warmup")

\* mutant: the warm-up size is not taken back
SendDataOfWarmUpSize ==
  /\ pc = "warmup"
  /\ \E kind \in {"DATA", "DATA_PING"} : Write(SetKind(sample, kind), "test")

SendData ==
  /\ pc = "warmup"
  /\ \E kind \in {"DATA", "DATA_PING"} :
       Write(SetKind(SizeTo(sample, args.datalen), kind), "test")

SendFinalization ==
  /\ pc = "test"
  /\ Write(SetKind(sample, "FINALIZATION"), "final")

\* every field of the row is set, to 0 if by nothing else
PublisherReturns ==
  /\ pc = "final"
  /\ Return("OK", <<PubFields>>)
  /\ UNCHANGED <<udp, sample, wire, g_role, rendered, exit>>

----------------------------------------------------------------------------
(* Rendering, which happens whatever the engine returned. *)

Columns(role) ==
  {"size", "total"}
    \cup (IF role = "pub" THEN {"avg", "min", "max", "p50", "p90", "p99"}
          ELSE {"lost", "throughput"})
    \cup (IF csv THEN {"elapsed"} ELSE {})

\* an application gets the return code; it renders or not as it likes
Returned ==
  /\ pc = "returned"
  /\ Goto(IF entry = "cli" THEN "begin" ELSE "exit")
  /\ UNCHANGED <<rc, udp, sample, wire, results, g_role, rendered, exit>>

\* mutant: begin does not remember the role
BeginForgetsRole ==
  /\ pc = "begin"
  /\ Goto("row")
  /\ UNCHANGED <<rc, udp, sample, wire, results, g_role, rendered, exit>>

Begin ==
  /\ pc = "begin"
  /\ g_role' = args.role
  /\ Goto("row")
  /\ UNCHANGED <<rc, udp, sample, wire, results, rendered, exit>>

Row ==
  /\ pc = "row"
  /\ IF Len(rendered) < Len(results)
     THEN rendered' = Append(rendered, Columns(g_role)) /\ Goto("row")
     ELSE UNCHANGED rendered /\ Goto("end")
  /\ UNCHANGED <<rc, udp, sample, wire, results, g_role, exit>>

Code == [OK |-> 0, BAD_ARGS |-> 1, OS |-> 2, MIDDLEWARE |-> 3, TYPE |-> 4]

\* mutant: the exit code is that of the rendering
ExitRendered ==
  /\ pc = "end"
  /\ exit' = 0
  /\ Goto("exit")
  /\ UNCHANGED <<rc, udp, sample, wire, results, g_role, rendered>>

\* -r, and 0 for PERFTEST_LITE_OK
Exit ==
  /\ pc = "end"
  /\ exit' = Code[rc]
  /\ Goto("exit")
  /\ UNCHANGED <<rc, udp, sample, wire, results, g_role, rendered>>

Next ==
  \/ ParseOption \/ Parsed \/ SetArguments \/ Main \/ InitMiddleware
  \/ EngineFails \/ Subscribe \/ Publish \/ SendData \/ SendFinalization
  \/ PublisherReturns \/ Returned \/ Begin \/ Row \/ Exit

Spec == Init /\ [][Next]_vars

----------------------------------------------------------------------------
(* Properties. *)

\* The program refuses a run only for something that was asked of it: the
\* defaults of every build pass the type's validation and name a transport that
\* is compiled in, whatever size the configuration asks for.
DefaultsAccepted ==
  /\ rc = "BAD_ARGS" => given \cap {"role", "datalen"} # {}
  /\ (pc = "init" /\ ~TransportSupported(build, args.transport_id)) =>
       "transport_id" \in given

\* DATA and FINALIZATION samples have exactly the size asked for, which is the
\* size reported; the warm-up's may differ by being INIT_SAMPLE_SIZE.
WireSize ==
  \A m \in wire :
    \/ m.size = args.datalen
    \/ m.kind = "INITIALIZATION" /\ m.size = InitSampleSize

\* The command line program exits with 0, other than for help, exactly when it
\* has rendered the result of a run that succeeded.
ExitMatchesReport ==
  (entry = "cli" /\ pc = "exit" /\ parsed # "HELP") =>
    (exit = 0 <=> Len(rendered) = 1)

\* No field is printed that the engine has not written: the storage of the rows
\* is not initialised.
RendersOnlyWritten ==
  \A i \in 1 .. Len(rendered) : rendered[i] \subseteq results[i]

\* A null interface means loopback and a null peer 127.0.0.1.
NullMeansDefault ==
  udp # << >> => /\ udp.interface = IF args.nic = "NULL" THEN "lo" ELSE args.nic
                 /\ udp.peer # "NULL"

----------------------------------------------------------------------------
(* The inductive invariant behind them. *)

Running   == {"engine", "warmup", "test", "final"}
Reporting == {"returned", "begin", "row", "end"}

\* what no option has touched is the default of the build
ArgsOK ==
  /\ build \in Builds /\ layout \in Layouts
  /\ DOMAIN args = DOMAIN Defaults(build, layout)
  /\ \A f \in {"role", "datalen", "transport_id"} \ given :
       args[f] = Defaults(build, layout)[f]

EntryOK ==
  /\ entry \in {"cli", "api"} /\ capacity \in {0, 1}
  /\ entry = "cli" => capacity = 1
  /\ pc \in {"parse", "begin", "row", "end"} => entry = "cli"
  /\ (entry = "cli" /\ pc \notin {"parse", "exit"}) => parsed = "OK"

\* an engine runs with arguments that have passed every test
AcceptedOK ==
  /\ pc \in Running \cup {"init"} =>
       SizeOK(build, layout, args.datalen) /\ Built(args.role)
  /\ pc \in Running => TransportSupported(build, args.transport_id)
  /\ pc \in {"warmup", "test", "final"} => args.role = "pub"
  /\ pc \in {"test", "final"} => sample.size = args.datalen
  /\ DOMAIN sample = {"kind", "size"}
  /\ pc \in {"parse", "main"} => wire = {}

RowOf(role) == IF role = "pub" THEN PubFields ELSE SubFields

\* a row for a success that has storage for it, rendered for the same role
ReportOK ==
  /\ pc \notin Reporting \cup {"exit"} => rc = "OK" /\ results = << >>
  /\ results # << >> => rc = "OK" /\ capacity = 1 /\ results = <<RowOf(args.role)>>
  /\ (pc \in Reporting /\ rc = "OK") => Len(results) = capacity
  /\ pc \in {"row", "end"} => g_role = args.role
  /\ \/ rendered = << >>
     \/ /\ pc \in {"row", "end", "exit"} /\ results # << >>
        /\ rendered = <<Columns(args.role)>>
  /\ pc = "end" => Len(rendered) = Len(results)
  /\ pc # "exit" => exit = -1

\* What has been read, tested and returned so far decides what is sent, what is
\* rendered and how the program exits.
ProgramInv ==
  /\ TypeOK
  /\ ArgsOK
  /\ EntryOK
  /\ AcceptedOK
  /\ ReportOK
  /\ DefaultsAccepted
  /\ WireSize
  /\ ExitMatchesReport
=============================================================================
