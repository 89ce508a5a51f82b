--------------------------- MODULE Program_proofs ---------------------------
(***************************************************************************)
(* Theorems about the program around the engines, for every build, layout  *)
(* of the sample type, command line of any length and arguments an         *)
(* application may set: what passes the tests, what is sent, what is       *)
(* rendered and how the program exits.                                     *)
(***************************************************************************)
EXTENDS Program, TLAPS

----------------------------------------------------------------------------
(* What the types, the transports and the parser do.                        *)

\* No type refuses the default size it computes itself.
LEMMA DefaultSizeFits ==
  ASSUME NEW b \in Builds, NEW z \in Layouts
  PROVE  SizeOK(b, z, DefaultSampleSize(b, z))
<1>1. z.max_payload \in Nat /\ z.fixed \in Nat /\ z.datalen \in Nat
  BY LayoutAssumption
<1>2. CASE b.zcopy
  BY <1>2 DEF SizeOK, DefaultSampleSize, FixedSizeOK
<1>3. CASE ~b.zcopy
  BY <1>1, <1>3 DEF SizeOK, DefaultSampleSize, SequenceSizeOK, SequenceDefault, Overhead
<1>. QED  BY <1>2, <1>3

\* The default transport and the default role are compiled in.
LEMMA DefaultsCompiledIn ==
  ASSUME NEW b \in Builds
  PROVE  /\ TransportSupported(b, DefaultTransport(b))
         /\ IF DefaultRole(b) = "pub" THEN b.pub ELSE b.sub
BY DEF Builds, TransportSupported, DefaultTransport, DefaultRole

\* A zero copy write sends a loaned sample instead of the one it is given, with
\* the only size its type accepts.
LEMMA SentSample ==
  ASSUME SizeOK(build, layout, args.datalen),
         TransportSupported(build, args.transport_id), NEW s
  PROVE  /\ Sent(s).kind = s.kind
         /\ Sent(s).size = IF args.transport_id = "ZeroCopy" THEN args.datalen ELSE s.size
<1>1. CASE args.transport_id = "ZeroCopy"
  <2>1. build.zcopy
    BY <1>1 DEF TransportSupported
  <2>2. args.datalen = layout.fixed
    BY <2>1 DEF SizeOK, FixedSizeOK
  <2>3. Sent(s).size = layout.fixed /\ Sent(s).kind = s.kind
    BY <1>1, <2>1 DEF Sent, CopyForWrite, NewSample
  <2>. QED  BY <1>1, <2>2, <2>3
<1>2. CASE args.transport_id # "ZeroCopy"
  BY <1>2 DEF Sent
<1>. QED  BY <1>1, <1>2

\* The fields printed for a role are among those its engine writes.
LEMMA ColumnsWritten ==
  ASSUME NEW role
  PROVE  Columns(role) \subseteq RowOf(role)
BY DEF Columns, RowOf, PubFields, SubFields

\* Setting the kind or an accepted size sets that and nothing else.
LEMMA SampleSet ==
  ASSUME NEW s, DOMAIN s = {"kind", "size"}, NEW k, NEW m,
         SizeOK(build, layout, m)
  PROVE  /\ DOMAIN SetKind(s, k) = {"kind", "size"}
         /\ SetKind(s, k).kind = k /\ SetKind(s, k).size = s.size
         /\ DOMAIN SizeTo(s, m) = {"kind", "size"}
         /\ SizeTo(s, m).kind = s.kind /\ SizeTo(s, m).size = m
BY DEF SetKind, SizeTo, SetSampleSize

\* An option changes its own field and is remembered as given.
LEMMA ArgumentsKept ==
  ASSUME ArgsOK, NEW field \in DOMAIN args, NEW v, Set(field, v)
  PROVE  ArgsOK'
BY DEF ArgsOK, Set

LEMMA ArgumentFields ==
  ASSUME ArgsOK
  PROVE  {"role", "flags"} \cup StringField \cup NumberField \subseteq DOMAIN args
BY DEF ArgsOK, Defaults, StringField, NumberField

----------------------------------------------------------------------------
(* Each part of ProgramInv is preserved.                                    *)

\* Only the parser and an application change the arguments.
LEMMA ArgsStep ==
  ASSUME ArgsOK, [Next]_vars
  PROVE  ArgsOK'
<1>1. CASE ParseOption
  <2>1. CASE RoleOption
    <3>1. PICK r : Set("role", r)
      BY <2>1 DEF RoleOption
    <3>. QED  BY <3>1, ArgumentFields, ArgumentsKept
  <2>2. CASE FlagOption
    <3>1. PICK v : Set("flags", v)
      BY <2>2 DEF FlagOption
    <3>. QED  BY <3>1, ArgumentFields, ArgumentsKept
  <2>3. CASE StringOption
    <3>1. PICK field \in StringField : \E v : Set(field, v)
      BY <2>3 DEF StringOption
    <3>2. PICK v : Set(field, v)
      BY <3>1
    <3>. QED  BY <3>2, ArgumentFields, ArgumentsKept
  <2>4. CASE NumberOption
    <3>1. PICK field \in NumberField, v \in Values \cup {-1} :
            Set(field, v) \/ ParserReturns("ERROR")
      BY <2>4 DEF NumberOption
    <3>2. CASE Set(field, v)
      BY <3>1, <3>2, ArgumentFields, ArgumentsKept
    <3>3. CASE ParserReturns("ERROR")
      BY <3>3 DEF ParserReturns, ArgsOK
    <3>. QED  BY <3>1, <3>2, <3>3
  <2>5. CASE BadOption \/ Help \/ EndOfOptions
    BY <2>5 DEF BadOption, Help, EndOfOptions, ParserReturns, ArgsOK
  <2>. QED  BY <1>1, <2>1, <2>2, <2>3, <2>4, <2>5 DEF ParseOption, Parse
<1>2. CASE SetArguments
  <2>1. PICK fields \in ApiArgs :
          /\ args' = [f \in DOMAIN args |->
                        IF f \in DOMAIN fields THEN fields[f] ELSE args[f]]
          /\ given' = DOMAIN fields
    BY <1>2 DEF SetArguments
  <2>2. given = {} /\ build' = build /\ layout' = layout
    BY <1>2 DEF SetArguments
  <2>. QED  BY <2>1, <2>2 DEF ArgsOK, Defaults
<1>3. CASE UNCHANGED <<build, layout, args, given>>
  BY <1>3 DEF ArgsOK
<1>4. ParseOption \/ SetArguments \/ UNCHANGED <<build, layout, args, given>>
  BY DEF Next, Parsed, Main, InitMiddleware, EngineFails, Subscribe, Publish,
         SendData, SendFinalization, PublisherReturns, Returned, Begin, Row, Exit,
         Return, Write, Goto, parserVars, vars
<1>. QED  BY <1>1, <1>2, <1>3, <1>4

\* The command line program gets past the parser with its arguments accepted, and
\* it alone renders.
LEMMA EntryStep ==
  ASSUME EntryOK, [Next]_vars
  PROVE  EntryOK'
<1>. USE DEF EntryOK, Goto, fixedVars, parserVars
<1>1. CASE ParseOption
  BY <1>1 DEF ParseOption, runVars
<1>2. CASE Parsed
  BY <1>2 DEF Parsed
<1>3. CASE SetArguments
  BY <1>3 DEF SetArguments, runVars
<1>4. CASE Main \/ InitMiddleware
  BY <1>4 DEF Main, InitMiddleware, Return
<1>5. CASE EngineFails \/ Subscribe \/ PublisherReturns
  BY <1>5 DEF EngineFails, Subscribe, PublisherReturns, Return
<1>6. CASE Publish \/ SendData \/ SendFinalization
  BY <1>6 DEF Publish, SendData, SendFinalization, Write
<1>7. CASE Returned \/ Begin \/ Row \/ Exit
  BY <1>7 DEF Returned, Begin, Row, Exit
<1>8. CASE UNCHANGED vars
  BY <1>8 DEF vars, runVars
<1>. QED  BY <1>1, <1>2, <1>3, <1>4, <1>5, <1>6, <1>7, <1>8 DEF Next

\* No engine starts, and no sample is sent, before everything has been tested; the
\* size set for the test stays the sample's until the last FINALIZATION.
LEMMA AcceptedStep ==
  ASSUME EntryOK, AcceptedOK, [Next]_vars
  PROVE  AcceptedOK'
<1>. USE DEF AcceptedOK, Goto, fixedVars, parserVars, Running
<1>1. CASE ParseOption
  BY <1>1 DEF ParseOption, runVars
<1>2. CASE Parsed
  BY <1>2 DEF Parsed
<1>3. CASE SetArguments
  BY <1>3 DEF SetArguments, runVars
<1>4. CASE Main
  <2>1. CASE SizeOK(build, layout, args.datalen) /\ Built(args.role)
    BY <1>4, <2>1 DEF Main, Built
  <2>2. CASE ~(SizeOK(build, layout, args.datalen) /\ Built(args.role))
    BY <1>4, <2>2 DEF Main, Return
  <2>. QED  BY <2>1, <2>2
<1>5. CASE InitMiddleware
  <2>1. CASE TransportSupported(build, args.transport_id)
    BY <1>5, <2>1 DEF InitMiddleware, Built
  <2>2. CASE ~TransportSupported(build, args.transport_id)
    BY <1>5, <2>2 DEF InitMiddleware, Return
  <2>. QED  BY <2>1, <2>2
<1>6. CASE EngineFails \/ Subscribe \/ PublisherReturns
  BY <1>6 DEF EngineFails, Subscribe, PublisherReturns, Return
<1>7. CASE Publish
  <2>. DEFINE m == IF SizeOK(build, layout, InitSampleSize) THEN InitSampleSize
                   ELSE args.datalen
              s == SetKind(sample, "INITIALIZATION")
  <2>1. sample' = SizeTo(s, m) /\ pc' = "warmup" /\ args.role = "pub"
        /\ UNCHANGED <<parserVars, fixedVars>> /\ pc = "engine"
    BY <1>7 DEF Publish, Write
  <2>2. SizeOK(build, layout, m)
    BY <2>1
  <2>. HIDE DEF m
  <2>3. DOMAIN s = {"kind", "size"}
    BY <2>2, SampleSet
  <2>. HIDE DEF s
  <2>4. DOMAIN sample' = {"kind", "size"}
    BY <2>1, <2>2, <2>3, SampleSet
  <2>. QED  BY <2>1, <2>4 DEF Built
<1>8. CASE SendData
  <2>1. PICK kind \in {"DATA", "DATA_PING"} :
          sample' = SetKind(SizeTo(sample, args.datalen), kind)
    BY <1>8 DEF SendData, Write
  <2>2. /\ pc = "warmup" /\ pc' = "test"
        /\ UNCHANGED <<parserVars, fixedVars>>
    BY <1>8 DEF SendData, Write
  <2>3. SizeOK(build, layout, args.datalen)
    BY <2>2
  <2>4. DOMAIN SizeTo(sample, args.datalen) = {"kind", "size"}
        /\ SizeTo(sample, args.datalen).size = args.datalen
    BY <2>3, SampleSet
  <2>5. DOMAIN sample' = {"kind", "size"} /\ sample'.size = args.datalen
    BY <2>1, <2>3, <2>4, SampleSet
  <2>. QED  BY <2>2, <2>5 DEF Built
<1>9. CASE SendFinalization
  <2>1. /\ sample' = SetKind(sample, "FINALIZATION") /\ pc = "test" /\ pc' = "final"
        /\ UNCHANGED <<parserVars, fixedVars>>
    BY <1>9 DEF SendFinalization, Write
  <2>2. DOMAIN sample' = {"kind", "size"} /\ sample'.size = sample.size
    BY <2>1, SampleSet
  <2>. QED  BY <2>1, <2>2 DEF Built
<1>10. CASE Returned \/ Begin \/ Row \/ Exit
  BY <1>10 DEF Returned, Begin, Row, Exit
<1>11. CASE UNCHANGED vars
  BY <1>11 DEF vars, runVars, Built
<1>. QED
  BY <1>1, <1>2, <1>3, <1>4, <1>5, <1>6, <1>7, <1>8, <1>9, <1>10, <1>11 DEF Next

\* Only Return sets the code and the results, once, and only the renderer what is
\* rendered.
LEMMA ReportStep ==
  ASSUME EntryOK, AcceptedOK, ReportOK, [Next]_vars
  PROVE  ReportOK'
<1>. USE DEF ReportOK, EntryOK, Goto, fixedVars, parserVars, Reporting
<1>1. CASE ParseOption
  BY <1>1 DEF ParseOption, runVars
<1>2. CASE Parsed
  BY <1>2 DEF Parsed
<1>3. CASE SetArguments
  BY <1>3 DEF SetArguments, runVars
<1>4. ASSUME NEW code, NEW row, Return(code, row),
             pc \notin Reporting \cup {"exit"},
             row = IF code = "OK" THEN <<RowOf(args.role)>> ELSE << >>,
             UNCHANGED <<g_role, rendered, exit>>
      PROVE  ReportOK'
  <2>1. results = << >> /\ rendered = << >> /\ Len(results) = 0
    BY <1>4
  <2>2. << >> \o row = row
    BY <1>4
  <2>3. /\ rc' = code /\ pc' = "returned" /\ UNCHANGED <<capacity, args>>
        /\ results' = IF capacity = 1 THEN row ELSE << >>
    BY <1>4, <2>1, <2>2 DEF Return
  <2>4. Len(<<RowOf(args.role)>>) = 1
    OBVIOUS
  <2>. QED  BY <1>4, <2>1, <2>3, <2>4
<1>5. CASE Main
  <2>1. CASE SizeOK(build, layout, args.datalen) /\ Built(args.role)
    BY <1>5, <2>1 DEF Main
  <2>2. CASE ~(SizeOK(build, layout, args.datalen) /\ Built(args.role))
    BY <1>4, <1>5, <2>2 DEF Main
  <2>. QED  BY <2>1, <2>2
<1>6. CASE InitMiddleware
  <2>1. CASE TransportSupported(build, args.transport_id)
    BY <1>6, <2>1 DEF InitMiddleware
  <2>2. CASE ~TransportSupported(build, args.transport_id)
    BY <1>4, <1>6, <2>2 DEF InitMiddleware
  <2>. QED  BY <2>1, <2>2
<1>7. CASE EngineFails
  BY <1>4, <1>7 DEF EngineFails
<1>8. CASE Subscribe
  <2>1. RowOf(args.role) = SubFields
    BY <1>8 DEF Subscribe, RowOf
  <2>. QED  BY <1>4, <1>8, <2>1 DEF Subscribe
<1>9. CASE PublisherReturns
  <2>1. RowOf(args.role) = PubFields
    BY <1>9 DEF PublisherReturns, RowOf, AcceptedOK
  <2>. QED  BY <1>4, <1>9, <2>1 DEF PublisherReturns
<1>10. CASE Publish \/ SendData \/ SendFinalization
  BY <1>10 DEF Publish, SendData, SendFinalization, Write
<1>11. CASE Returned
  BY <1>11 DEF Returned
<1>12. CASE Begin
  BY <1>12 DEF Begin
<1>13. CASE Row
  <2>1. CASE Len(rendered) < Len(results)
    <3>1. rendered = << >> /\ results = <<RowOf(args.role)>>
      BY <2>1
    <3>2. rendered' = <<Columns(args.role)>>
      BY <1>13, <2>1, <3>1 DEF Row
    <3>3. UNCHANGED <<results, rc, exit, g_role>> /\ pc = "row" /\ pc' = "row"
      BY <1>13, <2>1 DEF Row
    <3>4. Columns(args.role)' = Columns(args.role) /\ UNCHANGED <<args, capacity, entry>>
      BY <1>13 DEF Row, Columns
    <3>. QED  BY <3>1, <3>2, <3>3, <3>4
  <2>2. CASE ~(Len(rendered) < Len(results))
    <3>1. Len(rendered) = Len(results)
      BY <2>2
    <3>2. /\ UNCHANGED <<results, rendered, rc, exit, g_role>>
          /\ pc = "row" /\ pc' = "end"
      BY <1>13, <2>2 DEF Row
    <3>3. Columns(args.role)' = Columns(args.role) /\ UNCHANGED <<args, capacity, entry>>
      BY <1>13 DEF Row, Columns
    <3>. QED  BY <3>1, <3>2, <3>3
  <2>. QED  BY <2>1, <2>2
<1>14. CASE Exit
  <2>1. UNCHANGED <<results, rendered, rc, g_role>> /\ pc = "end" /\ pc' = "exit"
    BY <1>14 DEF Exit
  <2>2. Columns(args.role)' = Columns(args.role) /\ UNCHANGED <<args, capacity, entry>>
    BY <1>14 DEF Exit, Columns
  <2>. QED  BY <2>1, <2>2
<1>15. CASE UNCHANGED vars
  BY <1>15 DEF vars, runVars, Columns
<1>. QED
  BY <1>1, <1>2, <1>3, <1>5, <1>6, <1>7, <1>8, <1>9, <1>10, <1>11, <1>12, <1>13,
     <1>14, <1>15 DEF Next

\* The program refuses nothing but what an option or an application has given.
LEMMA DefaultsStep ==
  ASSUME ArgsOK, ReportOK, DefaultsAccepted, [Next]_vars
  PROVE  DefaultsAccepted'
<1>. USE DEF Goto, fixedVars, parserVars
<1>1. DefaultsAccepted /\ rc # "BAD_ARGS" /\ pc = "main"
        => \/ given \cap {"role", "datalen"} # {}
           \/ SizeOK(build, layout, args.datalen) /\ Built(args.role)
  <2>. SUFFICES ASSUME given \cap {"role", "datalen"} = {}
                PROVE  SizeOK(build, layout, args.datalen) /\ Built(args.role)
    OBVIOUS
  <2>1. /\ args.role = DefaultRole(build)
        /\ args.datalen = DefaultSampleSize(build, layout)
        /\ build \in Builds /\ layout \in Layouts
    BY DEF ArgsOK, Defaults
  <2>. QED  BY <2>1, DefaultSizeFits, DefaultsCompiledIn DEF Built
<1>2. pc' = "init" => "transport_id" \in given' \/ TransportSupported(build', args'.transport_id)
  <2>1. ArgsOK'
    BY ArgsStep
  <2>2. "transport_id" \notin given' =>
          args'.transport_id = DefaultTransport(build') /\ build' \in Builds
    BY <2>1 DEF ArgsOK, Defaults
  <2>. QED  BY <2>2, DefaultsCompiledIn
<1>3. (rc = "BAD_ARGS" => given \cap {"role", "datalen"} # {})'
  <2>1. CASE ParseOption \/ SetArguments
    <3>1. rc = "OK" /\ rc' = rc
      BY <2>1 DEF ParseOption, SetArguments, runVars, ReportOK, Reporting
    <3>. QED  BY <3>1
  <2>2. CASE Main
    <3>1. rc = "OK" /\ given' = given
      BY <2>2 DEF Main, Return, ReportOK, Reporting
    <3>2. CASE SizeOK(build, layout, args.datalen) /\ Built(args.role)
      BY <2>2, <3>1, <3>2 DEF Main
    <3>3. CASE ~(SizeOK(build, layout, args.datalen) /\ Built(args.role))
      BY <1>1, <2>2, <3>1, <3>3 DEF Main
    <3>. QED  BY <3>2, <3>3
  <2>3. CASE InitMiddleware \/ EngineFails \/ Subscribe \/ PublisherReturns
    <3>1. given' = given /\ (rc' = rc \/ rc' \in {"MIDDLEWARE", "OS", "TYPE", "OK"})
      BY <2>3 DEF InitMiddleware, EngineFails, Subscribe, PublisherReturns, Return
    <3>. QED  BY <3>1 DEF DefaultsAccepted
  <2>4. CASE UNCHANGED <<rc, given>>
    BY <2>4 DEF DefaultsAccepted
  <2>5. \/ ParseOption \/ SetArguments \/ Main \/ InitMiddleware \/ EngineFails
        \/ Subscribe \/ PublisherReturns \/ UNCHANGED <<rc, given>>
    BY DEF Next, Parsed, Publish, SendData, SendFinalization, Returned, Begin, Row,
           Exit, Write, vars, runVars
  <2>. QED  BY <2>1, <2>2, <2>3, <2>4, <2>5
<1>. QED  BY <1>2, <1>3 DEF DefaultsAccepted

\* A sample that is written has the size of the test, or is a warm-up sample.
LEMMA WireStep ==
  ASSUME AcceptedOK, WireSize, [Next]_vars
  PROVE  WireSize'
<1>. USE DEF Goto, fixedVars, parserVars
<1>1. ASSUME NEW s, NEW next, Write(s, next), pc \in Running,
             s.size = args.datalen \/ (s.kind = "INITIALIZATION" /\ s.size = InitSampleSize)
      PROVE  WireSize'
  <2>1. wire' = wire \cup {Sent(s)} /\ args' = args
    BY <1>1 DEF Write
  <2>2. /\ SizeOK(build, layout, args.datalen)
        /\ TransportSupported(build, args.transport_id)
    BY <1>1 DEF AcceptedOK
  <2>3. Sent(s).kind = s.kind /\ (Sent(s).size = args.datalen \/ Sent(s).size = s.size)
    BY <2>2, SentSample
  <2>4. ASSUME NEW m \in wire'
        PROVE  m.size = args.datalen \/ (m.kind = "INITIALIZATION" /\ m.size = InitSampleSize)
    <3>1. CASE m \in wire
      BY <3>1 DEF WireSize
    <3>2. CASE m = Sent(s)
      BY <1>1, <2>3, <3>2
    <3>. QED  BY <2>1, <3>1, <3>2
  <2>. QED  BY <2>1, <2>4 DEF WireSize
<1>2. CASE Publish
  <2>. DEFINE m == IF SizeOK(build, layout, InitSampleSize) THEN InitSampleSize
                   ELSE args.datalen
              s == SetKind(sample, "INITIALIZATION")
  <2>1. pc \in Running /\ Write(SizeTo(s, m), "warmup")
    BY <1>2 DEF Publish, Running
  <2>2. SizeOK(build, layout, m) /\ DOMAIN sample = {"kind", "size"}
        /\ m \in {InitSampleSize, args.datalen}
    BY <2>1 DEF AcceptedOK
  <2>. HIDE DEF m
  <2>3. DOMAIN s = {"kind", "size"} /\ s.kind = "INITIALIZATION"
    BY <2>2, SampleSet
  <2>. HIDE DEF s
  <2>4. SizeTo(s, m).kind = "INITIALIZATION" /\ SizeTo(s, m).size = m
    BY <2>2, <2>3, SampleSet
  <2>. QED  BY <1>1, <2>1, <2>2, <2>4
<1>3. CASE SendData
  <2>. DEFINE t == SizeTo(sample, args.datalen)
  <2>1. PICK kind \in {"DATA", "DATA_PING"} : Write(SetKind(t, kind), "test")
    BY <1>3 DEF SendData
  <2>2. /\ pc \in Running /\ SizeOK(build, layout, args.datalen)
        /\ DOMAIN sample = {"kind", "size"}
    BY <1>3 DEF SendData, AcceptedOK, Running
  <2>3. DOMAIN t = {"kind", "size"} /\ t.size = args.datalen
    BY <2>2, SampleSet
  <2>. HIDE DEF t
  <2>4. SetKind(t, kind).size = args.datalen
    BY <2>2, <2>3, SampleSet
  <2>. QED  BY <1>1, <2>1, <2>2, <2>4
<1>4. CASE SendFinalization
  <2>1. /\ pc \in Running /\ SizeOK(build, layout, args.datalen)
        /\ DOMAIN sample = {"kind", "size"} /\ sample.size = args.datalen
        /\ Write(SetKind(sample, "FINALIZATION"), "final")
    BY <1>4 DEF SendFinalization, AcceptedOK, Running
  <2>2. SetKind(sample, "FINALIZATION").size = args.datalen
    BY <2>1, SampleSet
  <2>. QED  BY <1>1, <2>1, <2>2
<1>5. CASE ParseOption \/ SetArguments
  <2>1. wire' = wire /\ wire = {}
    BY <1>5 DEF ParseOption, SetArguments, runVars, AcceptedOK
  <2>. QED  BY <2>1 DEF WireSize
<1>6. CASE UNCHANGED <<wire, args>>
  BY <1>6 DEF WireSize
<1>7. \/ ParseOption \/ SetArguments \/ Publish \/ SendData \/ SendFinalization
      \/ UNCHANGED <<wire, args>>
  BY DEF Next, Parsed, Main, InitMiddleware, EngineFails, Subscribe,
         PublisherReturns, Returned, Begin, Row, Exit, Return, vars, runVars
<1>. QED  BY <1>2, <1>3, <1>4, <1>5, <1>6, <1>7

\* What ReportOK says of the results and the renderer types them.
LEMMA TypeStep ==
  ASSUME TypeOK, ReportOK', EntryOK', [Next]_vars
  PROVE  TypeOK'
<1>1. /\ pc' \in {"parse", "main", "init", "engine", "warmup", "test", "final",
                  "returned", "begin", "row", "end", "exit"}
      /\ rc' \in {"OK", "BAD_ARGS", "OS", "MIDDLEWARE", "TYPE"}
  BY DEF TypeOK, Next, ParseOption, Parsed, SetArguments, Main, InitMiddleware,
         EngineFails, Subscribe, Publish, SendData, SendFinalization,
         PublisherReturns, Returned, Begin, Row, Exit, Return, Write, Goto, vars,
         runVars
<1>2. exit' \in -1 .. 4
  <2>1. CASE Exit
    BY <2>1 DEF Exit, Code, TypeOK
  <2>2. CASE Parsed
    BY <2>2 DEF Parsed, ExitFailure, TypeOK
  <2>3. CASE exit' = exit
    BY <2>3 DEF TypeOK
  <2>4. Exit \/ Parsed \/ exit' = exit
    BY DEF Next, ParseOption, SetArguments, Main, InitMiddleware, EngineFails,
           Subscribe, Publish, SendData, SendFinalization, PublisherReturns,
           Returned, Begin, Row, Return, Write, Goto, vars, runVars
  <2>. QED  BY <2>1, <2>2, <2>3, <2>4
<1>3. /\ results' = << >> \/ results' = <<RowOf(args'.role)>>
      /\ rendered' = << >> \/ (results' # << >> /\ Len(rendered') = 1)
  BY DEF ReportOK
<1>4. Len(results') <= capacity'
  <2>1. results' # << >> => capacity' = 1
    BY DEF ReportOK
  <2>2. capacity' \in {0, 1}
    BY DEF EntryOK
  <2>. QED  BY <1>3, <2>1, <2>2
<1>5. /\ {results'[i] : i \in 1 .. Len(results')} \subseteq {PubFields, SubFields}
      /\ Len(rendered') <= Len(results')
  BY <1>3 DEF RowOf
<1>. QED  BY <1>1, <1>2, <1>4, <1>5 DEF TypeOK

\* The exit code is 0 for the help and for a result that was rendered.
LEMMA ExitStep ==
  ASSUME EntryOK, ReportOK, TypeOK, ExitMatchesReport, [Next]_vars
  PROVE  ExitMatchesReport'
<1>. SUFFICES ASSUME entry' = "cli", pc' = "exit", parsed' # "HELP"
              PROVE  exit' = 0 <=> Len(rendered') = 1
  BY DEF ExitMatchesReport
<1>. USE DEF Goto, fixedVars, parserVars
<1>1. CASE Exit
  <2>1. /\ exit' = Code[rc] /\ rendered' = rendered /\ pc = "end" /\ entry = "cli"
    BY <1>1 DEF Exit
  <2>2. capacity = 1 /\ Len(rendered) = Len(results)
    BY <2>1 DEF EntryOK, ReportOK
  <2>3. CASE rc = "OK"
    <3>1. Len(results) = 1
      BY <2>1, <2>2, <2>3 DEF ReportOK, Reporting
    <3>. QED  BY <2>1, <2>2, <2>3, <3>1 DEF Code
  <2>4. CASE rc # "OK"
    <3>1. Len(results) = 0
      BY <2>4 DEF ReportOK
    <3>2. Code[rc] # 0
      BY <2>4 DEF Code, TypeOK
    <3>. QED  BY <2>1, <2>2, <3>1, <3>2
  <2>. QED  BY <2>3, <2>4
<1>2. CASE Parsed
  <2>1. pc = "parse" /\ parsed' = parsed /\ rendered' = rendered /\ parsed # "OK"
    BY <1>2 DEF Parsed
  <2>2. exit' = 1
    BY <1>2, <2>1 DEF Parsed, ExitFailure
  <2>3. Len(rendered) = 0
    BY <2>1 DEF ReportOK
  <2>. QED  BY <2>1, <2>2, <2>3
<1>3. CASE Returned
  <2>1. pc' = "begin"
    BY <1>3 DEF Returned
  <2>. QED  BY <2>1
<1>4. CASE UNCHANGED <<entry, pc, parsed, exit, rendered>>
  BY <1>4 DEF ExitMatchesReport
<1>5. Exit \/ Parsed \/ Returned \/ UNCHANGED <<entry, pc, parsed, exit, rendered>>
  BY DEF Next, ParseOption, SetArguments, Main, InitMiddleware, EngineFails,
         Subscribe, Publish, SendData, SendFinalization, PublisherReturns, Begin,
         Row, Return, Write, vars, runVars
<1>. QED  BY <1>1, <1>2, <1>3, <1>4, <1>5

----------------------------------------------------------------------------
LEMMA ProgramStart == Init => ProgramInv
<1>. SUFFICES ASSUME Init PROVE ProgramInv
  OBVIOUS
<1>. USE DEF Init, ParserInit
<1>1. TypeOK
  BY DEF TypeOK
<1>2. ArgsOK
  BY DEF ArgsOK
<1>3. EntryOK
  BY DEF EntryOK
<1>4. AcceptedOK
  BY DEF AcceptedOK, Running, NewSample
<1>5. ReportOK
  BY DEF ReportOK, Reporting
<1>. QED
  BY <1>1, <1>2, <1>3, <1>4, <1>5 DEF ProgramInv, DefaultsAccepted, WireSize,
                                      ExitMatchesReport

\* What the program has read, tested and returned decides what it sends, renders
\* and exits with, on every path.
THEOREM ProgramInvariant == Spec => []ProgramInv
<1>1. ASSUME ProgramInv, [Next]_vars PROVE ProgramInv'
  <2>. USE <1>1 DEF ProgramInv
  <2>1. ArgsOK' /\ EntryOK' /\ AcceptedOK'
    BY ArgsStep, EntryStep, AcceptedStep
  <2>2. ReportOK' /\ DefaultsAccepted'
    BY ReportStep, DefaultsStep
  <2>3. TypeOK'
    BY <2>1, <2>2, TypeStep
  <2>4. WireSize' /\ ExitMatchesReport'
    BY WireStep, ExitStep
  <2>. QED  BY <2>1, <2>2, <2>3, <2>4
<1>2. ProgramInv /\ [Next]_vars => ProgramInv'
  BY <1>1
<1>. QED  BY <1>2, ProgramStart, PTL DEF Spec

\* No build refuses its own defaults: whatever is refused was given by an option or
\* by the application.
THEOREM AcceptsDefaults == Spec => []DefaultsAccepted
<1>1. ProgramInv => DefaultsAccepted
  BY DEF ProgramInv
<1>. QED  BY <1>1, ProgramInvariant, PTL

\* Every sample of the test has the size asked for, in every type and transport.
THEOREM SendsSizeAsked == Spec => []WireSize
<1>1. ProgramInv => WireSize
  BY DEF ProgramInv
<1>. QED  BY <1>1, ProgramInvariant, PTL

\* The exit code tells a caller whether there was a result.
THEOREM ExitIsReport == Spec => []ExitMatchesReport
<1>1. ProgramInv => ExitMatchesReport
  BY DEF ProgramInv
<1>. QED  BY <1>1, ProgramInvariant, PTL

\* The renderer reads only what the engine of the same role has written into a row
\* whose storage nobody initialises.
THEOREM RendersWritten == Spec => []RendersOnlyWritten
<1>1. ASSUME ProgramInv PROVE RendersOnlyWritten
  <2>. SUFFICES ASSUME NEW i \in 1 .. Len(rendered)
                PROVE  rendered[i] \subseteq results[i]
    BY DEF RendersOnlyWritten
  <2>1. rendered # << >>
    OBVIOUS
  <2>2. rendered = <<Columns(args.role)>> /\ results = <<RowOf(args.role)>>
    BY <1>1, <2>1 DEF ProgramInv, ReportOK
  <2>3. i = 1
    BY <2>2
  <2>. QED  BY <2>2, <2>3, ColumnsWritten
<1>2. ProgramInv => RendersOnlyWritten
  BY <1>1
<1>. QED  BY <1>2, ProgramInvariant, PTL
=============================================================================
