---------------------------- MODULE CommandLine ----------------------------
(***************************************************************************)
(* perftest_lite_parse_arguments: argv is read from left to right, so each *)
(* option and its value are chosen when the parser gets there.             *)
(***************************************************************************)
EXTENDS SampleType, FiniteSets

CONSTANTS
  Layouts,    \* the layouts to try
  Values,     \* the numbers a numeric option may be given, and -1
  MaxOptions  \* bound of the model: options on one command line

ASSUME CommandLineAssumption == Values \subseteq Nat /\ MaxOptions \in Nat

\* the sizes are unsigned constants of the IDL and the configuration
ASSUME LayoutAssumption ==
  Layouts \subseteq [max_payload : Nat, fixed : Nat, datalen : Nat]

VARIABLES
  build, layout,  \* fixed
  args,           \* PerftestLiteInputArgs
  given,          \* the fields an option has set
  options,        \* options read
  parsed          \* "no", or the parser's result: "OK", "HELP", "ERROR"

parserVars == <<build, layout, args, given, options, parsed>>

StringField == {"nic", "peer", "transport_id", "latency_log_file"}
NumberField == {"domain_id", "datalen", "exec_seconds", "pubrate",
                "latency_count", "sub_sleep_us"}
Flag == {"reliable", "latency_test", "print_every_second", "print_config",
         "latency_stream"}

\* the ranges of parse_int32_option, within int32_t
Legal(field, v) ==
  CASE field = "domain_id"    -> v \in 0 .. 232
    [] field = "pubrate"      -> v >= -1 /\ v # 0
    [] field = "sub_sleep_us" -> v >= 0
    [] OTHER                  -> v >= 1

\* an option may swallow the one that follows it as its value
Texts(field) ==
  CASE field = "nic"          -> {"eth0", "-sub"}
    [] field = "transport_id" -> Transport \ {"NULL"}
    [] OTHER                  -> {"text"}

\* perftest_lite_input_args_init
Defaults(b, z) ==
  [role |-> DefaultRole(b), nic |-> "lo", peer |-> "127.0.0.1",
   transport_id |-> DefaultTransport(b), latency_log_file |-> "NULL",
   domain_id |-> 0, datalen |-> DefaultSampleSize(b, z), exec_seconds |-> 10,
   pubrate |-> -1, latency_count |-> 10000, sub_sleep_us |-> 1000000,
   flags |-> {"print_config"}]

ParserInit ==
  /\ build \in Builds /\ layout \in Layouts
  /\ args = Defaults(build, layout)
  /\ given = {} /\ options = 0 /\ parsed = "no"

----------------------------------------------------------------------------
Parsing == parsed = "no" /\ options < MaxOptions

Set(field, v) ==
  /\ args' = [args EXCEPT ![field] = v]
  /\ given' = given \cup {field}
  /\ options' = options + 1
  /\ UNCHANGED <<build, layout, parsed>>

ParserReturns(result) ==
  /\ parsed' = result
  /\ UNCHANGED <<build, layout, args, given, options>>

RoleOption == Parsing /\ \E r \in {"pub", "sub"} : Set("role", r)

\* -noPrintConfig clears its flag, the others set theirs
FlagOption ==
  /\ Parsing
  /\ \E f \in Flag : Set("flags", IF f = "print_config" THEN args.flags \ {f}
                                  ELSE args.flags \cup {f})

StringOption ==
  /\ Parsing
  /\ \E field \in StringField : \E text \in Texts(field) : Set(field, text)

NumberOption ==
  /\ Parsing
  /\ \E field \in NumberField, v \in Values \cup {-1} :
       IF Legal(field, v) THEN Set(field, v) ELSE ParserReturns("ERROR")

\* an unknown option, one without its value, or a value that is no int32_t
BadOption == Parsing /\ ParserReturns("ERROR")

Help == Parsing /\ ParserReturns("HELP")

EndOfOptions == parsed = "no" /\ ParserReturns("OK")

Parse == RoleOption \/ FlagOption \/ StringOption \/ NumberOption
           \/ BadOption \/ Help \/ EndOfOptions
=============================================================================
