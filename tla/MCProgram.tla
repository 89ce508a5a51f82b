----------------------------- MODULE MCProgram -----------------------------
(* Values for Program's constants that a cfg file cannot write. *)
EXTENDS Program

\* defaults below, within and above what the type holds; a sequence type that
\* can and one that cannot hold a warm-up sample
MCLayouts ==
  {[max_payload |-> m, fixed |-> m + Overhead, datalen |-> n] :
     m \in {32, 2000}, n \in {10, 50, 3000}}

\* what an application may pass that the command line could not
MCApiArgs ==
  {[nic |-> "NULL"], [peer |-> "NULL", role |-> "sub"],
   [transport_id |-> "NULL", latency_count |-> 0],
   [datalen |-> 0], [datalen |-> 60, pubrate |-> 0]}
=============================================================================

