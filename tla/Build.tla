------------------------------- MODULE Build -------------------------------
(***************************************************************************)
(* What CMakeLists.txt and the preprocessor settle before the program      *)
(* starts: the engines and the sample type compiled in, and the transports *)
(* that go with them.                                                      *)
(***************************************************************************)

\* pub, sub: PERFTEST_LITE_BUILD_PUB and _SUB; zcopy: the fixed-size type;
\* shmem, zerocopy: PERFTEST_LITE_HAS_MICRO_SHMEM and _ZEROCOPY
Builds ==
  {b \in [pub : BOOLEAN, sub : BOOLEAN,
          zcopy : BOOLEAN, shmem : BOOLEAN, zerocopy : BOOLEAN] :
     /\ b.pub \/ b.sub
     /\ b.shmem => ~b.zcopy
     /\ b.zerocopy => b.zcopy}

\* "NULL" is the null pointer, "SharedMem" any name that is no transport
Transport == {"NULL", "UDPv4", "SHMEM", "ZeroCopy", "SharedMem"}

\* micro_init's test of the transport id
TransportSupported(b, t) ==
  \/ t \in {"NULL", "UDPv4"}
  \/ t = "SHMEM" /\ b.shmem /\ ~b.zcopy
  \/ t = "ZeroCopy" /\ b.zerocopy /\ b.zcopy

\* mutant: the transport that the type could use, compiled in or not
DefaultTransportOfType(b) == IF b.zcopy THEN "ZeroCopy" ELSE "UDPv4"

DefaultTransport(b) == IF b.zerocopy THEN "ZeroCopy" ELSE "UDPv4"

DefaultRole(b) == IF b.pub THEN "pub" ELSE "sub"
=============================================================================
