----------------------------- MODULE SampleType ----------------------------
(***************************************************************************)
(* The two sample types: type_default.c, a bounded sequence of octets, and *)
(* type_zcopy.c, a fixed array.  A sample is its kind and its reported     *)
(* size; a layout is what the IDL and the configuration compile in:        *)
(* max_payload (sequence), fixed (zcopy) and datalen, the default asked    *)
(* for.                                                                    *)
(***************************************************************************)
EXTENDS Build, Integers

Overhead == 28          \* PERFTEST_TYPE_OVERHEAD
InitSampleSize == 1234  \* PERFTEST_LITE_INIT_SAMPLE_SIZE

\* validate_input and set_sample_size accept the same sizes
SequenceSizeOK(z, n) == n >= Overhead /\ n - Overhead <= z.max_payload

FixedSizeOK(z, n) == n = z.fixed

SizeOK(b, z, n) == IF b.zcopy THEN FixedSizeOK(z, n) ELSE SequenceSizeOK(z, n)

\* mutant: the default asked for, whatever the type can hold
SequenceDefaultUnclamped(z) == z.datalen

SequenceDefault(z) ==
  IF z.datalen < Overhead THEN Overhead
  ELSE IF z.datalen - Overhead > z.max_payload THEN Overhead + z.max_payload
  ELSE z.datalen

DefaultSampleSize(b, z) == IF b.zcopy THEN z.fixed ELSE SequenceDefault(z)

\* a new sequence sample has its payload at full length
NewSample(b, z) ==
  [kind |-> "DATA",
   size |-> IF b.zcopy THEN z.fixed ELSE Overhead + z.max_payload]

\* a size the type refuses leaves the sample as it was
SetSampleSize(b, z, s, n) == IF SizeOK(b, z, n) THEN [s EXCEPT !.size = n] ELSE s

SetKind(s, k) == [s EXCEPT !.kind = k]

\* the zcopy type's copy_for_write: the metadata, not the payload
CopyForWrite(loaned, s) == [loaned EXCEPT !.kind = s.kind]
=============================================================================
