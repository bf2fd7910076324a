---------------------------- MODULE MCNativeCall ----------------------------
(* Small limits and children for checking NativeCall. *)
EXTENDS NativeCall

MCLimits == [native_calls |-> 2, native_output_bytes |-> 8,
             capture_bytes |-> 20, capture_files |-> 11]

MCDigits(n) == IF n < 5 THEN 1 ELSE 2

(* Children that fit, that fill both pipes, and that go beyond the limits on  *)
(* one stream or only on both together.                                       *)
MCPlans == {[stdout |-> out, stderr |-> err] : out \in {0, 1, 3, 5, 10}, err \in {0, 4}}
============================================================================
