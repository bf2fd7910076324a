------------------------------ MODULE Options ------------------------------
(***************************************************************************)
(* What a caller may ask of admission (src/src/lib.rs) and the two checks   *)
(* that are decided from the options alone: the byte cap and the number     *)
(* profile (src/src/number.rs).                                             *)
(*                                                                          *)
(* An options value is a record with the five fields of struct Options.     *)
(* max_bytes is a natural number or NoCap, the None of Option<usize>.       *)
(***************************************************************************)
EXTENDS Naturals

CONSTANTS
    MAX_SUPPORTED_DEPTH,  \* the ceiling of every depth cap
    DEFAULT_MAX_DEPTH,    \* the depth cap of Options::rfc8785
    DEFAULT_MAX_BYTES,    \* the byte cap of Options::rfc8785
    NoCap                 \* max_bytes = None

ASSUME DepthConstants ==
    /\ MAX_SUPPORTED_DEPTH \in Nat
    /\ DEFAULT_MAX_DEPTH \in 0..MAX_SUPPORTED_DEPTH
ASSUME ByteConstants ==
    /\ DEFAULT_MAX_BYTES \in Nat
    /\ NoCap \notin Nat

Policy == [max_depth            : 0..MAX_SUPPORTED_DEPTH,
           max_bytes            : Nat \cup {NoCap},
           safe_integers        : BOOLEAN,
           integers_only        : BOOLEAN,
           reject_noncharacters : BOOLEAN]

Rfc8785 == [max_depth            |-> DEFAULT_MAX_DEPTH,
            max_bytes            |-> DEFAULT_MAX_BYTES,
            safe_integers        |-> FALSE,
            integers_only        |-> FALSE,
            reject_noncharacters |-> FALSE]

Ijson == [Rfc8785 EXCEPT !.safe_integers = TRUE, !.reject_noncharacters = TRUE]

IjsonIntegers == [Ijson EXCEPT !.integers_only = TRUE]

WithMaxDepthUnclamped(opts, limit) == [opts EXCEPT !.max_depth = limit]

(* Options::max_depth: a request above the ceiling saturates. *)
WithMaxDepth(opts, limit) ==
    [opts EXCEPT !.max_depth = IF limit > MAX_SUPPORTED_DEPTH
                               THEN MAX_SUPPORTED_DEPTH
                               ELSE limit]

WithMaxBytes(opts, limit) == [opts EXCEPT !.max_bytes = limit]

(* Options::check_input_length refuses exactly these lengths. *)
TooLong(opts, len) == opts.max_bytes # NoCap /\ len > opts.max_bytes

(***************************************************************************)
(* number::check, on what it finds out about a token: whether its value is  *)
(* an integer, whether that magnitude reaches 2^53, and whether the token   *)
(* parses to a finite double.  The profile is consulted before finiteness.  *)
(***************************************************************************)
NumberClass == [integer : BOOLEAN, unsafe : BOOLEAN, finite : BOOLEAN]

NumberFault(n, opts) ==
    CASE opts.integers_only /\ ~n.integer            -> "NonIntegerNumber"
      [] opts.safe_integers /\ n.integer /\ n.unsafe -> "UnsafeInteger"
      [] OTHER -> IF n.finite THEN "none" ELSE "NonFiniteNumber"
============================================================================
