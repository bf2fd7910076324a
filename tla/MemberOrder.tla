---------------------------- MODULE MemberOrder ----------------------------
(***************************************************************************)
(* The order of an object's members (the serializer behind                   *)
(* src/src/delegate.rs, and the pinned Go writer): their names, compared as  *)
(* sequences of UTF-16 code units.  A name is the sequence of its Unicode    *)
(* code points.                                                              *)
(***************************************************************************)
EXTENDS Naturals, Sequences, SequencesExt

(* The UTF-16 code units of a code point. *)
Utf16(point) ==
    IF point < 65536
    THEN <<point>>
    ELSE <<55296 + ((point - 65536) \div 1024), 56320 + ((point - 65536) % 1024)>>

SortKey(name) == FlattenSeq([i \in 1..Len(name) |-> Utf16(name[i])])

(* key comes before other: at the first unit they differ in, or as a prefix.  *)
Before(key, other) ==
    \/ IsStrictPrefix(key, other)
    \/ \E q \in 1..Len(key) :
         /\ q <= Len(other)
         /\ key[q] < other[q]
         /\ \A p \in 1..(q - 1) : key[p] = other[p]

Member(name, value) == [name |-> name, value |-> value]
============================================================================
