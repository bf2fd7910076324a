-------------------------- MODULE JsonParserProofs --------------------------
(***************************************************************************)
(* The parser for every alphabet, document and option: its invariants, and   *)
(* that it admits exactly what JsonDerivation gives a value.                 *)
(*                                                                          *)
(* None of StackBounded, AdmittedNesting and MembersDistinct is inductive.  *)
(* IInv adds what connects them: pc agrees with the innermost frame         *)
(* (Control), and the frames agree with the brackets read so far (Tracked). *)
(*                                                                          *)
(* Sound says that what has been read is explained by the rules: every open  *)
(* frame is the beginning of a container they allow, and its values are      *)
(* derived.  Faithful says the converse: if the rules give the document a    *)
(* value, every open frame is a container of that value's derivation, read   *)
(* up to an entry of it, and what the parser expects next is what comes      *)
(* next.  Together they make the parser implement Admission.                 *)
(***************************************************************************)
EXTENDS JsonParser, JsonDerivation, FiniteSetTheorems, SequenceTheorems, TLAPS

Control ==
    /\ pc \in {"length", "end"} => open = <<>>
    /\ pc \in {"first", "next"} => Depth > 0
    /\ pc \in {"name", "colon"} => InObject
    /\ result.status = "parsed" => open = <<>> /\ AtEnd

Within(document, n, cap) ==
    /\ Closers(document, n) <= Openers(document, n)
    /\ Openers(document, n) <= Closers(document, n) + cap

Tracked ==
    /\ Openers(input, at) = Closers(input, at) + Depth
    /\ \A n \in 0..at : Within(input, n, opts.max_depth)

IInv == TypeOK /\ Control /\ Depth <= opts.max_depth /\ Tracked /\ MembersDistinct

----------------------------------------------------------------------------
(* Counting one more lexeme.                                                *)

(* A set of positions up to n, and what it becomes with position n + 1.      *)
LEMMA CountStep ==
    ASSUME NEW n \in Nat, NEW Old, NEW New,
           Old \subseteq 1..n, New \subseteq 1..(n + 1),
           \A i \in 1..n : i \in New <=> i \in Old
    PROVE  /\ Cardinality(Old) \in Nat
           /\ Cardinality(New) = Cardinality(Old) + (IF n + 1 \in New THEN 1 ELSE 0)
<1>1. IsFiniteSet(Old) /\ Cardinality(Old) \in Nat
  <2>1. IsFiniteSet(1..n)
    BY FS_Interval
  <2> QED
    BY <2>1, FS_Subset, FS_CardinalityType
<1>2. CASE n + 1 \in New
  <2>1. New = Old \cup {n + 1}
    <3>1. New \subseteq Old \cup {n + 1}
      OBVIOUS
    <3>2. Old \cup {n + 1} \subseteq New
      BY <1>2
    <3> QED
      BY <3>1, <3>2
  <2>2. n + 1 \notin Old
    OBVIOUS
  <2>3. Cardinality(New) = Cardinality(Old) + 1
    BY <1>1, <2>1, <2>2, FS_AddElement
  <2> QED
    BY <1>1, <1>2, <2>3
<1>3. CASE n + 1 \notin New
  <2>1. New = Old
    <3>1. New \subseteq Old
      BY <1>3
    <3>2. Old \subseteq New
      OBVIOUS
    <3> QED
      BY <3>1, <3>2
  <2> QED
    BY <1>1, <1>3, <2>1
<1> QED
  BY <1>2, <1>3

(* The brackets of a document, counted one lexeme further. *)
LEMMA BracketStep ==
    ASSUME NEW document, NEW n \in Nat
    PROVE  /\ Openers(document, n) \in Nat
           /\ Closers(document, n) \in Nat
           /\ Openers(document, n + 1) = Openers(document, n)
                + (IF IsOpener(document[n + 1]) THEN 1 ELSE 0)
           /\ Closers(document, n + 1) = Closers(document, n)
                + (IF IsCloser(document[n + 1]) THEN 1 ELSE 0)
<1> DEFINE O(m) == {i \in 1..m : IsOpener(document[i])}
           C(m) == {i \in 1..m : IsCloser(document[i])}
<1>1. /\ O(n) \subseteq 1..n /\ O(n + 1) \subseteq 1..(n + 1)
      /\ \A i \in 1..n : i \in O(n + 1) <=> i \in O(n)
      /\ n + 1 \in O(n + 1) <=> IsOpener(document[n + 1])
  OBVIOUS
<1>2. /\ C(n) \subseteq 1..n /\ C(n + 1) \subseteq 1..(n + 1)
      /\ \A i \in 1..n : i \in C(n + 1) <=> i \in C(n)
      /\ n + 1 \in C(n + 1) <=> IsCloser(document[n + 1])
  OBVIOUS
<1>3. /\ Openers(document, n) = Cardinality(O(n))
      /\ Openers(document, n + 1) = Cardinality(O(n + 1))
      /\ Closers(document, n) = Cardinality(C(n))
      /\ Closers(document, n + 1) = Cardinality(C(n + 1))
  BY DEF Openers, Closers
<1> HIDE DEF O, C
<1>4. /\ Cardinality(O(n)) \in Nat
      /\ Cardinality(O(n + 1)) =
           Cardinality(O(n)) + (IF n + 1 \in O(n + 1) THEN 1 ELSE 0)
  BY <1>1, CountStep
<1>5. /\ Cardinality(C(n)) \in Nat
      /\ Cardinality(C(n + 1)) =
           Cardinality(C(n)) + (IF n + 1 \in C(n + 1) THEN 1 ELSE 0)
  BY <1>2, CountStep
<1> QED
  BY <1>1, <1>2, <1>3, <1>4, <1>5

(* Before the first lexeme nothing is open or closed. *)
LEMMA NoBrackets ==
    ASSUME NEW document
    PROVE  Openers(document, 0) = 0 /\ Closers(document, 0) = 0
BY FS_EmptySet DEF Openers, Closers

----------------------------------------------------------------------------
(* Reading one lexeme.                                                      *)

(* Consuming the current lexeme keeps Tracked when the frames gain one for   *)
(* an opener, lose one for a closer, and keep their number otherwise.        *)
LEMMA Advance ==
    ASSUME TypeOK, TypeOK', Depth <= opts.max_depth, Tracked,
           at < Len(input), at' = at + 1, UNCHANGED <<input, opts>>,
           Depth' <= opts.max_depth,
           Depth' = IF IsOpener(input[at + 1]) THEN Depth + 1
                    ELSE IF IsCloser(input[at + 1]) THEN Depth - 1 ELSE Depth
    PROVE  Tracked'
<1>1. /\ at \in Nat
      /\ Depth \in Nat
      /\ Depth' \in Nat
      /\ opts.max_depth \in Nat
  BY DEF TypeOK, Depth, Policy
<1>2. /\ Openers(input, at) \in Nat
      /\ Closers(input, at) \in Nat
      /\ Openers(input, at + 1) = Openers(input, at)
           + (IF IsOpener(input[at + 1]) THEN 1 ELSE 0)
      /\ Closers(input, at + 1) = Closers(input, at)
           + (IF IsCloser(input[at + 1]) THEN 1 ELSE 0)
  BY <1>1, BracketStep
<1>3. ~(IsOpener(input[at + 1]) /\ IsCloser(input[at + 1]))
  BY DEF IsOpener, IsCloser
<1>4. Openers(input, at + 1) = Closers(input, at + 1) + Depth'
  BY <1>1, <1>2, <1>3 DEF Tracked
<1>5. Closers(input, at + 1) \in Nat /\ Openers(input, at + 1) \in Nat
  BY <1>1, <1>2
<1>6. Within(input, at + 1, opts.max_depth)
  BY <1>1, <1>4, <1>5 DEF Within
<1>7. \A n \in 0..(at + 1) : Within(input, n, opts.max_depth)
  <2> SUFFICES ASSUME NEW n \in 0..(at + 1)
               PROVE  Within(input, n, opts.max_depth)
    OBVIOUS
  <2>1. n \in 0..at \/ n = at + 1
    BY <1>1
  <2> QED
    BY <2>1, <1>6 DEF Tracked
<1>8. /\ Openers(input', at') = Closers(input', at') + Depth'
      /\ \A n \in 0..at' : Within(input', n, (opts.max_depth)')
  BY <1>4, <1>7
<1> QED
  BY <1>8 DEF Tracked

(* A step that consumes nothing and opens or closes nothing keeps Tracked.   *)
LEMMA Stay ==
    ASSUME Tracked, UNCHANGED <<input, opts, at, open>>
    PROVE  Tracked'
BY DEF Tracked, Depth

(* Return hands over exactly the frames above, and where to go on depends on *)
(* whether there are any.                                                    *)
LEMMA Returned ==
    ASSUME NEW node, NEW above, NEW values, Return(node, above, values)
    PROVE  open' = above /\ pc' = IF above = <<>> THEN "end" ELSE "next"
BY DEF Return

----------------------------------------------------------------------------
LEMMA InitInv == Init => IInv
<1> SUFFICES ASSUME Init PROVE IInv
  OBVIOUS
<1>1. PICK request \in Requests : opts = Configured(request)
  BY DEF Init
<1>2. opts \in Policy /\ opts.max_depth \in Nat
  BY <1>1, RequestsAssumption, DepthConstants
     DEF Configured, WithMaxDepth, Request, Policy
<1>3. input \in Seq(Lexeme) /\ Len(input) \in Nat
  BY InputsAssumption DEF Init
<1>4. TypeOK
  BY <1>2, <1>3 DEF Init, TypeOK, PcValues
<1>5. Depth = 0
  BY DEF Init, Depth
<1>6. Control /\ MembersDistinct /\ Depth <= opts.max_depth
  BY <1>2, <1>5 DEF Init, Control, MembersDistinct
<1>7. Tracked
  BY <1>2, <1>5, NoBrackets DEF Init, Tracked, Within
<1> QED
  BY <1>4, <1>6, <1>7 DEF IInv

----------------------------------------------------------------------------
(* The ways a step changes the frames.                                      *)

(* Nothing is consumed and no frame changes. *)
LEMMA Quiet ==
    ASSUME IInv, UNCHANGED <<input, opts, at, open>>,
           pc' \in PcValues, Control',
           result'.status \in {"parsing", "parsed", "refused"},
           result'.status = "refused" => result'.class \in ErrorClasses,
           result'.status = "parsing" <=> pc' # "done"
    PROVE  IInv'
<1>1. TypeOK'
  BY DEF IInv, TypeOK
<1>2. Tracked'
  BY Stay DEF IInv
<1>3. MembersDistinct' /\ (Depth <= opts.max_depth)'
  BY DEF IInv, MembersDistinct, Depth
<1> QED
  BY <1>1, <1>2, <1>3 DEF IInv

(* A refusal. *)
LEMMA Refusing ==
    ASSUME IInv, NEW class \in ErrorClasses, Refuse(class) \/ RefuseAt(class)
    PROVE  IInv'
<1>1. /\ UNCHANGED <<input, opts, at, open>>
      /\ pc' = "done"
      /\ result'.status = "refused"
      /\ result'.class = class
  BY DEF Refuse, RefuseAt
<1>2. Control'
  BY <1>1 DEF Control
<1> QED
  BY <1>1, <1>2, Quiet DEF PcValues

(* A lexeme that is no bracket is consumed and no frame changes. *)
LEMMA Consuming ==
    ASSUME IInv, at < Len(input),
           ~IsOpener(input[at + 1]), ~IsCloser(input[at + 1]),
           at' = at + 1, UNCHANGED <<input, opts, open, result>>,
           pc # "done", pc' \in PcValues, pc' # "done", Control'
    PROVE  IInv'
<1>1. TypeOK'
  BY DEF IInv, TypeOK
<1>2. Depth' = Depth
  BY DEF Depth
<1>3. (Depth <= opts.max_depth)'
  BY <1>2 DEF IInv
<1>4. Tracked'
  BY <1>1, <1>2, <1>3, Advance DEF IInv
<1>5. MembersDistinct'
  BY DEF IInv, MembersDistinct, Depth
<1> QED
  BY <1>1, <1>3, <1>4, <1>5 DEF IInv

(* A value one lexeme long. *)
LEMMA Scalar ==
    ASSUME IInv, NEW node, at < Len(input),
           ~IsOpener(input[at + 1]), ~IsCloser(input[at + 1]),
           pc = "value", ReturnScalar(node)
    PROVE  IInv'
<1>1. /\ at' = at + 1
      /\ UNCHANGED <<input, opts, open, result>>
      /\ pc' = IF open = <<>> THEN "end" ELSE "next"
  BY Returned DEF ReturnScalar
<1>2. result.status = "parsing"
  BY DEF IInv, TypeOK
<1>3. open \in Seq(Frame)
  BY DEF IInv, TypeOK
<1>4. Control'
  BY <1>1, <1>2, <1>3 DEF Control, Depth
<1> QED
  BY <1>1, <1>4, Consuming DEF PcValues

(* A container opens below the cap. *)
LEMMA Opening ==
    ASSUME IInv, NEW opener \in {"openArray", "openObject"}, NEW kind \in {"array", "object"},
           Open(opener, kind), ~DepthExhausted
    PROVE  IInv'
<1> DEFINE fresh == [kind |-> kind, seen |-> {}, names |-> <<>>]
<1>1. /\ pc = "value"
      /\ at < Len(input)
      /\ input[at + 1].kind = opener
      /\ open' = Append(open, fresh)
      /\ at' = at + 1
      /\ pc' = "first"
      /\ UNCHANGED <<input, opts, result>>
  BY DEF Open, Peek
<1>2. TypeOK
  BY DEF IInv
<1>3. fresh \in Frame
  BY DEF Frame
<1>4. /\ open' \in Seq(Frame)
      /\ Depth' = Depth + 1
      /\ Depth \in Nat
      /\ \A i \in 1..Depth : open'[i] = open[i]
      /\ open'[Depth + 1] = fresh
  BY <1>1, <1>2, <1>3 DEF TypeOK, Depth
<1>5. TypeOK'
  BY <1>1, <1>2, <1>4 DEF TypeOK, PcValues
<1>6. (Depth <= opts.max_depth)'
  BY <1>1, <1>2, <1>4 DEF DepthExhausted, TypeOK, Policy
<1>7. IsOpener(input[at + 1])
  BY <1>1 DEF IsOpener
<1>8. Tracked'
  BY <1>1, <1>2, <1>4, <1>5, <1>6, <1>7, Advance DEF IInv
<1>9. Control'
  BY <1>1, <1>2, <1>4 DEF Control, TypeOK
<1>10. MembersDistinct'
  <2>1. Distinct(fresh)
    BY DEF Distinct
  <2>2. \A i \in 1..Depth' : Distinct(open'[i])
    BY <1>4, <2>1 DEF IInv, MembersDistinct
  <2> QED
    BY <2>2 DEF MembersDistinct
<1> QED
  BY <1>5, <1>6, <1>8, <1>9, <1>10 DEF IInv

(* The innermost container closes. *)
LEMMA Closing ==
    ASSUME IInv, pc \in {"first", "next"}, AtCloser, Close
    PROVE  IInv'
<1> DEFINE outer == SubSeq(open, 1, Depth - 1)
<1>1. TypeOK
  BY DEF IInv
<1>2. Depth \in Nat /\ Depth > 0
  <2>1. Depth > 0
    BY DEF AtCloser, InArray, InObject
  <2> QED
    BY <1>1, <2>1 DEF TypeOK, Depth
<1>3. /\ outer \in Seq(Frame)
      /\ Len(outer) = Depth - 1
      /\ \A i \in 1..(Depth - 1) : outer[i] = open[i]
  <2>1. open \in Seq(Frame)
    BY <1>1 DEF TypeOK
  <2> QED
    <3>1. /\ 1 \in Int /\ Depth - 1 \in Int
          /\ \A i \in 1..(Depth - 1) : open[i] \in Frame
      BY <1>2, <2>1 DEF Depth
    <3>2. /\ outer \in Seq(Frame)
          /\ Len(outer) = IF 1 <= Depth - 1 THEN (Depth - 1) - 1 + 1 ELSE 0
          /\ \A i \in 1..((Depth - 1) - 1 + 1) : outer[i] = open[1 + i - 1]
      BY <3>1, SubSeqProperties
    <3> QED
      BY <1>2, <3>2
<1>4. /\ open' = outer
      /\ pc' = IF outer = <<>> THEN "end" ELSE "next"
      /\ at' = at + 1
      /\ UNCHANGED <<input, opts, result>>
  BY Returned DEF Close
<1>5. Depth' = Depth - 1
  BY <1>3, <1>4 DEF Depth
<1>6. at < Len(input) /\ IsCloser(input[at + 1]) /\ ~IsOpener(input[at + 1])
  BY DEF AtCloser, Peek, IsCloser, IsOpener
<1>7. TypeOK'
  BY <1>1, <1>3, <1>4, <1>6 DEF TypeOK, PcValues
<1>8. (Depth <= opts.max_depth)'
  BY <1>1, <1>2, <1>4, <1>5 DEF IInv, TypeOK, Policy
<1>9. Tracked'
  BY <1>1, <1>4, <1>5, <1>6, <1>7, <1>8, Advance DEF IInv
<1>10. Control'
  <2>1. result.status = "parsing"
    BY <1>1 DEF TypeOK
  <2>2. outer # <<>> => Depth' > 0
    BY <1>2, <1>3, <1>5
  <2> QED
    BY <1>4, <2>1, <2>2 DEF Control
<1>11. MembersDistinct'
  BY <1>2, <1>3, <1>4, <1>5 DEF IInv, MembersDistinct
<1> QED
  BY <1>7, <1>8, <1>9, <1>10, <1>11 DEF IInv

(* A frame with one more name. *)
LEMMA NamedFrame ==
    ASSUME NEW frame \in Frame, NEW name \in Names
    PROVE  /\ Named(frame, name) \in Frame
           /\ Named(frame, name).kind = frame.kind
           /\ Named(frame, name).seen = frame.seen \cup {name}
           /\ Named(frame, name).names = Append(frame.names, name)
<1>1. frame.names \in Seq(Names)
  BY DEF Frame
<1>2. Append(frame.names, name) \in Seq(Names)
  BY <1>1
<1> QED
  BY <1>2 DEF Named, Frame

(* A name that is not in seen can be added: the names stay distinct, and     *)
(* seen stays the set of them.                                               *)
LEMMA NamedDistinct ==
    ASSUME NEW frame \in Frame, NEW name \in Names,
           Distinct(frame), name \notin frame.seen
    PROVE  Distinct(Named(frame, name))
<1> DEFINE n     == Len(frame.names)
           names == Named(frame, name).names
<1>1. frame.names \in Seq(Names) /\ n \in Nat
  BY DEF Frame
<1>2. names = Append(frame.names, name)
  BY NamedFrame
<1>3. /\ Len(names) = n + 1
      /\ \A j \in 1..n : names[j] = frame.names[j]
      /\ names[n + 1] = name
  BY <1>1, <1>2
<1>4. \A j \in 1..n : frame.names[j] # name
  BY DEF Distinct
<1> HIDE DEF n, names
<1>5. \A j, k \in 1..Len(names) : names[j] = names[k] => j = k
  <2> SUFFICES ASSUME NEW j \in 1..(n + 1), NEW k \in 1..(n + 1),
                      names[j] = names[k]
               PROVE  j = k
    BY <1>3
  <2>1. CASE j \in 1..n /\ k \in 1..n
    BY <1>3, <2>1 DEF Distinct, n
  <2>2. CASE j = n + 1 \/ k = n + 1
    BY <1>1, <1>3, <1>4, <2>2
  <2> QED
    BY <1>1, <2>1, <2>2
<1>6. Named(frame, name).seen = {names[j] : j \in 1..Len(names)}
  <2>1. Named(frame, name).seen = frame.seen \cup {name}
    BY NamedFrame
  <2>2. frame.seen = {frame.names[j] : j \in 1..n}
    BY DEF Distinct, n
  <2>3. frame.seen \cup {name} \subseteq {names[j] : j \in 1..(n + 1)}
    BY <1>1, <1>3, <2>2
  <2>4. {names[j] : j \in 1..(n + 1)} \subseteq frame.seen \cup {name}
    BY <1>1, <1>3, <2>2
  <2> QED
    BY <1>3, <2>1, <2>3, <2>4
<1> QED
  BY <1>5, <1>6 DEF Distinct, names

(* A member name that repeats none of the names before it.                   *)
LEMMA Naming ==
    ASSUME IInv, pc = "name", Peek("str"),
           ~Repeats(input[at + 1]),
           open' = [open EXCEPT ![Depth] = Named(@, input[at + 1].name)],
           at' = at + 1, pc' = "colon", UNCHANGED <<input, opts, result>>
    PROVE  IInv'
<1> DEFINE old  == open[Depth]
           name == input[at + 1].name
<1>1. TypeOK /\ Control
  BY DEF IInv
<1>2. InObject /\ Depth \in Nat /\ Depth > 0
  BY <1>1 DEF Control, TypeOK, Depth, InObject
<1>3. /\ at < Len(input) /\ input[at + 1] \in Lexeme
      /\ input[at + 1].kind = "str"
  BY <1>1 DEF Peek, TypeOK
<1>4. name \in Names
  BY <1>3 DEF Lexeme, PunctKinds
<1>5. old \in Frame /\ old.kind = "object" /\ name \notin old.seen
  BY <1>1, <1>2 DEF TypeOK, Depth, InObject, Innermost, Repeats
<1>6. /\ Named(old, name) \in Frame
      /\ Named(old, name).kind = "object"
      /\ Distinct(Named(old, name))
  BY <1>2, <1>4, <1>5, NamedFrame, NamedDistinct DEF IInv, MembersDistinct
<1> HIDE DEF name
<1>7. /\ open' \in Seq(Frame)
      /\ Depth' = Depth
      /\ open'[Depth] = Named(old, name)
      /\ \A i \in 1..Depth : i # Depth => open'[i] = open[i]
  BY <1>1, <1>2, <1>6 DEF TypeOK, Depth, name
<1>8. TypeOK'
  BY <1>1, <1>3, <1>7 DEF TypeOK, PcValues
<1>9. (Depth <= opts.max_depth)'
  BY <1>7 DEF IInv
<1>10. ~IsOpener(input[at + 1]) /\ ~IsCloser(input[at + 1])
  BY <1>3 DEF IsOpener, IsCloser
<1>11. Tracked'
  BY <1>3, <1>7, <1>8, <1>9, <1>10, Advance DEF IInv
<1>12. Control'
  <2>1. result.status = "parsing"
    BY <1>1 DEF TypeOK
  <2>2. InObject'
    BY <1>2, <1>6, <1>7 DEF InObject, Innermost, Depth
  <2> QED
    BY <2>1, <2>2 DEF Control
<1>13. MembersDistinct'
  BY <1>6, <1>7 DEF IInv, MembersDistinct
<1> QED
  BY <1>8, <1>9, <1>11, <1>12, <1>13 DEF IInv

----------------------------------------------------------------------------
(* One step per action. *)
LEMMA StepInv == IInv /\ [Next]_vars => IInv'
<1> SUFFICES ASSUME IInv, [Next]_vars PROVE IInv'
  OBVIOUS
<1>1. TypeOK /\ Control
  BY DEF IInv
<1>2. /\ pc # "done" => result.status = "parsing"
      /\ \A kind \in {"ws", "bad", "word", "num", "str", "comma", "colon"} :
           Peek(kind) => /\ at < Len(input)
                         /\ ~IsOpener(input[at + 1])
                         /\ ~IsCloser(input[at + 1])
  BY <1>1 DEF TypeOK, Peek, IsOpener, IsCloser
<1>3. CASE CheckLength
  <2>1. CASE TooLong(opts, Len(input))
    BY <1>3, <2>1, Refusing DEF CheckLength, ErrorClasses
  <2>2. CASE ~TooLong(opts, Len(input))
    <3>1. pc' = "value" /\ UNCHANGED <<input, opts, at, open, result>>
      BY <1>3, <2>2 DEF CheckLength
    <3> QED
      BY <1>1, <1>2, <1>3, <3>1, Quiet DEF CheckLength, Control, TypeOK, PcValues
  <2> QED
    BY <2>1, <2>2
<1>4. CASE SkipWs
  <2>1. Control'
    BY <1>1, <1>2, <1>4 DEF SkipWs, Control, InObject, Innermost, Depth
  <2> QED
    BY <1>2, <1>4, <2>1, Consuming DEF SkipWs, PcValues
<1>5. CASE NoValue
  BY <1>5, Refusing DEF NoValue, ErrorClasses
<1>6. CASE Word
  BY <1>2, <1>6, Scalar DEF Word
<1>7. CASE Number
  <2> DEFINE fault == NumberFault(input[at + 1].class, opts)
  <2>1. CASE fault = "none"
    BY <1>2, <1>7, <2>1, Scalar DEF Number
  <2>2. CASE fault # "none"
    <3>1. fault \in ErrorClasses
      BY <2>2 DEF NumberFault, ErrorClasses
    <3> QED
      BY <1>7, <2>2, <3>1, Refusing DEF Number
  <2> QED
    BY <2>1, <2>2
<1>8. StringFault(input[at + 1]) \in StringFaults \/ ~Peek("str")
  BY <1>1 DEF StringFault, StringFaults, Peek, TypeOK, Lexeme, PunctKinds
<1>9. CASE StringValue
  <2> DEFINE fault == StringFault(input[at + 1])
  <2>1. CASE fault = "none"
    BY <1>2, <1>9, <2>1, Scalar DEF StringValue
  <2>2. CASE fault # "none"
    <3>1. fault \in ErrorClasses
      BY <1>8, <1>9, <2>2 DEF StringValue, StringFaults, ErrorClasses
    <3> QED
      BY <1>9, <2>2, <3>1, Refusing DEF StringValue
  <2> QED
    BY <2>1, <2>2
<1>10. CASE OpenArray
  <2>1. CASE DepthExhausted
    BY <1>10, <2>1, Refusing DEF OpenArray, Open, ErrorClasses
  <2>2. CASE ~DepthExhausted
    BY <1>10, <2>2, Opening DEF OpenArray
  <2> QED
    BY <2>1, <2>2
<1>11. CASE OpenObject
  <2>1. CASE DepthExhausted
    BY <1>11, <2>1, Refusing DEF OpenObject, Open, ErrorClasses
  <2>2. CASE ~DepthExhausted
    BY <1>11, <2>2, Opening DEF OpenObject
  <2> QED
    BY <2>1, <2>2
<1>12. CASE CloseEmpty
  BY <1>12, Closing DEF CloseEmpty
<1>13. CASE StartLoop
  <2>1. /\ pc' \in {"name", "value"}
        /\ pc' = "name" => InObject
        /\ pc = "first"
        /\ UNCHANGED <<input, opts, at, open, result>>
    BY <1>13 DEF StartLoop
  <2>2. Control'
    BY <1>1, <1>2, <2>1 DEF Control, InObject, Innermost, Depth
  <2> QED
    BY <1>1, <1>2, <2>1, <2>2, Quiet DEF TypeOK, PcValues
<1>14. CASE NoName
  BY <1>14, Refusing DEF NoName, ErrorClasses
<1>15. CASE MemberName
  <2> DEFINE fault == StringFault(input[at + 1])
  <2>1. CASE fault # "none"
    <3>1. fault \in ErrorClasses
      BY <1>8, <1>15, <2>1 DEF MemberName, StringFaults, ErrorClasses
    <3> QED
      BY <1>15, <2>1, <3>1, Refusing DEF MemberName
  <2>2. CASE fault = "none" /\ Repeats(input[at + 1])
    BY <1>15, <2>2, Refusing DEF MemberName, ErrorClasses
  <2>3. CASE fault = "none" /\ ~Repeats(input[at + 1])
    BY <1>15, <2>3, Naming DEF MemberName
  <2> QED
    BY <2>1, <2>2, <2>3
<1>16. CASE Colon
  <2>1. CASE Peek("colon")
    <3>1. /\ pc = "colon" /\ pc' = "value" /\ at' = at + 1
          /\ UNCHANGED <<input, opts, open, result>>
      BY <1>16, <2>1 DEF Colon
    <3>2. Control'
      BY <1>2, <3>1 DEF Control
    <3> QED
      BY <1>2, <2>1, <3>1, <3>2, Consuming DEF PcValues
  <2>2. CASE ~Peek("colon")
    BY <1>16, <2>2, Refusing DEF Colon, ErrorClasses
  <2> QED
    BY <2>1, <2>2
<1>17. CASE Comma
  <2>1. /\ pc = "next" /\ pc' \in {"name", "value"} /\ at' = at + 1
        /\ pc' = "name" => InObject
        /\ UNCHANGED <<input, opts, open, result>>
    BY <1>17 DEF Comma
  <2>2. Control'
    BY <1>2, <2>1 DEF Control, InObject, Innermost, Depth
  <2> QED
    BY <1>2, <1>17, <2>1, <2>2, Consuming DEF Comma, PcValues
<1>18. CASE CloseFull
  BY <1>18, Closing DEF CloseFull
<1>19. CASE NoSeparator
  BY <1>19, Refusing DEF NoSeparator, ErrorClasses
<1>20. CASE EndDocument
  <2>1. CASE AtEnd
    <3>1. /\ pc = "end" /\ pc' = "done" /\ result'.status = "parsed"
          /\ UNCHANGED <<input, opts, at, open>>
      BY <1>20, <2>1 DEF EndDocument
    <3>2. Control'
      BY <1>1, <2>1, <3>1 DEF Control, AtEnd
    <3> QED
      BY <3>1, <3>2, Quiet DEF PcValues
  <2>2. CASE ~AtEnd
    BY <1>20, <2>2, Refusing DEF EndDocument, ErrorClasses
  <2> QED
    BY <2>1, <2>2
<1>21. CASE UNCHANGED vars
  <2>1. Control'
    BY <1>1, <1>21 DEF vars, Control, InObject, Innermost, Depth, AtEnd
  <2> QED
    BY <1>1, <1>21, <2>1, Quiet DEF vars, TypeOK
<1> QED
  BY <1>3, <1>4, <1>5, <1>6, <1>7, <1>9, <1>10, <1>11, <1>12, <1>13, <1>14,
     <1>15, <1>16, <1>17, <1>18, <1>19, <1>20, <1>21 DEF Next

----------------------------------------------------------------------------
(* IInv holds in every reachable state. *)
LEMMA Invariant == Spec => []IInv
BY InitInv, StepInv, PTL DEF Spec

(* Whatever options a caller builds, the options in force carry a depth cap  *)
(* no higher than the ceiling, and the parser's state keeps its shape        *)
(* (Options::max_depth, Parser).                                             *)
THEOREM TypeCorrect == Spec => []TypeOK
<1>1. IInv => TypeOK
  BY DEF IInv
<1> QED
  BY <1>1, Invariant, PTL

(* The recursion is never deeper than the cap nor than the ceiling sized     *)
(* against the stack (Parser::enter, MAX_SUPPORTED_DEPTH).                   *)
THEOREM RecursionBounded == Spec => []StackBounded
<1>1. IInv => StackBounded
  <2> SUFFICES ASSUME IInv PROVE StackBounded
    OBVIOUS
  <2>1. /\ opts.max_depth \in 0..MAX_SUPPORTED_DEPTH
        /\ Depth \in Nat
        /\ Depth <= opts.max_depth
    BY DEF IInv, TypeOK, Policy, Depth
  <2> QED
    BY <2>1, DepthConstants DEF StackBounded
<1> QED
  BY <1>1, Invariant, PTL

(* An admitted document was read to its end, with balanced brackets that are *)
(* nowhere nested past the cap (Parser::document, Parser::enter).            *)
THEOREM AdmittedIsNested == Spec => []AdmittedNesting
<1>1. IInv => AdmittedNesting
  <2> SUFFICES ASSUME IInv, result.status = "parsed" PROVE AdmittedNesting
    BY DEF AdmittedNesting
  <2>1. AtEnd /\ Depth = 0
    BY DEF IInv, Control, Depth
  <2>2. at = Len(input) /\ Len(input) \in Nat
    BY <2>1 DEF AtEnd, IInv, TypeOK
  <2>3. Closers(input, Len(input)) \in Nat
    BY <2>2, BracketStep
  <2>4. Openers(input, Len(input)) = Closers(input, Len(input))
    BY <2>1, <2>2, <2>3 DEF IInv, Tracked
  <2>5. \A n \in 0..Len(input) : Within(input, n, opts.max_depth)
    BY <2>2 DEF IInv, Tracked
  <2> QED
    BY <2>1, <2>4, <2>5 DEF AdmittedNesting, Within
<1> QED
  BY <1>1, Invariant, PTL

(* No object is ever built with two members of one decoded name, and the set *)
(* the parser compares with is the names it has read (Parser::object).       *)
THEOREM NoRepeatedMember == Spec => []MembersDistinct
<1>1. IInv => MembersDistinct
  BY DEF IInv
<1> QED
  BY <1>1, Invariant, PTL

----------------------------------------------------------------------------
(* Derivations, one rule at a time.                                          *)

(* The sub-values of a container that is Complete. *)
Derived(document, policy, level, values, cuts) ==
    \A k \in 1..cuts.count :
       Derives(document, policy, level + 1, cuts.starts[k], cuts.ends[k], values[k])

LEMMA Grown ==
    ASSUME NEW document, NEW policy, NEW D, NEW E, D \subseteq E, NEW v,
           Container(document, policy, D, v)
    PROVE  Container(document, policy, E, v)
BY DEF Container

LEMMA AtomicDerives ==
    ASSUME NEW document, NEW policy, NEW level, NEW from, NEW to, NEW node,
           Atomic(document, policy, Span(level, from, to, node))
    PROVE  Derives(document, policy, level, from, to, node)
<1>1. Derivation(document, policy, {Span(level, from, to, node)})
  BY DEF Derivation
<1> QED BY <1>1 DEF Derives

LEMMA CompleteDerives ==
    ASSUME NEW document, NEW policy, NEW level, NEW from, NEW to, NEW node,
           NEW kind \in {"array", "object"}, NEW names, NEW values, NEW cuts, Cuts(cuts),
           Complete(document, policy, Span(level, from, to, node), kind, names, values, cuts),
           Derived(document, policy, level, values, cuts)
    PROVE  Derives(document, policy, level, from, to, node)
<1> DEFINE v == Span(level, from, to, node)
           Of(k) == CHOOSE D : Derivation(document, policy, D) /\ Part(level, values, cuts, k) \in D
           parts == UNION {Of(k) : k \in 1..cuts.count}
<1>1. ASSUME NEW k \in 1..cuts.count
      PROVE  Derivation(document, policy, Of(k)) /\ Part(level, values, cuts, k) \in Of(k)
  BY <1>1 DEF Derived, Derives, Part
<1>2. \A k \in 1..cuts.count : Of(k) \subseteq {v} \cup parts
  OBVIOUS
<1> HIDE DEF Of
<1>3. Derivation(document, policy, {v} \cup parts)
  <2> SUFFICES ASSUME NEW w \in {v} \cup parts
               PROVE  Atomic(document, policy, w) \/ Container(document, policy, {v} \cup parts, w)
    BY DEF Derivation
  <2>1. CASE w = v
    <3>1. \A k \in 1..cuts.count : Part(level, values, cuts, k) \in {v} \cup parts
      BY <1>1, <1>2
    <3>2. v.level = level
      BY DEF Span
    <3> QED BY <2>1, <3>1, <3>2 DEF Container
  <2>2. CASE w \in parts
    <3>1. PICK k \in 1..cuts.count : w \in Of(k)
      BY <2>2
    <3>2. Atomic(document, policy, w) \/ Container(document, policy, Of(k), w)
      BY <1>1, <3>1 DEF Derivation
    <3>3. Of(k) \subseteq {v} \cup parts
      BY <1>2
    <3> HIDE DEF parts, v
    <3> QED BY <3>2, <3>3, Grown
  <2> QED BY <2>1, <2>2
<1>4. v \in {v} \cup parts
  OBVIOUS
<1> QED BY <1>3, <1>4 DEF Derives

LEMMA Inverted ==
    ASSUME NEW document, NEW policy, NEW level, NEW from, NEW to, NEW node,
           Derives(document, policy, level, from, to, node)
    PROVE  \/ Atomic(document, policy, Span(level, from, to, node))
           \/ \E kind \in {"array", "object"} : \E names, values, cuts :
                /\ Cuts(cuts)
                /\ Complete(document, policy, Span(level, from, to, node), kind, names, values, cuts)
                /\ Derived(document, policy, level, values, cuts)
<1> DEFINE v == Span(level, from, to, node)
<1>1. PICK D : Derivation(document, policy, D) /\ v \in D
  BY DEF Derives
<1>2. Atomic(document, policy, v) \/ Container(document, policy, D, v)
  BY <1>1 DEF Derivation
<1>3. CASE Container(document, policy, D, v)
  <2>1. PICK kind \in {"array", "object"} : \E names, values, cuts :
          /\ Cuts(cuts)
          /\ Complete(document, policy, v, kind, names, values, cuts)
          /\ \A k \in 1..cuts.count : Part(v.level, values, cuts, k) \in D
    BY <1>3 DEF Container
  <2>2. PICK names, values, cuts :
          /\ Cuts(cuts)
          /\ Complete(document, policy, v, kind, names, values, cuts)
          /\ \A k \in 1..cuts.count : Part(v.level, values, cuts, k) \in D
    BY <2>1
  <2>3. v.level = level
    BY DEF Span
  <2>4. Derived(document, policy, level, values, cuts)
    BY <1>1, <2>2, <2>3 DEF Derived, Derives, Part
  <2> QED BY <2>2, <2>4
<1> QED BY <1>2, <1>3

----------------------------------------------------------------------------
(* Sequences as functions. *)

LEMMA ListingIsSeq ==
    ASSUME NEW n \in Nat, NEW f, Listing(f, n)
    PROVE  \E S : f \in Seq(S) /\ Len(f) = n /\ DOMAIN f = 1..n
<1> DEFINE S == {f[k] : k \in 1..n}
<1>1. f \in [1..n -> S]
  BY DEF Listing
<1>2. f \in Seq(S)
  BY <1>1, SeqDef
<1>3. Len(f) = n /\ DOMAIN f = 1..n
  BY <1>1, <1>2, LenProperties
<1> QED BY <1>2, <1>3

LEMMA SeqIsListing ==
    ASSUME NEW S, NEW f \in Seq(S)
    PROVE  Listing(f, Len(f))
BY DEF Listing

(* grown is list with one more element. *)
Longer(grown, list, n, x) ==
    /\ Listing(grown, n + 1)
    /\ \A k \in 1..n : grown[k] = list[k]
    /\ grown[n + 1] = x

LEMMA ListingAppend ==
    ASSUME NEW n \in Nat, NEW f, Listing(f, n), NEW x
    PROVE  Longer(Append(f, x), f, n, x)
<1>1. PICK S : f \in Seq(S) /\ Len(f) = n
  BY ListingIsSeq
<1> DEFINE T == S \cup {x}
<1>2. f \in Seq(T)
  BY <1>1, SeqMonotonic
<1>3. /\ Append(f, x) \in Seq(T)
      /\ Len(Append(f, x)) = n + 1
      /\ \A k \in 1..n : Append(f, x)[k] = f[k]
      /\ Append(f, x)[n + 1] = x
  BY <1>1, <1>2, AppendProperties
<1>4. Listing(Append(f, x), n + 1)
  BY <1>3, SeqIsListing
<1> QED BY <1>3, <1>4 DEF Longer

LEMMA ListingPrefix ==
    ASSUME NEW n \in Nat, NEW f, Listing(f, n + 1)
    PROVE  /\ Listing(SubSeq(f, 1, n), n)
           /\ \A k \in 1..n : SubSeq(f, 1, n)[k] = f[k]
<1>1. PICK S : f \in Seq(S) /\ Len(f) = n + 1
  BY ListingIsSeq
<1>2. \A k \in 1..n : f[k] \in S
  BY <1>1, ElementOfSeq
<1>3. /\ SubSeq(f, 1, n) \in Seq(S)
      /\ Len(SubSeq(f, 1, n)) = IF 1 <= n THEN n - 1 + 1 ELSE 0
      /\ \A k \in 1..(n - 1 + 1) : SubSeq(f, 1, n)[k] = f[1 + k - 1]
  BY <1>2, SubSeqProperties
<1>4. Len(SubSeq(f, 1, n)) = n
  BY <1>3
<1>5. Listing(SubSeq(f, 1, n), n)
  BY <1>3, <1>4, SeqIsListing
<1> QED BY <1>3, <1>5

LEMMA ListingLength ==
    ASSUME NEW n \in Nat, NEW f, Listing(f, n)
    PROVE  Len(f) = n
BY ListingIsSeq

LEMMA ListingNothing == Listing(<<>>, 0)
BY DEF Listing

Agree(f, g, n) == \A k \in 1..n : g[k] = f[k]

(* A node handed to the last of several sequences. *)
Handed(f, node) == [f EXCEPT ![Len(f)] = Append(@, node)]

LEMMA ListingHanded ==
    ASSUME NEW n \in Nat, NEW m \in Nat, n = m + 1, NEW f, Listing(f, n), NEW node
    PROVE  /\ Listing(Handed(f, node), n)
           /\ Agree(f, Handed(f, node), m)
           /\ Handed(f, node)[n] = Append(f[n], node)
<1>1. DOMAIN f = 1..n /\ Len(f) = n
  BY ListingIsSeq
<1>2. PICK grown : grown = Append(f[n], node)
  OBVIOUS
<1>3. Handed(f, node) = [k \in 1..n |-> IF k = n THEN grown ELSE f[k]]
  BY <1>1, <1>2 DEF Handed
<1>4. \A k \in 1..n : Handed(f, node)[k] = IF k = n THEN grown ELSE f[k]
  BY <1>3
<1>5. Listing(Handed(f, node), n)
  BY <1>3, <1>4 DEF Listing
<1>6. Agree(f, Handed(f, node), m)
  BY <1>4 DEF Agree
<1>7. Handed(f, node)[n] = grown
  <2>1. n \in 1..n
    OBVIOUS
  <2> QED BY <1>4, <2>1
<1> QED BY <1>2, <1>5, <1>6, <1>7

----------------------------------------------------------------------------
(* Reading one lexeme more. *)

LEMMA BlankNothing == \A document : \A i \in Nat : Blank(document, i, i)
BY DEF Blank

LEMMA BlankMore ==
    ASSUME NEW document, NEW i \in Nat, NEW j \in Nat, Blank(document, i, j),
           document[j + 1].kind = "ws"
    PROVE  Blank(document, i, j + 1)
BY DEF Blank

LEMMA PartedNew ==
    ASSUME NEW document, NEW i \in Nat, NEW j \in Nat, Blank(document, i, j),
           NEW kind, document[j + 1].kind = kind
    PROVE  Parted(document, i, kind, j + 1)
BY BlankNothing DEF Blank, Parted

LEMMA PartedMore ==
    ASSUME NEW document, NEW i \in Nat, NEW j \in Nat, NEW kind, Parted(document, i, kind, j),
           document[j + 1].kind = "ws"
    PROVE  Parted(document, i, kind, j + 1)
<1>1. PICK m \in (i + 1)..j : /\ document[m].kind = kind
                              /\ Blank(document, i, m - 1) /\ Blank(document, m, j)
  BY DEF Parted
<1>2. Blank(document, m, j + 1)
  BY <1>1, BlankMore
<1> QED BY <1>1, <1>2 DEF Parted

LEMMA BeginsMore ==
    ASSUME NEW document, NEW i \in Nat, NEW j \in Nat, NEW k, Begins(document, k, i, j),
           document[j + 1].kind = "ws"
    PROVE  Begins(document, k, i, j + 1)
BY BlankMore, PartedMore DEF Begins

LEMMA LeadsMore ==
    ASSUME NEW document, NEW policy, NEW kind, NEW k, NEW name, NEW i \in Nat, NEW j \in Nat,
           Leads(document, policy, kind, k, name, i, j),
           document[j + 1].kind = "ws"
    PROVE  Leads(document, policy, kind, k, name, i, j + 1)
<1>1. PICK p \in i..j :
        /\ Begins(document, k, i, p)
        /\ IF kind = "object"
           THEN NameAt(document, policy, p, name) /\ Parted(document, p + 1, "colon", j)
           ELSE p = j
  BY DEF Leads
<1>2. CASE kind = "object"
  <2>1. Parted(document, p + 1, "colon", j + 1)
    BY <1>1, <1>2, PartedMore
  <2> QED BY <1>1, <1>2, <2>1 DEF Leads
<1>3. CASE kind # "object"
  <2>1. Begins(document, k, i, j + 1)
    BY <1>1, <1>3, BeginsMore
  <2> QED BY <1>3, <2>1 DEF Leads
<1> QED BY <1>2, <1>3

(* What the parser asks of a lexeme is what the options have to say about it. *)
LEMMA NumberAllowed ==
    ASSUME NEW lexeme \in Lexeme, lexeme.kind = "num", NEW policy \in Policy
    PROVE  NumberFault(lexeme.class, policy) = "none" <=> Allowed(lexeme, policy)
<1>1. lexeme.class \in NumberClass
  BY DEF Lexeme, PunctKinds
<1> QED BY <1>1 DEF NumberFault, Allowed, NumberClass, Policy

LEMMA StringAllowed ==
    ASSUME NEW lexeme \in Lexeme, lexeme.kind = "str"
    PROVE  StringFault(lexeme) = "none" <=> Allowed(lexeme, opts)
BY DEF Allowed, StringFault

----------------------------------------------------------------------------
(* What has been read so far is the beginning of what its rules allow.       *)

Last(c) == c.ends[c.count]

(* An open container: where it begins, and the entries it holds. *)
Fits(document, policy, level, frame, values, from, c) ==
    /\ from \in Nat /\ Cuts(c) /\ from < Last(c)
    /\ Filled(document, policy, frame.kind, from, frame.names, c)
    /\ Listing(values, c.count)
    /\ Derived(document, policy, level, values, c)

(* One name for each value, or one more. *)
NamesOf(frame, n) == frame.kind = "object" => Listing(frame.names, n)

(* Inside d containers, a value may start here. *)
Expected(document, policy, frames, cuts, d, start) ==
    IF d = 0 THEN Blank(document, 0, start)
    ELSE /\ NamesOf(frames[d], cuts[d].count + 1)
         /\ Leads(document, policy, frames[d].kind, cuts[d].count + 1,
                  frames[d].names[cuts[d].count + 1], Last(cuts[d]), start)

Stacked(document, policy, frames, values, d, from, cuts) ==
    \A i \in 1..d :
      /\ Fits(document, policy, i - 1, frames[i], values[i], from[i], cuts[i])
      /\ Expected(document, policy, frames, cuts, i - 1, from[i])

(* Where the parser is in the innermost container. *)
AtFirst(document, frame, c, position) ==
    c.count = 0 /\ NamesOf(frame, 0) /\ Blank(document, Last(c), position)
AtName(document, frame, c, position) ==
    NamesOf(frame, c.count) /\ Begins(document, c.count + 1, Last(c), position)
AtColon(document, policy, frame, c, position) ==
    /\ NamesOf(frame, c.count + 1)
    /\ \E p \in Last(c)..position :
         /\ Begins(document, c.count + 1, Last(c), p)
         /\ NameAt(document, policy, p, frame.names[c.count + 1])
         /\ Blank(document, p + 1, position)
AtNext(document, frame, c, position) ==
    c.count > 0 /\ NamesOf(frame, c.count) /\ Blank(document, Last(c), position)

Reading == {"value", "first", "name", "colon", "next"}

Explained(document, policy, frames, values, d, point, position, from, cuts) ==
    /\ Stacked(document, policy, frames, values, d, from, cuts)
    /\ point = "value" => Expected(document, policy, frames, cuts, d, position)
    /\ point = "first" => AtFirst(document, frames[d], cuts[d], position)
    /\ point = "name"  => AtName(document, frames[d], cuts[d], position)
    /\ point = "colon" => AtColon(document, policy, frames[d], cuts[d], position)
    /\ point = "next"  => AtNext(document, frames[d], cuts[d], position)

Sound ==
    /\ pc = "length" => at = 0 /\ built = <<>>
    /\ pc \notin {"length", "done"} => ~TooLong(opts, Len(input))
    /\ pc \in Reading =>
         /\ Listing(built, Depth)
         /\ \E from, cuts : Explained(input, opts, open, built, Depth, pc, at, from, cuts)
    /\ pc = "end" =>
         \E from, to \in Nat : /\ Blank(input, 0, from)
                               /\ from < to /\ Derives(input, opts, 0, from, to, built[1])
                               /\ Blank(input, to, at)
    /\ result.status = "parsed" => Denotes(input, opts, result.node)

----------------------------------------------------------------------------
LEMMA StackedTop ==
    ASSUME NEW document, NEW policy, NEW frames, NEW values, NEW d \in Nat, NEW e \in Nat,
           d = e + 1, NEW from, NEW cuts
    PROVE  Stacked(document, policy, frames, values, d, from, cuts)
             <=> /\ Stacked(document, policy, frames, values, e, from, cuts)
                 /\ Fits(document, policy, e, frames[d], values[d], from[d], cuts[d])
                 /\ Expected(document, policy, frames, cuts, e, from[d])
<1>1. 1..d = 1..e \cup {d}
  OBVIOUS
<1>2. d - 1 = e
  OBVIOUS
<1> QED BY <1>1, <1>2 DEF Stacked

(* Only the frames that are counted matter. *)
LEMMA StackedSame ==
    ASSUME NEW document, NEW policy, NEW frames, NEW values, NEW d \in Nat, NEW from, NEW cuts,
           NEW frames2, NEW values2, NEW from2, NEW cuts2,
           Stacked(document, policy, frames, values, d, from, cuts),
           Agree(frames, frames2, d), Agree(values, values2, d),
           Agree(from, from2, d), Agree(cuts, cuts2, d)
    PROVE  Stacked(document, policy, frames2, values2, d, from2, cuts2)
<1> SUFFICES ASSUME NEW i \in 1..d
             PROVE  /\ Fits(document, policy, i - 1, frames2[i], values2[i], from2[i], cuts2[i])
                    /\ Expected(document, policy, frames2, cuts2, i - 1, from2[i])
  BY DEF Stacked
<1>1. /\ Fits(document, policy, i - 1, frames[i], values[i], from[i], cuts[i])
      /\ Expected(document, policy, frames, cuts, i - 1, from[i])
  BY DEF Stacked
<1>2. i - 1 = 0 \/ i - 1 \in 1..d
  OBVIOUS
<1>3. Expected(document, policy, frames2, cuts2, i - 1, from2[i])
  BY <1>1, <1>2 DEF Expected, Agree
<1> QED BY <1>1, <1>3 DEF Agree

LEMMA ExpectedSame ==
    ASSUME NEW document, NEW policy, NEW d \in Nat, NEW start,
           NEW frames, NEW cuts, NEW frames2, NEW cuts2,
           Expected(document, policy, frames, cuts, d, start),
           Agree(frames, frames2, d), Agree(cuts, cuts2, d)
    PROVE  Expected(document, policy, frames2, cuts2, d, start)
BY DEF Expected, Agree

(* A value in the place where one is expected is one more entry. *)
LEMMA OneMoreEntry ==
    ASSUME NEW document, NEW policy, NEW level, NEW frame, NEW values, NEW from, NEW c,
           Fits(document, policy, level, frame, values, from, c),
           NEW start \in Nat, NEW end \in Nat, start < end, NEW node,
           NamesOf(frame, c.count + 1),
           Leads(document, policy, frame.kind, c.count + 1, frame.names[c.count + 1],
                 Last(c), start),
           Derives(document, policy, level + 1, start, end, node)
    PROVE  \E c2 : /\ Fits(document, policy, level, frame, Append(values, node), from, c2)
                   /\ c2.count = c.count + 1 /\ Last(c2) = end
                   /\ NamesOf(frame, c2.count)
<1> DEFINE n  == c.count
           c2 == [count  |-> n + 1,
                  starts |-> [k \in 1..(n + 1) |-> IF k = n + 1 THEN start ELSE c.starts[k]],
                  ends   |-> [k \in 0..(n + 1) |-> IF k = n + 1 THEN end ELSE c.ends[k]]]
<1>1. /\ n \in Nat /\ c.starts \in [1..n -> Nat] /\ c.ends \in [0..n -> Nat]
      /\ from \in Nat /\ from < c.ends[n]
      /\ document[from + 1].kind = OpenerOf(frame.kind) /\ c.ends[0] = from + 1
      /\ \A k \in 1..n : Leads(document, policy, frame.kind, k, frame.names[k],
                               c.ends[k - 1], c.starts[k])
      /\ Listing(values, n)
      /\ \A k \in 1..n : Derives(document, policy, level + 1, c.starts[k], c.ends[k], values[k])
  BY DEF Fits, Cuts, Filled, Derived, Last
<1>2. /\ c2.count = n + 1
      /\ c2.starts \in [1..(n + 1) -> Nat] /\ c2.ends \in [0..(n + 1) -> Nat]
      /\ c2.starts[n + 1] = start /\ c2.ends[n + 1] = end
      /\ \A k \in 1..n : c2.starts[k] = c.starts[k]
      /\ \A k \in 0..n : c2.ends[k] = c.ends[k]
  BY <1>1
<1> HIDE DEF c2
<1>3. PICK grown : grown = Append(values, node) /\ Longer(grown, values, n, node)
  BY <1>1, ListingAppend
<1>4. Cuts(c2) /\ Last(c2) = end
  BY <1>1, <1>2 DEF Cuts, Last
<1>5. from < end
  <2>1. PICK p \in c.ends[n]..start : TRUE
    BY DEF Leads, Last
  <2> QED BY <1>1, <2>1
<1>6. \A k \in 1..(n + 1) : k \in 1..n \/ k = n + 1
  BY <1>1
<1>7. \A k \in 1..(n + 1) : Leads(document, policy, frame.kind, k, frame.names[k],
                                  c2.ends[k - 1], c2.starts[k])
  <2> TAKE k \in 1..(n + 1)
  <2>1. CASE k \in 1..n
    <3>1. k - 1 \in 0..n
      BY <1>1, <2>1
    <3> QED BY <1>1, <1>2, <2>1, <3>1
  <2>2. CASE k = n + 1
    <3>1. k - 1 = n /\ n \in 0..n
      BY <1>1, <2>2
    <3> QED BY <1>2, <2>2, <3>1 DEF Last
  <2> QED BY <1>6, <2>1, <2>2
<1>8. \A k \in 1..(n + 1) : Derives(document, policy, level + 1, c2.starts[k], c2.ends[k],
                                    grown[k])
  <2> TAKE k \in 1..(n + 1)
  <2>1. CASE k \in 1..n
    <3>1. k \in 0..n
      BY <1>1, <2>1
    <3> QED BY <1>1, <1>2, <1>3, <2>1, <3>1 DEF Longer
  <2>2. CASE k = n + 1
    BY <1>2, <1>3, <2>2 DEF Longer
  <2> QED BY <1>6, <2>1, <2>2
<1>9. Fits(document, policy, level, frame, grown, from, c2)
  <2>1. c2.ends[0] = from + 1
    BY <1>1, <1>2
  <2>2. Filled(document, policy, frame.kind, from, frame.names, c2)
    BY <1>1, <1>2, <1>7, <2>1 DEF Filled
  <2>3. Derived(document, policy, level, grown, c2)
    BY <1>2, <1>8 DEF Derived
  <2> QED BY <1>1, <1>2, <1>3, <1>4, <1>5, <2>2, <2>3 DEF Fits, Longer
<1>10. NamesOf(frame, c2.count)
  BY <1>2
<1> QED BY <1>2, <1>3, <1>4, <1>9, <1>10

(* The closer of a container that fits completes it. *)
LEMMA FullDerives ==
    ASSUME NEW document, NEW policy, NEW level, NEW frame, NEW values, NEW from, NEW c,
           Fits(document, policy, level, frame, values, from, c),
           frame.kind \in {"array", "object"},
           NamesOf(frame, c.count),
           \A j, k \in 1..c.count : frame.kind = "object" /\ frame.names[j] = frame.names[k] => j = k,
           level < policy.max_depth,
           NEW position \in Nat, position < Len(document), Len(document) \in Nat,
           Blank(document, Last(c), position),
           document[position + 1].kind = CloserOf(frame.kind)
    PROVE  Derives(document, policy, level, from, position + 1,
                   ContainerNode(frame.kind, frame.names, values))
<1> DEFINE node == ContainerNode(frame.kind, frame.names, values)
           v    == Span(level, from, position + 1, node)
<1>1. /\ v.level = level /\ v.from = from /\ v.to = position + 1 /\ v.node = node
  BY DEF Span
<1>2. from \in Nat /\ Cuts(c) /\ from < Last(c) /\ Last(c) \in Nat
  BY DEF Fits, Cuts, Last
<1>3. from + 1 < position + 1 /\ position + 1 - 1 = position
  BY <1>2 DEF Blank
<1> HIDE DEF v
<1>4. Complete(document, policy, v, frame.kind, frame.names, values, c)
  BY <1>1, <1>2, <1>3 DEF Complete, Fits, NamesOf, Last
<1> QED BY <1>2, <1>4, CompleteDerives DEF Fits, v

LEMMA FitsIsPlaced ==
    ASSUME NEW document, NEW policy, NEW level, NEW frame, NEW values, NEW from, NEW c,
           Fits(document, policy, level, frame, values, from, c)
    PROVE  c.count \in Nat /\ Last(c) \in Nat /\ from \in Nat
BY DEF Fits, Cuts, Last

LEMMA StackedInnermost ==
    ASSUME NEW document, NEW policy, NEW frames, NEW values, NEW d \in Nat, NEW e \in Nat,
           d = e + 1,
           NEW from, NEW cuts, Stacked(document, policy, frames, values, d, from, cuts)
    PROVE  /\ Stacked(document, policy, frames, values, e, from, cuts)
           /\ Fits(document, policy, e, frames[d], values[d], from[d], cuts[d])
           /\ Expected(document, policy, frames, cuts, e, from[d])
           /\ cuts[d].count \in Nat /\ Last(cuts[d]) \in Nat
<1>1. /\ Stacked(document, policy, frames, values, e, from, cuts)
      /\ Fits(document, policy, e, frames[d], values[d], from[d], cuts[d])
      /\ Expected(document, policy, frames, cuts, e, from[d])
  BY StackedTop
<1> QED BY <1>1, FitsIsPlaced

LEMMA BeginsAfter ==
    ASSUME NEW document, NEW k, NEW left \in Nat, NEW p \in Nat, Begins(document, k, left, p)
    PROVE  left <= p
BY DEF Begins, Blank, Parted

(* Whitespace changes nothing. *)
LEMMA ExplainedMore ==
    ASSUME NEW document, NEW policy, NEW frames, NEW values, NEW d \in Nat, NEW point \in Reading,
           NEW position \in Nat, NEW from, NEW cuts,
           point # "value" => d > 0,
           Explained(document, policy, frames, values, d, point, position, from, cuts),
           document[position + 1].kind = "ws"
    PROVE  Explained(document, policy, frames, values, d, point, position + 1, from, cuts)
<1>1. Stacked(document, policy, frames, values, d, from, cuts)
  BY DEF Explained
<1>2. d > 0 => cuts[d].count \in Nat /\ Last(cuts[d]) \in Nat
  <2> SUFFICES ASSUME d > 0 PROVE cuts[d].count \in Nat /\ Last(cuts[d]) \in Nat
    OBVIOUS
  <2>1. PICK e \in Nat : d = e + 1
    <3> WITNESS d - 1 \in Nat
    <3> QED OBVIOUS
  <2> QED BY <1>1, <2>1, StackedInnermost
<1>3. CASE point = "value"
  <2>1. Expected(document, policy, frames, cuts, d, position)
    BY <1>3 DEF Explained
  <2>2. CASE d = 0
    <3>1. Blank(document, 0, position)
      BY <2>1, <2>2 DEF Expected
    <3>2. Blank(document, 0, position + 1)
      BY <3>1, BlankMore
    <3> QED BY <1>1, <1>3, <2>2, <3>2 DEF Explained, Expected
  <2>3. CASE d > 0
    <3>1. Leads(document, policy, frames[d].kind, cuts[d].count + 1,
                frames[d].names[cuts[d].count + 1], Last(cuts[d]), position + 1)
      BY <1>2, <2>1, <2>3, LeadsMore DEF Expected
    <3> QED BY <1>1, <1>3, <2>1, <2>3, <3>1 DEF Explained, Expected
  <2> QED BY <2>2, <2>3
<1>4. CASE point = "first"
  <2>1. AtFirst(document, frames[d], cuts[d], position)
    BY <1>4 DEF Explained
  <2>2. Blank(document, Last(cuts[d]), position + 1)
    BY <1>2, <1>4, <2>1, BlankMore DEF AtFirst
  <2>3. AtFirst(document, frames[d], cuts[d], position + 1)
    BY <2>1, <2>2 DEF AtFirst
  <2> QED BY <1>1, <1>4, <2>3 DEF Explained
<1>5. CASE point = "name"
  <2>1. AtName(document, frames[d], cuts[d], position)
    BY <1>5 DEF Explained
  <2>2. Begins(document, cuts[d].count + 1, Last(cuts[d]), position + 1)
    BY <1>2, <1>5, <2>1, BeginsMore DEF AtName
  <2>3. AtName(document, frames[d], cuts[d], position + 1)
    BY <2>1, <2>2 DEF AtName
  <2> QED BY <1>1, <1>5, <2>3 DEF Explained
<1>6. CASE point = "colon"
  <2>1. AtColon(document, policy, frames[d], cuts[d], position)
    BY <1>6 DEF Explained
  <2>2. PICK p \in Last(cuts[d])..position :
          /\ Begins(document, cuts[d].count + 1, Last(cuts[d]), p)
          /\ NameAt(document, policy, p, frames[d].names[cuts[d].count + 1])
          /\ Blank(document, p + 1, position)
    BY <2>1 DEF AtColon
  <2>3. Blank(document, p + 1, position + 1) /\ p \in Last(cuts[d])..(position + 1)
    BY <1>2, <1>6, <2>2, BlankMore
  <2>4. AtColon(document, policy, frames[d], cuts[d], position + 1)
    BY <2>1, <2>2, <2>3 DEF AtColon
  <2> QED BY <1>1, <1>6, <2>4 DEF Explained
<1>7. CASE point = "next"
  <2>1. AtNext(document, frames[d], cuts[d], position)
    BY <1>7 DEF Explained
  <2>2. Blank(document, Last(cuts[d]), position + 1)
    BY <1>2, <1>7, <2>1, BlankMore DEF AtNext
  <2>3. AtNext(document, frames[d], cuts[d], position + 1)
    BY <2>1, <2>2 DEF AtNext
  <2> QED BY <1>1, <1>7, <2>3 DEF Explained
<1> QED BY <1>3, <1>4, <1>5, <1>6, <1>7 DEF Reading

(* A value delivered to the container around it. *)
LEMMA Delivered ==
    ASSUME NEW document, NEW policy, NEW frames, NEW values, NEW d \in Nat, NEW e \in Nat, d = e + 1,
           NEW from, NEW cuts,
           Listing(values, d),
           Stacked(document, policy, frames, values, d, from, cuts),
           NEW start \in Nat, NEW end \in Nat, start < end, NEW node,
           Expected(document, policy, frames, cuts, d, start),
           Derives(document, policy, d, start, end, node),
           NEW values2, values2 = Handed(values, node)
    PROVE  /\ Listing(values2, d)
           /\ \E cuts2 : Explained(document, policy, frames, values2, d, "next", end, from, cuts2)
<1> DEFINE frame == frames[d]
           c == cuts[d]
<1>1. /\ Stacked(document, policy, frames, values, e, from, cuts)
      /\ Fits(document, policy, e, frame, values[d], from[d], c)
      /\ Expected(document, policy, frames, cuts, e, from[d])
      /\ c.count \in Nat /\ Last(c) \in Nat
  BY StackedInnermost
<1>2. /\ NamesOf(frame, c.count + 1)
      /\ Leads(document, policy, frame.kind, c.count + 1, frame.names[c.count + 1],
               Last(c), start)
  BY DEF Expected
<1>3. Derives(document, policy, e + 1, start, end, node)
  OBVIOUS
<1>4. /\ Listing(values2, d)
      /\ Agree(values, values2, e)
      /\ values2[d] = Append(values[d], node)
  BY ListingHanded
<1> HIDE DEF c, frame
<1>5. PICK c2 : /\ Fits(document, policy, e, frame, Append(values[d], node), from[d], c2)
                /\ c2.count = c.count + 1 /\ Last(c2) = end
                /\ NamesOf(frame, c2.count)
  BY <1>1, <1>2, <1>3, OneMoreEntry
<1> DEFINE cuts2 == [i \in 1..d |-> IF i = d THEN c2 ELSE cuts[i]]
<1>6. cuts2[d] = c2 /\ \A i \in 1..e : cuts2[i] = cuts[i]
  OBVIOUS
<1> HIDE DEF cuts2
<1>8. Stacked(document, policy, frames, values2, e, from, cuts2)
  <2>1. Agree(frames, frames, e) /\ Agree(from, from, e) /\ Agree(cuts, cuts2, e)
    BY <1>6 DEF Agree
  <2> QED BY <1>1, <1>4, <2>1, StackedSame
<1>9. Expected(document, policy, frames, cuts2, e, from[d])
  <2>1. Agree(frames, frames, e) /\ Agree(cuts, cuts2, e)
    BY <1>6 DEF Agree
  <2> QED BY <1>1, <2>1, ExpectedSame
<1>10. Stacked(document, policy, frames, values2, d, from, cuts2)
  <2>1. Fits(document, policy, e, frames[d], values2[d], from[d], cuts2[d])
    BY <1>4, <1>5, <1>6 DEF frame
  <2> QED BY <1>8, <1>9, <2>1, StackedTop
<1>11. AtNext(document, frames[d], cuts2[d], end)
  BY <1>1, <1>5, <1>6, BlankNothing DEF AtNext, frame
<1>12. Explained(document, policy, frames, values2, d, "next", end, from, cuts2)
  BY <1>10, <1>11 DEF Explained
<1> QED BY <1>4, <1>12

----------------------------------------------------------------------------
LEMMA SoundInit == Init => Sound
<1> SUFFICES ASSUME Init PROVE Sound
  OBVIOUS
<1>1. at = 0 /\ built = <<>> /\ pc = "length" /\ result.status = "parsing"
  BY DEF Init
<1> QED BY <1>1 DEF Sound, Reading

(* A step that ends without a value. *)
LEMMA SoundEnded ==
    ASSUME pc' = "done", result'.status = "refused"
    PROVE  Sound'
BY DEF Sound, Reading

LEMMA SoundRefused ==
    ASSUME NEW class, Refuse(class) \/ RefuseAt(class)
    PROVE  Sound'
<1>1. pc' = "done" /\ result'.status = "refused"
  BY DEF Refuse, RefuseAt
<1> QED BY <1>1, SoundEnded

(* What IInv says of a parser that is still reading. *)
LEMMA WhileReading ==
    ASSUME IInv
    PROVE  /\ at \in Nat /\ Len(input) \in Nat /\ Depth \in Nat /\ at <= Len(input)
           /\ input \in Seq(Lexeme)
           /\ pc # "done" => result.status = "parsing"
           /\ pc \in {"first", "next", "name", "colon"} => Depth > 0
           /\ Depth > 0 => /\ open[Depth] \in Frame /\ Innermost = open[Depth]
                           /\ open[Depth].kind \in {"array", "object"}
                           /\ InObject <=> open[Depth].kind = "object"
                           /\ InArray <=> open[Depth].kind = "array"
           /\ open = <<>> <=> Depth = 0
           /\ pc \in {"name", "colon"} => InObject
           /\ pc \in {"length", "end"} => Depth = 0
           /\ open \in Seq(Frame)
<1>1. TypeOK /\ Control
  BY DEF IInv
<1>2. /\ open \in Seq(Frame) /\ input \in Seq(Lexeme) /\ at \in 0..Len(input)
      /\ result.status = "parsing" <=> pc # "done"
  BY <1>1 DEF TypeOK
<1>3. /\ Depth \in Nat /\ Len(input) \in Nat /\ at \in Nat /\ at <= Len(input)
      /\ open = <<>> <=> Depth = 0
  BY <1>2 DEF Depth
<1>4. Depth > 0 => open[Depth] \in Frame
  BY <1>2, <1>3, ElementOfSeq DEF Depth
<1>5. Depth > 0 => open[Depth].kind \in {"array", "object"}
  BY <1>4 DEF Frame
<1>6. Innermost = open[Depth]
  BY DEF Innermost, Depth
<1>7. /\ InObject <=> Depth > 0 /\ open[Depth].kind = "object"
      /\ InArray <=> Depth > 0 /\ open[Depth].kind = "array"
  BY <1>6 DEF InObject, InArray
<1>8. /\ pc \in {"first", "next"} => Depth > 0
      /\ pc \in {"name", "colon"} => InObject
      /\ pc \in {"length", "end"} => Depth = 0
  BY <1>1, <1>3 DEF Control
<1> QED BY <1>2, <1>3, <1>4, <1>5, <1>6, <1>7, <1>8

(* The state explains itself at the next place it gets to. *)
LEMMA SoundReading ==
    ASSUME pc' \in Reading, ~TooLong(opts', Len(input')), Listing(built', Depth'),
           result'.status = "parsing",
           NEW from, NEW cuts,
           Explained(input', opts', open', built', Depth', pc', at', from, cuts)
    PROVE  Sound'
<1>1. /\ pc' # "length" /\ pc' # "end" /\ pc' # "done" /\ result'.status # "parsed"
  BY DEF Reading
<1>2. (\E from2, cuts2 : Explained(input, opts, open, built, Depth, pc, at, from2, cuts2))'
  OBVIOUS
<1> QED BY <1>1, <1>2 DEF Sound

LEMMA SoundCheckLength == ASSUME IInv, Sound, CheckLength PROVE Sound'
<1>1. CASE TooLong(opts, Len(input))
  BY <1>1, SoundRefused DEF CheckLength
<1>2. CASE ~TooLong(opts, Len(input))
  <2>1. /\ pc = "length" /\ pc' = "value" /\ UNCHANGED <<input, opts, at, open, built, result>>
    BY <1>2 DEF CheckLength
  <2>2. at = 0 /\ built = <<>> /\ Depth = 0 /\ result.status = "parsing"
    BY <2>1, WhileReading DEF Sound
  <2>3. Depth' = 0
    BY <2>1, <2>2 DEF Depth
  <2>4. Listing(built', Depth')
    BY <2>1, <2>2, <2>3, ListingNothing
  <2>5. Stacked(input, opts, open, built, 0, <<>>, <<>>)
    BY DEF Stacked
  <2>6. Expected(input, opts, open, <<>>, 0, at)
    BY <2>2, BlankNothing DEF Expected
  <2>7. Explained(input, opts, open, built, 0, "value", at, <<>>, <<>>)
    BY <2>5, <2>6 DEF Explained
  <2>8. Explained(input', opts', open', built', Depth', pc', at', <<>>, <<>>)
    BY <2>1, <2>3, <2>7
  <2>9. pc' \in Reading
    BY <2>1 DEF Reading
  <2> QED BY <1>2, <2>1, <2>2, <2>4, <2>8, <2>9, SoundReading
<1> QED BY <1>1, <1>2

LEMMA SoundSkipWs == ASSUME IInv, Sound, SkipWs PROVE Sound'
<1>1. /\ pc \in Reading \cup {"end"} /\ at < Len(input) /\ input[at + 1].kind = "ws"
      /\ at' = at + 1 /\ UNCHANGED <<input, opts, pc, open, built, result>>
  BY DEF SkipWs, Peek, PcValues, Reading
<1>2. pc # "length" /\ pc # "done" /\ ~TooLong(opts, Len(input))
  BY <1>1 DEF Reading, Sound
<1>3. at \in Nat /\ Depth \in Nat /\ result.status = "parsing" /\ Depth' = Depth
  BY <1>1, <1>2, WhileReading DEF Depth
<1>4. CASE pc \in Reading
  <2>1. Listing(built, Depth)
    BY <1>4 DEF Sound
  <2>2. PICK from, cuts : Explained(input, opts, open, built, Depth, pc, at, from, cuts)
    BY <1>4 DEF Sound
  <2>3. pc # "value" => Depth > 0
    BY <1>4, WhileReading DEF Reading
  <2>4. Explained(input, opts, open, built, Depth, pc, at + 1, from, cuts)
    BY <1>1, <1>3, <1>4, <2>2, <2>3, ExplainedMore
  <2>5. Explained(input', opts', open', built', Depth', pc', at', from, cuts)
    BY <1>1, <1>3, <2>4
  <2> QED BY <1>1, <1>2, <1>3, <1>4, <2>1, <2>5, SoundReading
<1>5. CASE pc = "end"
  <2>1. PICK from \in Nat : \E to \in Nat :
          /\ Blank(input, 0, from)
          /\ from < to /\ Derives(input, opts, 0, from, to, built[1])
          /\ Blank(input, to, at)
    BY <1>5 DEF Sound
  <2>2. PICK to \in Nat :
          /\ Blank(input, 0, from)
          /\ from < to /\ Derives(input, opts, 0, from, to, built[1])
          /\ Blank(input, to, at)
    BY <2>1
  <2>3. Blank(input, to, at + 1)
    BY <1>1, <1>3, <2>2, BlankMore
  <2>4. /\ Blank(input', 0, from)
        /\ Derives(input', opts', 0, from, to, built'[1])
        /\ Blank(input', to, at')
    BY <1>1, <2>2, <2>3
  <2> QED BY <1>1, <1>2, <1>3, <1>5, <2>2, <2>4 DEF Sound, Reading
<1> QED BY <1>1, <1>4, <1>5

(* value() has read a value, and what it was called for is a place for one. *)
LEMMA SoundReturn ==
    ASSUME NEW d \in Nat, NEW above \in Seq(Frame), Len(above) = d,
           NEW values, Listing(values, d), NEW node,
           Return(node, above, values),
           UNCHANGED <<input, opts, result>>, result.status = "parsing",
           ~TooLong(opts, Len(input)),
           NEW from, NEW cuts, Stacked(input, opts, above, values, d, from, cuts),
           NEW start \in Nat, Expected(input, opts, above, cuts, d, start),
           at' \in Nat, start < at',
           Derives(input, opts, d, start, at', node)
    PROVE  Sound'
<1>1. CASE above = <<>>
  <2>1. d = 0 /\ built' = <<node>> /\ built'[1] = node /\ open' = <<>> /\ pc' = "end"
    BY <1>1 DEF Return
  <2>2. Blank(input, 0, start)
    BY <2>1 DEF Expected
  <2>3. Blank(input, at', at')
    BY BlankNothing
  <2>4. /\ Blank(input', 0, start)
        /\ Derives(input', opts', 0, start, at', built'[1])
        /\ Blank(input', at', at')
    BY <2>1, <2>2, <2>3
  <2> QED BY <2>1, <2>4 DEF Sound, Reading
<1>2. CASE above # <<>>
  <2>1. /\ built' = Handed(values, node) /\ open' = above /\ pc' = "next"
    BY <1>2 DEF Return, Handed
  <2>2. d > 0
    BY <1>2
  <2>3. PICK e \in Nat : d = e + 1
    <3>1. d - 1 \in Nat /\ d = (d - 1) + 1
      BY <2>2
    <3> QED BY <3>1
  <2>4. /\ Listing(built', d)
        /\ \E cuts2 : Explained(input, opts, above, built', d, "next", at', from, cuts2)
    BY <2>1, <2>3, Delivered
  <2>5. PICK cuts2 : Explained(input, opts, above, built', d, "next", at', from, cuts2)
    BY <2>4
  <2>6. Depth' = d
    BY <2>1 DEF Depth
  <2>7. Explained(input', opts', open', built', Depth', pc', at', from, cuts2)
    BY <2>1, <2>5, <2>6
  <2>8. pc' \in Reading
    BY <2>1 DEF Reading
  <2> QED BY <2>4, <2>6, <2>7, <2>8, SoundReading
<1> QED BY <1>1, <1>2

(* What Sound says of a parser that is still reading. *)
LEMMA SoundSaid ==
    ASSUME IInv, Sound, pc \in Reading
    PROVE  /\ Listing(built, Depth)
           /\ ~TooLong(opts, Len(input))
           /\ result.status = "parsing"
           /\ \E from, cuts : Explained(input, opts, open, built, Depth, pc, at, from, cuts)
<1>1. pc # "length" /\ pc # "done"
  BY DEF Reading
<1> QED BY <1>1, WhileReading DEF Sound

(* A value of one lexeme. *)
LEMMA SoundScalar ==
    ASSUME IInv, Sound, pc = "value", at < Len(input),
           NEW node, node = ScalarNode(input[at + 1]), Allowed(input[at + 1], opts),
           ReturnScalar(node)
    PROVE  Sound'
<1>1. /\ Listing(built, Depth) /\ ~TooLong(opts, Len(input)) /\ result.status = "parsing"
      /\ \E from, cuts : Explained(input, opts, open, built, Depth, pc, at, from, cuts)
  <2>1. pc \in Reading
    BY DEF Reading
  <2> QED BY <2>1, SoundSaid
<1>2. PICK from, cuts : Explained(input, opts, open, built, Depth, pc, at, from, cuts)
  BY <1>1
<1>3. /\ Stacked(input, opts, open, built, Depth, from, cuts)
      /\ Expected(input, opts, open, cuts, Depth, at)
  BY <1>2 DEF Explained
<1>4. /\ at \in Nat /\ Len(input) \in Nat /\ Depth \in Nat /\ open \in Seq(Frame) /\ Len(open) = Depth
  BY WhileReading DEF Depth
<1>5. /\ Return(node, open, built) /\ at' = at + 1 /\ UNCHANGED <<input, opts, result>>
  BY DEF ReturnScalar
<1>6. Atomic(input, opts, Span(Depth, at, at + 1, node))
  BY <1>4 DEF Atomic, Span
<1>7. Derives(input, opts, Depth, at, at', node)
  BY <1>5, <1>6, AtomicDerives
<1>8. at' \in Nat /\ at < at'
  BY <1>4, <1>5
<1> QED BY <1>1, <1>3, <1>4, <1>5, <1>7, <1>8, SoundReturn

LEMMA SoundWord == ASSUME IInv, Sound, Word PROVE Sound'
<1>1. /\ pc = "value" /\ at < Len(input) /\ input[at + 1].kind = "word"
      /\ ReturnScalar(<<"word", input[at + 1].word>>)
  BY DEF Word, Peek
<1>2. <<"word", input[at + 1].word>> = ScalarNode(input[at + 1]) /\ Allowed(input[at + 1], opts)
  BY <1>1 DEF ScalarNode, Allowed
<1> QED BY <1>1, <1>2, SoundScalar

LEMMA CurrentLexeme ==
    ASSUME IInv, at < Len(input)
    PROVE  input[at + 1] \in Lexeme /\ opts \in Policy
<1>1. input \in Seq(Lexeme) /\ at \in Nat /\ opts \in Policy /\ Len(input) \in Nat
  BY DEF IInv, TypeOK
<1>2. at + 1 \in 1..Len(input)
  BY <1>1
<1> QED BY <1>1, <1>2, ElementOfSeq

LEMMA SoundNumber == ASSUME IInv, Sound, Number PROVE Sound'
<1> DEFINE lexeme == input[at + 1]
<1>1. /\ pc = "value" /\ at < Len(input) /\ lexeme.kind = "num"
  BY DEF Number, Peek
<1>2. lexeme \in Lexeme /\ opts \in Policy
  BY <1>1, CurrentLexeme
<1>3. CASE NumberFault(lexeme.class, opts) = "none"
  <2>1. ReturnScalar(<<"num", lexeme.class>>)
    BY <1>3 DEF Number
  <2>2. Allowed(lexeme, opts)
    BY <1>1, <1>2, <1>3, NumberAllowed
  <2>3. <<"num", lexeme.class>> = ScalarNode(lexeme)
    BY <1>1 DEF ScalarNode
  <2> QED BY <1>1, <2>1, <2>2, <2>3, SoundScalar
<1>4. CASE NumberFault(lexeme.class, opts) # "none"
  <2>1. Refuse(NumberFault(lexeme.class, opts))
    BY <1>4 DEF Number
  <2> QED BY <2>1, SoundRefused
<1> QED BY <1>3, <1>4

LEMMA SoundStringValue == ASSUME IInv, Sound, StringValue PROVE Sound'
<1> DEFINE lexeme == input[at + 1]
<1>1. /\ pc = "value" /\ at < Len(input) /\ lexeme.kind = "str"
  BY DEF StringValue, Peek
<1>2. lexeme \in Lexeme
  BY <1>1, CurrentLexeme
<1>3. CASE StringFault(lexeme) = "none"
  <2>1. ReturnScalar(<<"str", lexeme.name>>)
    BY <1>3 DEF StringValue
  <2>2. Allowed(lexeme, opts)
    BY <1>1, <1>2, <1>3, StringAllowed
  <2>3. <<"str", lexeme.name>> = ScalarNode(lexeme)
    BY <1>1 DEF ScalarNode
  <2> QED BY <1>1, <2>1, <2>2, <2>3, SoundScalar
<1>4. CASE StringFault(lexeme) # "none"
  <2>1. RefuseAt(StringFault(lexeme))
    BY <1>4 DEF StringValue
  <2> QED BY <2>1, SoundRefused
<1> QED BY <1>3, <1>4

(* The innermost frame and what is below it. *)
LEMMA Below ==
    ASSUME IInv, Depth > 0, Listing(built, Depth)
    PROVE  \E e \in Nat :
             /\ Depth = e + 1
             /\ SubSeq(open, 1, Depth - 1) \in Seq(Frame)
             /\ Len(SubSeq(open, 1, Depth - 1)) = e
             /\ Agree(open, SubSeq(open, 1, Depth - 1), e)
             /\ Listing(SubSeq(built, 1, Depth - 1), e)
             /\ Agree(built, SubSeq(built, 1, Depth - 1), e)
<1>1. Depth \in Nat /\ open \in Seq(Frame) /\ Len(open) = Depth
  BY WhileReading DEF Depth
<1>2. PICK e \in Nat : Depth = e + 1
  <2>1. Depth - 1 \in Nat /\ Depth = (Depth - 1) + 1
    BY <1>1
  <2> QED BY <2>1
<1>3. Depth - 1 = e
  BY <1>2
<1>4. Listing(open, e + 1)
  BY <1>1, <1>2, SeqIsListing
<1>5. /\ Listing(SubSeq(open, 1, e), e) /\ Agree(open, SubSeq(open, 1, e), e)
      /\ Listing(SubSeq(built, 1, e), e) /\ Agree(built, SubSeq(built, 1, e), e)
  <2>1. Listing(built, e + 1)
    BY <1>2
  <2> QED BY <1>4, <2>1, ListingPrefix DEF Agree
<1>6. SubSeq(open, 1, e) \in Seq(Frame) /\ Len(SubSeq(open, 1, e)) = e
  <2>1. \A i \in 1..e : open[i] \in Frame
    BY <1>1, <1>2, ElementOfSeq
  <2>2. SubSeq(open, 1, e) \in Seq(Frame)
    BY <2>1, SubSeqProperties
  <2>3. Len(SubSeq(open, 1, e)) = e
    BY <1>5, ListingLength
  <2> QED BY <2>2, <2>3
<1> QED BY <1>2, <1>3, <1>5, <1>6

LEMMA SoundClose ==
    ASSUME IInv, Sound, pc \in {"first", "next"}, AtCloser, Close
    PROVE  Sound'
<1> DEFINE frame == open[Depth]
<1>1. pc \in Reading /\ Depth > 0
  BY WhileReading DEF Reading
<1>2. /\ Listing(built, Depth) /\ ~TooLong(opts, Len(input)) /\ result.status = "parsing"
      /\ \E from, cuts : Explained(input, opts, open, built, Depth, pc, at, from, cuts)
  BY <1>1, SoundSaid
<1>3. PICK from, cuts : Explained(input, opts, open, built, Depth, pc, at, from, cuts)
  BY <1>2
<1>4. PICK e \in Nat :
             /\ Depth = e + 1
             /\ SubSeq(open, 1, Depth - 1) \in Seq(Frame)
             /\ Len(SubSeq(open, 1, Depth - 1)) = e
             /\ Agree(open, SubSeq(open, 1, Depth - 1), e)
             /\ Listing(SubSeq(built, 1, Depth - 1), e)
             /\ Agree(built, SubSeq(built, 1, Depth - 1), e)
  BY <1>1, <1>2, Below
<1>5. PICK above, values : /\ above = SubSeq(open, 1, Depth - 1)
                           /\ values = SubSeq(built, 1, Depth - 1)
  OBVIOUS
<1>6. /\ at \in Nat /\ Len(input) \in Nat /\ Depth \in Nat /\ at < Len(input)
      /\ frame \in Frame /\ Innermost = frame
      /\ frame.kind \in {"array", "object"}
      /\ InObject <=> frame.kind = "object"
      /\ input[at + 1].kind = CloserOf(frame.kind)
  <2>1. (InArray /\ Peek("closeArray")) \/ (InObject /\ Peek("closeObject"))
    BY DEF AtCloser
  <2> QED BY <1>1, <2>1, WhileReading DEF Peek, CloserOf
<1>7. /\ Stacked(input, opts, open, built, Depth, from, cuts)
      /\ NamesOf(frame, cuts[Depth].count)
      /\ Blank(input, Last(cuts[Depth]), at)
  <2>1. CASE pc = "first"
    BY <1>3, <2>1 DEF Explained, AtFirst
  <2>2. CASE pc = "next"
    BY <1>3, <2>2 DEF Explained, AtNext
  <2> QED BY <2>1, <2>2
<1>8. /\ Stacked(input, opts, open, built, e, from, cuts)
      /\ Fits(input, opts, e, frame, built[Depth], from[Depth], cuts[Depth])
      /\ Expected(input, opts, open, cuts, e, from[Depth])
      /\ cuts[Depth].count \in Nat /\ Last(cuts[Depth]) \in Nat
  BY <1>4, <1>6, <1>7, StackedInnermost
<1>9. PICK node : node = ContainerNode(frame.kind, frame.names, built[Depth])
  OBVIOUS
<1>10. /\ Return(node, above, values) /\ at' = at + 1 /\ UNCHANGED <<input, opts, result>>
  <2>1. node = IF InObject THEN <<"object", Innermost.names, built[Depth]>>
                           ELSE <<"array", built[Depth]>>
    BY <1>6, <1>9 DEF ContainerNode
  <2> QED BY <1>5, <2>1 DEF Close
<1>11. Derives(input, opts, e, from[Depth], at', node)
  <2>1. \A j, k \in 1..cuts[Depth].count :
          frame.kind = "object" /\ frame.names[j] = frame.names[k] => j = k
    <3>1. Distinct(frame)
      BY <1>1, <1>6 DEF IInv, MembersDistinct
    <3>2. frame.kind = "object" => Len(frame.names) = cuts[Depth].count
      BY <1>7, <1>8, ListingLength DEF NamesOf
    <3> QED BY <3>1, <3>2 DEF Distinct
  <2>2. e < opts.max_depth
    <3>1. Depth <= opts.max_depth /\ opts.max_depth \in Nat
      BY DEF IInv, TypeOK, Policy
    <3> QED BY <1>4, <3>1
  <2> HIDE DEF frame
  <2>3. Derives(input, opts, e, from[Depth], at + 1,
                ContainerNode(frame.kind, frame.names, built[Depth]))
    BY <1>6, <1>7, <1>8, <2>1, <2>2, FullDerives
  <2> QED BY <1>9, <1>10, <2>3
<1>12. from[Depth] \in Nat /\ from[Depth] < at' /\ at' \in Nat
  <2>1. from[Depth] \in Nat /\ from[Depth] < Last(cuts[Depth])
    BY <1>8 DEF Fits
  <2> QED BY <1>6, <1>7, <1>8, <1>10, <2>1 DEF Blank
<1>13. Agree(from, from, e) /\ Agree(cuts, cuts, e)
  BY DEF Agree
<1>14. Agree(open, above, e) /\ Agree(built, values, e)
  BY <1>4, <1>5
<1>15. Stacked(input, opts, above, values, e, from, cuts)
  BY <1>8, <1>13, <1>14, StackedSame
<1>16. Expected(input, opts, above, cuts, e, from[Depth])
  BY <1>8, <1>13, <1>14, ExpectedSame
<1>17. above \in Seq(Frame) /\ Len(above) = e /\ Listing(values, e)
  BY <1>4, <1>5
<1> HIDE DEF frame
<1> QED BY <1>2, <1>10, <1>11, <1>12, <1>15, <1>16, <1>17, SoundReturn

LEMMA SoundOpen ==
    ASSUME IInv, Sound, NEW opener, NEW kind \in {"array", "object"},
           opener = OpenerOf(kind), Open(opener, kind)
    PROVE  Sound'
<1>1. pc = "value" /\ at < Len(input) /\ input[at + 1].kind = opener
  BY DEF Open, Peek
<1>2. CASE DepthExhausted
  BY <1>2, SoundRefused DEF Open
<1>3. CASE ~DepthExhausted
  <2> DEFINE d == Depth
  <2>1. PICK fresh : fresh = [kind |-> kind, seen |-> {}, names |-> <<>>]
    OBVIOUS
  <2>2. /\ open' = Append(open, fresh) /\ built' = Append(built, <<>>)
        /\ at' = at + 1 /\ pc' = "first" /\ UNCHANGED <<input, opts, result>>
    BY <1>3, <2>1 DEF Open
  <2>3. /\ Listing(built, d) /\ ~TooLong(opts, Len(input)) /\ result.status = "parsing"
        /\ \E from, cuts : Explained(input, opts, open, built, d, pc, at, from, cuts)
    BY <1>1, SoundSaid DEF Reading
  <2>4. PICK from, cuts : Explained(input, opts, open, built, d, pc, at, from, cuts)
    BY <2>3
  <2>5. /\ Stacked(input, opts, open, built, d, from, cuts)
        /\ Expected(input, opts, open, cuts, d, at)
    BY <1>1, <2>4 DEF Explained
  <2>6. at \in Nat /\ d \in Nat /\ Listing(open, d) /\ Len(input) \in Nat
    BY WhileReading, SeqIsListing DEF Depth
  <2> HIDE DEF d
  <2>7. Longer(open', open, d, fresh) /\ Longer(built', built, d, <<>>)
    BY <2>2, <2>3, <2>6, ListingAppend
  <2>8. Depth' = d + 1
    BY <2>6, <2>7, ListingLength DEF Depth, Longer
  <2> DEFINE c == [count |-> 0, starts |-> [k \in 1..0 |-> 0], ends |-> [k \in 0..0 |-> at + 1]]
             from2 == [i \in 1..(d + 1) |-> IF i = d + 1 THEN at ELSE from[i]]
             cuts2 == [i \in 1..(d + 1) |-> IF i = d + 1 THEN c ELSE cuts[i]]
  <2>9. /\ c.count = 0 /\ c.ends[0] = at + 1 /\ Last(c) = at + 1 /\ Cuts(c)
    BY <2>6 DEF Last, Cuts
  <2> HIDE DEF c
  <2>10. /\ from2[d + 1] = at /\ cuts2[d + 1] = c
         /\ Agree(from, from2, d) /\ Agree(cuts, cuts2, d)
    BY <2>6 DEF Agree
  <2> HIDE DEF from2, cuts2
  <2>11. /\ Agree(open, open', d) /\ Agree(built, built', d)
         /\ open'[d + 1] = fresh /\ built'[d + 1] = <<>> /\ Listing(built', d + 1)
    BY <2>7 DEF Longer, Agree
  <2>12. Stacked(input, opts, open', built', d, from2, cuts2)
    BY <2>5, <2>6, <2>10, <2>11, StackedSame
  <2>13. Expected(input, opts, open', cuts2, d, at)
    BY <2>5, <2>6, <2>10, <2>11, ExpectedSame
  <2>14. Fits(input, opts, d, fresh, <<>>, at, c)
    <3>1. fresh.kind = kind
      BY <2>1
    <3>2. Filled(input, opts, fresh.kind, at, fresh.names, c)
      BY <1>1, <2>9, <3>1 DEF Filled
    <3>3. Derived(input, opts, d, <<>>, c)
      BY <2>9 DEF Derived
    <3>4. Listing(<<>>, c.count)
      BY <2>9, ListingNothing
    <3> QED BY <2>6, <2>9, <3>2, <3>3, <3>4 DEF Fits
  <2>15. Stacked(input, opts, open', built', d + 1, from2, cuts2)
    <3>1. d + 1 \in Nat
      BY <2>6
    <3> QED BY <2>6, <2>10, <2>11, <2>12, <2>13, <2>14, <3>1, StackedTop
  <2>16. AtFirst(input, fresh, c, at + 1)
    <3>1. Blank(input, Last(c), at + 1)
      BY <2>6, <2>9, BlankNothing
    <3>2. fresh.names = <<>>
      BY <2>1
    <3>3. NamesOf(fresh, 0)
      BY <3>2, ListingNothing DEF NamesOf
    <3> QED BY <2>9, <3>1, <3>3 DEF AtFirst
  <2>17. Explained(input, opts, open', built', d + 1, "first", at + 1, from2, cuts2)
    BY <2>10, <2>11, <2>15, <2>16 DEF Explained
  <2>18. Explained(input', opts', open', built', Depth', pc', at', from2, cuts2)
    BY <2>2, <2>8, <2>17
  <2>19. /\ pc' \in Reading /\ ~TooLong(opts', Len(input')) /\ Listing(built', Depth')
         /\ result'.status = "parsing"
    BY <2>2, <2>3, <2>8, <2>11 DEF Reading
  <2> QED BY <2>18, <2>19, SoundReading
<1> QED BY <1>2, <1>3

(* Steps inside the innermost container that leave the frames alone. *)
LEMMA SoundInside ==
    ASSUME IInv, pc \in Reading, Sound, pc' \in Reading,
           UNCHANGED <<input, opts, open, built, result>>,
           NEW from, NEW cuts,
           Explained(input, opts, open, built, Depth, pc', at', from, cuts)
    PROVE  Sound'
<1>1. /\ Listing(built, Depth) /\ ~TooLong(opts, Len(input)) /\ result.status = "parsing"
  BY SoundSaid
<1>2. Depth' = Depth
  BY DEF Depth
<1>3. Explained(input', opts', open', built', Depth', pc', at', from, cuts)
  BY <1>2
<1> QED BY <1>1, <1>2, <1>3, SoundReading

(* What is known of the innermost container. *)
LEMMA Inside ==
    ASSUME IInv, Sound, pc \in Reading, Depth > 0
    PROVE  \E from, cuts :
             /\ Explained(input, opts, open, built, Depth, pc, at, from, cuts)
             /\ Stacked(input, opts, open, built, Depth, from, cuts)
             /\ cuts[Depth].count \in Nat /\ Last(cuts[Depth]) \in Nat
<1>1. PICK from, cuts : Explained(input, opts, open, built, Depth, pc, at, from, cuts)
  BY SoundSaid
<1>2. Stacked(input, opts, open, built, Depth, from, cuts)
  BY <1>1 DEF Explained
<1>3. PICK e \in Nat : Depth = e + 1
  <2>1. Depth - 1 \in Nat /\ Depth = (Depth - 1) + 1
    BY WhileReading
  <2> QED BY <2>1
<1>4. cuts[Depth].count \in Nat /\ Last(cuts[Depth]) \in Nat
  BY <1>2, <1>3, StackedInnermost, WhileReading
<1> QED BY <1>1, <1>2, <1>4

LEMMA SoundStartLoop == ASSUME IInv, Sound, StartLoop PROVE Sound'
<1>1. /\ pc = "first" /\ pc' = IF InObject THEN "name" ELSE "value"
      /\ UNCHANGED <<input, opts, at, open, built, result>>
  BY DEF StartLoop
<1>2. pc \in Reading /\ pc' \in Reading
  BY <1>1 DEF Reading
<1>3. /\ Depth \in Nat /\ Depth > 0 /\ at \in Nat
      /\ open[Depth].kind \in {"array", "object"}
      /\ InObject <=> open[Depth].kind = "object"
  BY <1>1, WhileReading
<1>4. PICK from, cuts :
             /\ Explained(input, opts, open, built, Depth, pc, at, from, cuts)
             /\ Stacked(input, opts, open, built, Depth, from, cuts)
             /\ cuts[Depth].count \in Nat /\ Last(cuts[Depth]) \in Nat
  BY <1>2, <1>3, Inside
<1>5. AtFirst(input, open[Depth], cuts[Depth], at)
  BY <1>1, <1>4 DEF Explained
<1>6. /\ cuts[Depth].count = 0 /\ NamesOf(open[Depth], 0)
      /\ Begins(input, cuts[Depth].count + 1, Last(cuts[Depth]), at)
  BY <1>5 DEF AtFirst, Begins
<1>7. CASE open[Depth].kind = "object"
  <2>1. AtName(input, open[Depth], cuts[Depth], at)
    BY <1>6 DEF AtName
  <2>2. pc' = "name" /\ at' = at
    BY <1>1, <1>3, <1>7
  <2>3. Explained(input, opts, open, built, Depth, pc', at', from, cuts)
    BY <1>4, <2>1, <2>2 DEF Explained
  <2> QED BY <1>1, <1>2, <2>3, SoundInside
<1>8. CASE open[Depth].kind # "object"
  <2>1. Last(cuts[Depth]) <= at
    BY <1>3, <1>4, <1>6, BeginsAfter
  <2>2. Leads(input, opts, open[Depth].kind, cuts[Depth].count + 1,
              open[Depth].names[cuts[Depth].count + 1], Last(cuts[Depth]), at)
    BY <1>3, <1>4, <1>6, <1>8, <2>1 DEF Leads
  <2>3. Expected(input, opts, open, cuts, Depth, at)
    BY <1>3, <1>8, <2>2 DEF Expected, NamesOf
  <2>4. pc' = "value" /\ at' = at
    BY <1>1, <1>3, <1>8
  <2>5. Explained(input, opts, open, built, Depth, pc', at', from, cuts)
    BY <1>4, <2>3, <2>4 DEF Explained
  <2> QED BY <1>1, <1>2, <2>5, SoundInside
<1> QED BY <1>7, <1>8

LEMMA SoundComma == ASSUME IInv, Sound, Comma PROVE Sound'
<1>1. /\ pc = "next" /\ pc' = IF InObject THEN "name" ELSE "value"
      /\ at < Len(input) /\ input[at + 1].kind = "comma" /\ at' = at + 1
      /\ UNCHANGED <<input, opts, open, built, result>>
  BY DEF Comma, Peek
<1>2. pc \in Reading /\ pc' \in Reading
  BY <1>1 DEF Reading
<1>3. /\ Depth \in Nat /\ Depth > 0 /\ at \in Nat
      /\ open[Depth].kind \in {"array", "object"}
      /\ InObject <=> open[Depth].kind = "object"
  BY <1>1, WhileReading
<1>4. PICK from, cuts :
             /\ Explained(input, opts, open, built, Depth, pc, at, from, cuts)
             /\ Stacked(input, opts, open, built, Depth, from, cuts)
             /\ cuts[Depth].count \in Nat /\ Last(cuts[Depth]) \in Nat
  BY <1>2, <1>3, Inside
<1>5. AtNext(input, open[Depth], cuts[Depth], at)
  BY <1>1, <1>4 DEF Explained
<1>6. /\ cuts[Depth].count > 0 /\ NamesOf(open[Depth], cuts[Depth].count)
      /\ Blank(input, Last(cuts[Depth]), at)
  BY <1>5 DEF AtNext
<1>7. Parted(input, Last(cuts[Depth]), "comma", at + 1)
  BY <1>1, <1>3, <1>4, <1>6, PartedNew
<1>8. Begins(input, cuts[Depth].count + 1, Last(cuts[Depth]), at + 1)
  BY <1>4, <1>6, <1>7 DEF Begins
<1>9. CASE open[Depth].kind = "object"
  <2>1. AtName(input, open[Depth], cuts[Depth], at + 1)
    BY <1>6, <1>8 DEF AtName
  <2>2. pc' = "name" /\ at' = at + 1
    BY <1>1, <1>3, <1>9
  <2>3. Explained(input, opts, open, built, Depth, pc', at', from, cuts)
    BY <1>4, <2>1, <2>2 DEF Explained
  <2> QED BY <1>1, <1>2, <2>3, SoundInside
<1>10. CASE open[Depth].kind # "object"
  <2>1. Last(cuts[Depth]) <= at + 1 /\ at + 1 \in Nat
    BY <1>3, <1>4, <1>8, BeginsAfter
  <2>2. Leads(input, opts, open[Depth].kind, cuts[Depth].count + 1,
              open[Depth].names[cuts[Depth].count + 1], Last(cuts[Depth]), at + 1)
    BY <1>3, <1>4, <1>8, <1>10, <2>1 DEF Leads
  <2>3. Expected(input, opts, open, cuts, Depth, at + 1)
    BY <1>3, <1>10, <2>2 DEF Expected, NamesOf
  <2>4. pc' = "value" /\ at' = at + 1
    BY <1>1, <1>3, <1>10
  <2>5. Explained(input, opts, open, built, Depth, pc', at', from, cuts)
    BY <1>4, <2>3, <2>4 DEF Explained
  <2> QED BY <1>1, <1>2, <2>5, SoundInside
<1> QED BY <1>9, <1>10

LEMMA SoundColon == ASSUME IInv, Sound, Colon PROVE Sound'
<1>1. CASE ~Peek("colon")
  BY <1>1, SoundRefused DEF Colon
<1>2. CASE Peek("colon")
  <2>1. /\ pc = "colon" /\ pc' = "value" /\ at' = at + 1
        /\ at < Len(input) /\ input[at + 1].kind = "colon"
        /\ UNCHANGED <<input, opts, open, built, result>>
    BY <1>2 DEF Colon, Peek
  <2>2. pc \in Reading /\ pc' \in Reading
    BY <2>1 DEF Reading
  <2>3. /\ Depth \in Nat /\ Depth > 0 /\ at \in Nat
        /\ open[Depth].kind = "object"
    BY <2>1, WhileReading
  <2>4. PICK from, cuts :
               /\ Explained(input, opts, open, built, Depth, pc, at, from, cuts)
               /\ Stacked(input, opts, open, built, Depth, from, cuts)
               /\ cuts[Depth].count \in Nat /\ Last(cuts[Depth]) \in Nat
    BY <2>2, <2>3, Inside
  <2>5. AtColon(input, opts, open[Depth], cuts[Depth], at)
    BY <2>1, <2>4 DEF Explained
  <2>6. PICK p \in Last(cuts[Depth])..at :
          /\ Begins(input, cuts[Depth].count + 1, Last(cuts[Depth]), p)
          /\ NameAt(input, opts, p, open[Depth].names[cuts[Depth].count + 1])
          /\ Blank(input, p + 1, at)
    BY <2>5 DEF AtColon
  <2>7. p \in Nat /\ p \in Last(cuts[Depth])..(at + 1) /\ p + 1 \in Nat
    BY <2>3, <2>4, <2>6
  <2>8. Parted(input, p + 1, "colon", at + 1)
    BY <2>1, <2>3, <2>6, <2>7, PartedNew
  <2>9. Leads(input, opts, open[Depth].kind, cuts[Depth].count + 1,
              open[Depth].names[cuts[Depth].count + 1], Last(cuts[Depth]), at + 1)
    BY <2>3, <2>6, <2>7, <2>8 DEF Leads
  <2>10. NamesOf(open[Depth], cuts[Depth].count + 1)
    BY <2>5 DEF AtColon
  <2>11. Expected(input, opts, open, cuts, Depth, at')
    BY <2>1, <2>3, <2>9, <2>10 DEF Expected
  <2>12. Explained(input, opts, open, built, Depth, pc', at', from, cuts)
    BY <2>1, <2>4, <2>11 DEF Explained
  <2> QED BY <2>1, <2>2, <2>12, SoundInside
<1> QED BY <1>1, <1>2

(* One more name does not disturb the entries before it. *)
LEMMA FitsNamed ==
    ASSUME NEW document, NEW policy, NEW level, NEW frame, NEW frame2, NEW values, NEW from, NEW c,
           Fits(document, policy, level, frame, values, from, c),
           frame2.kind = frame.kind, Agree(frame.names, frame2.names, c.count)
    PROVE  Fits(document, policy, level, frame2, values, from, c)
BY DEF Fits, Filled, Agree

LEMMA SoundMemberName == ASSUME IInv, Sound, MemberName PROVE Sound'
<1> DEFINE lexeme == input[at + 1]
<1>1. /\ pc = "name" /\ at < Len(input) /\ lexeme.kind = "str"
  BY DEF MemberName, Peek
<1>2. CASE StringFault(lexeme) # "none"
  <2>1. RefuseAt(StringFault(lexeme))
    BY <1>2 DEF MemberName
  <2> QED BY <2>1, SoundRefused
<1>3. CASE StringFault(lexeme) = "none" /\ Repeats(lexeme)
  <2>1. RefuseAt("DuplicateMember")
    BY <1>3 DEF MemberName
  <2> QED BY <2>1, SoundRefused
<1>4. CASE StringFault(lexeme) = "none" /\ ~Repeats(lexeme)
  <2> DEFINE d == Depth
  <2>1. /\ open' = [open EXCEPT ![d] = Named(@, lexeme.name)]
        /\ at' = at + 1 /\ pc' = "colon" /\ UNCHANGED <<input, opts, built, result>>
    BY <1>4 DEF MemberName
  <2>2. pc \in Reading
    BY <1>1 DEF Reading
  <2>3. /\ d \in Nat /\ d > 0 /\ at \in Nat /\ Len(input) \in Nat
        /\ open[d].kind = "object" /\ open[d] \in Frame /\ open \in Seq(Frame) /\ Len(open) = d
    BY <1>1, WhileReading DEF Depth
  <2>4. PICK from, cuts :
               /\ Explained(input, opts, open, built, Depth, pc, at, from, cuts)
               /\ Stacked(input, opts, open, built, Depth, from, cuts)
               /\ cuts[Depth].count \in Nat /\ Last(cuts[Depth]) \in Nat
    BY <2>2, <2>3, Inside
  <2>5. AtName(input, open[d], cuts[d], at)
    BY <1>1, <2>4 DEF Explained
  <2>6. lexeme \in Lexeme /\ lexeme.name \in Names /\ Allowed(lexeme, opts)
    <3>1. lexeme \in Lexeme
      BY <1>1, CurrentLexeme
    <3>2. lexeme.name \in Names
      BY <1>1, <3>1 DEF Lexeme, PunctKinds
    <3>3. Allowed(lexeme, opts)
      BY <1>1, <1>4, <3>1, StringAllowed
    <3> QED BY <3>1, <3>2, <3>3
  <2>7. /\ Len(open') = d /\ open'[d] = Named(open[d], lexeme.name)
        /\ \A i \in 1..d : i # d => open'[i] = open[i]
    BY <2>1, <2>3
  <2>8. PICK e \in Nat : d = e + 1
    <3>1. d - 1 \in Nat /\ d = (d - 1) + 1
      BY <2>3
    <3> QED BY <3>1
  <2>9. Agree(open, open', e) /\ Agree(built, built, e) /\ Agree(from, from, e) /\ Agree(cuts, cuts, e)
    BY <2>7, <2>8 DEF Agree
  <2>10. PICK frame : frame = Named(open[d], lexeme.name)
    OBVIOUS
  <2>11. /\ frame.kind = open[d].kind
         /\ frame.names = Append(open[d].names, lexeme.name)
    BY <2>3, <2>6, <2>10, NamedFrame
  <2> HIDE DEF d
  <2>12. /\ Listing(open[d].names, cuts[d].count)
         /\ Begins(input, cuts[d].count + 1, Last(cuts[d]), at)
    BY <2>3, <2>5 DEF AtName, NamesOf
  <2>13. Longer(frame.names, open[d].names, cuts[d].count, lexeme.name)
    BY <2>4, <2>11, <2>12, ListingAppend DEF d
  <2>14. /\ Stacked(input, opts, open, built, e, from, cuts)
         /\ Fits(input, opts, e, open[d], built[d], from[d], cuts[d])
         /\ Expected(input, opts, open, cuts, e, from[d])
    BY <2>3, <2>4, <2>8, StackedInnermost DEF d
  <2>15. Stacked(input, opts, open', built, e, from, cuts)
    BY <2>9, <2>14, StackedSame
  <2>16. Expected(input, opts, open', cuts, e, from[d])
    BY <2>9, <2>14, ExpectedSame
  <2>17. Fits(input, opts, e, frame, built[d], from[d], cuts[d])
    <3>1. Agree(open[d].names, frame.names, cuts[d].count)
      BY <2>13 DEF Longer, Agree
    <3> QED BY <2>11, <2>14, <3>1, FitsNamed
  <2>18. Stacked(input, opts, open', built, d, from, cuts)
    BY <2>3, <2>7, <2>8, <2>10, <2>15, <2>16, <2>17, StackedTop
  <2>19. AtColon(input, opts, frame, cuts[d], at + 1)
    <3>1. NamesOf(frame, cuts[d].count + 1)
      BY <2>13 DEF NamesOf, Longer
    <3>2. at \in Last(cuts[d])..(at + 1)
      BY <2>3, <2>4, <2>12, BeginsAfter DEF d
    <3>3. NameAt(input, opts, at, frame.names[cuts[d].count + 1])
      BY <1>1, <2>6, <2>13 DEF NameAt, Longer
    <3>4. Blank(input, at + 1, at + 1)
      BY <2>3, BlankNothing
    <3> QED BY <2>12, <3>1, <3>2, <3>3, <3>4 DEF AtColon
  <2>20. Explained(input, opts, open', built, d, "colon", at + 1, from, cuts)
    BY <2>7, <2>10, <2>18, <2>19 DEF Explained
  <2>21. Depth' = d
    BY <2>7 DEF Depth
  <2>22. Explained(input', opts', open', built', Depth', pc', at', from, cuts)
    BY <2>1, <2>20, <2>21
  <2>23. /\ Listing(built, Depth) /\ ~TooLong(opts, Len(input)) /\ result.status = "parsing"
    BY <2>2, SoundSaid
  <2>24. /\ pc' \in Reading /\ ~TooLong(opts', Len(input')) /\ Listing(built', Depth')
         /\ result'.status = "parsing"
    BY <2>1, <2>21, <2>23 DEF Reading, d
  <2> QED BY <2>22, <2>24, SoundReading
<1> QED BY <1>2, <1>3, <1>4

LEMMA SoundEndDocument == ASSUME IInv, Sound, EndDocument PROVE Sound'
<1>1. CASE ~AtEnd
  BY <1>1, SoundRefused DEF EndDocument
<1>2. CASE AtEnd
  <2>1. /\ pc = "end" /\ pc' = "done" /\ result' = [status |-> "parsed", node |-> built[1]]
        /\ UNCHANGED <<input, opts, at, open, built>> /\ at = Len(input)
    BY <1>2 DEF EndDocument, AtEnd
  <2>2. at \in Nat /\ ~TooLong(opts, Len(input))
    BY <2>1, WhileReading DEF Sound
  <2>3. PICK from \in Nat : \E to \in Nat :
          /\ Blank(input, 0, from)
          /\ from < to /\ Derives(input, opts, 0, from, to, built[1])
          /\ Blank(input, to, at)
    BY <2>1 DEF Sound
  <2>4. PICK to \in Nat :
          /\ Blank(input, 0, from)
          /\ from < to /\ Derives(input, opts, 0, from, to, built[1])
          /\ Blank(input, to, at)
    BY <2>3
  <2>5. from \in 0..Len(input) /\ to \in 0..Len(input)
    BY <2>1, <2>2, <2>4 DEF Blank
  <2>6. Denotes(input, opts, built[1])
    BY <2>1, <2>2, <2>4, <2>5 DEF Denotes
  <2>7. Denotes(input', opts', result'.node)
    BY <2>1, <2>6
  <2> QED BY <2>1, <2>7 DEF Sound, Reading
<1> QED BY <1>1, <1>2

LEMMA SoundUnchanged == ASSUME Sound, UNCHANGED vars PROVE Sound'
<1>1. UNCHANGED <<input, opts, at, pc, open, built, result>> /\ Depth' = Depth
  BY DEF vars, Depth
<1> QED BY <1>1 DEF Sound

LEMMA SoundNext == ASSUME IInv, Sound, [Next]_vars PROVE Sound'
<1>1. CASE NoValue
  BY <1>1, SoundRefused DEF NoValue
<1>2. CASE NoName
  BY <1>2, SoundRefused DEF NoName
<1>3. CASE NoSeparator
  BY <1>3, SoundRefused DEF NoSeparator
<1>4. CASE OpenArray
  BY <1>4, SoundOpen DEF OpenArray, OpenerOf
<1>5. CASE OpenObject
  BY <1>5, SoundOpen DEF OpenObject, OpenerOf
<1>6. CASE CloseEmpty
  BY <1>6, SoundClose DEF CloseEmpty
<1>7. CASE CloseFull
  BY <1>7, SoundClose DEF CloseFull
<1> QED
  BY <1>1, <1>2, <1>3, <1>4, <1>5, <1>6, <1>7, SoundCheckLength, SoundSkipWs, SoundWord,
     SoundNumber, SoundStringValue, SoundStartLoop, SoundMemberName, SoundColon, SoundComma,
     SoundEndDocument, SoundUnchanged DEF Next

LEMMA SoundInvariant == Spec => []Sound
<1>1. Init => Sound
  BY SoundInit
<1>2. IInv /\ Sound /\ [Next]_vars => Sound'
  BY SoundNext
<1> QED BY <1>1, <1>2, Invariant, PTL DEF Spec

----------------------------------------------------------------------------
(* The other direction: reading one lexeme of what a rule says comes next.   *)

ValueKinds == {"word", "num", "str", "openArray", "openObject"}

(* A value is at least one lexeme, and its first one says that it is a value. *)
LEMMA DerivesStarts ==
    ASSUME NEW document, NEW policy, NEW level, NEW from, NEW to, NEW node,
           Len(document) \in Nat,
           Derives(document, policy, level, from, to, node)
    PROVE  /\ from \in Nat /\ to \in Nat /\ from < to /\ to <= Len(document)
           /\ document[from + 1].kind \in ValueKinds
<1> DEFINE v == Span(level, from, to, node)
<1>1. v.from = from /\ v.to = to
  BY DEF Span
<1> HIDE DEF v
<1>2. CASE Atomic(document, policy, v)
  BY <1>1, <1>2 DEF Atomic, Allowed, ValueKinds
<1>3. ASSUME NEW kind \in {"array", "object"}, NEW names, NEW values, NEW cuts,
             Complete(document, policy, v, kind, names, values, cuts)
      PROVE  /\ from \in Nat /\ to \in Nat /\ from < to /\ to <= Len(document)
             /\ document[from + 1].kind \in ValueKinds
  BY <1>1, <1>3 DEF Complete, Filled, OpenerOf, ValueKinds
<1> QED BY <1>2, <1>3, Inverted DEF v

LEMMA BlankEnds ==
    ASSUME NEW document, NEW i \in Nat, NEW j \in Nat, Blank(document, i, j),
           document[i + 1].kind # "ws"
    PROVE  i = j
BY DEF Blank

LEMMA BlankLess ==
    ASSUME NEW document, NEW i \in Nat, NEW j \in Nat, Blank(document, i, j),
           document[i + 1].kind = "ws", document[j + 1].kind # "ws"
    PROVE  Blank(document, i + 1, j)
BY DEF Blank

LEMMA PartedEnds ==
    ASSUME NEW document, NEW i \in Nat, NEW j \in Nat, NEW kind, Parted(document, i, kind, j),
           document[i + 1].kind # "ws"
    PROVE  /\ document[i + 1].kind = kind
           /\ Blank(document, i + 1, j)
<1>1. PICK m \in (i + 1)..j : /\ document[m].kind = kind
                              /\ Blank(document, i, m - 1) /\ Blank(document, m, j)
  BY DEF Parted
<1>2. i = m - 1
  BY <1>1, BlankEnds
<1> QED BY <1>1, <1>2

LEMMA PartedLess ==
    ASSUME NEW document, NEW i \in Nat, NEW j \in Nat, NEW kind, Parted(document, i, kind, j),
           document[i + 1].kind = "ws", kind # "ws"
    PROVE  Parted(document, i + 1, kind, j)
<1>1. PICK m \in (i + 1)..j : /\ document[m].kind = kind
                              /\ Blank(document, i, m - 1) /\ Blank(document, m, j)
  BY DEF Parted
<1>2. m # i + 1
  BY <1>1
<1>3. m - 1 \in Nat /\ m - 1 + 1 = m /\ m \in (i + 1 + 1)..j
  BY <1>1, <1>2
<1>4. Blank(document, i + 1, m - 1)
  BY <1>1, <1>3, BlankLess
<1> QED BY <1>1, <1>3, <1>4 DEF Parted

LEMMA PartedIn ==
    ASSUME NEW document, NEW i \in Nat, NEW j \in Nat, NEW kind, Parted(document, i, kind, j)
    PROVE  i < j
BY DEF Parted

(* The kth entry is still ahead: from here, whatever parts it from the last,   *)
(* and a lexeme of its own at p.                                             *)
LEMMA BeginsLess ==
    ASSUME NEW document, NEW i \in Nat, NEW p \in Nat, NEW k, Begins(document, k, i, p),
           document[i + 1].kind = "ws", document[p + 1].kind # "ws"
    PROVE  Begins(document, k, i + 1, p) /\ i + 1 <= p
<1>1. CASE k = 1
  <2>1. Blank(document, i + 1, p)
    BY <1>1, BlankLess DEF Begins
  <2> QED BY <1>1, <2>1 DEF Begins, Blank
<1>2. CASE k # 1
  <2>1. Parted(document, i + 1, "comma", p)
    BY <1>2, PartedLess DEF Begins
  <2> QED BY <1>2, <2>1, PartedIn DEF Begins
<1> QED BY <1>1, <1>2

LEMMA LeadsLess ==
    ASSUME NEW document, NEW policy, NEW kind, NEW k, NEW name, NEW i \in Nat, NEW j \in Nat,
           Leads(document, policy, kind, k, name, i, j),
           document[i + 1].kind = "ws", document[j + 1].kind # "ws"
    PROVE  Leads(document, policy, kind, k, name, i + 1, j)
<1>1. PICK p \in i..j :
        /\ Begins(document, k, i, p)
        /\ IF kind = "object"
           THEN NameAt(document, policy, p, name) /\ Parted(document, p + 1, "colon", j)
           ELSE p = j
  BY DEF Leads
<1>2. document[p + 1].kind # "ws"
  BY <1>1 DEF NameAt
<1>3. Begins(document, k, i + 1, p) /\ i + 1 <= p
  BY <1>1, <1>2, BeginsLess
<1>4. p \in (i + 1)..j
  BY <1>3
<1> QED BY <1>1, <1>3, <1>4 DEF Leads

----------------------------------------------------------------------------
(* What has been read so far is on the way to the value the document denotes. *)

(* A container being read: the span v and the entries a derivation gives it,   *)
(* of which done have been read.                                             *)
Planned(document, policy, level, frame, values, p) ==
    /\ p.v.level = level /\ Cuts(p.cuts)
    /\ Complete(document, policy, p.v, frame.kind, p.names, p.values, p.cuts)
    /\ Derived(document, policy, level, p.values, p.cuts)
    /\ p.done \in 0..p.cuts.count
    /\ Listing(values, p.done) /\ Agree(p.values, values, p.done)

NamesRead(frame, p, n) ==
    frame.kind = "object" => Listing(frame.names, n) /\ Agree(p.names, frame.names, n)

(* Inside d containers, v is the value to be read next. *)
Aimed(document, policy, target, frames, plans, d, v) ==
    IF d = 0 THEN /\ v = Span(0, v.from, v.to, target)
                  /\ Derives(document, policy, 0, v.from, v.to, v.node)
                  /\ Blank(document, v.to, Len(document))
    ELSE /\ plans[d].done < plans[d].cuts.count
         /\ NamesRead(frames[d], plans[d], plans[d].done + 1)
         /\ v = Part(plans[d].v.level, plans[d].values, plans[d].cuts, plans[d].done + 1)

Followed(document, policy, target, frames, values, d, plans) ==
    \A i \in 1..d :
      /\ Planned(document, policy, i - 1, frames[i], values[i], plans[i])
      /\ Aimed(document, policy, target, frames, plans, i - 1, plans[i].v)

(* What comes next in the innermost container. *)
ValueAhead(document, policy, target, frames, plans, d, position) ==
    \E v : Aimed(document, policy, target, frames, plans, d, v) /\ Blank(document, position, v.from)
EntryAhead(document, policy, frame, p, position) ==
    /\ NamesRead(frame, p, p.done)
    /\ IF p.done = p.cuts.count
       THEN Blank(document, position, p.v.to - 1)
       ELSE Leads(document, policy, frame.kind, p.done + 1, p.names[p.done + 1],
                  position, p.cuts.starts[p.done + 1])
NameAhead(document, policy, frame, p, position) ==
    /\ p.done < p.cuts.count /\ NamesRead(frame, p, p.done)
    /\ \E q \in position..p.cuts.starts[p.done + 1] :
         /\ Blank(document, position, q)
         /\ NameAt(document, policy, q, p.names[p.done + 1])
         /\ Parted(document, q + 1, "colon", p.cuts.starts[p.done + 1])
ColonAhead(document, frame, p, position) ==
    /\ p.done < p.cuts.count /\ NamesRead(frame, p, p.done + 1)
    /\ Parted(document, position, "colon", p.cuts.starts[p.done + 1])

Following(document, policy, target, frames, values, d, point, position, plans) ==
    /\ Followed(document, policy, target, frames, values, d, plans)
    /\ point = "value" => ValueAhead(document, policy, target, frames, plans, d, position)
    /\ point = "first" => /\ plans[d].done = 0
                          /\ EntryAhead(document, policy, frames[d], plans[d], position)
    /\ point = "next" => /\ plans[d].done > 0
                         /\ EntryAhead(document, policy, frames[d], plans[d], position)
    /\ point = "name" => NameAhead(document, policy, frames[d], plans[d], position)
    /\ point = "colon" => ColonAhead(document, frames[d], plans[d], position)

Toward(target) ==
    /\ pc \in Reading =>
         \E plans : Following(input, opts, target, open, built, Depth, pc, at, plans)
    /\ pc = "end" => built[1] = target /\ Blank(input, at, Len(input))
    /\ pc = "done" => result = [status |-> "parsed", node |-> target]

Faithful == \A target : Denotes(input, opts, target) => Toward(target)

----------------------------------------------------------------------------
LEMMA FollowedTop ==
    ASSUME NEW document, NEW policy, NEW target, NEW frames, NEW values, NEW d \in Nat,
           NEW e \in Nat, d = e + 1, NEW plans
    PROVE  Followed(document, policy, target, frames, values, d, plans)
             <=> /\ Followed(document, policy, target, frames, values, e, plans)
                 /\ Planned(document, policy, e, frames[d], values[d], plans[d])
                 /\ Aimed(document, policy, target, frames, plans, e, plans[d].v)
<1>1. 1..d = 1..e \cup {d}
  OBVIOUS
<1>2. d - 1 = e
  OBVIOUS
<1> QED BY <1>1, <1>2 DEF Followed

LEMMA AimedSame ==
    ASSUME NEW document, NEW policy, NEW target, NEW d \in Nat, NEW v,
           NEW frames, NEW plans, NEW frames2, NEW plans2,
           Aimed(document, policy, target, frames, plans, d, v),
           Agree(frames, frames2, d), Agree(plans, plans2, d)
    PROVE  Aimed(document, policy, target, frames2, plans2, d, v)
<1>1. CASE d = 0
  BY <1>1 DEF Aimed
<1>2. CASE d > 0
  <2>1. frames2[d] = frames[d] /\ plans2[d] = plans[d]
    BY <1>2 DEF Agree
  <2> QED BY <1>2, <2>1 DEF Aimed
<1> QED BY <1>1, <1>2

LEMMA FollowedSame ==
    ASSUME NEW document, NEW policy, NEW target, NEW d \in Nat,
           NEW frames, NEW values, NEW plans, NEW frames2, NEW values2, NEW plans2,
           Followed(document, policy, target, frames, values, d, plans),
           Agree(frames, frames2, d), Agree(values, values2, d), Agree(plans, plans2, d)
    PROVE  Followed(document, policy, target, frames2, values2, d, plans2)
<1> SUFFICES ASSUME NEW i \in 1..d
             PROVE  /\ Planned(document, policy, i - 1, frames2[i], values2[i], plans2[i])
                    /\ Aimed(document, policy, target, frames2, plans2, i - 1, plans2[i].v)
  BY DEF Followed
<1>1. /\ Planned(document, policy, i - 1, frames[i], values[i], plans[i])
      /\ Aimed(document, policy, target, frames, plans, i - 1, plans[i].v)
  BY DEF Followed
<1>2. frames2[i] = frames[i] /\ values2[i] = values[i] /\ plans2[i] = plans[i]
  BY DEF Agree
<1>3. PICK j \in Nat : j = i - 1
  OBVIOUS
<1>4. Agree(frames, frames2, j) /\ Agree(plans, plans2, j)
  BY <1>3 DEF Agree
<1>5. Aimed(document, policy, target, frames2, plans2, j, plans[i].v)
  BY <1>1, <1>3, <1>4, AimedSame
<1> QED BY <1>1, <1>2, <1>3, <1>5

(* What the parser aims at is a value of the document. *)
LEMMA AimedDerives ==
    ASSUME NEW document, NEW policy, NEW target, NEW frames, NEW values, NEW d \in Nat, NEW plans,
           Len(document) \in Nat,
           Followed(document, policy, target, frames, values, d, plans), NEW v,
           Aimed(document, policy, target, frames, plans, d, v)
    PROVE  /\ v = Span(d, v.from, v.to, v.node)
           /\ Derives(document, policy, d, v.from, v.to, v.node)
           /\ v.from \in Nat /\ v.to \in Nat /\ v.from < v.to /\ v.to <= Len(document)
           /\ document[v.from + 1].kind \in ValueKinds
<1>1. CASE d = 0
  <2>1. /\ v = Span(d, v.from, v.to, target)
        /\ Derives(document, policy, d, v.from, v.to, v.node)
    BY <1>1 DEF Aimed
  <2>2. v.node = target
    BY <2>1 DEF Span
  <2> QED BY <2>1, <2>2, DerivesStarts
<1>2. CASE d > 0
  <2>1. PICK e \in Nat : d = e + 1
    <3>1. d - 1 \in Nat /\ d = (d - 1) + 1
      BY <1>2
    <3> QED BY <3>1
  <2>2. Planned(document, policy, e, frames[d], values[d], plans[d])
    BY <2>1, FollowedTop
  <2>3. PICK p : p = plans[d]
    OBVIOUS
  <2>4. PICK k : k = p.done + 1
    OBVIOUS
  <2>5. /\ p.done < p.cuts.count
        /\ v = Part(e, p.values, p.cuts, k)
    BY <1>2, <2>2, <2>3, <2>4 DEF Aimed, Planned
  <2>6. k \in 1..p.cuts.count
    BY <2>2, <2>3, <2>4, <2>5 DEF Planned, Cuts
  <2>7. Derives(document, policy, e + 1, p.cuts.starts[k], p.cuts.ends[k], p.values[k])
    BY <2>2, <2>3, <2>6 DEF Planned, Derived
  <2>8. v = Span(d, p.cuts.starts[k], p.cuts.ends[k], p.values[k])
    BY <2>1, <2>5 DEF Part
  <2>9. v.from = p.cuts.starts[k] /\ v.to = p.cuts.ends[k] /\ v.node = p.values[k]
    BY <2>8 DEF Span
  <2> QED BY <2>1, <2>7, <2>8, <2>9, DerivesStarts
<1> QED BY <1>1, <1>2

(* Right behind an entry, or the opener, what comes next is what the rule says. *)
LEMMA EntryFrom ==
    ASSUME NEW document, NEW policy, NEW level, NEW frame, NEW values, NEW p,
           Planned(document, policy, level, frame, values, p),
           NamesRead(frame, p, p.done)
    PROVE  EntryAhead(document, policy, frame, p, p.cuts.ends[p.done])
<1>1. /\ p.done \in 0..p.cuts.count /\ p.cuts.count \in Nat
      /\ Blank(document, p.cuts.ends[p.cuts.count], p.v.to - 1)
      /\ \A k \in 1..p.cuts.count : Leads(document, policy, frame.kind, k, p.names[k],
                                          p.cuts.ends[k - 1], p.cuts.starts[k])
  BY DEF Planned, Cuts, Complete, Filled
<1>2. CASE p.done = p.cuts.count
  BY <1>1, <1>2 DEF EntryAhead
<1>3. CASE p.done # p.cuts.count
  <2>1. PICK k : k = p.done + 1
    OBVIOUS
  <2>2. k \in 1..p.cuts.count /\ k - 1 = p.done
    BY <1>1, <1>3, <2>1
  <2>3. Leads(document, policy, frame.kind, k, p.names[k], p.cuts.ends[p.done], p.cuts.starts[k])
    BY <1>1, <2>2
  <2> QED BY <1>3, <2>1, <2>3 DEF EntryAhead
<1> QED BY <1>2, <1>3

Advanced(p) == [v |-> p.v, names |-> p.names, values |-> p.values, cuts |-> p.cuts,
                done |-> p.done + 1]

(* One entry more has been read. *)
LEMMA PlannedMore ==
    ASSUME NEW document, NEW policy, NEW level, NEW frame, NEW values, NEW p,
           Planned(document, policy, level, frame, values, p),
           p.done < p.cuts.count, NamesRead(frame, p, p.done + 1),
           NEW node, node = p.values[p.done + 1]
    PROVE  /\ Planned(document, policy, level, frame, Append(values, node), Advanced(p))
           /\ Advanced(p).done > 0
           /\ EntryAhead(document, policy, frame, Advanced(p), p.cuts.ends[p.done + 1])
<1>1. PICK q : q = Advanced(p)
  OBVIOUS
<1>2. /\ q.v = p.v /\ q.names = p.names /\ q.values = p.values /\ q.cuts = p.cuts
      /\ q.done = p.done + 1
  BY <1>1 DEF Advanced
<1>3. PICK n \in Nat : n = p.done /\ n < p.cuts.count /\ p.cuts.count \in Nat
  BY DEF Planned, Cuts
<1>4. PICK grown : grown = Append(values, node) /\ Longer(grown, values, n, node)
  BY <1>3, ListingAppend DEF Planned
<1>5. Listing(grown, n + 1) /\ Agree(p.values, grown, n + 1)
  <2>1. Agree(p.values, values, n)
    BY <1>3 DEF Planned
  <2>2. Listing(grown, n + 1) /\ (\A k \in 1..n : grown[k] = values[k]) /\ grown[n + 1] = node
    BY <1>4 DEF Longer
  <2>3. \A k \in 1..(n + 1) : k \in 1..n \/ k = n + 1
    BY <1>3
  <2>4. \A k \in 1..(n + 1) : grown[k] = p.values[k]
    BY <1>3, <2>1, <2>2, <2>3 DEF Agree
  <2> QED BY <2>2, <2>4 DEF Agree
<1>6. Planned(document, policy, level, frame, grown, q)
  <2>1. q.done \in 0..q.cuts.count /\ q.done = n + 1
    BY <1>2, <1>3
  <2> QED BY <1>2, <1>5, <2>1 DEF Planned
<1>7. NamesRead(frame, q, q.done)
  BY <1>2 DEF NamesRead
<1>8. EntryAhead(document, policy, frame, q, q.cuts.ends[q.done])
  BY <1>6, <1>7, EntryFrom
<1> QED BY <1>1, <1>2, <1>3, <1>4, <1>6, <1>8

(* A value that was aimed at, delivered to the container around it. *)
LEMMA DeliveredAsPlanned ==
    ASSUME NEW document, NEW policy, NEW target, NEW frames, NEW values, NEW d \in Nat,
           NEW e \in Nat, d = e + 1, NEW plans, Listing(values, d),
           Followed(document, policy, target, frames, values, d, plans),
           NEW v, Aimed(document, policy, target, frames, plans, d, v),
           NEW values2, values2 = Handed(values, v.node)
    PROVE  \E plans2 : Following(document, policy, target, frames, values2, d, "next", v.to, plans2)
<1> DEFINE p == plans[d]
<1>1. /\ Followed(document, policy, target, frames, values, e, plans)
      /\ Planned(document, policy, e, frames[d], values[d], p)
      /\ Aimed(document, policy, target, frames, plans, e, p.v)
  BY FollowedTop
<1>2. /\ p.done < p.cuts.count /\ NamesRead(frames[d], p, p.done + 1)
      /\ v = Part(p.v.level, p.values, p.cuts, p.done + 1)
  BY DEF Aimed
<1>3. v.node = p.values[p.done + 1] /\ v.to = p.cuts.ends[p.done + 1]
  BY <1>2 DEF Part, Span
<1>4. /\ Agree(values, values2, e)
      /\ values2[d] = Append(values[d], v.node)
  BY ListingHanded
<1> HIDE DEF p
<1>5. PICK q : q = Advanced(p)
  OBVIOUS
<1>6. /\ Planned(document, policy, e, frames[d], values2[d], q)
      /\ q.done > 0
      /\ EntryAhead(document, policy, frames[d], q, v.to)
  BY <1>1, <1>2, <1>3, <1>4, <1>5, PlannedMore
<1> DEFINE plans2 == [i \in 1..d |-> IF i = d THEN q ELSE plans[i]]
<1>7. plans2[d] = q /\ Agree(plans, plans2, e)
  BY DEF Agree
<1> HIDE DEF plans2
<1>8. Agree(frames, frames, e)
  BY DEF Agree
<1>9. Followed(document, policy, target, frames, values2, e, plans2)
  BY <1>1, <1>4, <1>7, <1>8, FollowedSame
<1>10. Aimed(document, policy, target, frames, plans2, e, p.v)
  BY <1>1, <1>7, <1>8, AimedSame
<1>11. q.v = p.v
  BY <1>5 DEF Advanced
<1>12. Followed(document, policy, target, frames, values2, d, plans2)
  BY <1>6, <1>7, <1>9, <1>10, <1>11, FollowedTop
<1>13. Following(document, policy, target, frames, values2, d, "next", v.to, plans2)
  BY <1>6, <1>7, <1>12 DEF Following
<1> QED BY <1>13

----------------------------------------------------------------------------
(* Where a parser on its way to a value is.                                  *)

LEMMA TowardReading ==
    ASSUME NEW target, pc' \in Reading,
           NEW plans, Following(input', opts', target, open', built', Depth', pc', at', plans)
    PROVE  Toward(target)'
<1>1. (\E plans2 : Following(input, opts, target, open, built, Depth, pc, at, plans2))'
  OBVIOUS
<1> QED BY <1>1 DEF Toward, Reading

LEMMA TowardInside ==
    ASSUME NEW target, pc' \in Reading, UNCHANGED <<input, opts, open, built>>,
           NEW plans, Following(input, opts, target, open, built, Depth, pc', at', plans)
    PROVE  Toward(target)'
<1>1. Depth' = Depth
  BY DEF Depth
<1>2. Following(input', opts', target, open', built', Depth', pc', at', plans)
  BY <1>1
<1> QED BY <1>2, TowardReading

(* value() has read the value aimed at. *)
LEMMA TowardReturn ==
    ASSUME NEW target, NEW d \in Nat, NEW above \in Seq(Frame), Len(above) = d,
           NEW values, Listing(values, d), NEW plans,
           Followed(input, opts, target, above, values, d, plans),
           NEW v, Aimed(input, opts, target, above, plans, d, v),
           Return(v.node, above, values), UNCHANGED <<input, opts>>, at' = v.to
    PROVE  Toward(target)'
<1>1. CASE above = <<>>
  <2>1. d = 0 /\ built' = <<v.node>> /\ built'[1] = v.node /\ pc' = "end"
    BY <1>1 DEF Return
  <2>2. v = Span(0, v.from, v.to, target) /\ Blank(input, v.to, Len(input))
    BY <2>1 DEF Aimed
  <2>3. v.node = target
    BY <2>2 DEF Span
  <2>4. built'[1] = target /\ Blank(input', at', Len(input'))
    BY <2>1, <2>2, <2>3
  <2> QED BY <2>1, <2>4 DEF Toward, Reading
<1>2. CASE above # <<>>
  <2>1. built' = Handed(values, v.node) /\ open' = above /\ pc' = "next"
    BY <1>2 DEF Return, Handed
  <2>2. PICK e \in Nat : d = e + 1
    <3>1. d - 1 \in Nat /\ d = (d - 1) + 1
      BY <1>2
    <3> QED BY <3>1
  <2>3. PICK plans2 : Following(input, opts, target, above, built', d, "next", v.to, plans2)
    BY <2>1, <2>2, DeliveredAsPlanned
  <2>4. Depth' = d
    BY <2>1 DEF Depth
  <2>5. Following(input', opts', target, open', built', Depth', pc', at', plans2)
    BY <2>1, <2>3, <2>4
  <2>6. pc' \in Reading
    BY <2>1 DEF Reading
  <2> QED BY <2>5, <2>6, TowardReading
<1> QED BY <1>1, <1>2

(* The next entry of a container is in the document, and a value. *)
LEMMA NextEntry ==
    ASSUME NEW document, NEW policy, NEW level \in Nat, NEW frame, NEW values, NEW p,
           Len(document) \in Nat,
           Planned(document, policy, level, frame, values, p), p.done # p.cuts.count
    PROVE  /\ p.cuts.starts[p.done + 1] \in Nat
           /\ p.cuts.starts[p.done + 1] < Len(document)
           /\ document[p.cuts.starts[p.done + 1] + 1].kind \in ValueKinds
           /\ p.done < p.cuts.count /\ p.done \in Nat
<1>1. /\ p.done \in 0..p.cuts.count /\ p.cuts.count \in Nat
      /\ Derived(document, policy, level, p.values, p.cuts)
  BY DEF Planned, Cuts
<1>2. PICK k : k = p.done + 1 /\ k \in 1..p.cuts.count
  BY <1>1
<1>3. Derives(document, policy, level + 1, p.cuts.starts[k], p.cuts.ends[k], p.values[k])
  BY <1>1, <1>2 DEF Derived
<1>4. /\ p.cuts.starts[k] \in Nat /\ p.cuts.ends[k] \in Nat
      /\ p.cuts.starts[k] < p.cuts.ends[k] /\ p.cuts.ends[k] <= Len(document)
      /\ document[p.cuts.starts[k] + 1].kind \in ValueKinds
  BY <1>3, DerivesStarts
<1> QED BY <1>1, <1>2, <1>4

LEMMA EntryInside ==
    ASSUME NEW document, NEW policy, NEW level \in Nat, NEW frame, NEW values, NEW p,
           Len(document) \in Nat,
           Planned(document, policy, level, frame, values, p),
           NEW position \in Nat, EntryAhead(document, policy, frame, p, position)
    PROVE  position < Len(document)
<1>1. CASE p.done = p.cuts.count
  <2>1. Blank(document, position, p.v.to - 1)
    BY <1>1 DEF EntryAhead
  <2>2. p.v.to \in Nat /\ p.v.to <= Len(document)
    BY DEF Planned, Complete
  <2> QED BY <2>1, <2>2 DEF Blank
<1>2. CASE p.done # p.cuts.count
  <2>1. PICK q \in position..p.cuts.starts[p.done + 1] : TRUE
    BY <1>2 DEF EntryAhead, Leads
  <2>2. p.cuts.starts[p.done + 1] \in Nat /\ p.cuts.starts[p.done + 1] < Len(document)
    BY <1>2, NextEntry
  <2> QED BY <2>1, <2>2
<1> QED BY <1>1, <1>2

(* All entries have been read: the closer is next. *)
LEMMA EntryEnds ==
    ASSUME NEW document, NEW policy, NEW level, NEW frame, NEW values, NEW p,
           Planned(document, policy, level, frame, values, p), p.done = p.cuts.count,
           NEW position \in Nat, EntryAhead(document, policy, frame, p, position),
           document[position + 1].kind # "ws"
    PROVE  /\ position + 1 = p.v.to
           /\ document[position + 1].kind = CloserOf(frame.kind)
<1>1. /\ p.v.from \in Nat /\ p.v.to \in Nat /\ p.v.from + 1 < p.v.to
      /\ document[p.v.to].kind = CloserOf(frame.kind)
  BY DEF Planned, Complete
<1>2. PICK j \in Nat : j = p.v.to - 1
  BY <1>1
<1>3. Blank(document, position, j)
  BY <1>2 DEF EntryAhead
<1>4. position = j
  BY <1>3, BlankEnds
<1>5. position + 1 = p.v.to
  BY <1>1, <1>2, <1>4
<1> QED BY <1>1, <1>5

(* They have not: the first one begins here, or a comma is next. *)
LEMMA EntryBegins ==
    ASSUME NEW document, NEW policy, NEW level \in Nat, NEW frame, NEW values, NEW p,
           Len(document) \in Nat,
           Planned(document, policy, level, frame, values, p), p.done # p.cuts.count,
           NEW position \in Nat, EntryAhead(document, policy, frame, p, position),
           document[position + 1].kind # "ws",
           NEW after, after = IF p.done = 0 THEN position ELSE position + 1
    PROVE  /\ IF p.done = 0 THEN document[position + 1].kind \in ValueKinds
                            ELSE document[position + 1].kind = "comma"
           /\ NamesRead(frame, p, p.done) /\ p.done < p.cuts.count
           /\ IF frame.kind = "object" THEN NameAhead(document, policy, frame, p, after)
                                       ELSE Blank(document, after, p.cuts.starts[p.done + 1])
<1> DEFINE start == p.cuts.starts[p.done + 1]
<1>1. /\ start \in Nat /\ document[start + 1].kind \in ValueKinds
      /\ p.done < p.cuts.count /\ p.done \in Nat
  BY NextEntry
<1>2. /\ NamesRead(frame, p, p.done)
      /\ Leads(document, policy, frame.kind, p.done + 1, p.names[p.done + 1], position, start)
  BY DEF EntryAhead
<1> HIDE DEF start
<1>3. PICK q \in position..start :
        /\ Begins(document, p.done + 1, position, q)
        /\ IF frame.kind = "object"
           THEN NameAt(document, policy, q, p.names[p.done + 1]) /\ Parted(document, q + 1, "colon", start)
           ELSE q = start
  BY <1>2 DEF Leads
<1>4. q \in Nat
  BY <1>1, <1>3
<1>5. document[q + 1].kind \in ValueKinds
  BY <1>1, <1>3 DEF NameAt, ValueKinds
<1>6. /\ IF p.done = 0 THEN document[position + 1].kind \in ValueKinds
                       ELSE document[position + 1].kind = "comma"
      /\ Blank(document, after, q) /\ after <= q
  <2>1. CASE p.done = 0
    <3>1. Blank(document, position, q)
      BY <1>3, <2>1 DEF Begins
    <3>2. position = q
      BY <1>4, <3>1, BlankEnds
    <3> QED BY <1>5, <2>1, <3>1, <3>2
  <2>2. CASE p.done # 0
    <3>1. p.done + 1 # 1
      BY <1>1, <2>2
    <3>2. Parted(document, position, "comma", q)
      BY <1>3, <3>1 DEF Begins
    <3>3. document[position + 1].kind = "comma" /\ Blank(document, position + 1, q)
      BY <1>4, <3>2, PartedEnds
    <3>4. position + 1 <= q
      BY <3>3 DEF Blank
    <3> QED BY <2>2, <3>3, <3>4
  <2> QED BY <2>1, <2>2
<1>7. CASE frame.kind = "object"
  <2>1. q \in after..start
    BY <1>1, <1>3, <1>4, <1>6
  <2>2. NameAhead(document, policy, frame, p, after)
    BY <1>1, <1>2, <1>3, <1>6, <1>7, <2>1 DEF NameAhead, start
  <2> QED BY <1>1, <1>2, <1>6, <1>7, <2>2
<1>8. CASE frame.kind # "object"
  BY <1>1, <1>2, <1>3, <1>6, <1>8 DEF start
<1> QED BY <1>7, <1>8

----------------------------------------------------------------------------
(* The innermost container and the way on in it. *)
LEMMA OnTheWay ==
    ASSUME IInv, NEW target, Toward(target), pc \in Reading
    PROVE  \E plans :
             /\ Following(input, opts, target, open, built, Depth, pc, at, plans)
             /\ Followed(input, opts, target, open, built, Depth, plans)
             /\ Depth > 0 =>
                  \E e \in Nat : /\ Depth = e + 1
                                 /\ Followed(input, opts, target, open, built, e, plans)
                                 /\ Planned(input, opts, e, open[Depth], built[Depth], plans[Depth])
                                 /\ Aimed(input, opts, target, open, plans, e, plans[Depth].v)
<1>1. PICK plans : Following(input, opts, target, open, built, Depth, pc, at, plans)
  BY DEF Toward
<1>2. Followed(input, opts, target, open, built, Depth, plans)
  BY <1>1 DEF Following
<1>3. ASSUME Depth > 0
      PROVE  \E e \in Nat : /\ Depth = e + 1
                            /\ Followed(input, opts, target, open, built, e, plans)
                            /\ Planned(input, opts, e, open[Depth], built[Depth], plans[Depth])
                            /\ Aimed(input, opts, target, open, plans, e, plans[Depth].v)
  <2>1. Depth - 1 \in Nat /\ Depth = (Depth - 1) + 1 /\ Depth \in Nat
    BY <1>3, WhileReading
  <2>2. PICK e \in Nat : Depth = e + 1
    BY <2>1
  <2> QED BY <1>2, <2>1, <2>2, FollowedTop
<1> QED BY <1>1, <1>2, <1>3

(* At a value: it is the one aimed at, and it begins here. *)
LEMMA ValueHere ==
    ASSUME IInv, NEW target, Toward(target), pc = "value", ~Peek("ws")
    PROVE  \E plans, v :
             /\ Followed(input, opts, target, open, built, Depth, plans)
             /\ Aimed(input, opts, target, open, plans, Depth, v)
             /\ v.from = at /\ v = Span(Depth, at, v.to, v.node)
             /\ Derives(input, opts, Depth, at, v.to, v.node)
             /\ at < Len(input) /\ input[at + 1].kind \in ValueKinds
<1>1. pc \in Reading
  BY DEF Reading
<1>2. PICK plans :
        /\ Following(input, opts, target, open, built, Depth, pc, at, plans)
        /\ Followed(input, opts, target, open, built, Depth, plans)
  BY <1>1, OnTheWay
<1>3. PICK v : Aimed(input, opts, target, open, plans, Depth, v) /\ Blank(input, at, v.from)
  BY <1>2 DEF Following, ValueAhead
<1>4. Depth \in Nat /\ Len(input) \in Nat /\ at \in Nat
  BY WhileReading
<1>5. /\ v = Span(Depth, v.from, v.to, v.node)
      /\ Derives(input, opts, Depth, v.from, v.to, v.node)
      /\ v.from \in Nat /\ v.to \in Nat /\ v.from < v.to /\ v.to <= Len(input)
      /\ input[v.from + 1].kind \in ValueKinds
  BY <1>2, <1>3, <1>4, AimedDerives
<1>6. at <= v.from
  BY <1>3 DEF Blank
<1>7. at < Len(input)
  BY <1>4, <1>5, <1>6
<1>8. input[at + 1].kind # "ws"
  BY <1>7 DEF Peek
<1>9. at = v.from
  BY <1>3, <1>4, <1>5, <1>8, BlankEnds
<1> QED BY <1>2, <1>3, <1>5, <1>7, <1>9

----------------------------------------------------------------------------
LEMMA TowardCheckLength ==
    ASSUME IInv, Sound, NEW target, Denotes(input, opts, target), CheckLength
    PROVE  Toward(target)'
<1>1. ~TooLong(opts, Len(input))
  BY DEF Denotes
<1>2. /\ pc = "length" /\ pc' = "value" /\ UNCHANGED <<input, opts, at, open, built, result>>
  BY <1>1 DEF CheckLength
<1>3. at = 0 /\ Depth = 0
  BY <1>2, WhileReading DEF Sound
<1>4. PICK from \in 0..Len(input) : \E to \in 0..Len(input) :
        /\ Blank(input, 0, from)
        /\ Derives(input, opts, 0, from, to, target)
        /\ Blank(input, to, Len(input))
  BY DEF Denotes
<1>5. PICK to \in 0..Len(input) :
        /\ Blank(input, 0, from)
        /\ Derives(input, opts, 0, from, to, target)
        /\ Blank(input, to, Len(input))
  BY <1>4
<1>6. PICK v : v = Span(0, from, to, target)
  OBVIOUS
<1>7. v.from = from /\ v.to = to /\ v.node = target
  BY <1>6 DEF Span
<1>8. Aimed(input, opts, target, open, <<>>, 0, v) /\ Blank(input, at, v.from)
  BY <1>3, <1>5, <1>6, <1>7 DEF Aimed
<1>9. Followed(input, opts, target, open, built, 0, <<>>)
  BY DEF Followed
<1>10. Following(input, opts, target, open, built, Depth, pc', at', <<>>)
  BY <1>2, <1>3, <1>8, <1>9 DEF Following, ValueAhead
<1> QED BY <1>2, <1>10, TowardInside DEF Reading

(* Whitespace changes nothing. *)
LEMMA TowardSkipWs ==
    ASSUME IInv, NEW target, Toward(target), SkipWs
    PROVE  Toward(target)'
<1>1. /\ pc \in Reading \cup {"end"} /\ at < Len(input) /\ input[at + 1].kind = "ws"
      /\ at' = at + 1 /\ UNCHANGED <<input, opts, pc, open, built, result>>
  BY DEF SkipWs, Peek, PcValues, Reading
<1>2. at \in Nat /\ Len(input) \in Nat /\ Depth \in Nat /\ at + 1 \in Nat
  BY WhileReading
<1>3. CASE pc = "end"
  <2>1. built[1] = target /\ Blank(input, at, Len(input))
    BY <1>3 DEF Toward
  <2>2. Blank(input, at + 1, Len(input))
    BY <1>1, <1>2, <2>1 DEF Blank
  <2>3. built'[1] = target /\ Blank(input', at', Len(input'))
    BY <1>1, <2>1, <2>2
  <2> QED BY <1>1, <1>3, <2>3 DEF Toward, Reading
<1>4. CASE pc \in Reading
  <2>1. PICK plans :
          /\ Following(input, opts, target, open, built, Depth, pc, at, plans)
          /\ Followed(input, opts, target, open, built, Depth, plans)
          /\ Depth > 0 =>
               \E e \in Nat : /\ Depth = e + 1
                              /\ Followed(input, opts, target, open, built, e, plans)
                              /\ Planned(input, opts, e, open[Depth], built[Depth], plans[Depth])
                              /\ Aimed(input, opts, target, open, plans, e, plans[Depth].v)
    BY <1>4, OnTheWay
  <2> DEFINE p == plans[Depth]
             frame == open[Depth]
  <2>2. pc # "value" =>
          \E e \in Nat : Depth = e + 1 /\ Planned(input, opts, e, frame, built[Depth], p)
    BY <1>4, <2>1, WhileReading DEF Reading
  <2> HIDE DEF p, frame
  <2>3. CASE pc = "value"
    <3>1. PICK v : Aimed(input, opts, target, open, plans, Depth, v) /\ Blank(input, at, v.from)
      BY <2>1, <2>3 DEF Following, ValueAhead
    <3>2. v.from \in Nat /\ input[v.from + 1].kind # "ws"
      BY <1>2, <2>1, <3>1, AimedDerives DEF ValueKinds
    <3>3. Blank(input, at + 1, v.from)
      BY <1>1, <1>2, <3>1, <3>2, BlankLess
    <3>4. ValueAhead(input, opts, target, open, plans, Depth, at + 1)
      BY <3>1, <3>3 DEF ValueAhead
    <3>5. Following(input, opts, target, open, built, Depth, pc', at', plans)
      BY <1>1, <2>1, <2>3, <3>4 DEF Following
    <3> QED BY <1>1, <1>4, <3>5, TowardInside
  <2>4. CASE pc \in {"first", "next"}
    <3>1. EntryAhead(input, opts, frame, p, at)
      BY <2>1, <2>4 DEF Following, frame, p
    <3>2. PICK e \in Nat : Planned(input, opts, e, frame, built[Depth], p)
      BY <2>2, <2>4
    <3>3. ASSUME p.done = p.cuts.count PROVE EntryAhead(input, opts, frame, p, at + 1)
      <4>1. PICK to \in Nat : to = p.v.to - 1 /\ input[to + 1].kind # "ws"
        <5>1. /\ p.v.to \in Nat /\ p.v.from \in Nat /\ p.v.from + 1 < p.v.to
              /\ input[p.v.to].kind # "ws"
          BY <3>2 DEF Planned, Complete, CloserOf
        <5>2. p.v.to - 1 \in Nat /\ p.v.to - 1 + 1 = p.v.to
          BY <5>1
        <5> QED BY <5>1, <5>2
      <4>2. Blank(input, at, to)
        BY <3>1, <3>3, <4>1 DEF EntryAhead
      <4>3. Blank(input, at + 1, to)
        BY <1>1, <1>2, <4>1, <4>2, BlankLess
      <4> QED BY <3>1, <3>3, <4>1, <4>3 DEF EntryAhead
    <3>4. ASSUME p.done # p.cuts.count PROVE EntryAhead(input, opts, frame, p, at + 1)
      <4>1. PICK start \in Nat : /\ start = p.cuts.starts[p.done + 1]
                                 /\ input[start + 1].kind # "ws"
        <5>1. /\ p.cuts.starts[p.done + 1] \in Nat
              /\ input[p.cuts.starts[p.done + 1] + 1].kind \in ValueKinds
          BY <1>2, <3>2, <3>4, NextEntry
        <5> QED BY <5>1 DEF ValueKinds
      <4>2. Leads(input, opts, frame.kind, p.done + 1, p.names[p.done + 1], at, start)
        BY <3>1, <3>4, <4>1 DEF EntryAhead
      <4>3. Leads(input, opts, frame.kind, p.done + 1, p.names[p.done + 1], at + 1, start)
        BY <1>1, <1>2, <4>1, <4>2, LeadsLess
      <4> QED BY <3>1, <3>4, <4>1, <4>3 DEF EntryAhead
    <3>5. EntryAhead(input, opts, frame, p, at + 1)
      BY <3>3, <3>4
    <3>6. Following(input, opts, target, open, built, Depth, pc', at', plans)
      BY <1>1, <2>1, <2>4, <3>5 DEF Following, frame, p
    <3> QED BY <1>1, <1>4, <3>6, TowardInside
  <2>5. CASE pc = "name"
    <3>1. NameAhead(input, opts, frame, p, at)
      BY <2>1, <2>5 DEF Following, frame, p
    <3>2. PICK e \in Nat : Planned(input, opts, e, frame, built[Depth], p)
      BY <2>2, <2>5
    <3>3. PICK start \in Nat : start = p.cuts.starts[p.done + 1]
      <4>1. p.done # p.cuts.count
        BY <3>1, <3>2 DEF NameAhead, Planned, Cuts
      <4> QED BY <1>2, <3>2, <4>1, NextEntry
    <3>4. PICK q \in at..start :
            /\ Blank(input, at, q)
            /\ NameAt(input, opts, q, p.names[p.done + 1])
            /\ Parted(input, q + 1, "colon", start)
      BY <3>1, <3>3 DEF NameAhead
    <3>5. q \in Nat /\ input[q + 1].kind # "ws"
      BY <1>2, <3>3, <3>4 DEF NameAt
    <3>6. Blank(input, at + 1, q)
      BY <1>1, <1>2, <3>4, <3>5, BlankLess
    <3>7. q \in (at + 1)..start
      BY <1>2, <3>3, <3>4, <3>5, <3>6 DEF Blank
    <3>8. NameAhead(input, opts, frame, p, at + 1)
      BY <3>1, <3>3, <3>4, <3>6, <3>7 DEF NameAhead
    <3>9. Following(input, opts, target, open, built, Depth, pc', at', plans)
      BY <1>1, <2>1, <2>5, <3>8 DEF Following, frame, p
    <3> QED BY <1>1, <1>4, <3>9, TowardInside
  <2>6. CASE pc = "colon"
    <3>1. ColonAhead(input, frame, p, at)
      BY <2>1, <2>6 DEF Following, frame, p
    <3>2. PICK e \in Nat : Planned(input, opts, e, frame, built[Depth], p)
      BY <2>2, <2>6
    <3>3. PICK start \in Nat : start = p.cuts.starts[p.done + 1]
      <4>1. p.done # p.cuts.count
        BY <3>1, <3>2 DEF ColonAhead, Planned, Cuts
      <4> QED BY <1>2, <3>2, <4>1, NextEntry
    <3>4. Parted(input, at + 1, "colon", start)
      BY <1>1, <1>2, <3>1, <3>3, PartedLess DEF ColonAhead
    <3>5. ColonAhead(input, frame, p, at + 1)
      BY <3>1, <3>3, <3>4 DEF ColonAhead
    <3>6. Following(input, opts, target, open, built, Depth, pc', at', plans)
      BY <1>1, <2>1, <2>6, <3>5 DEF Following, frame, p
    <3> QED BY <1>1, <1>4, <3>6, TowardInside
  <2> QED BY <1>4, <2>3, <2>4, <2>5, <2>6 DEF Reading
<1> QED BY <1>1, <1>3, <1>4

(* A value of one lexeme: it is allowed, and it is the value aimed at. *)
LEMMA ScalarHere ==
    ASSUME IInv, Sound, NEW target, Toward(target), pc = "value", at < Len(input),
           input[at + 1].kind \in {"word", "num", "str"}
    PROVE  /\ Allowed(input[at + 1], opts)
           /\ ReturnScalar(ScalarNode(input[at + 1])) => Toward(target)'
<1>1. ~Peek("ws")
  BY DEF Peek
<1>2. PICK plans, v :
        /\ Followed(input, opts, target, open, built, Depth, plans)
        /\ Aimed(input, opts, target, open, plans, Depth, v)
        /\ v.from = at /\ v = Span(Depth, at, v.to, v.node)
        /\ Derives(input, opts, Depth, at, v.to, v.node)
  BY <1>1, ValueHere
<1>3. Atomic(input, opts, v)
  <2>1. ASSUME NEW kind \in {"array", "object"}, NEW names, NEW values, NEW cuts,
               Complete(input, opts, v, kind, names, values, cuts)
        PROVE  FALSE
    BY <1>2, <2>1 DEF Complete, Filled, OpenerOf
  <2> QED BY <1>2, <2>1, Inverted
<1>4. v.to = at + 1 /\ Allowed(input[at + 1], opts) /\ v.node = ScalarNode(input[at + 1])
  BY <1>2, <1>3 DEF Atomic
<1>5. ASSUME ReturnScalar(ScalarNode(input[at + 1])) PROVE Toward(target)'
  <2>1. Return(v.node, open, built) /\ at' = v.to /\ UNCHANGED <<input, opts, result>>
    BY <1>4, <1>5 DEF ReturnScalar
  <2>2. /\ Depth \in Nat /\ open \in Seq(Frame) /\ Len(open) = Depth
        /\ Listing(built, Depth)
    BY WhileReading, SoundSaid DEF Depth, Reading
  <2> QED BY <1>2, <2>1, <2>2, TowardReturn
<1> QED BY <1>4, <1>5

LEMMA TowardNoValue ==
    ASSUME IInv, NEW target, Toward(target), NoValue
    PROVE  FALSE
<1>1. /\ pc = "value"
      /\ AtEnd \/ \E kind \in {"closeObject", "closeArray", "comma", "colon", "bad"} : Peek(kind)
  BY DEF NoValue
<1>2. ~Peek("ws")
  BY <1>1 DEF AtEnd, Peek
<1>3. at < Len(input) /\ input[at + 1].kind \in ValueKinds
  BY <1>1, <1>2, ValueHere
<1> QED BY <1>1, <1>3 DEF AtEnd, Peek, ValueKinds

LEMMA TowardWord == ASSUME IInv, Sound, NEW target, Toward(target), Word PROVE Toward(target)'
<1>1. /\ pc = "value" /\ at < Len(input) /\ input[at + 1].kind = "word"
      /\ ReturnScalar(<<"word", input[at + 1].word>>)
  BY DEF Word, Peek
<1>2. <<"word", input[at + 1].word>> = ScalarNode(input[at + 1])
  BY <1>1 DEF ScalarNode
<1> QED BY <1>1, <1>2, ScalarHere

LEMMA TowardNumber == ASSUME IInv, Sound, NEW target, Toward(target), Number PROVE Toward(target)'
<1> DEFINE lexeme == input[at + 1]
<1>1. /\ pc = "value" /\ at < Len(input) /\ lexeme.kind = "num"
  BY DEF Number, Peek
<1>2. lexeme \in Lexeme /\ opts \in Policy
  BY <1>1, CurrentLexeme
<1>3. Allowed(lexeme, opts)
  BY <1>1, ScalarHere
<1>4. NumberFault(lexeme.class, opts) = "none"
  BY <1>1, <1>2, <1>3, NumberAllowed
<1>5. ReturnScalar(<<"num", lexeme.class>>)
  BY <1>4 DEF Number
<1>6. <<"num", lexeme.class>> = ScalarNode(lexeme)
  BY <1>1 DEF ScalarNode
<1> QED BY <1>1, <1>5, <1>6, ScalarHere

LEMMA TowardStringValue ==
    ASSUME IInv, Sound, NEW target, Toward(target), StringValue
    PROVE  Toward(target)'
<1> DEFINE lexeme == input[at + 1]
<1>1. /\ pc = "value" /\ at < Len(input) /\ lexeme.kind = "str"
  BY DEF StringValue, Peek
<1>2. lexeme \in Lexeme
  BY <1>1, CurrentLexeme
<1>3. Allowed(lexeme, opts)
  BY <1>1, ScalarHere
<1>4. StringFault(lexeme) = "none"
  BY <1>1, <1>2, <1>3, StringAllowed
<1>5. ReturnScalar(<<"str", lexeme.name>>)
  BY <1>4 DEF StringValue
<1>6. <<"str", lexeme.name>> = ScalarNode(lexeme)
  BY <1>1 DEF ScalarNode
<1> QED BY <1>1, <1>5, <1>6, ScalarHere

LEMMA TowardOpen ==
    ASSUME IInv, Sound, NEW target, Toward(target), NEW opener, NEW kind \in {"array", "object"},
           opener = OpenerOf(kind), Open(opener, kind)
    PROVE  Toward(target)'
<1> DEFINE d == Depth
<1>1. pc = "value" /\ at < Len(input) /\ input[at + 1].kind = opener
  BY DEF Open, Peek
<1>2. ~Peek("ws")
  BY <1>1 DEF Peek, OpenerOf
<1>3. PICK plans, v :
        /\ Followed(input, opts, target, open, built, d, plans)
        /\ Aimed(input, opts, target, open, plans, d, v)
        /\ v.from = at /\ v = Span(d, at, v.to, v.node)
        /\ Derives(input, opts, d, at, v.to, v.node)
  BY <1>1, <1>2, ValueHere
<1>4. ~Atomic(input, opts, v)
  BY <1>1, <1>3 DEF Atomic, Allowed, OpenerOf
<1>5. PICK kind2 \in {"array", "object"} : \E names, values, cuts :
        /\ Cuts(cuts)
        /\ Complete(input, opts, Span(d, at, v.to, v.node), kind2, names, values, cuts)
        /\ Derived(input, opts, d, values, cuts)
  BY <1>3, <1>4, Inverted
<1>6. PICK names, values, cuts :
        /\ Cuts(cuts)
        /\ Complete(input, opts, v, kind2, names, values, cuts)
        /\ Derived(input, opts, d, values, cuts)
  BY <1>3, <1>5
<1>7. input[at + 1].kind = OpenerOf(kind2) /\ cuts.ends[0] = at + 1 /\ v.level < opts.max_depth
  BY <1>3, <1>6 DEF Complete, Filled
<1>8. kind2 = kind
  BY <1>1, <1>7 DEF OpenerOf
<1>9. v.level = d
  BY <1>3 DEF Span
<1>10. at \in Nat /\ d \in Nat /\ Listing(open, d) /\ Len(input) \in Nat
  BY WhileReading, SeqIsListing DEF Depth
<1>11. ~DepthExhausted
  <2>1. opts.max_depth \in Nat
    BY DEF IInv, TypeOK, Policy
  <2> QED BY <1>7, <1>9, <1>10, <2>1 DEF DepthExhausted
<1>12. PICK fresh : fresh = [kind |-> kind, seen |-> {}, names |-> <<>>]
  OBVIOUS
<1>13. /\ open' = Append(open, fresh) /\ built' = Append(built, <<>>)
       /\ at' = at + 1 /\ pc' = "first" /\ UNCHANGED <<input, opts, result>>
  BY <1>11, <1>12 DEF Open
<1>14. Listing(built, d)
  BY <1>1, SoundSaid DEF Reading
<1> HIDE DEF d
<1>15. Longer(open', open, d, fresh) /\ Longer(built', built, d, <<>>)
  BY <1>10, <1>13, <1>14, ListingAppend
<1>16. Depth' = d + 1
  BY <1>10, <1>15, ListingLength DEF Depth, Longer
<1>17. /\ Agree(open, open', d) /\ Agree(built, built', d)
       /\ open'[d + 1] = fresh /\ built'[d + 1] = <<>>
  BY <1>15 DEF Longer, Agree
<1>18. PICK p : p = [v |-> v, names |-> names, values |-> values, cuts |-> cuts, done |-> 0]
  OBVIOUS
<1>19. p.v = v /\ p.names = names /\ p.values = values /\ p.cuts = cuts /\ p.done = 0
  BY <1>18
<1>20. fresh.kind = kind /\ fresh.names = <<>>
  BY <1>12
<1>21. Planned(input, opts, d, fresh, <<>>, p)
  <2>1. 0 \in 0..cuts.count
    BY <1>6 DEF Cuts
  <2>2. Agree(values, <<>>, 0) /\ Listing(<<>>, 0)
    BY ListingNothing DEF Agree
  <2> QED BY <1>6, <1>8, <1>9, <1>19, <1>20, <2>1, <2>2 DEF Planned
<1>22. NamesRead(fresh, p, 0)
  BY <1>20, ListingNothing DEF NamesRead, Agree
<1>23. EntryAhead(input, opts, fresh, p, at + 1)
  <2>1. p.cuts.ends[p.done] = at + 1
    BY <1>7, <1>19
  <2>2. NamesRead(fresh, p, p.done)
    BY <1>19, <1>22
  <2> QED BY <1>21, <2>1, <2>2, EntryFrom
<1> DEFINE plans2 == [i \in 1..(d + 1) |-> IF i = d + 1 THEN p ELSE plans[i]]
<1>24. plans2[d + 1] = p /\ Agree(plans, plans2, d)
  BY <1>10 DEF Agree
<1> HIDE DEF plans2
<1>25. Followed(input, opts, target, open', built', d, plans2)
  BY <1>3, <1>10, <1>17, <1>24, FollowedSame
<1>26. Aimed(input, opts, target, open', plans2, d, v)
  BY <1>3, <1>10, <1>17, <1>24, AimedSame
<1>27. Followed(input, opts, target, open', built', d + 1, plans2)
  <2>1. d + 1 \in Nat
    BY <1>10
  <2> QED BY <1>10, <1>17, <1>19, <1>21, <1>24, <1>25, <1>26, <2>1, FollowedTop
<1>28. Following(input, opts, target, open', built', d + 1, "first", at + 1, plans2)
  BY <1>17, <1>19, <1>23, <1>24, <1>27 DEF Following
<1>29. Following(input', opts', target, open', built', Depth', pc', at', plans2)
  BY <1>13, <1>16, <1>28
<1>30. pc' \in Reading
  BY <1>13 DEF Reading
<1> QED BY <1>29, <1>30, TowardReading

----------------------------------------------------------------------------
(* What an entry read in full has in the way of parts. *)
LEMMA SameListing ==
    ASSUME NEW n, NEW f, NEW g, Listing(f, n), Listing(g, n), Agree(f, g, n)
    PROVE  f = g
<1>1. f = [k \in 1..n |-> f[k]] /\ g = [k \in 1..n |-> g[k]]
  BY DEF Listing
<1>2. \A k \in 1..n : f[k] = g[k]
  BY DEF Agree
<1> QED BY <1>1, <1>2

(* At first or next, with no whitespace here. *)
LEMMA EntryHere ==
    ASSUME IInv, Sound, NEW target, Toward(target), pc \in {"first", "next"}, ~Peek("ws")
    PROVE  \E plans : \E e \in Nat :
             /\ Depth = e + 1 /\ at < Len(input)
             /\ input[at + 1].kind # "ws"
             /\ Followed(input, opts, target, open, built, Depth, plans)
             /\ Followed(input, opts, target, open, built, e, plans)
             /\ Planned(input, opts, e, open[Depth], built[Depth], plans[Depth])
             /\ Aimed(input, opts, target, open, plans, e, plans[Depth].v)
             /\ EntryAhead(input, opts, open[Depth], plans[Depth], at)
             /\ pc = "first" <=> plans[Depth].done = 0
             /\ pc = "next" => plans[Depth].done > 0
<1>1. pc \in Reading /\ Depth > 0 /\ at \in Nat /\ Len(input) \in Nat
  BY WhileReading DEF Reading
<1>2. PICK plans :
        /\ Following(input, opts, target, open, built, Depth, pc, at, plans)
        /\ Followed(input, opts, target, open, built, Depth, plans)
        /\ \E e \in Nat : /\ Depth = e + 1
                          /\ Followed(input, opts, target, open, built, e, plans)
                          /\ Planned(input, opts, e, open[Depth], built[Depth], plans[Depth])
                          /\ Aimed(input, opts, target, open, plans, e, plans[Depth].v)
  BY <1>1, OnTheWay
<1>3. PICK e \in Nat : /\ Depth = e + 1
                       /\ Followed(input, opts, target, open, built, e, plans)
                       /\ Planned(input, opts, e, open[Depth], built[Depth], plans[Depth])
                       /\ Aimed(input, opts, target, open, plans, e, plans[Depth].v)
  BY <1>2
<1>4. /\ EntryAhead(input, opts, open[Depth], plans[Depth], at)
      /\ pc = "first" <=> plans[Depth].done = 0
      /\ pc = "next" => plans[Depth].done > 0
  BY <1>2 DEF Following
<1>5. at < Len(input)
  BY <1>1, <1>3, <1>4, EntryInside
<1>6. input[at + 1].kind # "ws"
  BY <1>5 DEF Peek
<1> QED BY <1>2, <1>3, <1>4, <1>5, <1>6

LEMMA TowardClose ==
    ASSUME IInv, Sound, NEW target, Toward(target), pc \in {"first", "next"}, AtCloser, Close
    PROVE  Toward(target)'
<1> DEFINE frame == open[Depth]
<1>1. Depth > 0 /\ at \in Nat /\ Len(input) \in Nat /\ pc \in Reading
  BY WhileReading DEF Reading
<1>2. /\ at < Len(input) /\ Innermost = frame
      /\ frame.kind \in {"array", "object"}
      /\ InObject <=> frame.kind = "object"
      /\ input[at + 1].kind = CloserOf(frame.kind)
  <2>1. (InArray /\ Peek("closeArray")) \/ (InObject /\ Peek("closeObject"))
    BY DEF AtCloser
  <2> QED BY <1>1, <2>1, WhileReading DEF Peek, CloserOf
<1>3. ~Peek("ws")
  BY <1>2 DEF Peek, CloserOf
<1>4. PICK plans : \E e \in Nat :
        /\ Depth = e + 1 /\ at < Len(input)
        /\ input[at + 1].kind # "ws"
        /\ Followed(input, opts, target, open, built, Depth, plans)
        /\ Followed(input, opts, target, open, built, e, plans)
        /\ Planned(input, opts, e, open[Depth], built[Depth], plans[Depth])
        /\ Aimed(input, opts, target, open, plans, e, plans[Depth].v)
        /\ EntryAhead(input, opts, open[Depth], plans[Depth], at)
        /\ pc = "first" <=> plans[Depth].done = 0
        /\ pc = "next" => plans[Depth].done > 0
  BY <1>3, EntryHere
<1>5. PICK e \in Nat :
        /\ Depth = e + 1
        /\ input[at + 1].kind # "ws"
        /\ Followed(input, opts, target, open, built, e, plans)
        /\ Planned(input, opts, e, frame, built[Depth], plans[Depth])
        /\ Aimed(input, opts, target, open, plans, e, plans[Depth].v)
        /\ EntryAhead(input, opts, frame, plans[Depth], at)
  BY <1>4
<1>6. PICK p : p = plans[Depth]
  OBVIOUS
<1> HIDE DEF frame
<1>7. p.done = p.cuts.count
  <2>1. CASE p.done # p.cuts.count
    <3>1. PICK after : after = IF p.done = 0 THEN at ELSE at + 1
      OBVIOUS
    <3>2. IF p.done = 0 THEN input[at + 1].kind \in ValueKinds
                        ELSE input[at + 1].kind = "comma"
      BY <1>1, <1>5, <1>6, <2>1, <3>1, EntryBegins
    <3> QED BY <1>2, <3>2 DEF ValueKinds, CloserOf
  <2> QED BY <2>1
<1>8. at + 1 = p.v.to
  BY <1>1, <1>5, <1>6, <1>7, EntryEnds
<1>9. /\ Listing(p.values, p.done) /\ Listing(built[Depth], p.done)
      /\ Agree(p.values, built[Depth], p.done)
      /\ frame.kind = "object" => /\ Listing(p.names, p.done) /\ Listing(frame.names, p.done)
                                  /\ Agree(p.names, frame.names, p.done)
      /\ p.v.node = ContainerNode(frame.kind, p.names, p.values)
  BY <1>5, <1>6, <1>7 DEF Planned, Complete, EntryAhead, NamesRead
<1>10. built[Depth] = p.values /\ (frame.kind = "object" => frame.names = p.names)
  BY <1>9, SameListing
<1>11. PICK above, values : /\ above = SubSeq(open, 1, Depth - 1)
                            /\ values = SubSeq(built, 1, Depth - 1)
  OBVIOUS
<1>12. /\ Return(p.v.node, above, values) /\ at' = p.v.to /\ UNCHANGED <<input, opts>>
  <2>1. p.v.node = IF InObject THEN <<"object", Innermost.names, built[Depth]>>
                               ELSE <<"array", built[Depth]>>
    BY <1>2, <1>9, <1>10 DEF ContainerNode
  <2> QED BY <1>8, <1>11, <2>1 DEF Close
<1>13. /\ above \in Seq(Frame) /\ Len(above) = e /\ Listing(values, e)
       /\ Agree(open, above, e) /\ Agree(built, values, e)
  <2>1. Listing(built, Depth)
    BY <1>1, SoundSaid
  <2>2. PICK f \in Nat :
             /\ Depth = f + 1
             /\ SubSeq(open, 1, Depth - 1) \in Seq(Frame)
             /\ Len(SubSeq(open, 1, Depth - 1)) = f
             /\ Agree(open, SubSeq(open, 1, Depth - 1), f)
             /\ Listing(SubSeq(built, 1, Depth - 1), f)
             /\ Agree(built, SubSeq(built, 1, Depth - 1), f)
    BY <1>1, <2>1, Below
  <2>3. f = e
    BY <1>5, <2>2
  <2> QED BY <1>11, <2>2, <2>3
<1>14. Agree(plans, plans, e)
  BY DEF Agree
<1>15. Followed(input, opts, target, above, values, e, plans)
  BY <1>5, <1>13, <1>14, FollowedSame
<1>16. Aimed(input, opts, target, above, plans, e, p.v)
  BY <1>5, <1>6, <1>13, <1>14, AimedSame
<1> QED BY <1>12, <1>13, <1>15, <1>16, TowardReturn

(* The way into the next entry: a name in an object, a value in an array. *)
LEMMA TowardEntry ==
    ASSUME IInv, Sound, NEW target, Toward(target), pc \in {"first", "next"}, ~Peek("ws"),
           ~AtCloser
    PROVE  /\ pc = "next" => Peek("comma")
           /\ /\ pc' = IF InObject THEN "name" ELSE "value"
              /\ at' = IF pc = "first" THEN at ELSE at + 1
              /\ UNCHANGED <<input, opts, open, built>>
              => Toward(target)'
<1> DEFINE frame == open[Depth]
<1>1. /\ Depth > 0 /\ Depth \in Nat /\ at \in Nat /\ Len(input) \in Nat
      /\ frame.kind \in {"array", "object"}
      /\ InObject <=> frame.kind = "object"
      /\ InArray <=> frame.kind = "array"
  BY WhileReading
<1>2. PICK plans : \E e \in Nat :
        /\ Depth = e + 1 /\ at < Len(input)
        /\ input[at + 1].kind # "ws"
        /\ Followed(input, opts, target, open, built, Depth, plans)
        /\ Followed(input, opts, target, open, built, e, plans)
        /\ Planned(input, opts, e, open[Depth], built[Depth], plans[Depth])
        /\ Aimed(input, opts, target, open, plans, e, plans[Depth].v)
        /\ EntryAhead(input, opts, open[Depth], plans[Depth], at)
        /\ pc = "first" <=> plans[Depth].done = 0
        /\ pc = "next" => plans[Depth].done > 0
  BY EntryHere
<1>3. PICK e \in Nat :
        /\ Depth = e + 1 /\ at < Len(input)
        /\ input[at + 1].kind # "ws"
        /\ Planned(input, opts, e, frame, built[Depth], plans[Depth])
        /\ EntryAhead(input, opts, frame, plans[Depth], at)
        /\ pc = "first" <=> plans[Depth].done = 0
        /\ Followed(input, opts, target, open, built, Depth, plans)
  BY <1>2
<1>4. PICK p : p = plans[Depth]
  OBVIOUS
<1> HIDE DEF frame
<1>5. p.done # p.cuts.count
  <2>1. CASE p.done = p.cuts.count
    <3>1. input[at + 1].kind = CloserOf(frame.kind)
      BY <1>1, <1>3, <1>4, <2>1, EntryEnds
    <3>2. AtCloser
      BY <1>1, <1>3, <3>1 DEF AtCloser, CloserOf, Peek
    <3> QED BY <3>2
  <2> QED BY <2>1
<1>6. PICK after : after = IF p.done = 0 THEN at ELSE at + 1
  OBVIOUS
<1>7. /\ IF p.done = 0 THEN input[at + 1].kind \in ValueKinds
                       ELSE input[at + 1].kind = "comma"
      /\ NamesRead(frame, p, p.done) /\ p.done < p.cuts.count
      /\ IF frame.kind = "object" THEN NameAhead(input, opts, frame, p, after)
                                  ELSE Blank(input, after, p.cuts.starts[p.done + 1])
  BY <1>1, <1>3, <1>4, <1>5, <1>6, EntryBegins
<1>8. pc = "next" => Peek("comma")
  BY <1>3, <1>4, <1>7 DEF Peek
<1>9. ASSUME pc' = IF InObject THEN "name" ELSE "value",
             at' = IF pc = "first" THEN at ELSE at + 1,
             UNCHANGED <<input, opts, open, built>>
      PROVE  Toward(target)'
  <2>1. at' = after
    BY <1>3, <1>4, <1>6, <1>9
  <2>2. CASE frame.kind = "object"
    <3>1. pc' = "name"
      BY <1>1, <1>9, <2>2
    <3>2. NameAhead(input, opts, open[Depth], plans[Depth], at')
      BY <1>4, <1>7, <2>1, <2>2 DEF frame
    <3>3. Following(input, opts, target, open, built, Depth, pc', at', plans)
      BY <1>3, <3>1, <3>2 DEF Following
    <3>4. pc' \in Reading
      BY <3>1 DEF Reading
    <3> QED BY <1>9, <3>3, <3>4, TowardInside
  <2>3. CASE frame.kind # "object"
    <3>1. pc' = "value"
      BY <1>1, <1>9, <2>3
    <3>2. PICK v : v = Part(p.v.level, p.values, p.cuts, p.done + 1)
      OBVIOUS
    <3>3. v.from = p.cuts.starts[p.done + 1]
      BY <3>2 DEF Part, Span
    <3>4. NamesRead(frame, p, p.done + 1)
      BY <2>3 DEF NamesRead
    <3>5. Aimed(input, opts, target, open, plans, Depth, v)
      BY <1>1, <1>4, <1>7, <3>2, <3>4 DEF Aimed, frame
    <3>6. ValueAhead(input, opts, target, open, plans, Depth, at')
      BY <1>7, <2>1, <2>3, <3>3, <3>5 DEF ValueAhead
    <3>7. Following(input, opts, target, open, built, Depth, pc', at', plans)
      BY <1>3, <3>1, <3>6 DEF Following
    <3>8. pc' \in Reading
      BY <3>1 DEF Reading
    <3> QED BY <1>9, <3>7, <3>8, TowardInside
  <2> QED BY <2>2, <2>3
<1> QED BY <1>8, <1>9

LEMMA TowardStartLoop ==
    ASSUME IInv, Sound, NEW target, Toward(target), StartLoop
    PROVE  Toward(target)'
<1>1. /\ pc = "first" /\ ~AtCloser /\ ~Peek("ws")
      /\ pc' = IF InObject THEN "name" ELSE "value"
      /\ UNCHANGED <<input, opts, at, open, built, result>>
  BY DEF StartLoop
<1> QED BY <1>1, TowardEntry

LEMMA TowardComma ==
    ASSUME IInv, Sound, NEW target, Toward(target), Comma
    PROVE  Toward(target)'
<1>1. /\ pc = "next" /\ Peek("comma") /\ at' = at + 1
      /\ pc' = IF InObject THEN "name" ELSE "value"
      /\ UNCHANGED <<input, opts, open, built, result>>
  BY DEF Comma
<1>2. ~AtCloser /\ ~Peek("ws")
  BY <1>1 DEF AtCloser, Peek
<1> QED BY <1>1, <1>2, TowardEntry

LEMMA TowardNoSeparator ==
    ASSUME IInv, Sound, NEW target, Toward(target), NoSeparator
    PROVE  FALSE
<1>1. pc = "next" /\ ~Peek("ws") /\ ~Peek("comma") /\ ~AtCloser
  BY DEF NoSeparator
<1> QED BY <1>1, TowardEntry

(* At a member name: it is the next one of the container's. *)
LEMMA NameHere ==
    ASSUME IInv, NEW target, Toward(target), pc = "name", ~Peek("ws")
    PROVE  \E plans : \E e \in Nat :
             /\ Depth = e + 1
             /\ Followed(input, opts, target, open, built, e, plans)
             /\ Planned(input, opts, e, open[Depth], built[Depth], plans[Depth])
             /\ Aimed(input, opts, target, open, plans, e, plans[Depth].v)
             /\ plans[Depth].done < plans[Depth].cuts.count
             /\ NamesRead(open[Depth], plans[Depth], plans[Depth].done)
             /\ NameAt(input, opts, at, plans[Depth].names[plans[Depth].done + 1])
             /\ Parted(input, at + 1, "colon", plans[Depth].cuts.starts[plans[Depth].done + 1])
<1>1. pc \in Reading /\ Depth > 0 /\ at \in Nat /\ Len(input) \in Nat
  BY WhileReading DEF Reading
<1>2. PICK plans :
        /\ Following(input, opts, target, open, built, Depth, pc, at, plans)
        /\ \E e \in Nat : /\ Depth = e + 1
                          /\ Followed(input, opts, target, open, built, e, plans)
                          /\ Planned(input, opts, e, open[Depth], built[Depth], plans[Depth])
                          /\ Aimed(input, opts, target, open, plans, e, plans[Depth].v)
  BY <1>1, OnTheWay
<1>3. PICK e \in Nat : /\ Depth = e + 1
                       /\ Followed(input, opts, target, open, built, e, plans)
                       /\ Planned(input, opts, e, open[Depth], built[Depth], plans[Depth])
                       /\ Aimed(input, opts, target, open, plans, e, plans[Depth].v)
  BY <1>2
<1>4. PICK p : p = plans[Depth]
  OBVIOUS
<1>5. NameAhead(input, opts, open[Depth], p, at)
  BY <1>2, <1>4 DEF Following
<1>6. PICK q \in at..p.cuts.starts[p.done + 1] :
         /\ Blank(input, at, q)
         /\ NameAt(input, opts, q, p.names[p.done + 1])
         /\ Parted(input, q + 1, "colon", p.cuts.starts[p.done + 1])
  BY <1>5 DEF NameAhead
<1>7. q \in Nat /\ at <= q /\ q < Len(input)
  <2>1. p.done # p.cuts.count
    BY <1>3, <1>4, <1>5 DEF NameAhead, Planned, Cuts
  <2>2. p.cuts.starts[p.done + 1] \in Nat
    BY <1>1, <1>3, <1>4, <2>1, NextEntry
  <2> QED BY <1>1, <1>6, <2>2 DEF NameAt
<1>8. input[at + 1].kind # "ws"
  BY <1>1, <1>7 DEF Peek
<1>9. at = q
  BY <1>1, <1>6, <1>7, <1>8, BlankEnds
<1> QED BY <1>3, <1>4, <1>5, <1>6, <1>9 DEF NameAhead

LEMMA TowardNoName == ASSUME IInv, NEW target, Toward(target), NoName PROVE FALSE
<1>1. pc = "name" /\ ~Peek("ws") /\ ~Peek("str")
  BY DEF NoName
<1>2. PICK name : NameAt(input, opts, at, name)
  BY <1>1, NameHere
<1> QED BY <1>1, <1>2 DEF NameAt, Peek

LEMMA TowardMemberName ==
    ASSUME IInv, Sound, NEW target, Toward(target), MemberName
    PROVE  Toward(target)'
<1> DEFINE lexeme == input[at + 1]
           d == Depth
<1>1. /\ pc = "name" /\ at < Len(input) /\ lexeme.kind = "str"
  BY DEF MemberName, Peek
<1>2. ~Peek("ws")
  BY <1>1 DEF Peek
<1>3. /\ d \in Nat /\ d > 0 /\ at \in Nat /\ Innermost = open[d]
      /\ open[d].kind = "object" /\ open[d] \in Frame /\ open \in Seq(Frame) /\ Len(open) = d
  BY <1>1, WhileReading DEF Depth
<1>4. PICK plans : \E e \in Nat :
             /\ d = e + 1
             /\ Followed(input, opts, target, open, built, e, plans)
             /\ Planned(input, opts, e, open[d], built[d], plans[d])
             /\ Aimed(input, opts, target, open, plans, e, plans[d].v)
             /\ plans[d].done < plans[d].cuts.count
             /\ NamesRead(open[d], plans[d], plans[d].done)
             /\ NameAt(input, opts, at, plans[d].names[plans[d].done + 1])
             /\ Parted(input, at + 1, "colon", plans[d].cuts.starts[plans[d].done + 1])
  BY <1>1, <1>2, NameHere
<1>5. PICK p : p = plans[d]
  OBVIOUS
<1>6. PICK e \in Nat :
             /\ d = e + 1
             /\ Followed(input, opts, target, open, built, e, plans)
             /\ Planned(input, opts, e, open[d], built[d], p)
             /\ Aimed(input, opts, target, open, plans, e, p.v)
             /\ p.done < p.cuts.count
             /\ NamesRead(open[d], p, p.done)
             /\ NameAt(input, opts, at, p.names[p.done + 1])
             /\ Parted(input, at + 1, "colon", p.cuts.starts[p.done + 1])
  BY <1>4, <1>5
<1>7. lexeme \in Lexeme /\ lexeme.name \in Names
  <2>1. lexeme \in Lexeme
    BY <1>1, CurrentLexeme
  <2> QED BY <1>1, <2>1 DEF Lexeme, PunctKinds
<1>8. Allowed(lexeme, opts) /\ lexeme.name = p.names[p.done + 1]
  BY <1>6 DEF NameAt
<1>9. StringFault(lexeme) = "none"
  BY <1>1, <1>7, <1>8, StringAllowed
<1>10. PICK n \in Nat : n = p.done /\ n < p.cuts.count /\ p.cuts.count \in Nat
  BY <1>6 DEF Planned, Cuts
<1>11. Listing(open[d].names, n) /\ Agree(p.names, open[d].names, n)
  BY <1>3, <1>6, <1>10 DEF NamesRead
<1>12. ~Repeats(lexeme)
  <2>1. Distinct(open[d])
    BY <1>3 DEF IInv, MembersDistinct
  <2>2. Len(open[d].names) = n
    BY <1>11, ListingLength
  <2>3. open[d].seen = {open[d].names[j] : j \in 1..n}
    BY <2>1, <2>2 DEF Distinct
  <2>4. \A j, k \in 1..p.cuts.count : p.names[j] = p.names[k] => j = k
    BY <1>3, <1>6 DEF Planned, Complete
  <2>5. ASSUME lexeme.name \in open[d].seen PROVE FALSE
    <3>1. PICK j \in 1..n : lexeme.name = open[d].names[j]
      BY <2>3, <2>5
    <3>2. p.names[j] = p.names[n + 1]
      BY <1>8, <1>10, <1>11, <3>1 DEF Agree
    <3>3. j \in 1..p.cuts.count /\ n + 1 \in 1..p.cuts.count /\ j # n + 1
      BY <1>10
    <3> QED BY <2>4, <3>2, <3>3
  <2> QED BY <1>3, <2>5 DEF Repeats
<1>13. /\ open' = [open EXCEPT ![d] = Named(@, lexeme.name)]
       /\ at' = at + 1 /\ pc' = "colon" /\ UNCHANGED <<input, opts, built, result>>
  BY <1>9, <1>12 DEF MemberName
<1>14. /\ Len(open') = d /\ open'[d] = Named(open[d], lexeme.name)
       /\ \A i \in 1..d : i # d => open'[i] = open[i]
  BY <1>3, <1>13
<1>15. PICK frame : frame = Named(open[d], lexeme.name)
  OBVIOUS
<1>16. frame.kind = open[d].kind /\ frame.names = Append(open[d].names, lexeme.name)
  BY <1>3, <1>7, <1>15, NamedFrame
<1> HIDE DEF d
<1>17. Longer(frame.names, open[d].names, n, lexeme.name)
  BY <1>11, <1>16, ListingAppend
<1>18. NamesRead(frame, p, n + 1)
  <2>1. \A k \in 1..(n + 1) : k \in 1..n \/ k = n + 1
    OBVIOUS
  <2>2. \A k \in 1..(n + 1) : frame.names[k] = p.names[k]
    BY <1>8, <1>10, <1>11, <1>17, <2>1 DEF Longer, Agree
  <2>3. Listing(frame.names, n + 1)
    BY <1>17 DEF Longer
  <2> QED BY <2>2, <2>3 DEF NamesRead, Agree
<1>19. Planned(input, opts, e, frame, built[d], p)
  BY <1>6, <1>16 DEF Planned
<1>20. Agree(open, open', e) /\ Agree(built, built, e) /\ Agree(plans, plans, e)
  BY <1>6, <1>14 DEF Agree
<1>21. Followed(input, opts, target, open', built, e, plans)
  BY <1>6, <1>20, FollowedSame
<1>22. Aimed(input, opts, target, open', plans, e, p.v)
  BY <1>6, <1>20, AimedSame
<1>23. Followed(input, opts, target, open', built, d, plans)
  BY <1>3, <1>5, <1>6, <1>14, <1>15, <1>19, <1>21, <1>22, FollowedTop
<1>24. ColonAhead(input, frame, p, at + 1)
  BY <1>6, <1>10, <1>18 DEF ColonAhead
<1>25. Following(input, opts, target, open', built, d, "colon", at + 1, plans)
  BY <1>5, <1>14, <1>15, <1>23, <1>24 DEF Following
<1>26. Depth' = d
  BY <1>14 DEF Depth
<1>27. Following(input', opts', target, open', built', Depth', pc', at', plans)
  BY <1>13, <1>25, <1>26
<1>28. pc' \in Reading
  BY <1>13 DEF Reading
<1> QED BY <1>27, <1>28, TowardReading

LEMMA TowardColon == ASSUME IInv, NEW target, Toward(target), Colon PROVE Toward(target)'
<1>1. pc = "colon" /\ pc \in Reading /\ ~Peek("ws")
  BY DEF Colon, Reading
<1>2. Depth > 0 /\ Depth \in Nat /\ at \in Nat /\ Len(input) \in Nat
  BY <1>1, WhileReading
<1>3. PICK plans :
        /\ Following(input, opts, target, open, built, Depth, pc, at, plans)
        /\ Followed(input, opts, target, open, built, Depth, plans)
        /\ \E e \in Nat : Planned(input, opts, e, open[Depth], built[Depth], plans[Depth])
  BY <1>1, <1>2, OnTheWay
<1>4. PICK p : p = plans[Depth]
  OBVIOUS
<1>5. ColonAhead(input, open[Depth], p, at)
  BY <1>1, <1>3, <1>4 DEF Following
<1>6. PICK start \in Nat : start = p.cuts.starts[p.done + 1] /\ start < Len(input)
  <2>1. PICK e \in Nat : Planned(input, opts, e, open[Depth], built[Depth], p)
    BY <1>3, <1>4
  <2>2. p.done # p.cuts.count
    BY <1>5, <2>1 DEF ColonAhead, Planned, Cuts
  <2> QED BY <1>2, <2>1, <2>2, NextEntry
<1>7. Parted(input, at, "colon", start)
  BY <1>5, <1>6 DEF ColonAhead
<1>8. at < Len(input)
  BY <1>2, <1>6, <1>7, PartedIn
<1>9. input[at + 1].kind = "colon" /\ Blank(input, at + 1, start)
  <2>1. input[at + 1].kind # "ws"
    BY <1>1, <1>8 DEF Peek
  <2> QED BY <1>2, <1>7, <2>1, PartedEnds
<1>10. pc' = "value" /\ at' = at + 1 /\ UNCHANGED <<input, opts, open, built, result>>
  BY <1>8, <1>9 DEF Colon, Peek
<1>11. PICK v : v = Part(p.v.level, p.values, p.cuts, p.done + 1)
  OBVIOUS
<1>12. v.from = start
  BY <1>6, <1>11 DEF Part, Span
<1>13. Aimed(input, opts, target, open, plans, Depth, v)
  BY <1>2, <1>4, <1>5, <1>11 DEF Aimed, ColonAhead
<1>14. ValueAhead(input, opts, target, open, plans, Depth, at')
  BY <1>9, <1>10, <1>12, <1>13 DEF ValueAhead
<1>15. Following(input, opts, target, open, built, Depth, pc', at', plans)
  BY <1>3, <1>10, <1>14 DEF Following
<1>16. pc' \in Reading
  BY <1>10 DEF Reading
<1> QED BY <1>10, <1>15, <1>16, TowardInside

LEMMA TowardEndDocument ==
    ASSUME IInv, NEW target, Toward(target), EndDocument
    PROVE  Toward(target)'
<1>1. pc = "end" /\ ~Peek("ws") /\ built[1] = target /\ Blank(input, at, Len(input))
  BY DEF EndDocument, Toward
<1>2. at \in Nat /\ Len(input) \in Nat /\ at <= Len(input)
  BY WhileReading
<1>3. AtEnd
  BY <1>1, <1>2 DEF Blank, AtEnd, Peek
<1>4. result' = [status |-> "parsed", node |-> target] /\ pc' = "done"
  BY <1>1, <1>3 DEF EndDocument
<1> QED BY <1>4 DEF Toward, Reading

LEMMA TowardUnchanged == ASSUME NEW target, Toward(target), UNCHANGED vars PROVE Toward(target)'
<1>1. UNCHANGED <<input, opts, at, pc, open, built, result>> /\ Depth' = Depth
  BY DEF vars, Depth
<1> QED BY <1>1 DEF Toward

LEMMA TowardNext ==
    ASSUME IInv, Sound, NEW target, Denotes(input, opts, target), Toward(target), [Next]_vars
    PROVE  Toward(target)'
<1>1. CASE OpenArray
  BY <1>1, TowardOpen DEF OpenArray, OpenerOf
<1>2. CASE OpenObject
  BY <1>2, TowardOpen DEF OpenObject, OpenerOf
<1>3. CASE CloseEmpty
  BY <1>3, TowardClose DEF CloseEmpty
<1>4. CASE CloseFull
  BY <1>4, TowardClose DEF CloseFull
<1> QED
  BY <1>1, <1>2, <1>3, <1>4, TowardCheckLength, TowardSkipWs, TowardNoValue, TowardWord,
     TowardNumber, TowardStringValue, TowardStartLoop, TowardNoName, TowardMemberName,
     TowardColon, TowardComma, TowardNoSeparator, TowardEndDocument, TowardUnchanged DEF Next

(* No step touches the document or the options. *)
LEMMA Given == [Next]_vars => UNCHANGED <<input, opts>>
BY DEF Next, vars, CheckLength, SkipWs, NoValue, Word, Number, StringValue, OpenArray, OpenObject,
       Open, CloseEmpty, CloseFull, Close, StartLoop, NoName, MemberName, Colon, Comma, NoSeparator,
       EndDocument, Refuse, RefuseAt, ReturnScalar

LEMMA FaithfulInvariant == Spec => []Faithful
<1>1. Init => Faithful
  BY DEF Init, Faithful, Toward, Reading
<1>2. IInv /\ Sound /\ Faithful /\ [Next]_vars => Faithful'
  <2> SUFFICES ASSUME IInv, Sound, Faithful, [Next]_vars,
                      NEW target, Denotes(input', opts', target)
               PROVE  Toward(target)'
    BY DEF Faithful
  <2>1. Denotes(input, opts, target)
    BY Given
  <2>2. Toward(target)
    BY <2>1 DEF Faithful
  <2> QED BY <2>1, <2>2, TowardNext
<1> QED BY <1>1, <1>2, Invariant, SoundInvariant, PTL DEF Spec

----------------------------------------------------------------------------
(* The parser and what admission promises. *)

LEMMA Exact ==
    ASSUME Sound, Faithful, pc = "done", NEW node
    PROVE  Denotes(input, opts, node) <=> result.status = "parsed" /\ result.node = node
<1>1. ASSUME Denotes(input, opts, node) PROVE result.status = "parsed" /\ result.node = node
  <2>1. result = [status |-> "parsed", node |-> node]
    BY <1>1 DEF Faithful, Toward
  <2> QED BY <2>1
<1>2. ASSUME result.status = "parsed", result.node = node PROVE Denotes(input, opts, node)
  BY <1>2 DEF Sound
<1> QED BY <1>1, <1>2

(* When admission returns, it has parsed the document to a node exactly when   *)
(* RFC 8259 gives the document that node and the options allow it; a document  *)
(* that is refused has no such node, and an admitted one has no other.         *)
THEOREM AdmissionIsExact ==
    Spec => [](pc = "done" =>
                 \A node : Denotes(input, opts, node)
                             <=> result.status = "parsed" /\ result.node = node)
<1>1. Sound /\ Faithful =>
        (pc = "done" => \A node : Denotes(input, opts, node)
                                    <=> result.status = "parsed" /\ result.node = node)
  BY Exact
<1> QED BY <1>1, SoundInvariant, FaithfulInvariant, PTL

(* The answer admit_with gives, in the terms of Admission. *)
Answered ==
    IF pc # "done" THEN [status |-> "pending"]
    ELSE IF result.status = "parsed" THEN [status |-> "admitted", node |-> result.node]
    ELSE [status |-> "refused"]

Promise == INSTANCE Admission WITH Policies <- Policy, Denotes <- Denoted, answer <- Answered

(* Nothing follows the answer. *)
LEMMA Halted == ASSUME pc = "done", [Next]_vars PROVE UNCHANGED vars
BY DEF Next, CheckLength, SkipWs, NoValue, Word, Number, StringValue, OpenArray, OpenObject,
       Open, CloseEmpty, CloseFull, StartLoop, NoName, MemberName, Colon, Comma, NoSeparator,
       EndDocument, PcValues

LEMMA DenotedOnly ==
    ASSUME NEW document, NEW policy, NEW parsed \in BOOLEAN, NEW x,
           \A node : Denotes(document, policy, node) <=> parsed /\ x = node
    PROVE  IF parsed THEN Denoted(document, policy) = {x} ELSE Denoted(document, policy) = {}
BY DEF Denoted

LEMMA PromiseInit == IInv /\ Init => Promise!Init
BY DEF Promise!Init, Init, Answered, IInv, TypeOK

LEMMA PromiseStep ==
    ASSUME Sound', Faithful', [Next]_vars
    PROVE  [Promise!Admit \/ Promise!Reject]_Promise!vars
<1>1. UNCHANGED <<input, opts>>
  BY Given
<1>2. CASE pc = "done"
  <2>1. UNCHANGED <<pc, result>>
    BY <1>2, Halted DEF vars
  <2> QED BY <1>1, <2>1 DEF Promise!vars, Answered
<1>3. CASE pc # "done" /\ pc' # "done"
  BY <1>1, <1>3 DEF Promise!vars, Answered
<1>4. CASE pc # "done" /\ pc' = "done"
  <2>1. IF result'.status = "parsed" THEN Denoted(input', opts') = {result'.node}
                                      ELSE Denoted(input', opts') = {}
    <3>1. ASSUME NEW node, Denotes(input', opts', node)
          PROVE  result'.status = "parsed" /\ result'.node = node
      <4>1. result' = [status |-> "parsed", node |-> node]
        BY <1>4, <3>1 DEF Faithful, Toward
      <4> QED BY <4>1
    <3>2. result'.status = "parsed" => Denotes(input', opts', result'.node)
      BY DEF Sound
    <3>3. PICK parsed \in BOOLEAN : parsed <=> result'.status = "parsed"
      OBVIOUS
    <3>4. \A node : Denotes(input', opts', node) <=> parsed /\ result'.node = node
      BY <3>1, <3>2, <3>3
    <3>5. IF parsed THEN Denoted(input', opts') = {result'.node} ELSE Denoted(input', opts') = {}
      BY <3>4, DenotedOnly
    <3> QED BY <3>3, <3>5
  <2>2. Answered.status = "pending"
    BY <1>4 DEF Answered
  <2>3. CASE result'.status = "parsed"
    <3>1. Denoted(input, opts) = {result'.node}
      BY <1>1, <2>1, <2>3
    <3>2. Answered' = [status |-> "admitted", node |-> result'.node]
      BY <1>4, <2>3 DEF Answered
    <3>3. Promise!Admit
      BY <1>1, <2>2, <3>1, <3>2 DEF Promise!Admit
    <3> QED BY <3>3
  <2>4. CASE result'.status # "parsed"
    <3>1. Denoted(input, opts) = {}
      BY <1>1, <2>1, <2>4
    <3>2. Answered' = [status |-> "refused"]
      BY <1>4, <2>4 DEF Answered
    <3>3. Promise!Reject
      BY <1>1, <2>2, <3>1, <3>2 DEF Promise!Reject
    <3> QED BY <3>3
  <2> QED BY <2>3, <2>4
<1> QED BY <1>2, <1>3, <1>4

(* The parser implements what admission promises: a document is answered once, *)
(* with the value the rules give it when they give it one that the options     *)
(* allow, and refused when they do not.                                        *)
THEOREM ParserImplementsAdmission ==
    Spec => Promise!Init /\ [][Promise!Admit \/ Promise!Reject]_Promise!vars
<1>1. Init => IInv
  BY InitInv
<1> QED BY <1>1, PromiseInit, PromiseStep, Invariant, SoundInvariant, FaithfulInvariant, PTL DEF Spec

=============================================================================
