--------------------------- MODULE JsonDerivation ---------------------------
(***************************************************************************)
(* The values a document may be admitted as, for documents of any length:   *)
(* RFC 8259 and the options as rules about spans of the document.           *)
(*                                                                          *)
(* A derivation is a set of spans, each of which a rule justifies by spans  *)
(* of the same set that lie strictly inside it.  A span is the lexemes      *)
(* from + 1 to to of the document, the value they denote, and the number of *)
(* containers around them.  Whitespace is in no span but between the parts. *)
(***************************************************************************)
EXTENDS Options, Sequences

Span(level, from, to, node) == [level |-> level, from |-> from, to |-> to, node |-> node]

(* From i to j, nothing but whitespace. *)
Blank(document, i, j) ==
    i <= j /\ \A k \in (i + 1)..j : document[k].kind = "ws"

(* From i to j, one lexeme of this kind, with whitespace around it. *)
Parted(document, i, kind, j) ==
    \E m \in (i + 1)..j : /\ document[m].kind = kind
                          /\ Blank(document, i, m - 1)
                          /\ Blank(document, m, j)

(* What the options have to say about a lexeme that is a value or a name. *)
Allowed(lexeme, policy) ==
    \/ lexeme.kind = "word"
    \/ /\ lexeme.kind = "num"
       /\ lexeme.class.finite
       /\ policy.integers_only => lexeme.class.integer
       /\ policy.safe_integers /\ lexeme.class.integer => ~lexeme.class.unsafe
    \/ /\ lexeme.kind = "str"
       /\ lexeme.fault = "none"
       /\ policy.reject_noncharacters => ~lexeme.nonchar

ScalarNode(lexeme) ==
    IF lexeme.kind = "word" THEN <<"word", lexeme.word>>
    ELSE IF lexeme.kind = "num" THEN <<"num", lexeme.class>>
    ELSE <<"str", lexeme.name>>

(* A value of one lexeme. *)
Atomic(document, policy, v) ==
    /\ v.from \in Nat /\ v.to = v.from + 1 /\ v.to <= Len(document)
    /\ Allowed(document[v.to], policy)
    /\ v.node = ScalarNode(document[v.to])

----------------------------------------------------------------------------
(* Containers: an opener, entries that are parted by commas, a closer.       *)

OpenerOf(kind) == IF kind = "object" THEN "openObject" ELSE "openArray"
CloserOf(kind) == IF kind = "object" THEN "closeObject" ELSE "closeArray"

(* The kth entry of a container may begin at p, when what is before it ends at left. *)
Begins(document, k, left, p) ==
    IF k = 1 THEN Blank(document, left, p) ELSE Parted(document, left, "comma", p)

(* At p is a member name the options allow. *)
NameAt(document, policy, p, name) ==
    /\ p < Len(document)
    /\ document[p + 1].kind = "str"
    /\ Allowed(document[p + 1], policy)
    /\ document[p + 1].name = name

(* The value of the kth entry starts at start: in an object, behind its name. *)
Leads(document, policy, kind, k, name, left, start) ==
    \E p \in left..start :
      /\ Begins(document, k, left, p)
      /\ IF kind = "object"
         THEN NameAt(document, policy, p, name) /\ Parted(document, p + 1, "colon", start)
         ELSE p = start

ContainerNode(kind, names, values) ==
    IF kind = "object" THEN <<"object", names, values>> ELSE <<"array", values>>

(* n elements, as a sequence. *)
Listing(list, n) == list = [k \in 1..n |-> list[k]]

(* Where the values of a container start and end; ends[0] is behind the opener. *)
Cuts(cuts) == /\ cuts.count \in Nat
              /\ cuts.starts \in [1..cuts.count -> Nat]
              /\ cuts.ends \in [0..cuts.count -> Nat]

(* An opener at from, and behind it as many entries as there are cuts. *)
Filled(document, policy, kind, from, names, cuts) ==
    /\ document[from + 1].kind = OpenerOf(kind)
    /\ cuts.ends[0] = from + 1
    /\ \A k \in 1..cuts.count :
         Leads(document, policy, kind, k, names[k], cuts.ends[k - 1], cuts.starts[k])

(* A container of these entries: members have names of their own, and it is no *)
(* deeper than the options allow.                                            *)
Complete(document, policy, v, kind, names, values, cuts) ==
    /\ v.from \in Nat /\ v.to \in Nat /\ v.from + 1 < v.to /\ v.to <= Len(document)
    /\ Filled(document, policy, kind, v.from, names, cuts)
    /\ Blank(document, cuts.ends[cuts.count], v.to - 1)
    /\ document[v.to].kind = CloserOf(kind)
    /\ v.level < policy.max_depth
    /\ Listing(values, cuts.count)
    /\ kind = "object" => /\ Listing(names, cuts.count)
                          /\ \A j, k \in 1..cuts.count : names[j] = names[k] => j = k
    /\ v.node = ContainerNode(kind, names, values)

(* The kth value of a container that is at this level. *)
Part(level, values, cuts, k) ==
    Span(level + 1, cuts.starts[k], cuts.ends[k], values[k])

Container(document, policy, D, v) ==
    \E kind \in {"array", "object"} : \E names, values, cuts :
      /\ Cuts(cuts)
      /\ Complete(document, policy, v, kind, names, values, cuts)
      /\ \A k \in 1..cuts.count : Part(v.level, values, cuts, k) \in D

Derivation(document, policy, D) ==
    \A v \in D : Atomic(document, policy, v) \/ Container(document, policy, D, v)

Derives(document, policy, level, from, to, node) ==
    \E D : Derivation(document, policy, D) /\ Span(level, from, to, node) \in D

(* The document is within the byte cap, and one value with whitespace around it. *)
Denotes(document, policy, node) ==
    /\ ~TooLong(policy, Len(document))
    /\ \E from, to \in 0..Len(document) :
         /\ Blank(document, 0, from)
         /\ Derives(document, policy, 0, from, to, node)
         /\ Blank(document, to, Len(document))

(* The value a document may be admitted as, when there is one. *)
Denoted(document, policy) ==
    IF \E node : Denotes(document, policy, node)
    THEN {CHOOSE node : Denotes(document, policy, node)}
    ELSE {}
=============================================================================
