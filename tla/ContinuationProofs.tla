------------------------ MODULE ContinuationProofs ------------------------
(***************************************************************************)
(* Admission refuses a document at the first fault in it, for documents of   *)
(* every length.                                                            *)
(*                                                                          *)
(* ReadUpToTheFault: what has been read can be completed.  The containers    *)
(* that are open are closed one after another, after at most a name, a colon *)
(* and a null; what is known of the lexemes read is known of every document  *)
(* that begins with them, because a rule looks at the lexemes of its span.   *)
(*                                                                          *)
(* RefusedForGood: what is refused is refused whatever follows.  The parser  *)
(* looks at no lexeme beyond the one at which it is.  As long as two         *)
(* documents agree on that one and on those before it, a step on one is a    *)
(* step on the other, and what JsonParserProofs says of a state is said of   *)
(* that state twice: once of each document.                                 *)
(*                                                                          *)
(* NumberReadToItsEnd: inside a number the fault is at a character.  A number  *)
(* that begins as the text does is cut, part by part, where the scan cuts the *)
(* text; so nothing longer than what was scanned can become a number, and    *)
(* what was scanned is one, or is with one digit more.                       *)
(*                                                                          *)
(* LiteralReadAsSpelled, FaultIsNamed: inside a string the scan goes on from  *)
(* one spelled character to the next.  What a literal spells from an offset is *)
(* there given by an equation (SpelledGoesOn, Stuck): at most one character   *)
(* begins at it, and which one is decided by the first bytes (UTF-8, an      *)
(* escape, a pair of escapes).  So a step of the scan that reads is the step  *)
(* of the spelling, and where it refuses, nothing is spelled.                *)
(***************************************************************************)
EXTENDS JsonParserProofs, Lexemes, WellFoundedInduction

(* The documents agree on their first n lexemes. *)
Alike(document, other, n) ==
    /\ n \in Nat /\ n <= Len(other)
    /\ \A i \in 1..n : other[i] = document[i]

(* The options of a call, but for the byte cap. *)
Uncapped(policy) == [policy EXCEPT !.max_bytes = NoCap]

(* The library states that numbers are well-founded as a relation.            *)
LEMMA Less == OpToRel(<, Nat) = {ss \in Nat \X Nat : ss[1] < ss[2]}
BY Zenon DEF OpToRel

LEMMA Least ==
    ASSUME NEW T, T \subseteq Nat, T # {}
    PROVE  \E n \in T : \A m \in T : n <= m
<1> DEFINE R == {ss \in Nat \X Nat : ss[1] < ss[2]}
<1>1. IsWellFoundedOn(R, Nat)
  BY NatLessThanWellFounded, Less, Zenon
<1>2. PICK n \in T : \A m \in T : ~(<<m, n>> \in R)
  <2> HIDE DEF R
  <2> QED BY <1>1, WFMin
<1>3. ASSUME NEW m \in T PROVE n <= m
  <2>1. ~(m < n)
    BY <1>2, <1>3
  <2> QED BY <2>1
<1> QED BY <1>3

(* What goes up at every step is highest at the end. *)
Rises(f, m) == \A k \in 1..m : f[k - 1] <= f[k]

LEMMA HighestLast ==
    ASSUME NEW m \in Nat, NEW f \in [0..m -> Nat], Rises(f, m), NEW k \in 0..m
    PROVE  f[k] <= f[m]
<1> SUFFICES ASSUME f[k] > f[m] PROVE FALSE
  BY f[k] \in Nat, f[m] \in Nat
<1> DEFINE T == {j \in 0..m : f[m - j] > f[m]}
<1>1. T \subseteq Nat /\ m - k \in T
  OBVIOUS
<1>2. PICK j \in T : \A i \in T : j <= i
  <2> HIDE DEF T
  <2> QED BY <1>1, Least
<1>3. j # 0 /\ m - j + 1 \in 1..m /\ j - 1 \in 0..m
  BY <1>2
<1>4. f[m - j] <= f[m - j + 1]
  BY <1>3, m - j + 1 - 1 = m - j DEF Rises
<1>5. m - (j - 1) = m - j + 1 /\ m - j \in 0..m /\ m - j + 1 \in 0..m
  BY <1>2, <1>3
<1>6. f[m - (j - 1)] > f[m]
  BY <1>2, <1>4, <1>5
<1>7. j - 1 \in T
  BY <1>3, <1>6
<1> QED BY <1>2, <1>3, <1>7

----------------------------------------------------------------------------
(* What the rules say of the first n lexemes of one document they say of any   *)
(* other that begins with them.                                              *)
LEMMA AlikeBlank ==
    ASSUME NEW document, NEW other, NEW n, Alike(document, other, n),
           NEW i \in Nat, NEW j \in Nat, j <= n, Blank(document, i, j)
    PROVE  Blank(other, i, j)
<1>1. \A k \in (i + 1)..j : k \in 1..n
  BY DEF Alike
<1> QED BY <1>1 DEF Alike, Blank

LEMMA AlikeParted ==
    ASSUME NEW document, NEW other, NEW n, Alike(document, other, n),
           NEW i \in Nat, NEW j \in Nat, j <= n, NEW kind, Parted(document, i, kind, j)
    PROVE  Parted(other, i, kind, j)
<1>1. PICK m \in (i + 1)..j : /\ document[m].kind = kind
                              /\ Blank(document, i, m - 1) /\ Blank(document, m, j)
  BY DEF Parted
<1>2. m \in Nat /\ m - 1 \in Nat /\ m - 1 <= n /\ m \in 1..n
  BY DEF Alike
<1>3. other[m].kind = kind /\ Blank(other, i, m - 1) /\ Blank(other, m, j)
  BY <1>1, <1>2, AlikeBlank DEF Alike
<1> QED BY <1>3 DEF Parted

LEMMA AlikeBegins ==
    ASSUME NEW document, NEW other, NEW n, Alike(document, other, n),
           NEW k, NEW i \in Nat, NEW j \in Nat, j <= n, Begins(document, k, i, j)
    PROVE  Begins(other, k, i, j)
BY AlikeBlank, AlikeParted DEF Begins

(* The byte cap is about no lexeme. *)
LEMMA AllowedUncapped ==
    ASSUME NEW policy \in Policy, NEW lexeme
    PROVE  Allowed(lexeme, Uncapped(policy)) <=> Allowed(lexeme, policy)
BY DEF Policy, Uncapped, Allowed

LEMMA AlikeName ==
    ASSUME NEW document, NEW other, NEW n, Alike(document, other, n), NEW policy \in Policy,
           NEW p \in Nat, p + 1 <= n, NEW name, NameAt(document, policy, p, name), Len(other) \in Nat
    PROVE  NameAt(other, Uncapped(policy), p, name)
<1>1. p + 1 \in 1..n /\ p < Len(other)
  BY DEF Alike
<1> QED BY <1>1, AllowedUncapped DEF Alike, NameAt

LEMMA AlikeLeads ==
    ASSUME NEW document, NEW other, NEW n, Alike(document, other, n), NEW policy \in Policy,
           Len(other) \in Nat, NEW kind, NEW k, NEW name, NEW left \in Nat, NEW start \in Nat, start <= n,
           Leads(document, policy, kind, k, name, left, start)
    PROVE  Leads(other, Uncapped(policy), kind, k, name, left, start)
<1>1. PICK p \in left..start :
        /\ Begins(document, k, left, p)
        /\ IF kind = "object"
           THEN NameAt(document, policy, p, name) /\ Parted(document, p + 1, "colon", start)
           ELSE p = start
  BY DEF Leads
<1>2. p \in Nat /\ p <= n /\ n \in Nat
  BY DEF Alike
<1>3. Begins(other, k, left, p)
  BY <1>1, <1>2, AlikeBegins
<1>4. CASE kind = "object"
  <2>1. p + 1 \in Nat /\ p + 1 < start
    BY <1>1, <1>2, <1>4, PartedIn
  <2>2. NameAt(other, Uncapped(policy), p, name)
    BY <1>1, <1>2, <1>4, <2>1, AlikeName
  <2>3. Parted(other, p + 1, "colon", start)
    BY <1>1, <1>4, <2>1, AlikeParted
  <2> QED BY <1>3, <1>4, <2>2, <2>3 DEF Leads
<1>5. CASE kind # "object"
  BY <1>1, <1>3, <1>5 DEF Leads
<1> QED BY <1>4, <1>5

(* The entries of a container end one after another. *)
LEMMA EndsRise ==
    ASSUME NEW document, NEW policy, NEW kind, NEW from, NEW names, NEW c, Cuts(c),
           Filled(document, policy, kind, from, names, c),
           \A k \in 1..c.count : c.starts[k] < c.ends[k]
    PROVE  \A k \in 0..c.count : c.ends[k] <= Last(c)
<1>1. c.count \in Nat /\ c.starts \in [1..c.count -> Nat] /\ c.ends \in [0..c.count -> Nat]
  BY DEF Cuts
<1>2. ASSUME NEW k \in 1..c.count PROVE c.ends[k - 1] <= c.ends[k]
  <2>1. c.starts[k] \in Nat /\ c.ends[k - 1] \in Nat /\ c.ends[k] \in Nat
    BY <1>1
  <2>2. PICK p \in c.ends[k - 1]..c.starts[k] : TRUE
    BY DEF Filled, Leads
  <2> QED BY <2>1, <2>2
<1> QED BY <1>1, <1>2, HighestLast DEF Rises, Last

LEMMA AlikeFilled ==
    ASSUME NEW document, NEW other, NEW n, Alike(document, other, n), NEW policy \in Policy,
           Len(other) \in Nat, NEW kind, NEW from \in Nat, NEW names, NEW c, Cuts(c),
           Filled(document, policy, kind, from, names, c),
           \A k \in 1..c.count : c.starts[k] < c.ends[k],
           Last(c) <= n
    PROVE  /\ Filled(other, Uncapped(policy), kind, from, names, c)
           /\ \A k \in 0..c.count : c.ends[k] <= n
<1>1. /\ c.count \in Nat /\ c.starts \in [1..c.count -> Nat] /\ c.ends \in [0..c.count -> Nat]
      /\ n \in Nat /\ Last(c) \in Nat
  BY DEF Cuts, Alike, Last
<1>2. ASSUME NEW k \in 0..c.count PROVE c.ends[k] <= n
  <2>1. c.ends[k] <= Last(c) /\ c.ends[k] \in Nat
    BY <1>1, EndsRise
  <2> QED BY <1>1, <2>1
<1>3. other[from + 1].kind = OpenerOf(kind) /\ c.ends[0] = from + 1
  <2>1. document[from + 1].kind = OpenerOf(kind) /\ c.ends[0] = from + 1 /\ 0 \in 0..c.count
    BY <1>1 DEF Filled
  <2>2. from + 1 \in 1..n
    BY <1>1, <1>2, <2>1
  <2> QED BY <2>1, <2>2 DEF Alike
<1>4. ASSUME NEW k \in 1..c.count
      PROVE  Leads(other, Uncapped(policy), kind, k, names[k], c.ends[k - 1], c.starts[k])
  <2>1. c.starts[k] \in Nat /\ c.ends[k - 1] \in Nat /\ c.ends[k] \in Nat /\ c.ends[k] <= n
    <3>1. k \in 0..c.count /\ k - 1 \in 0..c.count
      BY <1>1
    <3> QED BY <1>1, <1>2, <3>1
  <2>2. c.starts[k] <= n
    BY <1>1, <2>1
  <2>3. Leads(document, policy, kind, k, names[k], c.ends[k - 1], c.starts[k])
    BY DEF Filled
  <2> QED BY <2>1, <2>2, <2>3, AlikeLeads
<1> QED BY <1>2, <1>3, <1>4 DEF Filled

(* The value of a span is that of its own lexemes. *)
LEMMA AlikeDerives ==
    ASSUME NEW document, NEW other, NEW n, Alike(document, other, n), NEW policy \in Policy,
           Len(other) \in Nat, NEW level, NEW from, NEW to, NEW node, to <= n,
           Derives(document, policy, level, from, to, node)
    PROVE  Derives(other, Uncapped(policy), level, from, to, node)
<1>1. PICK D : Derivation(document, policy, D) /\ Span(level, from, to, node) \in D
  BY DEF Derives
<1> DEFINE E == {v \in D : v.to <= n}
<1>2. Span(level, from, to, node) \in E
  BY <1>1 DEF Span
<1>3. ASSUME NEW v \in D PROVE v.from \in Nat /\ v.to \in Nat /\ v.from < v.to
  <2>1. Atomic(document, policy, v) \/ Container(document, policy, D, v)
    BY <1>1 DEF Derivation
  <2>2. CASE Atomic(document, policy, v)
    BY <2>2 DEF Atomic
  <2>3. CASE Container(document, policy, D, v)
    BY <2>3 DEF Container, Complete
  <2> QED BY <2>1, <2>2, <2>3
<1>4. ASSUME NEW v \in E
      PROVE  Atomic(other, Uncapped(policy), v) \/ Container(other, Uncapped(policy), E, v)
  <2>1. Atomic(document, policy, v) \/ Container(document, policy, D, v)
    BY <1>1 DEF Derivation
  <2>2. n \in Nat /\ v.to <= n /\ v.to \in Nat /\ v.from \in Nat /\ v.to \in 1..n
    BY <1>3 DEF Alike
  <2>3. CASE Atomic(document, policy, v)
    <3>1. other[v.to] = document[v.to] /\ v.to <= Len(other)
      BY <2>2 DEF Alike
    <3> QED BY <2>3, <3>1, AllowedUncapped DEF Atomic
  <2>4. CASE Container(document, policy, D, v)
    <3>1. PICK kind \in {"array", "object"} : \E names, values, cuts :
            /\ Cuts(cuts)
            /\ Complete(document, policy, v, kind, names, values, cuts)
            /\ \A k \in 1..cuts.count : Part(v.level, values, cuts, k) \in D
      BY <2>4 DEF Container
    <3>2. PICK names, values, cuts :
            /\ Cuts(cuts)
            /\ Complete(document, policy, v, kind, names, values, cuts)
            /\ \A k \in 1..cuts.count : Part(v.level, values, cuts, k) \in D
      BY <3>1
    <3>3. ASSUME NEW k \in 1..cuts.count
          PROVE  /\ cuts.starts[k] < cuts.ends[k]
                 /\ Part(v.level, values, cuts, k).to = cuts.ends[k]
      BY <1>3, <3>2 DEF Part, Span
    <3>4. /\ Filled(document, policy, kind, v.from, names, cuts)
          /\ Blank(document, Last(cuts), v.to - 1)
          /\ v.to - 1 \in Nat /\ v.to - 1 <= n /\ Last(cuts) \in Nat
      BY <2>2, <3>2 DEF Complete, Last, Cuts
    <3>5. Last(cuts) <= n
      BY <2>2, <3>4 DEF Blank
    <3>6. /\ Filled(other, Uncapped(policy), kind, v.from, names, cuts)
          /\ \A k \in 0..cuts.count : cuts.ends[k] <= n
      BY <2>2, <3>2, <3>3, <3>4, <3>5, AlikeFilled
    <3>7. Blank(other, Last(cuts), v.to - 1)
      BY <3>4, AlikeBlank
    <3>8. other[v.to] = document[v.to] /\ v.to <= Len(other)
      BY <2>2 DEF Alike
    <3>9. Uncapped(policy).max_depth = policy.max_depth
      BY DEF Uncapped, Policy
    <3>10. Complete(other, Uncapped(policy), v, kind, names, values, cuts)
      BY <3>2, <3>6, <3>7, <3>8, <3>9 DEF Complete, Last
    <3>11. \A k \in 1..cuts.count : Part(v.level, values, cuts, k) \in E
      <4> TAKE k \in 1..cuts.count
      <4>1. k \in 0..cuts.count
        BY <3>2 DEF Cuts
      <4> QED BY <3>2, <3>3, <3>6, <4>1
    <3> HIDE DEF E
    <3> QED BY <3>2, <3>10, <3>11 DEF Container
  <2> QED BY <2>1, <2>3, <2>4
<1>5. Derivation(other, Uncapped(policy), E)
  BY <1>4 DEF Derivation
<1> HIDE DEF E
<1> QED BY <1>2, <1>5 DEF Derives

----------------------------------------------------------------------------
(* The library states induction for an operator; for a set it needs no more.  *)
LEMMA Induction ==
    ASSUME NEW T, 0 \in T, \A n \in Nat : n \in T => n + 1 \in T
    PROVE  Nat \subseteq T
<1> SUFFICES ASSUME Nat \ T # {} PROVE FALSE
  OBVIOUS
<1>1. PICK n \in Nat \ T : \A m \in Nat \ T : n <= m
  BY Least
<1>2. n # 0 /\ n - 1 \in Nat
  BY <1>1
<1>3. n - 1 \in T
  BY <1>1, <1>2
<1> QED BY <1>1, <1>2, <1>3

(* The same of what JsonParserProofs knows of the containers that are open.    *)
LEMMA AlikeFits ==
    ASSUME NEW document, NEW other, NEW n, Alike(document, other, n), NEW policy \in Policy,
           Len(document) \in Nat, Len(other) \in Nat,
           NEW level, NEW frame, NEW values, NEW from, NEW c,
           Fits(document, policy, level, frame, values, from, c), Last(c) <= n
    PROVE  Fits(other, Uncapped(policy), level, frame, values, from, c)
<1>1. /\ from \in Nat /\ Cuts(c) /\ c.count \in Nat /\ c.starts \in [1..c.count -> Nat]
      /\ Filled(document, policy, frame.kind, from, frame.names, c)
      /\ Derived(document, policy, level, values, c)
  BY DEF Fits, Cuts
<1>2. ASSUME NEW k \in 1..c.count PROVE c.starts[k] < c.ends[k]
  BY <1>1, DerivesStarts DEF Derived
<1>3. /\ Filled(other, Uncapped(policy), frame.kind, from, frame.names, c)
      /\ \A k \in 0..c.count : c.ends[k] <= n
  BY <1>1, <1>2, AlikeFilled
<1>4. Derived(other, Uncapped(policy), level, values, c)
  <2> SUFFICES ASSUME NEW k \in 1..c.count
               PROVE  Derives(other, Uncapped(policy), level + 1, c.starts[k], c.ends[k], values[k])
    BY DEF Derived
  <2>1. k \in 0..c.count
    BY <1>1
  <2> QED BY <1>1, <1>3, <2>1, AlikeDerives DEF Derived
<1> QED BY <1>3, <1>4 DEF Fits

LEMMA AlikeExpected ==
    ASSUME NEW document, NEW other, NEW n, Alike(document, other, n), NEW policy \in Policy,
           Len(other) \in Nat, NEW frames, NEW cuts, NEW d \in Nat,
           d > 0 => Last(cuts[d]) \in Nat,
           NEW start \in Nat, start <= n,
           Expected(document, policy, frames, cuts, d, start)
    PROVE  Expected(other, Uncapped(policy), frames, cuts, d, start)
<1>1. CASE d = 0
  BY <1>1, AlikeBlank DEF Expected
<1>2. CASE d # 0
  BY <1>2, AlikeLeads DEF Expected
<1> QED BY <1>1, <1>2

LEMMA AlikeStacked ==
    ASSUME NEW document, NEW other, NEW n, Alike(document, other, n), NEW policy \in Policy,
           Len(document) \in Nat, Len(other) \in Nat,
           NEW frames, NEW values, NEW d \in Nat, NEW from, NEW cuts,
           Stacked(document, policy, frames, values, d, from, cuts),
           d > 0 => Last(cuts[d]) <= n
    PROVE  Stacked(other, Uncapped(policy), frames, values, d, from, cuts)
<1> DEFINE f == [i \in 0..d |-> IF i = 0 THEN 0 ELSE Last(cuts[i])]
<1>1. ASSUME NEW i \in 1..d
      PROVE  /\ Fits(document, policy, i - 1, frames[i], values[i], from[i], cuts[i])
             /\ Expected(document, policy, frames, cuts, i - 1, from[i])
             /\ Last(cuts[i]) \in Nat /\ from[i] \in Nat /\ from[i] < Last(cuts[i])
  <2>1. /\ Fits(document, policy, i - 1, frames[i], values[i], from[i], cuts[i])
        /\ Expected(document, policy, frames, cuts, i - 1, from[i])
    BY DEF Stacked
  <2> QED BY <2>1, FitsIsPlaced DEF Fits
<1>2. f \in [0..d -> Nat]
  BY <1>1
<1>3. ASSUME NEW i \in 1..d PROVE f[i - 1] <= f[i]
  <2>1. CASE i = 1
    BY <1>1, <2>1
  <2>2. CASE i # 1
    <3>1. i - 1 \in 1..d
      BY <2>2
    <3>2. f[i - 1] = Last(cuts[i - 1]) /\ f[i] = Last(cuts[i])
      BY <2>2
    <3>3. PICK p \in Last(cuts[i - 1])..from[i] : TRUE
      BY <1>1, <2>2 DEF Expected, Leads
    <3> HIDE DEF f
    <3> QED BY <1>1, <3>1, <3>2, <3>3
  <2> QED BY <2>1, <2>2
<1>4. ASSUME NEW i \in 1..d PROVE Last(cuts[i]) <= n
  <2>1. f[i] <= f[d]
    <3> HIDE DEF f
    <3>1. Rises(f, d)
      BY <1>3 DEF Rises
    <3>2. i \in 0..d
      OBVIOUS
    <3> QED BY <1>2, <3>1, <3>2, HighestLast
  <2>2. f[i] = Last(cuts[i]) /\ f[d] = Last(cuts[d]) /\ n \in Nat
    BY DEF Alike
  <2> QED BY <1>1, <2>1, <2>2
<1> SUFFICES ASSUME NEW i \in 1..d
             PROVE  /\ Fits(other, Uncapped(policy), i - 1, frames[i], values[i], from[i], cuts[i])
                    /\ Expected(other, Uncapped(policy), frames, cuts, i - 1, from[i])
  BY DEF Stacked
<1>5. from[i] <= n /\ from[i] \in Nat /\ i - 1 \in Nat
  BY <1>1, <1>4 DEF Alike
<1>6. i - 1 > 0 => Last(cuts[i - 1]) \in Nat
  BY <1>1
<1> HIDE DEF f
<1>7. Fits(other, Uncapped(policy), i - 1, frames[i], values[i], from[i], cuts[i])
  BY <1>1, <1>4, AlikeFits
<1>8. Expected(other, Uncapped(policy), frames, cuts, i - 1, from[i])
  BY <1>1, <1>5, <1>6, AlikeExpected
<1> QED BY <1>7, <1>8

LEMMA AlikeExplained ==
    ASSUME NEW document, NEW other, NEW n, Alike(document, other, n), NEW policy \in Policy,
           Len(document) \in Nat, Len(other) \in Nat,
           NEW frames, NEW values, NEW d \in Nat, NEW point \in Reading, point # "value" => d > 0,
           NEW from, NEW cuts,
           Explained(document, policy, frames, values, d, point, n, from, cuts)
    PROVE  Explained(other, Uncapped(policy), frames, values, d, point, n, from, cuts)
<1>1. Stacked(document, policy, frames, values, d, from, cuts) /\ n \in Nat
  BY DEF Explained, Alike
<1>2. d > 0 => Last(cuts[d]) \in Nat
  BY <1>1, FitsIsPlaced DEF Stacked
<1>3. ASSUME d > 0 => Last(cuts[d]) <= n
      PROVE  Stacked(other, Uncapped(policy), frames, values, d, from, cuts)
  BY <1>1, <1>3, AlikeStacked
<1>4. CASE point = "value"
  <2>1. Expected(document, policy, frames, cuts, d, n)
    BY <1>4 DEF Explained
  <2>2. Expected(other, Uncapped(policy), frames, cuts, d, n)
    BY <1>1, <1>2, <2>1, AlikeExpected
  <2>3. d > 0 => Last(cuts[d]) <= n
    BY <1>1, <1>2, <2>1 DEF Expected, Leads
  <2> QED BY <1>3, <1>4, <2>2, <2>3 DEF Explained
<1>5. CASE point = "first"
  <2>1. AtFirst(document, frames[d], cuts[d], n)
    BY <1>5 DEF Explained
  <2>3. AtFirst(other, frames[d], cuts[d], n) /\ Last(cuts[d]) <= n
    <3>1. Blank(document, Last(cuts[d]), n) /\ Last(cuts[d]) <= n
      BY <2>1 DEF AtFirst, Blank
    <3> QED BY <1>1, <1>2, <1>5, <2>1, <3>1, AlikeBlank DEF AtFirst
  <2> QED BY <1>3, <1>5, <2>3 DEF Explained
<1>6. CASE point = "name"
  <2>1. AtName(document, frames[d], cuts[d], n)
    BY <1>6 DEF Explained
  <2>2. AtName(other, frames[d], cuts[d], n)
    BY <1>1, <1>2, <1>6, <2>1, AlikeBegins DEF AtName
  <2>3. Last(cuts[d]) <= n
    BY <1>1, <1>2, <1>6, <2>1, BeginsAfter DEF AtName
  <2> QED BY <1>3, <1>6, <2>2, <2>3 DEF Explained
<1>7. CASE point = "colon"
  <2>1. AtColon(document, policy, frames[d], cuts[d], n)
    BY <1>7 DEF Explained
  <2>2. PICK p \in Last(cuts[d])..n :
          /\ Begins(document, cuts[d].count + 1, Last(cuts[d]), p)
          /\ NameAt(document, policy, p, frames[d].names[cuts[d].count + 1])
          /\ Blank(document, p + 1, n)
    BY <2>1 DEF AtColon
  <2>3. p \in Nat /\ p <= n /\ p + 1 \in Nat /\ p + 1 <= n /\ Last(cuts[d]) <= n
    BY <1>1, <1>2, <1>7, <2>2 DEF Blank
  <2>4. /\ Begins(other, cuts[d].count + 1, Last(cuts[d]), p)
        /\ NameAt(other, Uncapped(policy), p, frames[d].names[cuts[d].count + 1])
        /\ Blank(other, p + 1, n)
    BY <1>1, <1>2, <1>7, <2>2, <2>3, AlikeBegins, AlikeName, AlikeBlank
  <2>5. AtColon(other, Uncapped(policy), frames[d], cuts[d], n)
    BY <2>1, <2>2, <2>4 DEF AtColon
  <2> QED BY <1>3, <1>7, <2>3, <2>5 DEF Explained
<1>8. CASE point = "next"
  <2>1. AtNext(document, frames[d], cuts[d], n)
    BY <1>8 DEF Explained
  <2>2. AtNext(other, frames[d], cuts[d], n) /\ Last(cuts[d]) <= n
    <3>1. Blank(document, Last(cuts[d]), n) /\ Last(cuts[d]) <= n
      BY <2>1 DEF AtNext, Blank
    <3> QED BY <1>1, <1>2, <1>8, <2>1, <3>1, AlikeBlank DEF AtNext
  <2> QED BY <1>3, <1>8, <2>2 DEF Explained
<1> QED BY <1>4, <1>5, <1>6, <1>7, <1>8 DEF Reading

----------------------------------------------------------------------------
(* An open container whose names differ so far. *)
Whole(frame) ==
    /\ frame.kind \in {"array", "object"}
    /\ \A j, k \in 1..Len(frame.names) : frame.names[j] = frame.names[k] => j = k

(* From position on, the closers of d open containers and no more. *)
Ending(document, frames, d, position) ==
    /\ Len(document) = position + d
    /\ \A k \in 1..d : document[position + k].kind = CloserOf(frames[d + 1 - k].kind)

(* The innermost container could be closed here. *)
Closable(document, policy, frames, values, d, position, from, cuts) ==
    /\ Listing(values, d) /\ Stacked(document, policy, frames, values, d, from, cuts)
    /\ NamesOf(frames[d], cuts[d].count) /\ Blank(document, Last(cuts[d]), position)

(* The rules give the document a value. *)
Valued(document, policy) == \E node : Denotes(document, policy, node)

(* d closers, where the innermost of d containers could be closed: a document. *)
Closes(document, policy, d) ==
    \A frames, values, from, cuts : \A position \in Nat :
      /\ d > 0 /\ d <= policy.max_depth /\ ~TooLong(policy, Len(document))
      /\ \A i \in 1..d : Whole(frames[i])
      /\ Closable(document, policy, frames, values, d, position, from, cuts)
      /\ Ending(document, frames, d, position)
      => Valued(document, policy)

(* Its closer makes the innermost container a value of the one around it.      *)
LEMMA ClosesMore ==
    ASSUME NEW document, NEW policy, Len(document) \in Nat, policy.max_depth \in Nat,
           NEW e \in Nat, Closes(document, policy, e)
    PROVE  Closes(document, policy, e + 1)
<1> DEFINE d == e + 1
<1> SUFFICES ASSUME NEW frames, NEW values, NEW from, NEW cuts, NEW position \in Nat,
                    d <= policy.max_depth, ~TooLong(policy, Len(document)),
                    \A i \in 1..d : Whole(frames[i]),
                    Closable(document, policy, frames, values, d, position, from, cuts),
                    Ending(document, frames, d, position)
             PROVE  Valued(document, policy)
  BY DEF Closes
<1> DEFINE node == ContainerNode(frames[d].kind, frames[d].names, values[d])
<1>1. d \in Nat /\ d \in 1..d /\ 1 \in 1..d
  OBVIOUS
<1>2. /\ Stacked(document, policy, frames, values, e, from, cuts)
      /\ Fits(document, policy, e, frames[d], values[d], from[d], cuts[d])
      /\ Expected(document, policy, frames, cuts, e, from[d])
      /\ cuts[d].count \in Nat /\ Last(cuts[d]) \in Nat
  BY <1>1, StackedInnermost DEF Closable
<1>3. Len(document) = position + d /\ position < Len(document)
  BY DEF Ending
<1>4. document[position + 1].kind = CloserOf(frames[d].kind)
  BY <1>1, d + 1 - 1 = d DEF Ending
<1>5. \A j, k \in 1..cuts[d].count :
        frames[d].kind = "object" /\ frames[d].names[j] = frames[d].names[k] => j = k
  <2>1. frames[d].kind = "object" => Len(frames[d].names) = cuts[d].count
    BY <1>2, ListingLength DEF Closable, NamesOf
  <2> QED BY <1>1, <2>1 DEF Whole
<1>6. frames[d].kind \in {"array", "object"}
  BY <1>1 DEF Whole
<1>7. Derives(document, policy, e, from[d], position + 1, node)
  BY <1>2, <1>3, <1>4, <1>5, <1>6, FullDerives DEF Closable
<1>8. from[d] \in Nat /\ from[d] < position + 1
  BY <1>7, DerivesStarts
<1> HIDE DEF node
<1>9. CASE e = 0
  <2>1. Blank(document, 0, from[d])
    BY <1>2, <1>9 DEF Expected
  <2>2. Len(document) = position + 1
    BY <1>3, <1>9
  <2>3. Blank(document, position + 1, Len(document))
    BY <2>2, BlankNothing
  <2>4. from[d] \in 0..Len(document) /\ position + 1 \in 0..Len(document)
    BY <1>8, <2>2
  <2>5. Derives(document, policy, 0, from[d], position + 1, node)
    BY <1>7, <1>9
  <2>6. Denotes(document, policy, node)
    BY <2>1, <2>3, <2>4, <2>5 DEF Denotes
  <2> QED BY <2>6 DEF Valued
<1>10. CASE e # 0
  <2> DEFINE inner == SubSeq(values, 1, e)
             values2 == Handed(inner, node)
  <2>1. Listing(inner, e) /\ Agree(values, inner, e)
    BY ListingPrefix DEF Closable, Agree
  <2> HIDE DEF inner
  <2>2. Stacked(document, policy, frames, inner, e, from, cuts)
    <3>1. Agree(frames, frames, e) /\ Agree(from, from, e) /\ Agree(cuts, cuts, e)
      BY DEF Agree
    <3> QED BY <1>2, <2>1, <3>1, StackedSame
  <2>3. PICK b \in Nat : e = b + 1
    <3>1. e - 1 \in Nat /\ e = (e - 1) + 1
      BY <1>10
    <3> QED BY <3>1
  <2>4. position + 1 \in Nat
    OBVIOUS
  <2>5. /\ Listing(values2, e)
        /\ \E cuts2 : Explained(document, policy, frames, values2, e, "next", position + 1, from, cuts2)
    BY <1>2, <1>7, <1>8, <2>1, <2>2, <2>3, <2>4, Delivered
  <2> HIDE DEF values2
  <2>6. PICK cuts2 : Explained(document, policy, frames, values2, e, "next", position + 1, from, cuts2)
    BY <2>5
  <2>7. Closable(document, policy, frames, values2, e, position + 1, from, cuts2)
    BY <2>5, <2>6 DEF Closable, Explained, AtNext
  <2>8. Ending(document, frames, e, position + 1)
    <3>1. Len(document) = (position + 1) + e
      BY <1>3
    <3>2. ASSUME NEW k \in 1..e
          PROVE  document[position + 1 + k].kind = CloserOf(frames[e + 1 - k].kind)
      <4>1. k + 1 \in 1..d /\ position + (k + 1) = position + 1 + k /\ d + 1 - (k + 1) = e + 1 - k
        OBVIOUS
      <4>2. document[position + (k + 1)].kind = CloserOf(frames[d + 1 - (k + 1)].kind)
        BY <4>1 DEF Ending
      <4> QED BY <4>1, <4>2
    <3> QED BY <3>1, <3>2 DEF Ending
  <2>9. e > 0 /\ e <= policy.max_depth /\ \A i \in 1..e : Whole(frames[i])
    BY <1>10
  <2> QED BY <2>4, <2>7, <2>8, <2>9 DEF Closes
<1> QED BY <1>9, <1>10

LEMMA AllClose ==
    ASSUME NEW document, NEW policy, Len(document) \in Nat, policy.max_depth \in Nat
    PROVE  \A d \in Nat : Closes(document, policy, d)
<1> DEFINE T == {d \in Nat : Closes(document, policy, d)}
<1>1. 0 \in T
  BY DEF Closes
<1>2. \A n \in Nat : n \in T => n + 1 \in T
  BY ClosesMore
<1>3. Nat \subseteq T
  <2> HIDE DEF T
  <2> QED BY <1>1, <1>2, Induction
<1> QED BY <1>3

----------------------------------------------------------------------------
(* A document of which the lexemes up to position are read, at this point.    *)
Read(document, policy, frames, values, d, point, position, from, cuts) ==
    /\ d \in Nat /\ position \in Nat /\ Len(document) \in Nat
    /\ policy.max_depth \in Nat /\ d <= policy.max_depth /\ ~TooLong(policy, Len(document))
    /\ \A i \in 1..d : Whole(frames[i])
    /\ Listing(values, d)
    /\ Explained(document, policy, frames, values, d, point, position, from, cuts)

(* What is missing at each point: the closers, a value, a colon and a value, a *)
(* name with both.                                                           *)
LEMMA EndsWell ==
    ASSUME NEW document, NEW policy, NEW frames, NEW values, NEW d, NEW position, NEW from, NEW cuts,
           NEW point \in {"first", "next"}, d > 0,
           Read(document, policy, frames, values, d, point, position, from, cuts),
           Ending(document, frames, d, position)
    PROVE  Valued(document, policy)
<1>1. Closable(document, policy, frames, values, d, position, from, cuts)
  BY DEF Read, Explained, AtFirst, AtNext, Closable
<1>2. Closes(document, policy, d)
  BY AllClose DEF Read
<1> QED BY <1>1, <1>2 DEF Read, Closes

LEMMA ValueEnds ==
    ASSUME NEW document, NEW policy, NEW frames, NEW values, NEW d, NEW position, NEW from, NEW cuts,
           Read(document, policy, frames, values, d, "value", position, from, cuts),
           document[position + 1].kind = "word", position < Len(document),
           Ending(document, frames, d, position + 1)
    PROVE  Valued(document, policy)
<1> DEFINE node == ScalarNode(document[position + 1])
<1>1. /\ d \in Nat /\ position \in Nat /\ position + 1 \in Nat /\ position + 1 <= Len(document)
      /\ Len(document) \in Nat /\ ~TooLong(policy, Len(document))
  BY DEF Read
<1>2. Derives(document, policy, d, position, position + 1, node)
  <2>1. Atomic(document, policy, Span(d, position, position + 1, node))
    BY <1>1 DEF Atomic, Span, Allowed
  <2> QED BY <2>1, AtomicDerives
<1>3. /\ Expected(document, policy, frames, cuts, d, position)
      /\ Stacked(document, policy, frames, values, d, from, cuts)
      /\ Listing(values, d)
  BY DEF Read, Explained
<1> HIDE DEF node
<1>4. CASE d = 0
  <2>1. Blank(document, 0, position) /\ Len(document) = position + 1
    BY <1>1, <1>3, <1>4 DEF Expected, Ending
  <2>2. Blank(document, position + 1, Len(document))
    BY <1>1, <2>1, BlankNothing
  <2>3. Derives(document, policy, 0, position, position + 1, node)
    BY <1>2, <1>4
  <2>4. position \in 0..Len(document) /\ position + 1 \in 0..Len(document)
    BY <1>1
  <2>5. Denotes(document, policy, node)
    BY <1>1, <2>1, <2>2, <2>3, <2>4 DEF Denotes
  <2> QED BY <2>5 DEF Valued
<1>5. CASE d # 0
  <2>1. PICK e \in Nat : d = e + 1
    <3>1. d - 1 \in Nat /\ d = (d - 1) + 1
      BY <1>1, <1>5
    <3> QED BY <3>1
  <2> DEFINE values2 == Handed(values, node)
  <2>2. /\ Listing(values2, d)
        /\ \E cuts2 : Explained(document, policy, frames, values2, d, "next", position + 1, from, cuts2)
    BY <1>1, <1>2, <1>3, <2>1, Delivered
  <2> HIDE DEF values2
  <2>3. PICK cuts2 : Explained(document, policy, frames, values2, d, "next", position + 1, from, cuts2)
    BY <2>2
  <2>4. Read(document, policy, frames, values2, d, "next", position + 1, from, cuts2)
    BY <1>1, <2>2, <2>3 DEF Read
  <2>5. d > 0
    BY <1>1, <1>5
  <2> QED BY <2>4, <2>5, EndsWell
<1> QED BY <1>4, <1>5

LEMMA ColonEnds ==
    ASSUME NEW document, NEW policy, NEW frames, NEW values, NEW d, NEW position, NEW from, NEW cuts,
           d > 0, frames[d].kind = "object",
           Read(document, policy, frames, values, d, "colon", position, from, cuts),
           document[position + 1].kind = "colon", document[position + 2].kind = "word",
           Ending(document, frames, d, position + 2)
    PROVE  Valued(document, policy)
<1> DEFINE c == cuts[d]
<1>1. d \in Nat /\ position \in Nat /\ position + 1 \in Nat /\ Len(document) \in Nat
  BY DEF Read
<1>2. /\ Stacked(document, policy, frames, values, d, from, cuts)
      /\ AtColon(document, policy, frames[d], c, position)
  BY DEF Read, Explained
<1>3. c.count \in Nat /\ Last(c) \in Nat
  <2>1. d \in 1..d
    BY <1>1
  <2> QED BY <1>2, <2>1, FitsIsPlaced DEF Stacked
<1>4. PICK p \in Last(c)..position :
        /\ Begins(document, c.count + 1, Last(c), p)
        /\ NameAt(document, policy, p, frames[d].names[c.count + 1])
        /\ Blank(document, p + 1, position)
  BY <1>2 DEF AtColon
<1>5. p \in Nat /\ p \in Last(c)..(position + 1) /\ p + 1 \in Nat
  BY <1>1, <1>3, <1>4
<1>6. Parted(document, p + 1, "colon", position + 1)
  BY <1>1, <1>4, <1>5, PartedNew
<1>7. Leads(document, policy, frames[d].kind, c.count + 1, frames[d].names[c.count + 1],
            Last(c), position + 1)
  BY <1>4, <1>5, <1>6 DEF Leads
<1>8. Expected(document, policy, frames, cuts, d, position + 1)
  BY <1>1, <1>2, <1>7 DEF Expected, AtColon
<1>9. Read(document, policy, frames, values, d, "value", position + 1, from, cuts)
  BY <1>1, <1>2, <1>8 DEF Read, Explained
<1>10. (position + 1) + 1 = position + 2 /\ position + 1 < Len(document)
  BY <1>1 DEF Ending
<1> QED BY <1>9, <1>10, ValueEnds

(* The innermost frame with one more name. *)
Renamed(frames, d, frame) == [i \in 1..d |-> IF i = d THEN frame ELSE frames[i]]

LEMMA NameEnds ==
    ASSUME NEW document, NEW policy, NEW frames, NEW values, NEW d, NEW position, NEW from, NEW cuts,
           d > 0, frames[d].kind = "object",
           Read(document, policy, frames, values, d, "name", position, from, cuts),
           NameAt(document, policy, position, document[position + 1].name),
           \A j \in 1..Len(frames[d].names) : frames[d].names[j] # document[position + 1].name,
           document[position + 2].kind = "colon", document[position + 3].kind = "word",
           Ending(document, frames, d, position + 3)
    PROVE  Valued(document, policy)
<1> DEFINE c     == cuts[d]
           name  == document[position + 1].name
           frame == [kind |-> "object", names |-> Append(frames[d].names, name)]
           frames2 == Renamed(frames, d, frame)
<1>1. d \in Nat /\ position \in Nat /\ position + 1 \in Nat /\ Len(document) \in Nat /\ d \in 1..d
  BY DEF Read
<1>2. /\ Stacked(document, policy, frames, values, d, from, cuts)
      /\ AtName(document, frames[d], c, position)
  BY DEF Read, Explained
<1>3. PICK e \in Nat : d = e + 1
  <2>1. d - 1 \in Nat /\ d = (d - 1) + 1
    BY <1>1
  <2> QED BY <2>1
<1>4. /\ Stacked(document, policy, frames, values, e, from, cuts)
      /\ Fits(document, policy, e, frames[d], values[d], from[d], c)
      /\ Expected(document, policy, frames, cuts, e, from[d])
      /\ c.count \in Nat /\ Last(c) \in Nat
  BY <1>1, <1>2, <1>3, StackedInnermost
<1>5. frames2[d] = frame /\ \A i \in 1..e : frames2[i] = frames[i]
  BY <1>1, <1>3 DEF Renamed
<1>6. Agree(frames, frames2, e) /\ Agree(values, values, e) /\ Agree(from, from, e) /\ Agree(cuts, cuts, e)
  BY <1>5 DEF Agree
<1>7. /\ Listing(frames[d].names, c.count)
      /\ Begins(document, c.count + 1, Last(c), position)
  BY <1>2 DEF AtName, NamesOf
<1>8. frame.kind = "object" /\ frame.names = Append(frames[d].names, name)
  OBVIOUS
<1>9. Longer(frame.names, frames[d].names, c.count, name)
  BY <1>4, <1>7, <1>8, ListingAppend
<1> HIDE DEF frame, frames2, c, name
<1>10. Stacked(document, policy, frames2, values, e, from, cuts)
  BY <1>4, <1>6, StackedSame
<1>11. Expected(document, policy, frames2, cuts, e, from[d])
  BY <1>4, <1>6, ExpectedSame
<1>12. Fits(document, policy, e, frame, values[d], from[d], c)
  <2>1. Agree(frames[d].names, frame.names, c.count)
    BY <1>9 DEF Longer, Agree
  <2> QED BY <1>4, <1>8, <2>1, FitsNamed
<1>13. Stacked(document, policy, frames2, values, d, from, cuts)
  BY <1>1, <1>3, <1>5, <1>10, <1>11, <1>12, StackedTop DEF c
<1>14. AtColon(document, policy, frame, c, position + 1)
  <2>1. NamesOf(frame, c.count + 1)
    BY <1>9 DEF NamesOf, Longer
  <2>2. position \in Last(c)..(position + 1)
    BY <1>1, <1>4, <1>7, BeginsAfter
  <2>3. NameAt(document, policy, position, frame.names[c.count + 1])
    BY <1>9 DEF Longer, name
  <2>4. Blank(document, position + 1, position + 1)
    BY <1>1, BlankNothing
  <2> QED BY <1>7, <2>1, <2>2, <2>3, <2>4 DEF AtColon
<1>15. Explained(document, policy, frames2, values, d, "colon", position + 1, from, cuts)
  BY <1>5, <1>13, <1>14 DEF Explained, c
<1>16. Whole(frame)
  <2>1. Len(frames[d].names) = c.count /\ Len(frame.names) = c.count + 1
    BY <1>4, <1>7, <1>9, ListingLength DEF Longer
  <2>2. \A j, k \in 1..c.count : frames[d].names[j] = frames[d].names[k] => j = k
    BY <1>1, <2>1 DEF Read, Whole
  <2>3. \A j \in 1..c.count : frame.names[j] = frames[d].names[j] /\ frame.names[j] # name
    BY <1>9, <2>1 DEF Longer, name
  <2>4. frame.names[c.count + 1] = name
    BY <1>9 DEF Longer
  <2>5. \A j \in 1..(c.count + 1) : j \in 1..c.count \/ j = c.count + 1
    BY <1>4
  <2> QED BY <1>8, <2>1, <2>2, <2>3, <2>4, <2>5 DEF Whole
<1>17. \A i \in 1..d : Whole(frames2[i])
  <2>1. \A i \in 1..d : i \in 1..e \/ i = d
    BY <1>3
  <2> QED BY <1>5, <1>16, <2>1 DEF Read
<1>18. Read(document, policy, frames2, values, d, "colon", position + 1, from, cuts)
  BY <1>1, <1>15, <1>17 DEF Read
<1>19. Ending(document, frames2, d, position + 3)
  <2>1. \A i \in 1..d : frames2[i].kind = frames[i].kind
    <3>1. \A i \in 1..d : i \in 1..e \/ i = d
      BY <1>3
    <3> QED BY <1>5, <1>8, <3>1
  <2>2. \A k \in 1..d : d + 1 - k \in 1..d
    BY <1>1
  <2> QED BY <2>1, <2>2 DEF Ending
<1>20. (position + 1) + 1 = position + 2 /\ (position + 1) + 2 = position + 3
  BY <1>1
<1> QED BY <1>5, <1>8, <1>18, <1>19, <1>20, ColonEnds

----------------------------------------------------------------------------
(* Nothing that was read was a fault yet: there is a document that begins with *)
(* the lexemes read so far, in whatever state the parser is (refused too), and *)
(* has a value under the options of the call, but for the byte cap (parse.rs:  *)
(* a lexeme is consumed only when it was found to be in order, and an error    *)
(* returns without consuming one).                                           *)
CanBeCompleted ==
    \E document \in Seq(Lexeme) : Alike(input, document, at) /\ Valued(document, Uncapped(opts))

(* The lexemes to complete it with. *)
Null == [kind |-> "word", word |-> "null"]
AColon == [kind |-> "colon"]
AName(name, spelling) ==
    [kind |-> "str", name |-> name, spelling |-> spelling, fault |-> "none", nonchar |-> FALSE]

(* What was read, some lexemes more, and the closers of what is open. *)
Mended(mend) ==
    [i \in 1..(at + Len(mend) + Depth) |->
       IF i <= at THEN input[i]
       ELSE IF i <= at + Len(mend) THEN mend[i - at]
       ELSE [kind |-> CloserOf(open[at + Len(mend) + Depth + 1 - i].kind)]]

LEMMA MendedFits ==
    ASSUME IInv, NEW mend \in Seq(Lexeme)
    PROVE  /\ Mended(mend) \in Seq(Lexeme)
           /\ Alike(input, Mended(mend), at)
           /\ \A i \in 1..Len(mend) : Mended(mend)[at + i] = mend[i]
           /\ Ending(Mended(mend), open, Depth, at + Len(mend))
<1> DEFINE m == Len(mend)
           total == at + m + Depth
<1>1. /\ at \in Nat /\ m \in Nat /\ Depth \in Nat /\ at <= Len(input) /\ Len(input) \in Nat
      /\ input \in Seq(Lexeme) /\ open \in Seq(Frame) /\ total \in Nat
  BY WhileReading
<1>2. \A i \in 1..at : input[i] \in Lexeme
  BY <1>1, ElementOfSeq
<1>3. \A i \in 1..m : mend[i] \in Lexeme
  BY ElementOfSeq
<1>4. \A kind : [kind |-> CloserOf(kind)] \in Lexeme
  BY DEF CloserOf, Lexeme, PunctKinds
<1>5. Mended(mend) = [i \in 1..total |->
         IF i <= at THEN input[i]
         ELSE IF i <= at + m THEN mend[i - at]
         ELSE [kind |-> CloserOf(open[total + 1 - i].kind)]]
  BY DEF Mended
<1> HIDE DEF m
<1>6. ASSUME NEW i \in 1..total
      PROVE  (IF i <= at THEN input[i]
              ELSE IF i <= at + m THEN mend[i - at]
              ELSE [kind |-> CloserOf(open[total + 1 - i].kind)]) \in Lexeme
  <2>1. CASE i <= at
    BY <1>1, <1>2, <2>1
  <2>2. CASE ~(i <= at) /\ i <= at + m
    <3>1. i - at \in 1..m
      BY <1>1, <2>2
    <3> QED BY <1>3, <2>2, <3>1
  <2>3. CASE ~(i <= at) /\ ~(i <= at + m)
    BY <1>4, <2>3
  <2> QED BY <2>1, <2>2, <2>3
<1>7. Mended(mend) \in [1..total -> Lexeme]
  BY <1>5, <1>6
<1>8. Mended(mend) \in Seq(Lexeme) /\ Len(Mended(mend)) = total
  <2>1. Mended(mend) \in Seq(Lexeme)
    BY <1>1, <1>7, SeqDef
  <2> QED BY <1>1, <1>7, <2>1, LenProperties
<1>9. Alike(input, Mended(mend), at)
  <2>1. \A i \in 1..at : i \in 1..total
    BY <1>1
  <2> QED BY <1>1, <1>5, <1>8, <2>1 DEF Alike
<1>10. ASSUME NEW i \in 1..m PROVE Mended(mend)[at + i] = mend[i]
  <2>1. at + i \in 1..total /\ ~(at + i <= at) /\ at + i <= at + m /\ at + i - at = i
    BY <1>1
  <2>2. PICK j : j = at + i
    OBVIOUS
  <2>3. j \in 1..total /\ ~(j <= at) /\ j <= at + m /\ j - at = i
    BY <1>1, <2>1, <2>2
  <2>4. Mended(mend)[j] = mend[j - at]
    BY <1>5, <2>3
  <2> QED BY <2>2, <2>3, <2>4
<1>11. ASSUME NEW k \in 1..Depth
       PROVE  Mended(mend)[at + m + k].kind = CloserOf(open[Depth + 1 - k].kind)
  <2>1. /\ at + m + k \in 1..total /\ ~(at + m + k <= at) /\ ~(at + m + k <= at + m)
        /\ total + 1 - (at + m + k) = Depth + 1 - k
    BY <1>1
  <2>2. Mended(mend)[at + m + k] = [kind |-> CloserOf(open[total + 1 - (at + m + k)].kind)]
    BY <1>5, <2>1
  <2> QED BY <2>1, <2>2
<1>12. Ending(Mended(mend), open, Depth, at + m)
  BY <1>1, <1>8, <1>11 DEF Ending
<1> QED BY <1>8, <1>9, <1>10, <1>12 DEF m

(* What is open, and a document that begins with what was read. *)
LEMMA MendedRead ==
    ASSUME IInv, Sound, pc \in Reading, NEW document \in Seq(Lexeme), Alike(input, document, at)
    PROVE  \E from, cuts : Read(document, Uncapped(opts), open, built, Depth, pc, at, from, cuts)
<1>1. /\ at \in Nat /\ Depth \in Nat /\ Len(input) \in Nat /\ Len(document) \in Nat
      /\ pc # "value" => Depth > 0
  BY WhileReading, LenProperties DEF Reading
<1>2. opts \in Policy /\ Depth <= opts.max_depth
  BY DEF IInv, TypeOK
<1>3. /\ Uncapped(opts).max_depth = opts.max_depth /\ opts.max_depth \in Nat
      /\ ~TooLong(Uncapped(opts), Len(document))
  BY <1>2, DepthConstants DEF Policy, Uncapped, TooLong
<1>4. Listing(built, Depth)
  BY DEF Sound
<1>5. PICK from, cuts : Explained(input, opts, open, built, Depth, pc, at, from, cuts)
  BY DEF Sound
<1>6. Explained(document, Uncapped(opts), open, built, Depth, pc, at, from, cuts)
  BY <1>1, <1>2, <1>5, AlikeExplained
<1>7. ASSUME NEW i \in 1..Depth PROVE Whole(open[i])
  <2>1. open[i] \in Frame
    BY WhileReading, ElementOfSeq DEF Depth
  <2>2. Distinct(open[i])
    BY DEF IInv, MembersDistinct
  <2> QED BY <2>1, <2>2 DEF Frame, Distinct, Whole
<1> QED BY <1>1, <1>2, <1>3, <1>4, <1>6, <1>7 DEF Read

(* There is a name the innermost object does not have. *)
LEMMA FreshName ==
    ASSUME IInv, Depth > 0, ~IsFiniteSet(Names)
    PROVE  \E name \in Names : \A j \in 1..Len(open[Depth].names) : open[Depth].names[j] # name
<1> DEFINE names == open[Depth].names
           used  == {names[j] : j \in 1..Len(names)}
<1>1. open[Depth] \in Frame
  BY WhileReading
<1>2. names \in Seq(Names) /\ Len(names) \in Nat
  BY <1>1, LenProperties DEF Frame
<1>3. IsFiniteSet(1..Len(names))
  BY <1>2, FS_Interval
<1>4. IsFiniteSet(used)
  <2> DEFINE f == [j \in 1..Len(names) |-> names[j]]
  <2>1. f \in Surjection(1..Len(names), used)
    BY DEF Surjection
  <2> HIDE DEF f, used, names
  <2> QED BY <1>3, <2>1, FS_Surjection
<1>5. PICK name \in Names : name \notin used
  <2> SUFFICES ASSUME Names \subseteq used PROVE FALSE
    OBVIOUS
  <2> HIDE DEF used
  <2> QED BY <1>4, FS_Subset
<1> QED BY <1>5

(* Wherever the parser is reading. *)
LEMMA ReadingCompletes ==
    ASSUME ~IsFiniteSet(Names), Spellings # {}, IInv, Sound, pc \in Reading
    PROVE  CanBeCompleted
<1>1. /\ at \in Nat /\ Depth \in Nat
      /\ pc # "value" => Depth > 0
  BY WhileReading DEF Reading
<1>2. Null \in Lexeme /\ AColon \in Lexeme /\ Null.kind = "word" /\ AColon.kind = "colon"
  BY DEF Null, AColon, Lexeme, PunctKinds
<1>3. ASSUME NEW mend \in Seq(Lexeme), Valued(Mended(mend), Uncapped(opts))
      PROVE  CanBeCompleted
  BY <1>3, MendedFits DEF CanBeCompleted
<1>4. CASE pc \in {"first", "next"}
  <2> DEFINE document == Mended(<<>>)
  <2>1. <<>> \in Seq(Lexeme) /\ Len(<<>>) = 0 /\ at + 0 = at
    BY <1>1
  <2>2. document \in Seq(Lexeme) /\ Alike(input, document, at) /\ Ending(document, open, Depth, at)
    BY <2>1, MendedFits
  <2> HIDE DEF document
  <2>3. PICK from, cuts : Read(document, Uncapped(opts), open, built, Depth, pc, at, from, cuts)
    BY <2>2, MendedRead
  <2>4. Valued(document, Uncapped(opts))
    BY <1>1, <1>4, <2>2, <2>3, EndsWell
  <2> QED BY <1>3, <2>1, <2>4 DEF document
<1>5. CASE pc = "value"
  <2> DEFINE mend == <<Null>>
             document == Mended(mend)
  <2>1. mend \in Seq(Lexeme) /\ Len(mend) = 1 /\ mend[1] = Null
    BY <1>2
  <2>2. /\ document \in Seq(Lexeme) /\ Alike(input, document, at) /\ document[at + 1] = Null
        /\ Ending(document, open, Depth, at + 1)
    <3>1. 1 \in 1..Len(mend)
      BY <2>1
    <3> HIDE DEF mend
    <3> QED BY <2>1, <3>1, MendedFits
  <2> HIDE DEF document, mend
  <2>3. PICK from, cuts : Read(document, Uncapped(opts), open, built, Depth, pc, at, from, cuts)
    BY <2>2, MendedRead
  <2>4. at < Len(document)
    BY <1>1, <2>2 DEF Ending
  <2>5. Valued(document, Uncapped(opts))
    BY <1>2, <1>5, <2>2, <2>3, <2>4, ValueEnds
  <2> QED BY <1>3, <2>1, <2>5 DEF document
<1>6. CASE pc = "colon"
  <2> DEFINE mend == <<AColon, Null>>
             document == Mended(mend)
  <2>1. mend \in Seq(Lexeme) /\ Len(mend) = 2 /\ mend[1] = AColon /\ mend[2] = Null
    BY <1>2
  <2>2. /\ document \in Seq(Lexeme) /\ Alike(input, document, at)
        /\ document[at + 1] = AColon /\ document[at + 2] = Null
        /\ Ending(document, open, Depth, at + 2)
    <3>1. 1 \in 1..Len(mend) /\ 2 \in 1..Len(mend)
      BY <2>1
    <3> HIDE DEF mend
    <3> QED BY <2>1, <3>1, MendedFits
  <2> HIDE DEF document, mend
  <2>3. PICK from, cuts : Read(document, Uncapped(opts), open, built, Depth, pc, at, from, cuts)
    BY <2>2, MendedRead
  <2>4. Depth > 0 /\ open[Depth].kind = "object"
    BY <1>6, WhileReading
  <2>5. Valued(document, Uncapped(opts))
    BY <1>2, <1>6, <2>2, <2>3, <2>4, ColonEnds
  <2> QED BY <1>3, <2>1, <2>5 DEF document
<1>7. CASE pc = "name"
  <2>1. Depth > 0 /\ open[Depth].kind = "object"
    BY <1>7, WhileReading
  <2>2. PICK name \in Names : \A j \in 1..Len(open[Depth].names) : open[Depth].names[j] # name
    BY <2>1, FreshName
  <2>3. PICK spelling \in Spellings : TRUE
    OBVIOUS
  <2>4. PICK lexeme : lexeme = AName(name, spelling)
    OBVIOUS
  <2>5. lexeme \in Lexeme /\ lexeme.name = name /\ lexeme.kind = "str" /\ Allowed(lexeme, Uncapped(opts))
    BY <2>4 DEF AName, Lexeme, StringFaults, Allowed
  <2> DEFINE mend == <<lexeme, AColon, Null>>
             document == Mended(mend)
  <2>6. /\ mend \in Seq(Lexeme) /\ Len(mend) = 3
        /\ mend[1] = lexeme /\ mend[2] = AColon /\ mend[3] = Null
    BY <1>2, <2>5
  <2>7. /\ document \in Seq(Lexeme) /\ Alike(input, document, at)
        /\ document[at + 1] = lexeme /\ document[at + 2] = AColon /\ document[at + 3] = Null
        /\ Ending(document, open, Depth, at + 3)
    <3>1. 1 \in 1..Len(mend) /\ 2 \in 1..Len(mend) /\ 3 \in 1..Len(mend)
      BY <2>6
    <3> HIDE DEF mend
    <3> QED BY <2>6, <3>1, MendedFits
  <2> HIDE DEF document, mend
  <2>8. PICK from, cuts : Read(document, Uncapped(opts), open, built, Depth, pc, at, from, cuts)
    BY <2>7, MendedRead
  <2>9. at < Len(document)
    BY <1>1, <2>7 DEF Ending
  <2>10. NameAt(document, Uncapped(opts), at, document[at + 1].name)
    BY <2>5, <2>7, <2>9 DEF NameAt
  <2>11. Valued(document, Uncapped(opts))
    BY <1>2, <1>7, <2>1, <2>2, <2>5, <2>7, <2>8, <2>10, NameEnds
  <2> QED BY <1>3, <2>6, <2>11 DEF document
<1> QED BY <1>4, <1>5, <1>6, <1>7 DEF Reading

(* Behind the value of the document: nothing is missing. *)
LEMMA EndCompletes ==
    ASSUME IInv, Sound, pc = "end"
    PROVE  CanBeCompleted
<1> DEFINE document == Mended(<<>>)
<1>1. at \in Nat /\ Depth = 0 /\ Len(input) \in Nat /\ opts \in Policy
  BY WhileReading DEF IInv, TypeOK
<1>2. <<>> \in Seq(Lexeme) /\ Len(<<>>) = 0
  OBVIOUS
<1>3. /\ document \in Seq(Lexeme) /\ Alike(input, document, at)
      /\ Ending(document, open, Depth, at + 0)
  BY <1>2, MendedFits
<1> HIDE DEF document
<1>4. Len(document) = at
  BY <1>1, <1>3 DEF Ending
<1>5. PICK from \in Nat : \E to \in Nat :
        /\ Blank(input, 0, from)
        /\ from < to /\ Derives(input, opts, 0, from, to, built[1])
        /\ Blank(input, to, at)
  BY DEF Sound
<1>6. PICK to \in Nat :
        /\ Blank(input, 0, from)
        /\ from < to /\ Derives(input, opts, 0, from, to, built[1])
        /\ Blank(input, to, at)
  BY <1>5
<1>7. to <= at /\ from <= at /\ from \in 0..Len(document) /\ to \in 0..Len(document)
  BY <1>1, <1>4, <1>6 DEF Blank
<1>8. Blank(document, 0, from) /\ Blank(document, to, Len(document))
  BY <1>1, <1>3, <1>4, <1>6, <1>7, AlikeBlank
<1>9. Derives(document, Uncapped(opts), 0, from, to, built[1])
  BY <1>1, <1>3, <1>4, <1>6, <1>7, AlikeDerives
<1>10. ~TooLong(Uncapped(opts), Len(document))
  BY <1>1 DEF TooLong, Uncapped, Policy
<1>11. Denotes(document, Uncapped(opts), built[1])
  BY <1>7, <1>8, <1>9, <1>10 DEF Denotes
<1> QED BY <1>3, <1>11 DEF CanBeCompleted, Valued

(* Before anything was read: null. *)
LEMMA StartCompletes ==
    ASSUME at = 0, opts \in Policy
    PROVE  CanBeCompleted
<1> DEFINE document == <<Null>>
           v == Span(0, 0, 1, ScalarNode(Null))
<1>1. Null \in Lexeme /\ Null.kind = "word"
  BY DEF Null, Lexeme
<1>2. document \in Seq(Lexeme) /\ Len(document) = 1 /\ document[1] = Null
  BY <1>1
<1>3. Alike(input, document, at)
  BY <1>2 DEF Alike
<1> HIDE DEF document
<1>4. Atomic(document, Uncapped(opts), v)
  BY <1>1, <1>2 DEF Atomic, Span, Allowed
<1>5. Derives(document, Uncapped(opts), 0, 0, 1, ScalarNode(Null))
  BY <1>4, AtomicDerives
<1>6. Blank(document, 0, 0) /\ Blank(document, 1, Len(document))
  BY <1>2, BlankNothing
<1>7. ~TooLong(Uncapped(opts), Len(document))
  BY DEF TooLong, Uncapped, Policy
<1>8. 0 \in 0..Len(document) /\ 1 \in 0..Len(document)
  BY <1>2
<1>9. Denotes(document, Uncapped(opts), ScalarNode(Null))
  BY <1>5, <1>6, <1>7, <1>8 DEF Denotes
<1> QED BY <1>2, <1>3, <1>9 DEF CanBeCompleted, Valued

(* A call that ends has read nothing more. *)
LEMMA EndedHere ==
    ASSUME CanBeCompleted, [Next]_vars, pc' = "done"
    PROVE  CanBeCompleted'
<1>1. UNCHANGED <<input, opts, at>>
  <2>1. ASSUME NEW node, NEW above, NEW values, Return(node, above, values) PROVE pc' # "done"
    BY <2>1 DEF Return
  <2>2. CASE Next
    <3>1. ~(Word \/ CloseEmpty \/ CloseFull)
      BY <2>1 DEF Word, CloseEmpty, CloseFull, Close, ReturnScalar
    <3>2. CheckLength \/ NoValue \/ EndDocument => UNCHANGED <<input, opts, at>>
      BY DEF CheckLength, NoValue, EndDocument, Refuse, RefuseAt
    <3>3. ~(StartLoop \/ Comma)
      BY DEF StartLoop, Comma
    <3>4. ~SkipWs
      BY DEF SkipWs
    <3>5. Number \/ StringValue => UNCHANGED <<input, opts, at>>
      BY <2>1 DEF Number, StringValue, ReturnScalar, Refuse, RefuseAt
    <3>6. OpenArray \/ OpenObject => UNCHANGED <<input, opts, at>>
      BY DEF OpenArray, OpenObject, Open, RefuseAt
    <3>7. NoName \/ MemberName \/ Colon \/ NoSeparator => UNCHANGED <<input, opts, at>>
      BY DEF NoName, MemberName, Colon, NoSeparator, RefuseAt
    <3> QED BY <2>2, <3>1, <3>2, <3>3, <3>4, <3>5, <3>6, <3>7 DEF Next
  <2> QED BY <2>2 DEF vars
<1> QED BY <1>1 DEF CanBeCompleted

----------------------------------------------------------------------------
(* Admission refuses at the first fault and not behind it.  Names are strings  *)
(* of any length, so there are always more of them than an object holds.      *)
THEOREM ReadUpToTheFault ==
    ~IsFiniteSet(Names) /\ Spellings # {} /\ Spec => []CanBeCompleted
<1> SUFFICES ASSUME ~IsFiniteSet(Names), Spellings # {} PROVE Spec => []CanBeCompleted
  OBVIOUS
<1>1. Init => CanBeCompleted
  BY InitInv, StartCompletes DEF Init, IInv, TypeOK
<1>2. IInv /\ Sound => CanBeCompleted \/ pc = "done"
  <2>1. ASSUME IInv, Sound, pc = "length" PROVE CanBeCompleted
    BY <2>1, StartCompletes DEF Sound, IInv, TypeOK
  <2>2. ASSUME IInv PROVE pc \in Reading \cup {"length", "end", "done"}
    BY <2>2 DEF IInv, TypeOK, PcValues, Reading
  <2> QED BY <2>1, <2>2, ReadingCompletes, EndCompletes
<1>3. CanBeCompleted /\ [Next]_vars => (pc = "done" => CanBeCompleted)'
  BY EndedHere
<1> QED BY <1>1, <1>2, <1>3, Invariant, SoundInvariant, PTL DEF Spec

----------------------------------------------------------------------------
(* Another document. *)
CONSTANT Other

Run == INSTANCE JsonParserProofs WITH input <- Other, Inputs <- {}, Requests <- {}

Fit == ~TooLong(opts, Len(input)) /\ ~TooLong(opts, Len(Other))

(* The documents agree up to the lexeme the parser is at, and have one there. *)
BeginsAlike ==
    /\ at < Len(input) /\ at < Len(Other)
    /\ \A i \in 1..(at + 1) : Other[i] = input[i]

Healthy == Run!IInv /\ Run!Sound /\ Run!Faithful

(* A document that is too long is refused for that, and was not looked at. *)
Sized ==
    TooLong(opts, Len(input)) =>
      \/ pc = "length" /\ result.status = "parsing"
      \/ pc = "done" /\ result.class = "TooLarge"

Inv ==
    /\ input \in Seq(Lexeme) /\ at \in Nat
    /\ Sized
    /\ Fit /\ BeginsAlike => Healthy

----------------------------------------------------------------------------
(* A step, where both have the same lexeme, is a step on either.             *)
LEMMA SameStep ==
    ASSUME Fit, BeginsAlike, at \in Nat, Next
    PROVE  Run!Next
<1>1. Other[at + 1] = input[at + 1] /\ at < Len(input) /\ at < Len(Other)
  BY DEF BeginsAlike
<1>2. (\A kind : Run!Peek(kind) = Peek(kind)) /\ ~Run!AtEnd /\ ~AtEnd
  BY <1>1 DEF Run!Peek, Peek, Run!AtEnd, AtEnd
<1>3. /\ \A class : Refuse(class) => Run!Refuse(class)
      /\ \A class : RefuseAt(class) => Run!RefuseAt(class)
  BY DEF Refuse, Run!Refuse, RefuseAt, Run!RefuseAt
<1>4. \A node : ReturnScalar(node) => Run!ReturnScalar(node)
  BY DEF ReturnScalar, Run!ReturnScalar, Return, Run!Return
<1>5. CheckLength => Run!CheckLength
  BY <1>3 DEF CheckLength, Run!CheckLength, Fit, TooLong, Run!TooLong
<1>6. SkipWs => Run!SkipWs
  BY <1>2 DEF SkipWs, Run!SkipWs, PcValues, Run!PcValues
<1>7. NoValue => Run!NoValue
  BY <1>2, <1>3 DEF NoValue, Run!NoValue
<1>8. Word => Run!Word
  BY <1>1, <1>2, <1>4 DEF Word, Run!Word
<1>9. Number => Run!Number
  BY <1>1, <1>2, <1>3, <1>4 DEF Number, Run!Number, NumberFault, Run!NumberFault
<1>10. StringValue => Run!StringValue
  BY <1>1, <1>2, <1>3, <1>4 DEF StringValue, Run!StringValue, StringFault, Run!StringFault
<1>11. OpenArray \/ OpenObject => Run!OpenArray \/ Run!OpenObject
  BY <1>2, <1>3 DEF OpenArray, OpenObject, Open, DepthExhausted, Depth,
         Run!OpenArray, Run!OpenObject, Run!Open, Run!DepthExhausted, Run!Depth
<1>12. Run!InObject = InObject /\ Run!InArray = InArray
  BY DEF InObject, Run!InObject, InArray, Run!InArray, Innermost, Run!Innermost, Depth, Run!Depth
<1>13. Run!AtCloser = AtCloser
  BY <1>2, <1>12 DEF AtCloser, Run!AtCloser
<1>14. Close => Run!Close
  BY <1>12 DEF Close, Run!Close, Return, Run!Return, Innermost, Run!Innermost, Depth, Run!Depth
<1>15. CloseEmpty \/ CloseFull => Run!CloseEmpty \/ Run!CloseFull
  BY <1>13, <1>14 DEF CloseEmpty, Run!CloseEmpty, CloseFull, Run!CloseFull
<1>16. StartLoop \/ Comma \/ NoSeparator => Run!StartLoop \/ Run!Comma \/ Run!NoSeparator
  BY <1>2, <1>3, <1>12, <1>13 DEF StartLoop, Run!StartLoop, Comma, Run!Comma, NoSeparator, Run!NoSeparator
<1>17. NoName \/ Colon => Run!NoName \/ Run!Colon
  BY <1>2, <1>3 DEF NoName, Run!NoName, Colon, Run!Colon
<1>18. MemberName => Run!MemberName
  BY <1>1, <1>2, <1>3 DEF MemberName, Run!MemberName, StringFault, Run!StringFault, Repeats, Run!Repeats,
         Innermost, Run!Innermost, Named, Run!Named, Depth, Run!Depth
<1>19. EndDocument => Run!EndDocument
  BY <1>2, <1>3 DEF EndDocument, Run!EndDocument
<1> QED BY <1>5, <1>6, <1>7, <1>8, <1>9, <1>10, <1>11, <1>15, <1>16, <1>17, <1>18, <1>19 DEF Next, Run!Next

(* What JsonParserProofs shows of every step.                               *)
LEMMA HealthyKept ==
    ASSUME Healthy, [Run!Next]_(Run!vars)
    PROVE  Healthy'
<1>1. [Run!Next]_(Run!vars)
  OBVIOUS
<1>2. UNCHANGED opts
  BY <1>1, Run!Given, DepthConstants, ByteConstants
<1>3. Run!IInv'
  BY <1>1, Run!StepInv, DepthConstants, ByteConstants DEF Healthy
<1>4. Run!Sound'
  BY <1>1, Run!SoundNext, DepthConstants, ByteConstants DEF Healthy
<1>5. Run!Faithful'
  <2> SUFFICES ASSUME NEW target, Run!Denotes(Other, opts', target)
               PROVE  Run!Toward(target)'
    BY DEF Run!Faithful
  <2>1. Run!Denotes(Other, opts, target)
    BY <1>2
  <2>2. Run!Toward(target)
    BY <2>1 DEF Healthy, Run!Faithful
  <2> QED
    BY <1>1, <2>1, <2>2, Run!TowardNext, DepthConstants, ByteConstants DEF Healthy
<1> QED BY <1>3, <1>4, <1>5 DEF Healthy

(* Where a step may leave the parser. *)
LEMMA Forward ==
    ASSUME at \in Nat, [Next]_vars
    PROVE  at' \in {at, at + 1} /\ UNCHANGED <<input, opts>>
BY DEF Next, vars, CheckLength, SkipWs, NoValue, Word, Number, StringValue, OpenArray, OpenObject,
       Open, CloseEmpty, CloseFull, Close, StartLoop, NoName, MemberName, Colon, Comma, NoSeparator,
       EndDocument, Refuse, RefuseAt, ReturnScalar

LEMMA BeganAlike ==
    ASSUME at \in Nat, at' \in {at, at + 1}, input' = input, Len(input) \in Nat,
           Len(Other) \in Nat, BeginsAlike'
    PROVE  BeginsAlike
<1>1. /\ at' < Len(input) /\ at' < Len(Other)
      /\ \A i \in 1..(at' + 1) : Other[i] = input[i]
  BY DEF BeginsAlike
<1>2. at < Len(input) /\ at < Len(Other) /\ 1..(at + 1) \subseteq 1..(at' + 1)
  BY <1>1
<1> QED BY <1>1, <1>2 DEF BeginsAlike

LEMMA SizedNext ==
    ASSUME Sized, [Next]_vars
    PROVE  Sized'
<1>1. CASE CheckLength
  BY <1>1 DEF CheckLength, Refuse, Sized
<1>2. CASE Next /\ ~CheckLength
  <2>1. pc \notin {"length", "done"} /\ UNCHANGED <<input, opts>>
    BY <1>2 DEF Next, SkipWs, NoValue, Word, Number, StringValue, OpenArray, OpenObject,
       Open, CloseEmpty, CloseFull, Close, StartLoop, NoName, MemberName, Colon, Comma, NoSeparator,
       EndDocument, PcValues, Refuse, RefuseAt, ReturnScalar
  <2> QED BY <2>1 DEF Sized
<1>3. CASE UNCHANGED vars
  BY <1>3 DEF vars, Sized
<1> QED BY <1>1, <1>2, <1>3

LEMMA InvNext ==
    ASSUME Other \in Seq(Lexeme), Inv, [Next]_vars
    PROVE  Inv'
<1>1. at' \in {at, at + 1} /\ UNCHANGED <<input, opts>>
  BY Forward DEF Inv
<1>2. at' \in Nat /\ input' \in Seq(Lexeme)
  BY <1>1 DEF Inv
<1>3. Sized'
  BY SizedNext DEF Inv
<1>4. ASSUME Fit', BeginsAlike' PROVE Healthy'
  <2>1. Fit /\ BeginsAlike
    BY <1>1, <1>4, BeganAlike, LenProperties DEF Inv, Fit
  <2>2. Healthy
    BY <2>1 DEF Inv
  <2>3. CASE Next
    BY <2>1, <2>2, <2>3, SameStep, HealthyKept DEF Inv
  <2>4. CASE UNCHANGED vars
    <3>1. UNCHANGED Run!vars
      BY <2>4 DEF vars, Run!vars
    <3> QED BY <2>2, <3>1, HealthyKept
  <2> QED BY <2>3, <2>4
<1> QED BY <1>2, <1>3, <1>4 DEF Inv

LEMMA InvInit ==
    ASSUME Other \in Seq(Lexeme), Init
    PROVE  Inv
<1>1. /\ at = 0 /\ pc = "length" /\ open = <<>> /\ built = <<>>
      /\ result = [status |-> "parsing"] /\ input \in Seq(Lexeme)
  BY InputsAssumption DEF Init
<1>2. opts \in Policy
  BY RequestsAssumption, DepthConstants DEF Init, Request, Configured, WithMaxDepth, Policy
<1>3. Run!Depth = 0
  BY <1>1 DEF Run!Depth
<1>4. Len(Other) \in Nat /\ opts.max_depth \in Nat /\ opts \in Run!Policy
  BY <1>2, DepthConstants DEF Policy, Run!Policy
<1>5. Other \in Seq(Run!Lexeme)
  BY DEF Lexeme, Run!Lexeme, PunctKinds, Run!PunctKinds, StringFaults, Run!StringFaults,
         NumberClass, Run!NumberClass
<1>6. Run!TypeOK
  BY <1>1, <1>4, <1>5 DEF Run!TypeOK, Run!PcValues
<1>7. Run!Control /\ Run!MembersDistinct /\ Run!Depth <= opts.max_depth
  BY <1>1, <1>3, <1>4 DEF Run!Control, Run!MembersDistinct
<1>8. Run!Openers(Other, 0) = 0 /\ Run!Closers(Other, 0) = 0
  BY Run!NoBrackets, DepthConstants, ByteConstants
<1>9. Run!Tracked
  BY <1>1, <1>3, <1>4, <1>8 DEF Run!Tracked, Run!Within
<1>10. Run!Sound /\ Run!Faithful
  BY <1>1 DEF Run!Sound, Run!Faithful, Run!Toward, Run!Reading
<1>11. Healthy
  BY <1>6, <1>7, <1>9, <1>10 DEF Healthy, Run!IInv
<1> QED BY <1>1, <1>11 DEF Inv, Sized

----------------------------------------------------------------------------
(* A fault is one whatever follows it: when admission has refused a document   *)
(* at one of its lexemes (for anything but its length), no document that       *)
(* begins with the lexemes up to that one is admitted under these options,     *)
(* so reading on could not have changed the answer (parse.rs: every error is   *)
(* returned where it is met).                                                 *)
RefusalIsFinal ==
    result.status = "refused" /\ result.class # "TooLarge" /\ BeginsAlike =>
      ~\E node : Run!Denotes(Other, opts, node)

THEOREM RefusedForGood == Other \in Seq(Lexeme) /\ Spec => []RefusalIsFinal
<1> SUFFICES ASSUME Other \in Seq(Lexeme) PROVE Spec => []RefusalIsFinal
  OBVIOUS
<1>1. Init => Inv
  BY InvInit
<1>2. Inv /\ [Next]_vars => Inv'
  BY InvNext
<1>3. Inv => RefusalIsFinal
  <2> SUFFICES ASSUME Inv, result.status = "refused", result.class # "TooLarge", BeginsAlike,
                      NEW node, Run!Denotes(Other, opts, node)
               PROVE  FALSE
    BY DEF RefusalIsFinal
  <2>1. ~TooLong(opts, Len(Other))
    BY DEF Run!Denotes, Run!TooLong, TooLong
  <2>2. ~TooLong(opts, Len(input))
    BY DEF Inv, Sized
  <2>3. Healthy
    BY <2>1, <2>2 DEF Inv, Fit
  <2>4. pc = "done"
    BY <2>3 DEF Healthy, Run!IInv, Run!TypeOK
  <2>5. result.status = "parsed"
    BY <2>3, <2>4, Run!Exact, DepthConstants, ByteConstants DEF Healthy
  <2> QED BY <2>5
<1> QED BY <1>1, <1>2, <1>3, PTL DEF Spec

----------------------------------------------------------------------------
(* One level down: the characters of a number.  The scan of Parser::number is   *)
(* compared with the grammar of a number for texts of any length.            *)
(* A character is a string; that a digit is one is spelled out for the provers. *)
Char == STRING \cup Token!Digit

(* The grammar of a number by positions: the characters a + 1 to b of u.     *)
RunAt(u, a, b) == a < b /\ \A k \in (a + 1)..b : u[k] \in Token!Digit
WholeAt(u, a, b) == RunAt(u, a, b) /\ (u[a + 1] = "0" => b = a + 1)
FractionAt(u, a, b) == a = b \/ (u[a + 1] = "." /\ RunAt(u, a + 1, b))
ExponentAt(u, a, b) ==
    \/ a = b
    \/ /\ u[a + 1] \in {"e", "E"}
       /\ RunAt(u, a + 1, b) \/ (u[a + 2] \in {"+", "-"} /\ RunAt(u, a + 2, b))
SignOf(u) == IF u[1] = "-" THEN 1 ELSE 0

NumberAt(u, m) ==
    \E i, j \in 0..m : /\ WholeAt(u, SignOf(u), i)
                       /\ FractionAt(u, i, j)
                       /\ ExponentAt(u, j, m)

----------------------------------------------------------------------------
(* p is the part of u from a to b. *)
PartOf(p, u, a, b) ==
    p \in Seq(Char) /\ Len(p) = b - a /\ \A k \in 1..(b - a) : p[k] = u[a + k]

LEMMA RunPart ==
    ASSUME NEW u, NEW a \in Nat, NEW b \in Nat, a <= b, NEW p, PartOf(p, u, a, b)
    PROVE  Token!IsRun(p) <=> RunAt(u, a, b)
<1>1. p \in Seq(Char) /\ Len(p) = b - a /\ \A k \in 1..(b - a) : p[k] = u[a + k]
  BY DEF PartOf
<1>2. p # <<>> <=> a < b
  BY <1>1, EmptySeq
<1>3. p \in Seq(Token!Digit) <=> \A k \in 1..(b - a) : p[k] \in Token!Digit
  <2>1. ASSUME p \in Seq(Token!Digit) PROVE \A k \in 1..(b - a) : p[k] \in Token!Digit
    BY <1>1, <2>1, ElementOfSeq
  <2>2. ASSUME \A k \in 1..(b - a) : p[k] \in Token!Digit PROVE p \in Seq(Token!Digit)
    <3>1. p \in [1..(b - a) -> Char]
      BY <1>1
    <3>2. p \in [1..(b - a) -> Token!Digit]
      BY <2>2, <3>1
    <3> QED BY <3>2, SeqDef
  <2> QED BY <2>1, <2>2
<1>4. (\A k \in 1..(b - a) : p[k] \in Token!Digit) <=> \A k \in (a + 1)..b : u[k] \in Token!Digit
  <2>1. ASSUME NEW k \in 1..(b - a) PROVE a + k \in (a + 1)..b /\ p[k] = u[a + k]
    BY <1>1
  <2>2. ASSUME NEW k \in (a + 1)..b PROVE k - a \in 1..(b - a) /\ p[k - a] = u[k]
    BY <1>1
  <2> QED BY <2>1, <2>2
<1> QED BY <1>2, <1>3, <1>4 DEF Token!IsRun, RunAt

LEMMA PartOfPart ==
    ASSUME NEW u, NEW a \in Nat, NEW b \in Nat, NEW p, PartOf(p, u, a, b),
           NEW c \in Nat, NEW d \in Nat, 1 <= c, c <= d + 1, d <= b - a,
           NEW e, NEW f, e = a + c - 1, f = a + d
    PROVE  PartOf(SubSeq(p, c, d), u, e, f)
<1>1. p \in Seq(Char) /\ Len(p) = b - a /\ \A k \in 1..(b - a) : p[k] = u[a + k]
  BY DEF PartOf
<1>2. \A k \in c..d : p[k] \in Char
  BY <1>1, ElementOfSeq
<1>3. /\ SubSeq(p, c, d) \in Seq(Char)
      /\ Len(SubSeq(p, c, d)) = IF c <= d THEN d - c + 1 ELSE 0
      /\ \A k \in 1..(d - c + 1) : SubSeq(p, c, d)[k] = p[c + k - 1]
  BY <1>2, SubSeqProperties
<1>4. f - e = d - c + 1 /\ Len(SubSeq(p, c, d)) = f - e
  BY <1>3
<1>5. ASSUME NEW k \in 1..(f - e) PROVE SubSeq(p, c, d)[k] = u[e + k]
  <2>1. c + k - 1 \in 1..(b - a) /\ a + (c + k - 1) = e + k
    OBVIOUS
  <2> QED BY <1>1, <1>3, <1>4, <2>1
<1> QED BY <1>3, <1>4, <1>5 DEF PartOf

LEMMA TailPart ==
    ASSUME NEW u, NEW a \in Nat, NEW b \in Nat, a < b, NEW p, PartOf(p, u, a, b)
    PROVE  PartOf(Tail(p), u, a + 1, b) /\ p[1] = u[a + 1]
<1>1. p \in Seq(Char) /\ Len(p) = b - a /\ \A k \in 1..(b - a) : p[k] = u[a + k]
  BY DEF PartOf
<1>2. p # <<>>
  BY <1>1, EmptySeq
<1>3. Tail(p) \in Seq(Char) /\ Len(Tail(p)) = b - (a + 1) /\ \A k \in 1..(b - (a + 1)) : Tail(p)[k] = p[k + 1]
  BY <1>1, <1>2, HeadTailProperties
<1>4. ASSUME NEW k \in 1..(b - (a + 1)) PROVE Tail(p)[k] = u[a + 1 + k]
  <2>1. k + 1 \in 1..(b - a) /\ a + (k + 1) = a + 1 + k
    OBVIOUS
  <2> QED BY <1>1, <1>3, <2>1
<1> QED BY <1>1, <1>3, <1>4 DEF PartOf

LEMMA PartsOfNumber ==
    ASSUME NEW u, NEW a \in Nat, NEW b \in Nat, a <= b, NEW p, PartOf(p, u, a, b)
    PROVE  /\ Token!IsWholePart(p) <=> WholeAt(u, a, b)
           /\ Token!IsFractionPart(p) <=> FractionAt(u, a, b)
           /\ Token!IsExponentPart(p) <=> ExponentAt(u, a, b)
<1>1. /\ p \in Seq(Char) /\ Len(p) = b - a /\ \A k \in 1..(b - a) : p[k] = u[a + k]
      /\ p = <<>> <=> a = b
  BY EmptySeq DEF PartOf
<1>2. CASE a = b
  <2>1. p = <<>> /\ ~Token!IsRun(p)
    BY <1>1, <1>2 DEF Token!IsRun
  <2>2. ~RunAt(u, a, b)
    BY <1>2 DEF RunAt
  <2> QED BY <1>2, <2>1, <2>2 DEF Token!IsWholePart, Token!IsFractionPart, Token!IsExponentPart,
            WholeAt, FractionAt, ExponentAt
<1>3. CASE a < b
  <2>1. p # <<>> /\ PartOf(Tail(p), u, a + 1, b) /\ p[1] = u[a + 1]
    BY <1>1, <1>3, TailPart
  <2>2. Token!IsRun(p) <=> RunAt(u, a, b)
    BY RunPart
  <2>3. Token!IsRun(Tail(p)) <=> RunAt(u, a + 1, b)
    BY <1>3, <2>1, RunPart
  <2>4. Token!IsWholePart(p) <=> WholeAt(u, a, b)
    BY <1>1, <1>3, <2>1, <2>2 DEF Token!IsWholePart, WholeAt
  <2>5. Token!IsFractionPart(p) <=> FractionAt(u, a, b)
    BY <1>3, <2>1, <2>3 DEF Token!IsFractionPart, FractionAt
  <2>6. CASE Len(p) > 2
    <3>1. PartOf(SubSeq(p, 3, Len(p)), u, a + 2, b)
      <4>1. /\ 3 \in Nat /\ Len(p) \in Nat /\ 1 <= 3 /\ 3 <= Len(p) + 1 /\ Len(p) <= b - a
            /\ a + 2 = a + 3 - 1 /\ b = a + Len(p)
        BY <1>1, <2>6
      <4> QED BY <4>1, PartOfPart
    <3>2. Token!IsRun(SubSeq(p, 3, Len(p))) <=> RunAt(u, a + 2, b)
      BY <1>1, <2>6, <3>1, RunPart
    <3>3. p[2] = u[a + 2]
      BY <1>1, <2>6
    <3> QED BY <1>3, <2>1, <2>3, <2>4, <2>5, <2>6, <3>2, <3>3 DEF Token!IsExponentPart, ExponentAt
  <2>7. CASE ~(Len(p) > 2)
    <3>1. ~RunAt(u, a + 2, b)
      BY <1>1, <2>7 DEF RunAt
    <3> QED BY <1>3, <2>1, <2>3, <2>4, <2>5, <2>7, <3>1 DEF Token!IsExponentPart, ExponentAt
  <2> QED BY <1>1, <2>6, <2>7
<1> QED BY <1>2, <1>3

LEMMA NumberByPositions ==
    ASSUME NEW t \in Seq(Char)
    PROVE  Token!IsNumber(t) <=> NumberAt(t, Len(t))
<1> DEFINE m == Len(t)
           body == IF t # <<>> /\ t[1] = "-" THEN Tail(t) ELSE t
           s == SignOf(t)
<1>1. CASE t = <<>>
  <2>1. m = 0
    BY <1>1
  <2>2. ~NumberAt(t, m)
    BY <2>1 DEF NumberAt, WholeAt, RunAt, SignOf
  <2>3. ~Token!IsNumber(t)
    <3>1. \A i \in 0..0 : SubSeq(t, 1, i) = <<>>
      BY <1>1
    <3>2. Len(<<>>) = 0
      OBVIOUS
    <3> QED BY <1>1, <3>1, <3>2 DEF Token!IsNumber, Token!IsWholePart, Token!IsRun
  <2> QED BY <2>2, <2>3
<1>2. CASE t # <<>>
  <2>1. m \in Nat /\ m > 0 /\ s \in {0, 1}
    BY <1>2, EmptySeq, LenProperties DEF SignOf
  <2>2. PartOf(t, t, 0, m)
    BY <2>1 DEF PartOf
  <2>3. PartOf(body, t, s, m)
    <3>1. CASE t[1] = "-"
      <4>1. body = Tail(t) /\ s = 1
        BY <1>2, <3>1 DEF SignOf
      <4>2. PartOf(Tail(t), t, 0 + 1, m)
        BY <2>1, <2>2, TailPart
      <4> QED BY <4>1, <4>2, 0 + 1 = 1
    <3>2. CASE t[1] # "-"
      BY <2>2, <3>2 DEF SignOf
    <3> QED BY <3>1, <3>2
  <2> HIDE DEF body, s, m
  <2>4. Len(body) = m - s
    BY <2>3 DEF PartOf
  <2>5. ASSUME NEW i \in 0..(m - s), NEW j \in i..(m - s)
        PROVE  /\ Token!IsWholePart(SubSeq(body, 1, i)) <=> WholeAt(t, s, s + i)
               /\ Token!IsFractionPart(SubSeq(body, i + 1, j)) <=> FractionAt(t, s + i, s + j)
               /\ Token!IsExponentPart(SubSeq(body, j + 1, m - s)) <=> ExponentAt(t, s + j, m)
    <3>1. i \in Nat /\ j \in Nat /\ s \in Nat /\ m \in Nat /\ s <= m
      BY <2>1
    <3>2. PartOf(SubSeq(body, 1, i), t, s, s + i)
      <4>1. 1 \in Nat /\ 1 <= 1 /\ 1 <= i + 1 /\ i <= m - s /\ s = s + 1 - 1
        BY <3>1
      <4> QED BY <2>3, <3>1, <4>1, PartOfPart
    <3>3. PartOf(SubSeq(body, i + 1, j), t, s + i, s + j)
      <4>1. i + 1 \in Nat /\ 1 <= i + 1 /\ i + 1 <= j + 1 /\ j <= m - s /\ s + i = s + (i + 1) - 1
        BY <3>1
      <4> QED BY <2>3, <3>1, <4>1, PartOfPart
    <3>4. PartOf(SubSeq(body, j + 1, m - s), t, s + j, m)
      <4>1. /\ j + 1 \in Nat /\ m - s \in Nat /\ 1 <= j + 1 /\ j + 1 <= m - s + 1 /\ m - s <= m - s
            /\ s + j = s + (j + 1) - 1 /\ m = s + (m - s)
        BY <3>1
      <4> QED BY <2>3, <3>1, <4>1, PartOfPart
    <3> QED BY <2>1, <3>1, <3>2, <3>3, <3>4, PartsOfNumber
  <2>6. Token!IsNumber(t) <=>
          \E i, j \in 0..(m - s) :
            /\ i <= j
            /\ WholeAt(t, s, s + i) /\ FractionAt(t, s + i, s + j) /\ ExponentAt(t, s + j, m)
    <3>1. Token!IsNumber(t) <=>
            \E i, j \in 0..Len(body) :
              /\ i <= j
              /\ Token!IsWholePart(SubSeq(body, 1, i))
              /\ Token!IsFractionPart(SubSeq(body, i + 1, j))
              /\ Token!IsExponentPart(SubSeq(body, j + 1, Len(body)))
      BY DEF Token!IsNumber, body
    <3> QED BY <2>4, <2>5, <3>1
  <2>7. NumberAt(t, m) <=>
          \E i, j \in 0..(m - s) :
            /\ i <= j
            /\ WholeAt(t, s, s + i) /\ FractionAt(t, s + i, s + j) /\ ExponentAt(t, s + j, m)
    <3>1. ASSUME NEW i \in 0..m, NEW j \in 0..m, WholeAt(t, s, i), FractionAt(t, i, j)
          PROVE  i - s \in 0..(m - s) /\ j - s \in 0..(m - s) /\ i - s <= j - s /\ s + (i - s) = i /\ s + (j - s) = j
      BY <2>1, <3>1 DEF WholeAt, FractionAt, RunAt
    <3>2. ASSUME NEW i \in 0..(m - s), NEW j \in 0..(m - s)
          PROVE  s + i \in 0..m /\ s + j \in 0..m
      BY <2>1
    <3>3. NumberAt(t, m) <=> \E i, j \in 0..m : WholeAt(t, s, i) /\ FractionAt(t, i, j) /\ ExponentAt(t, j, m)
      BY DEF NumberAt, s
    <3> QED BY <3>1, <3>2, <3>3
  <2> QED BY <2>6, <2>7 DEF m
<1> QED BY <1>1, <1>2

----------------------------------------------------------------------------
(* What the scan reads, part by part. *)
LEMMA DigitsRead ==
    ASSUME NEW t \in Seq(Char), NEW a \in 0..Len(t)
    PROVE  /\ Token!AfterDigits(t, a) \in a..Len(t)
           /\ \A k \in (a + 1)..Token!AfterDigits(t, a) : t[k] \in Token!Digit
           /\ Token!AfterDigits(t, a) < Len(t) => t[Token!AfterDigits(t, a) + 1] \notin Token!Digit
<1> DEFINE I == {k \in (a + 1)..Len(t) : t[k] \notin Token!Digit}
           next == IF I # {} THEN CHOOSE x \in I : \A y \in I : x <= y ELSE 0
<1>1. Token!AfterDigits(t, a) = IF next = 0 THEN Len(t) ELSE next - 1
  BY DEF Token!AfterDigits, Token!SelectInSubSeq, Token!Min
<1>2. Len(t) \in Nat
  OBVIOUS
<1>3. CASE I = {}
  <2>1. Token!AfterDigits(t, a) = Len(t)
    BY <1>1, <1>3
  <2> QED BY <1>2, <1>3, <2>1
<1>4. CASE I # {}
  <2>1. \E x \in I : \A y \in I : x <= y
    <3>1. I \subseteq Nat
      BY <1>2
    <3> HIDE DEF I
    <3> QED BY <1>4, <3>1, Least
  <2>2. next \in I /\ \A y \in I : next <= y
    <3> HIDE DEF I
    <3> QED BY <1>4, <2>1
  <2> HIDE DEF next
  <2>3. next \in (a + 1)..Len(t) /\ t[next] \notin Token!Digit
    BY <2>2
  <2>4. Token!AfterDigits(t, a) = next - 1
    BY <1>1, <1>2, <2>3
  <2>5. ASSUME NEW k \in (a + 1)..(next - 1) PROVE t[k] \in Token!Digit
    <3>1. k \in (a + 1)..Len(t) /\ ~(next <= k)
      BY <1>2, <2>3
    <3> QED BY <2>2, <3>1
  <2>6. next - 1 \in a..Len(t) /\ next - 1 + 1 = next
    BY <1>2, <2>3
  <2> QED BY <2>3, <2>4, <2>5, <2>6
<1> QED BY <1>3, <1>4

LEMMA Characters ==
    /\ {"0"} \subseteq Token!Digit
    /\ "." \notin Token!Digit /\ "-" \notin Token!Digit /\ "+" \notin Token!Digit
    /\ "e" \notin Token!Digit /\ "E" \notin Token!Digit
BY DEF Token!Digit

LEMMA WholeRead ==
    ASSUME NEW t \in Seq(Char), NEW a \in 0..Len(t), NEW w, w = Token!IntegerPart(t, a)
    PROVE  /\ w.at \in a..Len(t) /\ w.ok \in BOOLEAN
           /\ w.ok => WholeAt(t, a, w.at)
           /\ ~w.ok => w.at = a
<1> USE DEF Token!Go, Token!Stop
<1>1. Len(t) \in Nat /\ a \in Nat
  OBVIOUS
<1>2. CASE Token!At(t, a, {"0"})
  <2>1. w = [ok |-> TRUE, at |-> a + 1]
    BY <1>2 DEF Token!IntegerPart, Token!At
  <2>2. a < Len(t) /\ t[a + 1] = "0"
    BY <1>2 DEF Token!At
  <2> QED BY <1>1, <2>1, <2>2, Characters DEF WholeAt, RunAt
<1>3. CASE Token!At(t, a, Token!Digit \ {"0"})
  <2>1. w = [ok |-> TRUE, at |-> Token!AfterDigits(t, a)]
    BY <1>3 DEF Token!IntegerPart, Token!At
  <2>2. a < Len(t) /\ t[a + 1] \in Token!Digit /\ t[a + 1] # "0"
    BY <1>3 DEF Token!At
  <2>3. a < w.at
    BY <1>1, <2>1, <2>2, DigitsRead
  <2> QED BY <1>1, <2>1, <2>2, <2>3, DigitsRead DEF WholeAt, RunAt
<1>4. CASE ~Token!At(t, a, {"0"}) /\ ~Token!At(t, a, Token!Digit \ {"0"})
  <2>1. w = [ok |-> FALSE, at |-> a]
    BY <1>4 DEF Token!IntegerPart
  <2> QED BY <1>1, <2>1
<1> QED BY <1>2, <1>3, <1>4

LEMMA FractionRead ==
    ASSUME NEW t \in Seq(Char), NEW a \in 0..Len(t), NEW w, w = Token!FractionPart(t, a)
    PROVE  /\ w.at \in a..Len(t) /\ w.ok \in BOOLEAN
           /\ w.ok => FractionAt(t, a, w.at)
           /\ ~w.ok => w.at = a + 1 /\ t[a + 1] = "."
<1> USE DEF Token!Go, Token!Stop
<1>1. Len(t) \in Nat /\ a \in Nat
  OBVIOUS
<1>2. CASE ~Token!At(t, a, {"."})
  <2>1. w = [ok |-> TRUE, at |-> a]
    BY <1>2 DEF Token!FractionPart
  <2> QED BY <1>1, <2>1 DEF FractionAt
<1>3. CASE Token!At(t, a, {"."}) /\ Token!At(t, a + 1, Token!Digit)
  <2>1. w = [ok |-> TRUE, at |-> Token!AfterDigits(t, a + 1)]
    BY <1>3 DEF Token!FractionPart
  <2>2. a + 1 < Len(t) /\ t[a + 1] = "." /\ t[a + 1 + 1] \in Token!Digit
    BY <1>3 DEF Token!At
  <2>3. a + 1 \in 0..Len(t)
    BY <1>1, <2>2
  <2>4. a + 1 < w.at
    BY <1>1, <2>1, <2>2, <2>3, DigitsRead
  <2> QED BY <1>1, <2>1, <2>2, <2>3, <2>4, DigitsRead DEF FractionAt, RunAt
<1>4. CASE Token!At(t, a, {"."}) /\ ~Token!At(t, a + 1, Token!Digit)
  <2>1. w = [ok |-> FALSE, at |-> a + 1]
    BY <1>4 DEF Token!FractionPart
  <2> QED BY <1>1, <1>4, <2>1 DEF Token!At
<1> QED BY <1>2, <1>3, <1>4

LEMMA ExponentRead ==
    ASSUME NEW t \in Seq(Char), NEW a \in 0..Len(t), NEW w, w = Token!ExponentPart(t, a)
    PROVE  /\ w.at \in a..Len(t) /\ w.ok \in BOOLEAN
           /\ w.ok => ExponentAt(t, a, w.at)
           /\ ~w.ok => /\ t[a + 1] \in {"e", "E"}
                       /\ w.at = a + 1 \/ (w.at = a + 2 /\ t[a + 2] \in {"+", "-"})
<1> USE DEF Token!Go, Token!Stop
<1> DEFINE j == Token!AfterSign(t, a + 1, {"+", "-"})
<1>1. Len(t) \in Nat /\ a \in Nat
  OBVIOUS
<1>2. CASE ~Token!At(t, a, {"e", "E"})
  <2>1. w = [ok |-> TRUE, at |-> a]
    BY <1>2 DEF Token!ExponentPart
  <2> QED BY <1>1, <2>1 DEF ExponentAt
<1>3. CASE Token!At(t, a, {"e", "E"})
  <2>1. a < Len(t) /\ t[a + 1] \in {"e", "E"}
    BY <1>3 DEF Token!At
  <2>2. j = a + 1 \/ (j = a + 2 /\ j <= Len(t) /\ t[a + 2] \in {"+", "-"})
    BY <1>1, a + 1 + 1 = a + 2 DEF Token!AfterSign, Token!At
  <2>3. j \in 0..Len(t) /\ j > a
    BY <1>1, <2>1, <2>2
  <2>4. w = IF Token!At(t, j, Token!Digit) THEN [ok |-> TRUE, at |-> Token!AfterDigits(t, j)]
            ELSE [ok |-> FALSE, at |-> j]
    BY <1>3 DEF Token!ExponentPart
  <2> HIDE DEF j
  <2>5. CASE Token!At(t, j, Token!Digit)
    <3>1. w.ok = TRUE /\ w.at = Token!AfterDigits(t, j)
      BY <2>4, <2>5
    <3>2. j < Len(t) /\ t[j + 1] \in Token!Digit
      BY <2>5 DEF Token!At
    <3>3. j < w.at
      BY <1>1, <2>3, <3>1, <3>2, DigitsRead
    <3>4. RunAt(t, j, w.at)
      BY <2>3, <3>1, <3>3, DigitsRead DEF RunAt
    <3>5. w.at \in a..Len(t)
      BY <1>1, <2>3, <3>1, DigitsRead
    <3> QED BY <2>1, <2>2, <3>1, <3>4, <3>5 DEF ExponentAt
  <2>6. CASE ~Token!At(t, j, Token!Digit)
    <3>1. w.ok = FALSE /\ w.at = j
      BY <2>4, <2>6
    <3>2. w.at \in a..Len(t)
      BY <1>1, <2>3, <3>1
    <3>3. w.at = a + 1 \/ (w.at = a + 2 /\ t[a + 2] \in {"+", "-"})
      BY <2>2, <3>1
    <3> QED BY <2>1, <3>1, <3>2, <3>3
  <2> QED BY <2>5, <2>6
<1> QED BY <1>2, <1>3

----------------------------------------------------------------------------
(* A number u that begins as t does is cut where the scan of t cuts it.        *)
LEMMA WholeCut ==
    ASSUME NEW t \in Seq(Char), NEW u, NEW n, Alike(u, t, n), NEW m \in Nat, n <= m,
           NEW a \in Nat, a < n, NEW p \in 0..m, WholeAt(u, a, p),
           p < m => u[p + 1] \notin Token!Digit,
           NEW w, w = Token!IntegerPart(t, a)
    PROVE  w.ok /\ (w.at < n => p = w.at)
<1> USE DEF Token!Go
<1>1. n \in Nat /\ n <= Len(t) /\ Len(t) \in Nat /\ \A i \in 1..n : t[i] = u[i]
  BY DEF Alike
<1>2. a < p /\ (\A k \in (a + 1)..p : u[k] \in Token!Digit) /\ (u[a + 1] = "0" => p = a + 1)
  BY DEF WholeAt, RunAt
<1>3. a + 1 \in 1..n /\ a + 1 \in (a + 1)..p /\ a \in 0..Len(t) /\ a < Len(t)
  BY <1>1, <1>2
<1>4. t[a + 1] = u[a + 1] /\ t[a + 1] \in Token!Digit
  BY <1>1, <1>2, <1>3
<1>5. CASE t[a + 1] = "0"
  <2>1. w = [ok |-> TRUE, at |-> a + 1]
    BY <1>3, <1>5 DEF Token!IntegerPart, Token!At
  <2> QED BY <1>2, <1>4, <1>5, <2>1
<1>6. CASE t[a + 1] # "0"
  <2>1. w = [ok |-> TRUE, at |-> Token!AfterDigits(t, a)]
    BY <1>3, <1>4, <1>6 DEF Token!IntegerPart, Token!At
  <2>2. w.at \in a..Len(t) /\ (\A k \in (a + 1)..w.at : t[k] \in Token!Digit)
        /\ (w.at < Len(t) => t[w.at + 1] \notin Token!Digit)
    BY <1>3, <2>1, DigitsRead
  <2>3. ASSUME w.at < n, p < w.at PROVE FALSE
    <3>1. p + 1 \in (a + 1)..w.at /\ p + 1 \in 1..n /\ p < m
      BY <1>1, <1>2, <2>2, <2>3
    <3> QED BY <1>1, <2>2, <3>1
  <2>4. ASSUME w.at < n, w.at < p PROVE FALSE
    <3>1. w.at + 1 \in (a + 1)..p /\ w.at + 1 \in 1..n /\ w.at < Len(t)
      BY <1>1, <1>2, <2>2, <2>4
    <3> QED BY <1>1, <1>2, <2>2, <3>1
  <2> QED BY <2>1, <2>2, <2>3, <2>4
<1> QED BY <1>5, <1>6

LEMMA FractionCut ==
    ASSUME NEW t \in Seq(Char), NEW u, NEW n, Alike(u, t, n), NEW m \in Nat, n <= m,
           NEW a \in Nat, a < n, NEW p \in a..m, FractionAt(u, a, p),
           p < m => u[p + 1] \in {"e", "E"},
           NEW w, w = Token!FractionPart(t, a)
    PROVE  IF w.ok THEN w.at < n => p = w.at ELSE w.at = n /\ n < m
<1> USE DEF Token!Go, Token!Stop
<1>1. n \in Nat /\ n <= Len(t) /\ Len(t) \in Nat /\ \A i \in 1..n : t[i] = u[i]
  BY DEF Alike
<1>2. a + 1 \in 1..n /\ a < Len(t) /\ a + 1 \in 0..Len(t) /\ t[a + 1] = u[a + 1]
  BY <1>1
<1>3. a # p => u[a + 1] = "." /\ a + 1 < p /\ \A k \in (a + 1 + 1)..p : u[k] \in Token!Digit
  BY DEF FractionAt, RunAt
<1>4. CASE t[a + 1] # "."
  <2>1. w = [ok |-> TRUE, at |-> a]
    BY <1>4 DEF Token!FractionPart, Token!At
  <2> QED BY <1>2, <1>3, <1>4, <2>1
<1>5. CASE t[a + 1] = "."
  <2>1. a # p
    <3>1. ASSUME a = p PROVE FALSE
      <4>1. p < m /\ u[p + 1] = "."
        BY <1>1, <1>2, <1>5, <3>1
      <4> QED BY <4>1
    <3> QED BY <3>1
  <2>2. CASE Token!At(t, a + 1, Token!Digit)
    <3>1. w = [ok |-> TRUE, at |-> Token!AfterDigits(t, a + 1)]
      BY <1>2, <1>5, <2>2 DEF Token!FractionPart, Token!At
    <3>2. w.at \in (a + 1)..Len(t) /\ (\A k \in (a + 1 + 1)..w.at : t[k] \in Token!Digit)
          /\ (w.at < Len(t) => t[w.at + 1] \notin Token!Digit)
      BY <1>2, <3>1, DigitsRead
    <3>3. ASSUME w.at < n, p < w.at PROVE FALSE
      <4>1. p + 1 \in (a + 1 + 1)..w.at /\ p + 1 \in 1..n /\ p < m
        BY <1>1, <1>3, <2>1, <3>2, <3>3
      <4>2. t[p + 1] \in Token!Digit /\ t[p + 1] \in {"e", "E"}
        BY <1>1, <3>2, <4>1
      <4> QED BY <4>2, Characters
    <3>4. ASSUME w.at < n, w.at < p PROVE FALSE
      <4>1. w.at + 1 \in (a + 1 + 1)..p /\ w.at + 1 \in 1..n /\ w.at < Len(t)
        BY <1>1, <1>3, <2>1, <3>2, <3>4
      <4> QED BY <1>1, <1>3, <2>1, <3>2, <4>1
    <3> QED BY <3>1, <3>2, <3>3, <3>4
  <2>3. CASE ~Token!At(t, a + 1, Token!Digit)
    <3>1. w = [ok |-> FALSE, at |-> a + 1]
      BY <1>2, <1>5, <2>3 DEF Token!FractionPart, Token!At
    <3>2. ASSUME a + 1 < n PROVE FALSE
      <4>1. a + 1 < Len(t) /\ a + 1 + 1 \in 1..n /\ a + 1 + 1 \in (a + 1 + 1)..p
        BY <1>1, <1>3, <2>1, <3>2
      <4>2. t[a + 1 + 1] \in Token!Digit
        BY <1>1, <1>3, <2>1, <4>1
      <4> QED BY <2>3, <4>1, <4>2 DEF Token!At
    <3>3. n = a + 1
      BY <1>1, <3>2
    <3> QED BY <1>3, <2>1, <3>1, <3>3
  <2> QED BY <2>2, <2>3
<1> QED BY <1>4, <1>5

LEMMA ExponentCut ==
    ASSUME NEW t \in Seq(Char), NEW u, NEW n, Alike(u, t, n), NEW m \in Nat, n <= m,
           NEW a \in Nat, a < n, ExponentAt(u, a, m),
           NEW w, w = Token!ExponentPart(t, a)
    PROVE  n <= w.at /\ (w.ok \/ n < m)
<1> USE DEF Token!Go, Token!Stop
<1> DEFINE j == Token!AfterSign(t, a + 1, {"+", "-"})
<1>1. n \in Nat /\ n <= Len(t) /\ Len(t) \in Nat /\ \A i \in 1..n : t[i] = u[i]
  BY DEF Alike
<1>2. a + 1 \in 1..n /\ a < Len(t) /\ t[a + 1] = u[a + 1]
  BY <1>1
<1>3. /\ u[a + 1] \in {"e", "E"}
      /\ RunAt(u, a + 1, m) \/ (u[a + 2] \in {"+", "-"} /\ RunAt(u, a + 2, m))
  BY <1>1, a # m DEF ExponentAt
<1>4. Token!At(t, a, {"e", "E"})
  BY <1>2, <1>3 DEF Token!At
<1>5. w = IF Token!At(t, j, Token!Digit) THEN [ok |-> TRUE, at |-> Token!AfterDigits(t, j)]
          ELSE [ok |-> FALSE, at |-> j]
  BY <1>4 DEF Token!ExponentPart
<1>6. j = IF a + 1 < Len(t) /\ t[a + 2] \in {"+", "-"} THEN a + 2 ELSE a + 1
  BY a + 1 + 1 = a + 2 DEF Token!AfterSign, Token!At
<1> HIDE DEF j
<1>7. j \in {a + 1, a + 2} /\ j \in 0..Len(t)
  BY <1>1, <1>2, <1>6
(* The digits of u begin where those of t may. *)
<1>8. ASSUME j <= n, j < n \/ m = n PROVE RunAt(u, j, m)
  <2>1. a + 1 < m
    BY <1>3 DEF RunAt
  <2>2. CASE RunAt(u, a + 1, m)
    <3>1. a + 2 \in (a + 1 + 1)..m /\ u[a + 2] \in Token!Digit
      BY <2>1, <2>2, a + 2 \in (a + 1 + 1)..m DEF RunAt
    <3>2. j # a + 2
      <4>1. ASSUME j = a + 2 PROVE FALSE
        <5>1. t[a + 2] \in {"+", "-"} /\ a + 2 \in 1..n
          BY <1>1, <1>6, <1>8, <4>1
        <5> QED BY <1>1, <3>1, <5>1, Characters
      <4> QED BY <4>1
    <3> QED BY <1>7, <2>2, <3>2
  <2>3. CASE u[a + 2] \in {"+", "-"} /\ RunAt(u, a + 2, m)
    <3>1. a + 2 < m
      BY <2>3 DEF RunAt
    <3>2. a + 2 \in 1..n /\ a + 1 < Len(t)
      BY <1>1, <1>7, <1>8, <3>1
    <3>3. j = a + 2
      BY <1>1, <1>6, <2>3, <3>2
    <3> QED BY <2>3, <3>3
  <2> QED BY <1>3, <2>2, <2>3
<1>9. CASE Token!At(t, j, Token!Digit)
  <2>1. w.ok = TRUE /\ w.at = Token!AfterDigits(t, j)
    BY <1>5, <1>9
  <2>2. w.at \in j..Len(t) /\ (w.at < Len(t) => t[w.at + 1] \notin Token!Digit)
    BY <1>7, <2>1, DigitsRead
  <2>3. ASSUME w.at < n PROVE FALSE
    <3>1. j < n /\ w.at + 1 \in (j + 1)..m /\ w.at + 1 \in 1..n /\ w.at < Len(t)
      BY <1>1, <1>7, <2>2, <2>3
    <3>2. u[w.at + 1] \in Token!Digit
      <4>1. RunAt(u, j, m)
        BY <1>1, <1>7, <1>8, <3>1
      <4> QED BY <3>1, <4>1 DEF RunAt
    <3> QED BY <1>1, <2>2, <3>1, <3>2
  <2> QED BY <1>1, <1>7, <2>1, <2>2, <2>3
<1>10. CASE ~Token!At(t, j, Token!Digit)
  <2>1. w.ok = FALSE /\ w.at = j
    BY <1>5, <1>10
  <2>2. ASSUME j < n PROVE FALSE
    <3>1. j + 1 \in (j + 1)..m /\ j + 1 \in 1..n /\ j < Len(t)
      BY <1>1, <1>7, <2>2
    <3>2. u[j + 1] \in Token!Digit
      <4>1. RunAt(u, j, m)
        BY <1>1, <1>7, <1>8, <2>2
      <4> QED BY <3>1, <4>1 DEF RunAt
    <3> QED BY <1>1, <1>10, <3>1, <3>2 DEF Token!At
  <2>3. n <= j
    BY <1>1, <1>7, <2>2
  <2>4. n < m
    <3>1. ASSUME m = n PROVE FALSE
      <4>1. CASE j = n
        BY <1>7, <1>8, <3>1, <4>1 DEF RunAt
      <4>2. CASE n < j
        <5>1. n = a + 1 /\ m = a + 1
          BY <1>1, <1>7, <3>1, <4>2
        <5> QED BY <1>3, <5>1 DEF RunAt
      <4> QED BY <1>1, <1>7, <2>3, <4>1, <4>2
    <3> QED BY <1>1, <3>1
  <2> QED BY <2>1, <2>3, <2>4
<1> QED BY <1>9, <1>10

----------------------------------------------------------------------------
(* The scan as a whole: what was read up to its end is a number, or one       *)
(* digit more makes it one; nothing longer can become a number.              *)
LEMMA NumberAlike ==
    ASSUME NEW t, NEW u, NEW m, Alike(u, t, m), NumberAt(t, m)
    PROVE  NumberAt(u, m)
<1>1. m \in Nat /\ \A k \in 1..m : t[k] = u[k]
  BY DEF Alike
<1>2. PICK i \in 0..m, j \in 0..m :
        WholeAt(t, SignOf(t), i) /\ FractionAt(t, i, j) /\ ExponentAt(t, j, m)
  BY DEF NumberAt
<1>3. SignOf(t) \in {0, 1} /\ SignOf(t) < i
  BY <1>2 DEF SignOf, WholeAt, RunAt
<1>4. SignOf(u) = SignOf(t)
  BY <1>1, <1>3, 1 \in 1..m DEF SignOf
<1>5. WholeAt(u, SignOf(u), i)
  <2>1. \A k \in (SignOf(t) + 1)..i : k \in 1..m
    BY <1>1, <1>3
  <2>2. SignOf(t) + 1 \in (SignOf(t) + 1)..i
    BY <1>3
  <2> QED BY <1>1, <1>2, <1>4, <2>1, <2>2 DEF WholeAt, RunAt
<1>6. FractionAt(u, i, j)
  <2>1. CASE i = j
    BY <2>1 DEF FractionAt
  <2>2. CASE i # j
    <3>1. i + 1 < j /\ t[i + 1] = "." /\ \A k \in (i + 1 + 1)..j : t[k] \in Token!Digit
      BY <1>2, <2>2 DEF FractionAt, RunAt
    <3>2. i + 1 \in 1..m /\ \A k \in (i + 1 + 1)..j : k \in 1..m
      BY <1>1, <3>1
    <3> QED BY <1>1, <3>1, <3>2 DEF FractionAt, RunAt
  <2> QED BY <2>1, <2>2
<1>7. ExponentAt(u, j, m)
  <2>1. CASE j = m
    BY <2>1 DEF ExponentAt
  <2>2. CASE j # m
    <3>1. /\ t[j + 1] \in {"e", "E"}
          /\ RunAt(t, j + 1, m) \/ (t[j + 2] \in {"+", "-"} /\ RunAt(t, j + 2, m))
      BY <1>2, <2>2 DEF ExponentAt
    <3>2. j + 1 \in 1..m
      BY <1>1, <2>2
    <3>3. CASE RunAt(t, j + 1, m)
      <4>1. \A k \in (j + 1 + 1)..m : k \in 1..m
        BY <1>1
      <4>2. RunAt(u, j + 1, m)
        BY <1>1, <3>3, <4>1 DEF RunAt
      <4> QED BY <1>1, <3>1, <3>2, <4>2 DEF ExponentAt
    <3>4. CASE t[j + 2] \in {"+", "-"} /\ RunAt(t, j + 2, m)
      <4>1. (\A k \in (j + 2 + 1)..m : k \in 1..m) /\ j + 2 \in 1..m
        BY <1>1, <3>4 DEF RunAt
      <4>2. RunAt(u, j + 2, m)
        BY <1>1, <3>4, <4>1 DEF RunAt
      <4> QED BY <1>1, <3>1, <3>2, <3>4, <4>1, <4>2 DEF ExponentAt
    <3> QED BY <3>1, <3>3, <3>4
  <2> QED BY <2>1, <2>2
<1> QED BY <1>2, <1>5, <1>6, <1>7 DEF NumberAt

(* What the scan of t reads: a sign up to s, and the parts w, x and y. *)
ScanOf(t, s, w, x, y) ==
    /\ s = Token!AfterSign(t, 0, {"-"}) /\ s \in 0..Len(t) /\ s \in {0, 1}
    /\ Len(t) > 0 => s = SignOf(t)
    /\ w = Token!IntegerPart(t, s) /\ w.at \in s..Len(t) /\ w.ok \in BOOLEAN
    /\ x = Token!FractionPart(t, w.at) /\ x.at \in w.at..Len(t) /\ x.ok \in BOOLEAN
    /\ y = Token!ExponentPart(t, x.at) /\ y.at \in x.at..Len(t) /\ y.ok \in BOOLEAN
    /\ x.ok \/ w.at < x.at
    /\ y.ok \/ x.at < y.at
    /\ Token!Scan(t) = IF ~w.ok THEN w ELSE IF ~x.ok THEN x ELSE y

LEMMA ScanParts ==
    ASSUME NEW t \in Seq(Char)
    PROVE  \E s, w, x, y : ScanOf(t, s, w, x, y)
<1> DEFINE s == Token!AfterSign(t, 0, {"-"})
           w == Token!IntegerPart(t, s)
           x == Token!FractionPart(t, w.at)
           y == Token!ExponentPart(t, x.at)
<1>1. s \in 0..Len(t) /\ s \in {0, 1} /\ (Len(t) > 0 => s = SignOf(t))
  BY DEF Token!AfterSign, Token!At, SignOf
<1>2. w.at \in s..Len(t) /\ w.ok \in BOOLEAN
  <2> HIDE DEF s
  <2> QED BY <1>1, WholeRead
<1>3. w.at \in 0..Len(t)
  <2> HIDE DEF w, s
  <2> QED BY <1>1, <1>2
<1>4. x.at \in w.at..Len(t) /\ x.ok \in BOOLEAN /\ (x.ok \/ w.at < x.at)
  <2> HIDE DEF w
  <2> QED BY <1>3, FractionRead
<1>5. x.at \in 0..Len(t)
  <2> HIDE DEF x, w
  <2> QED BY <1>3, <1>4
<1>6. y.at \in x.at..Len(t) /\ y.ok \in BOOLEAN /\ (y.ok \/ x.at < y.at)
  <2> HIDE DEF x
  <2> QED BY <1>5, ExponentRead
<1>7. Token!Scan(t) = IF ~w.ok THEN w ELSE IF ~x.ok THEN x ELSE y
  <2>1. Token!Scan(t) = CASE ~w.ok -> w [] w.ok /\ ~x.ok -> x [] w.ok /\ x.ok -> y
    BY DEF Token!Scan
  <2> HIDE DEF w, x, y
  <2> QED BY <1>2, <1>4, <2>1
<1> HIDE DEF s, w, x, y
<1>8. w = Token!IntegerPart(t, s) /\ x = Token!FractionPart(t, w.at) /\ y = Token!ExponentPart(t, x.at)
      /\ s = Token!AfterSign(t, 0, {"-"})
  BY DEF s, w, x, y
<1>9. ScanOf(t, s, w, x, y)
  BY <1>1, <1>2, <1>4, <1>6, <1>7, <1>8 DEF ScanOf
<1> QED BY <1>9

LEMMA ScanReach ==
    ASSUME NEW t \in Seq(Char), NEW u, NEW n, Alike(u, t, n), NEW m \in Nat, n <= m,
           NumberAt(u, m)
    PROVE  /\ n <= Token!Scan(t).at
           /\ Token!Scan(t).ok \/ n < m \/ n < Token!Scan(t).at
<1>1. n \in Nat /\ n <= Len(t) /\ Len(t) \in Nat /\ \A i \in 1..n : t[i] = u[i]
  BY DEF Alike
<1>2. PICK s, w, x, y : ScanOf(t, s, w, x, y)
  BY ScanParts
<1>3. PICK p \in 0..m, q \in 0..m :
        WholeAt(u, SignOf(u), p) /\ FractionAt(u, p, q) /\ ExponentAt(u, q, m)
  BY DEF NumberAt
<1>4. /\ SignOf(u) \in {0, 1} /\ SignOf(u) < p
      /\ p < q => u[p + 1] = "."
      /\ q < m => u[q + 1] \in {"e", "E"}
      /\ p <= q
  BY <1>3 DEF SignOf, WholeAt, RunAt, FractionAt, ExponentAt
<1>5. w.at \in Nat /\ x.at \in Nat /\ y.at \in Nat /\ s <= w.at /\ w.at <= x.at /\ x.at <= y.at
  BY <1>1, <1>2 DEF ScanOf
<1>6. CASE n = 0
  <2>1. 0 < m /\ 0 <= Token!Scan(t).at
    BY <1>2, <1>3, <1>4, <1>5 DEF ScanOf
  <2> QED BY <1>6, <2>1
<1>7. CASE n > 0 /\ n <= s
  <2>1. n = 1 /\ s = 1 /\ 1 \in 1..n
    BY <1>1, <1>2, <1>7 DEF ScanOf
  <2>2. SignOf(u) = 1
    BY <1>1, <1>2, <2>1 DEF SignOf, ScanOf
  <2>3. n < m /\ n <= Token!Scan(t).at
    BY <1>2, <1>3, <1>4, <1>5, <2>1, <2>2 DEF ScanOf
  <2> QED BY <2>3
<1>8. CASE n > s
  <2>1. SignOf(u) = s
    BY <1>1, <1>2, <1>8, 1 \in 1..n DEF SignOf, ScanOf
  <2>2. p < m => u[p + 1] \notin Token!Digit
    <3>1. ASSUME p < m PROVE u[p + 1] \in {".", "e", "E"}
      BY <1>3, <1>4, <3>1
    <3> QED BY <3>1, Characters
  <2>3. w.ok /\ (w.at < n => p = w.at)
    BY <1>2, <1>3, <1>8, <2>1, <2>2, WholeCut DEF ScanOf
  <2>4. CASE n <= w.at
    BY <1>1, <1>2, <1>5, <2>3, <2>4 DEF ScanOf
  <2>5. CASE w.at < n
    <3>1. p = w.at /\ q \in w.at..m
      BY <1>3, <1>4, <2>3, <2>5
    <3>2. IF x.ok THEN x.at < n => q = x.at ELSE x.at = n /\ n < m
      BY <1>2, <1>3, <1>4, <1>5, <2>5, <3>1, FractionCut DEF ScanOf
    <3>3. CASE ~x.ok
      BY <1>2, <2>3, <3>2, <3>3 DEF ScanOf
    <3>4. CASE x.ok /\ n <= x.at
      BY <1>1, <1>2, <1>5, <2>3, <3>4 DEF ScanOf
    <3>5. CASE x.ok /\ x.at < n
      <4>1. n <= y.at /\ (y.ok \/ n < m)
        BY <1>2, <1>3, <1>5, <3>2, <3>5, ExponentCut DEF ScanOf
      <4> QED BY <1>2, <2>3, <3>5, <4>1 DEF ScanOf
    <3> QED BY <1>1, <1>2, <1>5, <3>3, <3>4, <3>5 DEF ScanOf
  <2> QED BY <1>1, <1>5, <2>4, <2>5
<1> QED BY <1>1, <1>2, <1>6, <1>7, <1>8 DEF ScanOf

LEMMA ScanRead ==
    ASSUME NEW t \in Seq(Char), Token!Scan(t).ok
    PROVE  NumberAt(t, Token!Scan(t).at)
<1>1. PICK s, w, x, y : ScanOf(t, s, w, x, y)
  BY ScanParts
<1>2. /\ Len(t) \in Nat /\ s \in Nat /\ s <= Len(t) /\ s = Token!AfterSign(t, 0, {"-"})
      /\ Len(t) > 0 => s = SignOf(t)
      /\ w = Token!IntegerPart(t, s) /\ x = Token!FractionPart(t, w.at) /\ y = Token!ExponentPart(t, x.at)
      /\ w.at \in s..Len(t) /\ x.at \in w.at..Len(t) /\ y.at \in x.at..Len(t)
      /\ Token!Scan(t) = IF ~w.ok THEN w ELSE IF ~x.ok THEN x ELSE y
  BY <1>1 DEF ScanOf
<1>3. w.ok /\ x.ok /\ y.ok /\ Token!Scan(t) = y
  BY <1>2
<1>4. WholeAt(t, s, w.at)
  BY <1>2, <1>3, s \in 0..Len(t), WholeRead
<1>5. w.at \in 0..Len(t) /\ x.at \in 0..Len(t) /\ w.at \in 0..y.at /\ x.at \in 0..y.at
  BY <1>2
<1>6. FractionAt(t, w.at, x.at)
  BY <1>2, <1>3, <1>5, FractionRead
<1>7. ExponentAt(t, x.at, y.at)
  BY <1>2, <1>3, <1>5, ExponentRead
<1>8. s = SignOf(t)
  BY <1>2, <1>4 DEF WholeAt, RunAt
<1> QED BY <1>3, <1>4, <1>5, <1>6, <1>7, <1>8 DEF NumberAt

LEMMA ScanStopped ==
    ASSUME NEW t \in Seq(Char), ~Token!Scan(t).ok, NEW e, e = Token!Scan(t).at,
           NEW v, Alike(t, v, e), v[e + 1] = "0"
    PROVE  NumberAt(v, e + 1)
<1>1. PICK s, w, x, y : ScanOf(t, s, w, x, y)
  BY ScanParts
<1>2. /\ Len(t) \in Nat /\ s \in Nat /\ s <= Len(t) /\ s = Token!AfterSign(t, 0, {"-"})
      /\ Len(t) > 0 => s = SignOf(t)
      /\ w = Token!IntegerPart(t, s) /\ x = Token!FractionPart(t, w.at) /\ y = Token!ExponentPart(t, x.at)
      /\ w.at \in s..Len(t) /\ x.at \in w.at..Len(t) /\ y.at \in x.at..Len(t)
      /\ w.ok \in BOOLEAN /\ x.ok \in BOOLEAN /\ y.ok \in BOOLEAN /\ s \in {0, 1}
      /\ Token!Scan(t) = IF ~w.ok THEN w ELSE IF ~x.ok THEN x ELSE y
  BY <1>1 DEF ScanOf
<1>3. /\ w.at \in 0..Len(t) /\ x.at \in 0..Len(t) /\ e \in Nat /\ s <= w.at /\ w.at <= e
      /\ \A k \in 1..e : v[k] = t[k]
  BY <1>2 DEF Alike
<1>4. w.ok => WholeAt(t, s, w.at)
  BY <1>2, s \in 0..Len(t), WholeRead
<1>5. SignOf(v) = s
  <2>1. CASE s = 1
    BY <1>2, <1>3, <2>1, 1 \in 1..e DEF SignOf
  <2>2. CASE s = 0
    <3>1. CASE e = 0
      BY <2>2, <3>1 DEF SignOf
    <3>2. CASE e > 0
      BY <1>2, <1>3, <2>2, <3>2, 1 \in 1..e DEF SignOf
    <3> QED BY <1>3, <3>1, <3>2
  <2> QED BY <1>2, <2>1, <2>2
<1>6. ASSUME w.ok PROVE WholeAt(v, s, w.at)
  <2>1. \A k \in (s + 1)..w.at : k \in 1..e
    BY <1>2, <1>3
  <2>2. s + 1 \in (s + 1)..w.at
    BY <1>2, <1>3, <1>4, <1>6 DEF WholeAt, RunAt
  <2> QED BY <1>3, <1>4, <1>6, <2>1, <2>2 DEF WholeAt, RunAt
<1>7. CASE ~w.ok
  <2>1. e = s
    BY <1>2, <1>7, s \in 0..Len(t), WholeRead
  <2>2. WholeAt(v, s, e + 1)
    BY <1>2, <2>1, Characters DEF WholeAt, RunAt
  <2>3. FractionAt(v, e + 1, e + 1) /\ ExponentAt(v, e + 1, e + 1)
    BY DEF FractionAt, ExponentAt
  <2> QED BY <1>3, <1>5, <2>2, <2>3, e + 1 \in 0..(e + 1) DEF NumberAt
<1>8. CASE w.ok /\ ~x.ok
  <2>1. e = x.at /\ e = w.at + 1 /\ t[w.at + 1] = "."
    BY <1>2, <1>3, <1>8, FractionRead
  <2>2. w.at + 1 \in 1..e /\ v[w.at + 1] = "."
    BY <1>2, <1>3, <2>1
  <2>3. RunAt(v, e, e + 1)
    BY <1>3, Characters DEF RunAt
  <2>4. FractionAt(v, w.at, e + 1) /\ ExponentAt(v, e + 1, e + 1)
    BY <2>1, <2>2, <2>3 DEF FractionAt, ExponentAt
  <2>5. w.at \in 0..(e + 1) /\ e + 1 \in 0..(e + 1)
    BY <1>3
  <2> QED BY <1>5, <1>6, <1>8, <2>4, <2>5 DEF NumberAt
<1>9. CASE w.ok /\ x.ok /\ ~y.ok
  <2>1. e = y.at /\ t[x.at + 1] \in {"e", "E"}
    BY <1>2, <1>3, <1>9, ExponentRead
  <2>2. e = x.at + 1 \/ (e = x.at + 2 /\ t[x.at + 2] \in {"+", "-"})
    BY <1>2, <1>3, <1>9, ExponentRead
  <2>3. RunAt(v, e, e + 1)
    BY <1>3, Characters DEF RunAt
  <2>4. ExponentAt(v, x.at, e + 1)
    <3>1. x.at + 1 \in 1..e /\ v[x.at + 1] \in {"e", "E"}
      BY <1>2, <1>3, <2>1, <2>2
    <3>2. CASE e = x.at + 1
      BY <2>3, <3>1, <3>2 DEF ExponentAt
    <3>3. CASE e = x.at + 2 /\ t[x.at + 2] \in {"+", "-"}
      <4>1. v[x.at + 2] \in {"+", "-"}
        BY <1>3, <3>3, x.at + 2 \in 1..e
      <4> QED BY <2>3, <3>1, <3>3, <4>1 DEF ExponentAt
    <3> QED BY <2>2, <3>2, <3>3
  <2>5. FractionAt(t, w.at, x.at)
    BY <1>2, <1>3, <1>9, FractionRead
  <2>6. FractionAt(v, w.at, x.at)
    <3>1. CASE w.at = x.at
      BY <3>1 DEF FractionAt
    <3>2. CASE w.at # x.at
      <4>1. w.at + 1 < x.at /\ t[w.at + 1] = "." /\ \A k \in (w.at + 1 + 1)..x.at : t[k] \in Token!Digit
        BY <2>5, <3>2 DEF FractionAt, RunAt
      <4>2. w.at + 1 \in 1..e /\ \A k \in (w.at + 1 + 1)..x.at : k \in 1..e
        BY <1>2, <1>3, <2>2, <4>1
      <4> QED BY <1>3, <4>1, <4>2 DEF FractionAt, RunAt
    <3> QED BY <3>1, <3>2
  <2>7. w.at \in 0..(e + 1) /\ x.at \in 0..(e + 1)
    BY <1>2, <1>3, <2>2
  <2> QED BY <1>5, <1>6, <1>9, <2>4, <2>6, <2>7 DEF NumberAt
<1> QED BY <1>2, <1>7, <1>8, <1>9

LEMMA PrefixOf ==
    ASSUME NEW t \in Seq(Char), NEW i \in 0..Len(t), NEW p, p = SubSeq(t, 1, i)
    PROVE  /\ p \in Seq(Char) /\ Len(p) = i /\ Alike(p, t, i) /\ Alike(t, p, i)
           /\ Append(p, "0") \in Seq(Char) /\ Len(Append(p, "0")) = i + 1
           /\ Append(p, "0")[i + 1] = "0"
           /\ Alike(Append(p, "0"), t, i) /\ Alike(t, Append(p, "0"), i)
<1>1. i \in Nat /\ i <= Len(t) /\ Len(t) \in Nat
  OBVIOUS
<1>2. \A k \in 1..i : t[k] \in Char
  BY <1>1, ElementOfSeq
<1>3. p \in Seq(Char) /\ Len(p) = i /\ \A k \in 1..i : p[k] = t[k]
  BY <1>1, <1>2, SubSeqProperties
<1>4. Append(p, "0") \in Seq(Char) /\ Len(Append(p, "0")) = i + 1 /\ Append(p, "0")[i + 1] = "0"
      /\ \A k \in 1..i : Append(p, "0")[k] = p[k]
  <2>1. "0" \in Char
    BY Characters DEF Char
  <2>2. /\ Append(p, "0") \in Seq(Char) /\ Len(Append(p, "0")) = Len(p) + 1
        /\ \A k \in 1..Len(p) : Append(p, "0")[k] = p[k]
        /\ Append(p, "0")[Len(p) + 1] = "0"
    BY <1>3, <2>1, AppendProperties
  <2> QED BY <1>3, <2>2
<1> QED BY <1>1, <1>3, <1>4 DEF Alike

(* The longest prefix that is or can become a number ends where the scan      *)
(* does, and the scan succeeds exactly when it is one.                       *)
LEMMA LongestIsScanned ==
    ASSUME NEW t \in Seq(Char)
    PROVE  /\ Token!Max({i \in 0..Len(t) : Token!CanBecomeNumber(SubSeq(t, 1, i))}) = Token!Scan(t).at
           /\ Token!Scan(t).at \in 0..Len(t) /\ Token!Scan(t).ok \in BOOLEAN
           /\ Token!IsNumber(SubSeq(t, 1, Token!Scan(t).at)) <=> Token!Scan(t).ok
<1> DEFINE e == Token!Scan(t).at
           S == {i \in 0..Len(t) : Token!CanBecomeNumber(SubSeq(t, 1, i))}
<1>1. e \in 0..Len(t) /\ Token!Scan(t).ok \in BOOLEAN
  <2>1. PICK s, w, x, y : ScanOf(t, s, w, x, y)
    BY ScanParts
  <2> QED BY <2>1 DEF ScanOf
<1>2. ASSUME NEW i \in 0..Len(t)
      PROVE  /\ Token!IsNumber(SubSeq(t, 1, i)) <=> NumberAt(SubSeq(t, 1, i), i)
             /\ Token!IsNumber(Append(SubSeq(t, 1, i), "0")) <=> NumberAt(Append(SubSeq(t, 1, i), "0"), i + 1)
  <2> DEFINE p == SubSeq(t, 1, i)
             q == Append(p, "0")
  <2>1. p \in Seq(Char) /\ Len(p) = i /\ q \in Seq(Char) /\ Len(q) = i + 1
    BY PrefixOf
  <2> HIDE DEF p, q
  <2>2. (Token!IsNumber(p) <=> NumberAt(p, i)) /\ (Token!IsNumber(q) <=> NumberAt(q, i + 1))
    BY <2>1, NumberByPositions
  <2> QED BY <2>2 DEF p, q
<1>3. ASSUME NEW i \in S PROVE i <= e
  <2>1. i \in 0..Len(t) /\ i \in Nat /\ i + 1 \in Nat /\ i <= i + 1 /\ i <= i
    OBVIOUS
  <2>2. CASE NumberAt(SubSeq(t, 1, i), i)
    BY <2>1, <2>2, PrefixOf, ScanReach
  <2>3. CASE NumberAt(Append(SubSeq(t, 1, i), "0"), i + 1)
    BY <2>1, <2>3, PrefixOf, ScanReach
  <2> QED BY <1>2, <2>1, <2>2, <2>3 DEF Token!CanBecomeNumber
<1>4. Token!Scan(t).ok => Token!IsNumber(SubSeq(t, 1, e))
  <2> SUFFICES ASSUME Token!Scan(t).ok PROVE Token!IsNumber(SubSeq(t, 1, e))
    OBVIOUS
  <2>1. NumberAt(t, e)
    BY ScanRead
  <2>2. Alike(SubSeq(t, 1, e), t, e)
    BY <1>1, PrefixOf
  <2>3. NumberAt(SubSeq(t, 1, e), e)
    BY <2>1, <2>2, NumberAlike
  <2> QED BY <1>1, <1>2, <2>3
<1>5. ~Token!Scan(t).ok => Token!IsNumber(Append(SubSeq(t, 1, e), "0"))
  <2> SUFFICES ASSUME ~Token!Scan(t).ok PROVE Token!IsNumber(Append(SubSeq(t, 1, e), "0"))
    OBVIOUS
  <2> DEFINE more == Append(SubSeq(t, 1, e), "0")
  <2>1. \A i \in 0..Len(t) : LET p == SubSeq(t, 1, i)
                            IN  Alike(t, Append(p, "0"), i) /\ Append(p, "0")[i + 1] = "0"
    BY PrefixOf
  <2>2. Alike(t, more, e) /\ more[e + 1] = "0"
    BY <1>1, <2>1
  <2> HIDE DEF more
  <2>3. NumberAt(more, e + 1)
    BY <2>2, ScanStopped
  <2> QED BY <1>1, <1>2, <2>3 DEF more
<1>6. ASSUME Token!IsNumber(SubSeq(t, 1, e)) PROVE Token!Scan(t).ok
  <2>1. NumberAt(SubSeq(t, 1, e), e) /\ Alike(SubSeq(t, 1, e), t, e) /\ e \in Nat
    <3>1. NumberAt(SubSeq(t, 1, e), e)
      BY <1>1, <1>2, <1>6
    <3>2. Alike(SubSeq(t, 1, e), t, e)
      BY <1>1, PrefixOf
    <3> QED BY <1>1, <3>1, <3>2
  <2>2. Token!Scan(t).ok \/ e < e
    BY <2>1, ScanReach
  <2> QED BY <2>1, <2>2
<1>7. e \in S
  BY <1>1, <1>4, <1>5 DEF Token!CanBecomeNumber
<1>8. Token!Max(S) = e
  <2>1. S \subseteq Nat
    OBVIOUS
  <2> HIDE DEF S, e
  <2>2. \A y \in S : e >= y
    BY <1>3, <1>7, <2>1
  <2>3. Token!Max(S) \in S /\ \A y \in S : Token!Max(S) >= y
    BY <1>7, <2>2 DEF Token!Max
  <2>4. e >= Token!Max(S) /\ Token!Max(S) >= e /\ e \in Nat /\ Token!Max(S) \in Nat
    BY <1>7, <2>1, <2>2, <2>3
  <2> QED BY <2>4
<1> QED BY <1>1, <1>4, <1>6, <1>8

(* What the answer says of the scan. *)
AnswerIsScan ==
    \/ NoNumber
    \/ /\ text \in Texts
       /\ \/ answer.status = "unread"
          \/ ~Token!Scan(text).ok /\ answer = [status |-> "refused", class |-> "Syntax",
                                               offset |-> Token!Scan(text).at]
          \/ /\ Token!Scan(text).ok
             /\ answer.status = "refused" => answer.class # "Syntax"
             /\ answer.token = SubSeq(text, 1, Token!Scan(text).at)

LEMMA TextsOfChar == Texts \subseteq Seq(Char)
<1> SUFFICES ASSUME NEW t \in Texts PROVE t \in Seq(Char)
  OBVIOUS
<1>1. t \in Seq(STRING)
  BY WidthAssumption DEF Token!WidthsFit
<1>2. t \in [1..Len(t) -> STRING] /\ Len(t) \in Nat
  BY <1>1
<1>3. t \in [1..Len(t) -> Char]
  BY <1>2 DEF Char
<1> QED BY <1>2, <1>3, SeqDef

LEMMA ReadNumberAnswers == ASSUME AnswerIsScan, Token!ReadNumber PROVE AnswerIsScan'
<1> DEFINE scan == Token!Scan(text)
           token == SubSeq(text, 1, scan.at)
           fault == Token!NumberFault(Token!Classify(token), profile)
<1>1. /\ answer.status = "unread"
      /\ answer' = CASE ~scan.ok -> [status |-> "refused", class |-> "Syntax", offset |-> scan.at]
                     [] scan.ok /\ fault # "none" ->
                          [status |-> "refused", class |-> fault, token |-> token]
                     [] scan.ok /\ fault = "none" -> [status |-> "number", token |-> token]
      /\ text' = text
  BY DEF Token!ReadNumber
<1>2. fault # "Syntax"
  BY DEF Token!NumberFault
<1>3. text \in Texts
  BY <1>1 DEF AnswerIsScan, NoNumber
<1>4. scan.ok \in BOOLEAN
  BY <1>3, TextsOfChar, LongestIsScanned
<1> HIDE DEF scan, token, fault
<1>5. \/ ~scan.ok /\ answer' = [status |-> "refused", class |-> "Syntax", offset |-> scan.at]
      \/ scan.ok /\ answer' = [status |-> "refused", class |-> fault, token |-> token]
      \/ scan.ok /\ answer' = [status |-> "number", token |-> token]
  BY <1>1, <1>4
<1> QED BY <1>1, <1>2, <1>3, <1>5 DEF AnswerIsScan, scan, token

(* A number is read up to the longest prefix that can still become one, and   *)
(* refused as Syntax there exactly when that is not one yet: Parser::number   *)
(* takes no character too many and none too few.                             *)
THEOREM NumberReadToItsEnd == LexemeSpec => []ScanIsMaximal
<1>1. LexemeInit => AnswerIsScan
  BY DEF LexemeInit, Token!Init, AnswerIsScan
<1>2. AnswerIsScan /\ [LexemeNext]_<<profile, numberVars, literalVars>> => AnswerIsScan'
  <2> SUFFICES ASSUME AnswerIsScan, [LexemeNext]_<<profile, numberVars, literalVars>>
               PROVE  AnswerIsScan'
    OBVIOUS
  <2>1. CASE Token!Next
    BY <2>1, ReadNumberAnswers DEF Token!Next
  <2>2. CASE UNCHANGED numberVars
    BY <2>2 DEF AnswerIsScan, NoNumber, numberVars
  <2> QED BY <2>1, <2>2 DEF LexemeNext
<1>3. AnswerIsScan => ScanIsMaximal
  <2> SUFFICES ASSUME AnswerIsScan, answer.status \in {"number", "refused"} PROVE Token!ScanIsMaximal
    BY DEF ScanIsMaximal, Token!ScanIsMaximal
  <2>1. text \in Seq(Char)
    BY TextsOfChar DEF AnswerIsScan, NoNumber
  <2> DEFINE longest == SubSeq(text, 1, Token!Max({i \in 0..Len(text) :
                                          Token!CanBecomeNumber(SubSeq(text, 1, i))}))
  <2>2. longest = SubSeq(text, 1, Token!Scan(text).at) /\ Len(longest) = Token!Scan(text).at
        /\ (Token!IsNumber(longest) <=> Token!Scan(text).ok)
    BY <2>1, LongestIsScanned, PrefixOf
  <2>3. Token!ScanIsMaximal <=>
          (answer.status \in {"number", "refused"} =>
            IF Token!IsNumber(longest)
            THEN (answer.status = "refused" => answer.class # "Syntax") /\ answer.token = longest
            ELSE answer = [status |-> "refused", class |-> "Syntax", offset |-> Len(longest)])
    BY DEF Token!ScanIsMaximal
  <2> HIDE DEF longest
  <2>4. CASE Token!Scan(text).ok
    <3>1. (answer.status = "refused" => answer.class # "Syntax") /\ answer.token = longest
      BY <2>2, <2>4 DEF AnswerIsScan, NoNumber
    <3> QED BY <2>2, <2>3, <2>4, <3>1
  <2>5. CASE ~Token!Scan(text).ok
    <3>1. answer = [status |-> "refused", class |-> "Syntax", offset |-> Token!Scan(text).at]
      BY <2>5 DEF AnswerIsScan, NoNumber
    <3>2. answer = [status |-> "refused", class |-> "Syntax", offset |-> Len(longest)]
      BY <2>2, <3>1
    <3> QED BY <2>2, <2>3, <2>5, <3>2
  <2> QED BY <2>4, <2>5
<1> QED BY <1>1, <1>2, <1>3, PTL DEF LexemeSpec

----------------------------------------------------------------------------
(***************************************************************************)
(* The literals.                                                           *)
(***************************************************************************)

(* The code that groups of six bits make up. *)
Two(a, b) == a * 64 + b
Three(a, b, d) == (a * 64 + b) * 64 + d
Four(a, b, d, e) == ((a * 64 + b) * 64 + d) * 64 + e

LEMMA Parts2 ==
    ASSUME NEW a \in Int, 0 <= a, NEW b \in Int, 0 <= b, b <= 63
    PROVE  Two(a, b) \in Nat /\ Two(a, b) \div 64 = a /\ Two(a, b) % 64 = b
BY DEF Two

LEMMA Parts3 ==
    ASSUME NEW a \in Int, 0 <= a, NEW b \in Int, 0 <= b, b <= 63, NEW d \in Int, 0 <= d, d <= 63
    PROVE  LET c == Three(a, b, d)
           IN  c \in Nat /\ c \div 4096 = a /\ (c \div 64) % 64 = b /\ c % 64 = d
<1> DEFINE c == (a * 64 + b) * 64 + d
<1>1. a * 64 + b \in Nat /\ c \in Nat
  OBVIOUS
<1>2. c \div 64 = a * 64 + b /\ c % 64 = d
  BY <1>1
<1>3. c \div 4096 = a
  BY <1>1
<1>4. (a * 64 + b) % 64 = b
  OBVIOUS
<1> QED BY <1>1, <1>2, <1>3, <1>4 DEF Three

LEMMA Parts4 ==
    ASSUME NEW a \in Int, 0 <= a, NEW b \in Int, 0 <= b, b <= 63, NEW d \in Int, 0 <= d, d <= 63,
           NEW e \in Int, 0 <= e, e <= 63
    PROVE  LET c == Four(a, b, d, e)
           IN  /\ c \in Nat /\ c \div 262144 = a /\ (c \div 4096) % 64 = b /\ (c \div 64) % 64 = d
               /\ c % 64 = e
<1> DEFINE c == ((a * 64 + b) * 64 + d) * 64 + e
<1>1. a * 64 + b \in Nat /\ (a * 64 + b) * 64 + d \in Nat /\ c \in Nat
  OBVIOUS
<1>2. c \div 64 = (a * 64 + b) * 64 + d
  BY <1>1
<1>3. c % 64 = e
  BY <1>1
<1>4. c \div 4096 = a * 64 + b
  BY <1>1
<1>5. c \div 262144 = a
  BY <1>1
<1>6. ((a * 64 + b) * 64 + d) % 64 = d
  BY <1>1
<1>7. (a * 64 + b) % 64 = b
  BY <1>1
<1> HIDE DEF c
<1>8. c \in Nat /\ c \div 262144 = a /\ (c \div 4096) % 64 = b /\ (c \div 64) % 64 = d /\ c % 64 = e
  BY <1>1, <1>2, <1>3, <1>4, <1>5, <1>6, <1>7
<1> QED BY <1>8 DEF c, Four

Between(a, x, b) == x \in Int /\ a <= x /\ x <= b

LEMMA High == ASSUME NEW c \in Int PROVE c \in Literal!HighSurrogate <=> Between(55296, c, 56319)
BY DEF Literal!HighSurrogate, Between
LEMMA Low == ASSUME NEW c \in Int PROVE c \in Literal!LowSurrogate <=> Between(56320, c, 57343)
BY DEF Literal!LowSurrogate, Between
LEMMA Bytes == ASSUME NEW b PROVE b \in Literal!Byte <=> Between(0, b, 255)
BY DEF Literal!Byte, Between

LEMMA Tuples ==
    ASSUME NEW S, NEW s \in Seq(S)
    PROVE  /\ Len(s) = 1 => s = <<s[1]>>
           /\ Len(s) = 2 => s = <<s[1], s[2]>>
           /\ Len(s) = 3 => s = <<s[1], s[2], s[3]>>
           /\ Len(s) = 4 => s = <<s[1], s[2], s[3], s[4]>>
  OBVIOUS

LEMMA WidthOf ==
    ASSUME NEW b \in Int, 0 <= b
    PROVE  /\ b <= 127 => Literal!Width(b) = 1
           /\ 194 <= b /\ b <= 223 => Literal!Width(b) = 2
           /\ 224 <= b /\ b <= 239 => Literal!Width(b) = 3
           /\ 240 <= b /\ b <= 244 => Literal!Width(b) = 4
           /\ (128 <= b /\ b <= 193) \/ b > 244 => Literal!Width(b) = 0
BY DEF Literal!Width

LEMMA SecondByteOf ==
    ASSUME NEW b \in Int, NEW x \in Int
    PROVE  x \in Literal!SecondByte(b) <=> /\ 128 <= x /\ x <= 191
                                           /\ b = 224 => 160 <= x
                                           /\ b = 237 => x <= 159
                                           /\ b = 240 => 144 <= x
                                           /\ b = 244 => x <= 143
<1>1. CASE b = 224
  BY <1>1 DEF Literal!SecondByte
<1>2. CASE b = 237
  BY <1>2 DEF Literal!SecondByte
<1>3. CASE b = 240
  BY <1>3 DEF Literal!SecondByte
<1>4. CASE b = 244
  BY <1>4 DEF Literal!SecondByte
<1>5. CASE b # 224 /\ b # 237 /\ b # 240 /\ b # 244
  BY <1>5 DEF Literal!SecondByte
<1> QED BY <1>1, <1>2, <1>3, <1>4, <1>5

LEMMA Encode1 == ASSUME NEW c \in Nat, c < 128 PROVE Literal!Encode(c) = <<c>>
BY DEF Literal!Encode
LEMMA Encode2 ==
    ASSUME NEW c \in Nat, 128 <= c, c < 2048
    PROVE  Literal!Encode(c) = <<192 + c \div 64, 128 + (c % 64)>>
BY DEF Literal!Encode
LEMMA Encode3 ==
    ASSUME NEW c \in Nat, 2048 <= c, c < 65536
    PROVE  Literal!Encode(c) = <<224 + c \div 4096, 128 + ((c \div 64) % 64), 128 + (c % 64)>>
BY DEF Literal!Encode
LEMMA Encode4 ==
    ASSUME NEW c \in Nat, 65536 <= c
    PROVE  Literal!Encode(c) = <<240 + c \div 262144, 128 + ((c \div 4096) % 64),
                                 128 + ((c \div 64) % 64), 128 + (c % 64)>>
BY DEF Literal!Encode

LEMMA CodeOfs ==
    ASSUME NEW s
    PROVE  /\ Len(s) = 1 => Literal!CodeOf(s) = s[1]
           /\ Len(s) = 2 => Literal!CodeOf(s) = Two(s[1] % 32, s[2] % 64)
           /\ Len(s) = 3 => Literal!CodeOf(s) = Three(s[1] % 16, s[2] % 64, s[3] % 64)
           /\ Len(s) = 4 => Literal!CodeOf(s) = Four(s[1] % 8, s[2] % 64, s[3] % 64, s[4] % 64)
BY DEF Literal!CodeOf, Two, Three, Four

(* A character in UTF-8, by its width. *)
Tail8(x) == Between(128, x, 191)
Utf8(s) ==
    \/ Len(s) = 1 /\ Between(0, s[1], 127)
    \/ Len(s) = 2 /\ Between(194, s[1], 223) /\ Tail8(s[2])
    \/ /\ Len(s) = 3 /\ Between(224, s[1], 239) /\ Tail8(s[2]) /\ Tail8(s[3])
       /\ s[1] = 224 => 160 <= s[2]
       /\ s[1] = 237 => s[2] <= 159
    \/ /\ Len(s) = 4 /\ Between(240, s[1], 244) /\ Tail8(s[2]) /\ Tail8(s[3]) /\ Tail8(s[4])
       /\ s[1] = 240 => 144 <= s[2]
       /\ s[1] = 244 => s[2] <= 143

LEMMA TailOf == ASSUME NEW x \in Int PROVE x \in 128..191 <=> Tail8(x)
BY DEF Tail8, Between

LEMMA Utf8Char ==
    ASSUME NEW s, Len(s) \in Nat \ {0}, \A i \in 1..Len(s) : Between(0, s[i], 255)
    PROVE  Literal!IsUtf8Char(s) <=> Utf8(s)
<1> DEFINE n == Len(s)
<1>1. n \in Nat \ {0} /\ \A i \in 1..n : s[i] \in Int /\ 0 <= s[i] /\ s[i] <= 255
  BY DEF Between
<1>2. /\ s[1] \in Int /\ 0 <= s[1] /\ s[1] <= 255
      /\ n >= 2 => s[2] \in Int
      /\ n >= 3 => s[3] \in Int
      /\ n >= 4 => s[4] \in Int
  BY <1>1
<1>3. \A i \in 3..n : s[i] \in 128..191 <=> Tail8(s[i])
  <2> TAKE i \in 3..n
  <2>1. i \in 1..n
    BY <1>1
  <2> QED BY <1>1, <2>1, TailOf
<1>4. Literal!IsUtf8Char(s) <=>
        /\ n = Literal!Width(s[1])
        /\ n > 1 => s[2] \in Literal!SecondByte(s[1])
        /\ \A i \in 3..n : Tail8(s[i])
  BY <1>3 DEF Literal!IsUtf8Char
<1> HIDE DEF n
<1>5. CASE s[1] <= 127
  <2>1. Literal!IsUtf8Char(s) <=> n = 1
    BY <1>1, <1>2, <1>4, <1>5, WidthOf
  <2> QED BY <1>2, <1>5, <2>1 DEF Utf8, Between, n
<1>6. CASE 194 <= s[1] /\ s[1] <= 223
  <2>1. Literal!IsUtf8Char(s) <=> n = 2 /\ s[2] \in Literal!SecondByte(s[1])
    BY <1>1, <1>2, <1>4, <1>6, WidthOf
  <2>2. Utf8(s) <=> n = 2 /\ Tail8(s[2])
    BY <1>2, <1>6 DEF Utf8, Between, n
  <2>3. n = 2 => (s[2] \in Literal!SecondByte(s[1]) <=> Tail8(s[2]))
    BY <1>2, <1>6, SecondByteOf DEF Tail8, Between
  <2> QED BY <2>1, <2>2, <2>3
<1>7. CASE 224 <= s[1] /\ s[1] <= 239
  <2>1. Literal!IsUtf8Char(s) <=> n = 3 /\ s[2] \in Literal!SecondByte(s[1]) /\ Tail8(s[3])
    BY <1>1, <1>2, <1>4, <1>7, WidthOf
  <2>2. Utf8(s) <=> /\ n = 3 /\ Tail8(s[2]) /\ Tail8(s[3])
                    /\ s[1] = 224 => 160 <= s[2]
                    /\ s[1] = 237 => s[2] <= 159
    BY <1>2, <1>7 DEF Utf8, Between, n
  <2>3. n = 3 => (s[2] \in Literal!SecondByte(s[1]) <=>
                    Tail8(s[2]) /\ (s[1] = 224 => 160 <= s[2]) /\ (s[1] = 237 => s[2] <= 159))
    BY <1>2, <1>7, SecondByteOf DEF Tail8, Between
  <2> QED BY <2>1, <2>2, <2>3
<1>8. CASE 240 <= s[1] /\ s[1] <= 244
  <2>1. Literal!IsUtf8Char(s) <=> n = 4 /\ s[2] \in Literal!SecondByte(s[1]) /\ Tail8(s[3]) /\ Tail8(s[4])
    BY <1>1, <1>2, <1>4, <1>8, WidthOf
  <2>2. Utf8(s) <=> /\ n = 4 /\ Tail8(s[2]) /\ Tail8(s[3]) /\ Tail8(s[4])
                    /\ s[1] = 240 => 144 <= s[2]
                    /\ s[1] = 244 => s[2] <= 143
    BY <1>2, <1>8 DEF Utf8, Between, n
  <2>3. n = 4 => (s[2] \in Literal!SecondByte(s[1]) <=>
                    Tail8(s[2]) /\ (s[1] = 240 => 144 <= s[2]) /\ (s[1] = 244 => s[2] <= 143))
    BY <1>2, <1>8, SecondByteOf DEF Tail8, Between
  <2> QED BY <2>1, <2>2, <2>3
<1>9. CASE (128 <= s[1] /\ s[1] <= 193) \/ s[1] > 244
  <2>1. ~Literal!IsUtf8Char(s)
    BY <1>1, <1>2, <1>4, <1>9, WidthOf
  <2>2. ~Utf8(s)
    BY <1>2, <1>9 DEF Utf8, Between
  <2> QED BY <2>1, <2>2
<1> QED BY <1>2, <1>5, <1>6, <1>7, <1>8, <1>9

LEMMA WellFormed ==
    ASSUME NEW S, NEW s \in Seq(S), Utf8(s)
    PROVE  LET c == Literal!CodeOf(s)
           IN  /\ s = Literal!Encode(c) /\ Literal!Scalar(c)
               /\ IF s[1] <= 127 THEN Len(s) = 1 /\ c = s[1] ELSE c >= 128
<1> DEFINE c == Literal!CodeOf(s)
<1>2. CASE Len(s) = 1 /\ Between(0, s[1], 127)
  <2>1. s = <<s[1]>> /\ c = s[1] /\ c \in Nat /\ c <= 127
    BY <1>2, Tuples, CodeOfs DEF Between
  <2> HIDE DEF c
  <2>2. Literal!Encode(c) = <<c>>
    BY <2>1, Encode1
  <2>3. Literal!Scalar(c)
    BY <2>1, High, Low DEF Literal!Scalar, Between
  <2> QED BY <1>2, <2>1, <2>2, <2>3 DEF c
<1>3. CASE Len(s) = 2 /\ Between(194, s[1], 223) /\ Tail8(s[2])
  <2> DEFINE x == s[1] - 192
             y == s[2] - 128
  <2>1. s = <<s[1], s[2]>> /\ c = Two(s[1] % 32, s[2] % 64)
    BY <1>3, Tuples, CodeOfs
  <2>2. s[1] = 192 + x /\ s[2] = 128 + y /\ x \in Int /\ 2 <= x /\ x <= 31 /\ y \in Int /\ 0 <= y /\ y <= 63
    BY <1>3 DEF Between, Tail8
  <2> HIDE DEF c, x, y
  <2>3. s[1] % 32 = x /\ s[2] % 64 = y
    BY <2>2
  <2>4. c \in Nat /\ c \div 64 = x /\ c % 64 = y /\ 128 <= c /\ c < 2048
    <3>1. c = Two(x, y)
      BY <2>1, <2>3
    <3>2. 128 <= c /\ c < 2048
      BY <2>2, <3>1 DEF Two
    <3> QED BY <2>2, <3>1, <3>2, Parts2
  <2>5. Literal!Encode(c) = <<192 + x, 128 + y>>
    <3>1. Literal!Encode(c) = <<192 + c \div 64, 128 + (c % 64)>>
      BY <2>4, Encode2
    <3> QED BY <2>4, <3>1
  <2>6. Literal!Scalar(c)
    BY <2>4, High, Low DEF Literal!Scalar, Between
  <2>7. s = <<192 + x, 128 + y>>
    BY <2>1, <2>2
  <2> QED BY <2>2, <2>4, <2>5, <2>6, <2>7 DEF c
<1>4. CASE /\ Len(s) = 3 /\ Between(224, s[1], 239) /\ Tail8(s[2]) /\ Tail8(s[3])
           /\ s[1] = 224 => 160 <= s[2]
           /\ s[1] = 237 => s[2] <= 159
  <2> DEFINE x == s[1] - 224
             y == s[2] - 128
             z == s[3] - 128
  <2>1. s = <<s[1], s[2], s[3]>> /\ c = Three(s[1] % 16, s[2] % 64, s[3] % 64)
    BY <1>4, Tuples, CodeOfs
  <2>2. /\ s[1] = 224 + x /\ s[2] = 128 + y /\ s[3] = 128 + z
        /\ x \in Int /\ 0 <= x /\ x <= 15
        /\ y \in Int /\ 0 <= y /\ y <= 63
        /\ z \in Int /\ 0 <= z /\ z <= 63
        /\ x = 0 => 32 <= y
        /\ x = 13 => y <= 31
    BY <1>4 DEF Between, Tail8
  <2> HIDE DEF c, x, y, z
  <2>3. s[1] % 16 = x /\ s[2] % 64 = y /\ s[3] % 64 = z
    BY <2>2
  <2>4. c = Three(x, y, z)
    BY <2>1, <2>3
  <2>5. c \in Nat /\ c \div 4096 = x /\ (c \div 64) % 64 = y /\ c % 64 = z
    BY <2>2, <2>4, Parts3
  <2>6. 2048 <= c /\ c < 65536 /\ ~(55296 <= c /\ c <= 57343)
    BY <2>2, <2>4 DEF Three
  <2>7. Literal!Encode(c) = <<224 + x, 128 + y, 128 + z>>
    BY <2>5, <2>6, Encode3
  <2>8. Literal!Scalar(c)
    BY <2>5, <2>6, High, Low DEF Literal!Scalar, Between
  <2>9. s = <<224 + x, 128 + y, 128 + z>>
    BY <2>1, <2>2
  <2> QED BY <2>2, <2>5, <2>6, <2>7, <2>8, <2>9 DEF c
<1>5. CASE /\ Len(s) = 4 /\ Between(240, s[1], 244) /\ Tail8(s[2]) /\ Tail8(s[3]) /\ Tail8(s[4])
           /\ s[1] = 240 => 144 <= s[2]
           /\ s[1] = 244 => s[2] <= 143
  <2> DEFINE w == s[1] - 240
             x == s[2] - 128
             y == s[3] - 128
             z == s[4] - 128
  <2>1. s = <<s[1], s[2], s[3], s[4]>>
        /\ c = Four(s[1] % 8, s[2] % 64, s[3] % 64, s[4] % 64)
    BY <1>5, Tuples, CodeOfs
  <2>2. /\ s[1] = 240 + w /\ s[2] = 128 + x /\ s[3] = 128 + y /\ s[4] = 128 + z
        /\ w \in Int /\ 0 <= w /\ w <= 4
        /\ x \in Int /\ 0 <= x /\ x <= 63
        /\ y \in Int /\ 0 <= y /\ y <= 63
        /\ z \in Int /\ 0 <= z /\ z <= 63
        /\ w = 0 => 16 <= x
        /\ w = 4 => x <= 15
    BY <1>5 DEF Between, Tail8
  <2> HIDE DEF c, w, x, y, z
  <2>3. s[1] % 8 = w /\ s[2] % 64 = x /\ s[3] % 64 = y /\ s[4] % 64 = z
    <3>1. (240 + w) % 8 = w
      BY <2>2
    <3>2. (128 + x) % 64 = x
      BY <2>2
    <3>3. (128 + y) % 64 = y
      BY <2>2
    <3>4. (128 + z) % 64 = z
      BY <2>2
    <3> QED BY <2>2, <3>1, <3>2, <3>3, <3>4
  <2>4. c = Four(w, x, y, z)
    BY <2>1, <2>3
  <2>5. c \in Nat /\ c \div 262144 = w /\ (c \div 4096) % 64 = x /\ (c \div 64) % 64 = y /\ c % 64 = z
    BY <2>2, <2>4, Parts4
  <2>6. 65536 <= c /\ c <= 1114111
    BY <2>2, <2>4 DEF Four
  <2>7. Literal!Encode(c) = <<240 + w, 128 + x, 128 + y, 128 + z>>
    <3>1. Literal!Encode(c) = <<240 + c \div 262144, 128 + ((c \div 4096) % 64),
                                128 + ((c \div 64) % 64), 128 + (c % 64)>>
      <4>1. c \in Nat
        BY <2>5
      <4> QED BY <2>6, <4>1, Encode4
    <3> QED BY <2>5, <3>1
  <2>8. Literal!Scalar(c)
    BY <2>5, <2>6, High, Low DEF Literal!Scalar, Between
  <2>9. s = <<240 + w, 128 + x, 128 + y, 128 + z>>
    BY <2>1, <2>2
  <2> QED BY <2>2, <2>5, <2>6, <2>7, <2>8, <2>9 DEF c
<1> QED BY <1>2, <1>3, <1>4, <1>5, Zenon DEF Utf8

LEMMA EncodedIsWellFormed ==
    ASSUME NEW c, Literal!Scalar(c)
    PROVE  Utf8(Literal!Encode(c))
<1> DEFINE s == Literal!Encode(c)
<1>1. c \in Nat /\ c <= 1114111 /\ ~(55296 <= c /\ c <= 57343)
  BY High, Low DEF Literal!Scalar, Between
<1>2. CASE c < 128
  <2>1. s = <<c>>
    BY <1>1, <1>2, Encode1
  <2> HIDE DEF s
  <2>2. Len(s) = 1 /\ s[1] = c
    BY <2>1
  <2> QED BY <1>1, <1>2, <2>2 DEF Utf8, Between, s
<1>3. CASE 128 <= c /\ c < 2048
  <2> DEFINE x == c \div 64
             y == c % 64
  <2>1. s = <<192 + x, 128 + y>>
    BY <1>1, <1>3, Encode2
  <2>2. x \in Int /\ 2 <= x /\ x <= 31 /\ y \in Int /\ 0 <= y /\ y <= 63
    BY <1>1, <1>3
  <2> HIDE DEF s, x, y
  <2>3. Len(s) = 2 /\ s[1] = 192 + x /\ s[2] = 128 + y
    BY <2>1
  <2> QED BY <2>2, <2>3 DEF Utf8, Between, Tail8, s
<1>4. CASE 2048 <= c /\ c < 65536
  <2> DEFINE x == c \div 4096
             y == (c \div 64) % 64
             z == c % 64
  <2>1. s = <<224 + x, 128 + y, 128 + z>>
    BY <1>1, <1>4, Encode3
  <2>2. /\ x \in Int /\ 0 <= x /\ x <= 15
        /\ y \in Int /\ 0 <= y /\ y <= 63
        /\ z \in Int /\ 0 <= z /\ z <= 63
        /\ x = 0 => 32 <= y
        /\ x = 13 => y <= 31
    BY <1>1, <1>4
  <2> HIDE DEF s, x, y, z
  <2>3. Len(s) = 3 /\ s[1] = 224 + x /\ s[2] = 128 + y /\ s[3] = 128 + z
    BY <2>1
  <2> QED BY <2>2, <2>3 DEF Utf8, Between, Tail8, s
<1>5. CASE 65536 <= c
  <2> DEFINE w == c \div 262144
             x == (c \div 4096) % 64
             y == (c \div 64) % 64
             z == c % 64
  <2>1. s = <<240 + w, 128 + x, 128 + y, 128 + z>>
    BY <1>1, <1>5, Encode4
  <2>2. /\ w \in Int /\ 0 <= w /\ w <= 4
        /\ x \in Int /\ 0 <= x /\ x <= 63
        /\ y \in Int /\ 0 <= y /\ y <= 63
        /\ z \in Int /\ 0 <= z /\ z <= 63
        /\ w = 0 => 16 <= x
        /\ w = 4 => x <= 15
    BY <1>1, <1>5
  <2> HIDE DEF s, w, x, y, z
  <2>3. Len(s) = 4 /\ s[1] = 240 + w /\ s[2] = 128 + x /\ s[3] = 128 + y /\ s[4] = 128 + z
    BY <2>1
  <2> QED BY <2>2, <2>3 DEF Utf8, Between, Tail8, s
<1> QED BY <1>1, <1>2, <1>3, <1>4, <1>5

LEMMA NibbleOf ==
    ASSUME NEW b \in Int, 0 <= b, b <= 255
    PROVE  /\ Literal!Nibble(b) \in Int /\ -1 <= Literal!Nibble(b) /\ Literal!Nibble(b) <= 15
           /\ \A d \in Int : 0 <= d /\ d <= 15 =>
                ((IF b \in 65..70 THEN b + 32 ELSE b) = Literal!HexDigit(d) <=> Literal!Nibble(b) = d)
<1>1. CASE 48 <= b /\ b <= 57
  <2>1. Literal!Nibble(b) = b - 48
    BY <1>1 DEF Literal!Nibble
  <2> QED BY <1>1, <2>1 DEF Literal!HexDigit
<1>2. CASE 97 <= b /\ b <= 102
  <2>1. Literal!Nibble(b) = b - 87
    BY <1>2 DEF Literal!Nibble
  <2> QED BY <1>2, <2>1 DEF Literal!HexDigit
<1>3. CASE 65 <= b /\ b <= 70
  <2>1. Literal!Nibble(b) = b - 55
    BY <1>3 DEF Literal!Nibble
  <2> QED BY <1>3, <2>1 DEF Literal!HexDigit
<1>4. CASE ~(48 <= b /\ b <= 57) /\ ~(97 <= b /\ b <= 102) /\ ~(65 <= b /\ b <= 70)
  <2>1. Literal!Nibble(b) = -1
    BY <1>4 DEF Literal!Nibble
  <2> QED BY <1>4, <2>1 DEF Literal!HexDigit
<1> QED BY <1>1, <1>2, <1>3, <1>4

Hex(a, b, c, d) == ((a * 16 + b) * 16 + c) * 16 + d
Nib(d) == d \in Int /\ 0 <= d /\ d <= 15

LEMMA HexParts ==
    ASSUME NEW a, NEW b, NEW c, NEW d, Nib(a), Nib(b), Nib(c), Nib(d)
    PROVE  LET h == Hex(a, b, c, d)
           IN  /\ h \in Int /\ 0 <= h /\ h <= 65535
               /\ h \div 4096 = a
               /\ (h \div 256) % 16 = b
               /\ (h \div 16) % 16 = c
               /\ h % 16 = d
<1> DEFINE h == ((a * 16 + b) * 16 + c) * 16 + d
<1>0. /\ a \in Int /\ 0 <= a /\ a <= 15 /\ b \in Int /\ 0 <= b /\ b <= 15
      /\ c \in Int /\ 0 <= c /\ c <= 15 /\ d \in Int /\ 0 <= d /\ d <= 15
  BY DEF Nib
<1>1. h \in Int /\ 0 <= h /\ h <= 65535
  BY <1>0
<1>2. h \div 16 = (a * 16 + b) * 16 + c
  BY <1>0
<1>3. h % 16 = d
  BY <1>0
<1>4. h \div 256 = a * 16 + b
  BY <1>0
<1>5. h \div 4096 = a
  BY <1>0
<1>6. ((a * 16 + b) * 16 + c) % 16 = c
  BY <1>0
<1>7. (a * 16 + b) % 16 = b
  BY <1>0
<1> HIDE DEF h
<1>8. h \in Int /\ 0 <= h /\ h <= 65535 /\ h \div 4096 = a /\ (h \div 256) % 16 = b /\ (h \div 16) % 16 = c
      /\ h % 16 = d
  BY <1>1, <1>2, <1>3, <1>4, <1>5, <1>6, <1>7
<1> QED BY <1>8 DEF h, Hex

(* The digits of a code unit. *)
H1(u) == u \div 4096
H2(u) == (u \div 256) % 16
H3(u) == (u \div 16) % 16
H4(u) == u % 16

LEMMA HexOf ==
    ASSUME NEW u \in Int, 0 <= u, u <= 65535
    PROVE  /\ Nib(H1(u)) /\ Nib(H2(u)) /\ Nib(H3(u)) /\ Nib(H4(u))
           /\ u = Hex(H1(u), H2(u), H3(u), H4(u))
<1>1. Nib(u \div 4096)
  BY DEF Nib
<1>2. Nib((u \div 256) % 16)
  BY DEF Nib
<1>3. Nib((u \div 16) % 16)
  BY DEF Nib
<1>4. Nib(u % 16)
  BY DEF Nib
<1>5. u = (u \div 16) * 16 + (u % 16)
  OBVIOUS
<1>6. u \div 16 = (u \div 256) * 16 + ((u \div 16) % 16)
  OBVIOUS
<1>7. u \div 256 = (u \div 4096) * 16 + ((u \div 256) % 16)
  OBVIOUS
<1> QED BY <1>1, <1>2, <1>3, <1>4, <1>5, <1>6, <1>7 DEF Hex, H1, H2, H3, H4

LEMMA UnitIs == ASSUME NEW u
                PROVE Literal!U(u) = <<92, 117, Literal!HexDigit(H1(u)), Literal!HexDigit(H2(u)),
                                       Literal!HexDigit(H3(u)), Literal!HexDigit(H4(u))>>
BY DEF Literal!U, H1, H2, H3, H4

(* The four digits from offset i on. *)
Digits(i) == /\ Literal!Nibble(bytes[i + 1]) # -1
             /\ Literal!Nibble(bytes[i + 2]) # -1
             /\ Literal!Nibble(bytes[i + 3]) # -1
             /\ Literal!Nibble(bytes[i + 4]) # -1
DigitsCode(i) == Hex(Literal!Nibble(bytes[i + 1]), Literal!Nibble(bytes[i + 2]),
                     Literal!Nibble(bytes[i + 3]), Literal!Nibble(bytes[i + 4]))
IsByte(b) == b \in Int /\ 0 <= b /\ b <= 255
BytesGiven == bytes \in Seq(Literal!Byte)

LEMMA ByteAt ==
    ASSUME BytesGiven
    PROVE  Len(bytes) \in Nat /\ \A k \in Int : 1 <= k /\ k <= Len(bytes) => IsByte(bytes[k])
<1>1. Len(bytes) \in Nat /\ \A k \in 1..Len(bytes) : bytes[k] \in Literal!Byte
  BY ElementOfSeq DEF BytesGiven
<1>2. \A k \in Int : 1 <= k /\ k <= Len(bytes) => bytes[k] \in Literal!Byte
  BY <1>1
<1>3. \A b \in Literal!Byte : IsByte(b)
  BY DEF Literal!Byte, IsByte
<1> QED BY <1>1, <1>2, <1>3

LEMMA NibOf == ASSUME NEW b, IsByte(b), Literal!Nibble(b) # -1 PROVE Nib(Literal!Nibble(b))
<1>1. Literal!Nibble(b) \in Int /\ -1 <= Literal!Nibble(b) /\ Literal!Nibble(b) <= 15
  BY NibbleOf DEF IsByte
<1> QED BY <1>1 DEF Nib

LEMMA Hex4Of ==
    ASSUME BytesGiven, NEW i \in Nat
    PROVE  /\ Literal!Hex4(i) = IF i + 4 <= Len(bytes) /\ Digits(i) THEN DigitsCode(i) ELSE -1
           /\ Literal!Hex4(i) \in Int /\ -1 <= Literal!Hex4(i) /\ Literal!Hex4(i) <= 65535
<1>1. Len(bytes) \in Nat
  BY ByteAt
<1>2. (\E k \in 1..4 : Literal!Nibble(bytes[i + k]) = -1) <=> ~Digits(i)
  BY DEF Digits
<1>3. Literal!Hex4(i) = IF i + 4 > Len(bytes) \/ ~Digits(i) THEN -1 ELSE DigitsCode(i)
  BY <1>2 DEF Literal!Hex4, DigitsCode, Hex
<1>4. Literal!Hex4(i) = IF i + 4 <= Len(bytes) /\ Digits(i) THEN DigitsCode(i) ELSE -1
  BY <1>1, <1>3
<1>5. ASSUME i + 4 <= Len(bytes), Digits(i) PROVE DigitsCode(i) \in Int /\ 0 <= DigitsCode(i) /\ DigitsCode(i) <= 65535
  <2>1. IsByte(bytes[i + 1]) /\ IsByte(bytes[i + 2]) /\ IsByte(bytes[i + 3]) /\ IsByte(bytes[i + 4])
    BY <1>1, <1>5, ByteAt
  <2>2. Nib(Literal!Nibble(bytes[i + 1])) /\ Nib(Literal!Nibble(bytes[i + 2]))
        /\ Nib(Literal!Nibble(bytes[i + 3])) /\ Nib(Literal!Nibble(bytes[i + 4]))
    BY <1>5, <2>1, NibOf DEF Digits
  <2> QED BY <2>2, HexParts DEF DigitsCode
<1> QED BY <1>4, <1>5

(* An escape in lower case. *)
Lower(b) == IF b \in 65..70 THEN b + 32 ELSE b
UnitAt(i, u) == bytes[i + 1] = 92 /\ bytes[i + 2] = 117 /\ Literal!Hex4(i + 2) = u

LEMMA UnitChars ==
    ASSUME BytesGiven, NEW i \in Nat, i + 6 <= Len(bytes), NEW u \in Int, 0 <= u, u <= 65535
    PROVE  UnitAt(i, u) <=> /\ Lower(bytes[i + 1]) = Literal!U(u)[1]
                            /\ Lower(bytes[i + 2]) = Literal!U(u)[2]
                            /\ Lower(bytes[i + 3]) = Literal!U(u)[3]
                            /\ Lower(bytes[i + 4]) = Literal!U(u)[4]
                            /\ Lower(bytes[i + 5]) = Literal!U(u)[5]
                            /\ Lower(bytes[i + 6]) = Literal!U(u)[6]
<1> DEFINE p == H1(u)
           q == H2(u)
           r == H3(u)
           s == H4(u)
<1>1. /\ Literal!U(u)[1] = 92 /\ Literal!U(u)[2] = 117
      /\ Literal!U(u)[3] = Literal!HexDigit(p) /\ Literal!U(u)[4] = Literal!HexDigit(q)
      /\ Literal!U(u)[5] = Literal!HexDigit(r) /\ Literal!U(u)[6] = Literal!HexDigit(s)
  BY UnitIs
<1>2. Nib(p) /\ Nib(q) /\ Nib(r) /\ Nib(s) /\ u = Hex(p, q, r, s)
  BY HexOf
<1>3. Len(bytes) \in Nat /\ i \in Int
  BY ByteAt
<1>4. IsByte(bytes[i + 1]) /\ IsByte(bytes[i + 2]) /\ IsByte(bytes[i + 3])
      /\ IsByte(bytes[i + 4]) /\ IsByte(bytes[i + 5]) /\ IsByte(bytes[i + 6])
  BY <1>3, ByteAt
<1> HIDE DEF p, q, r, s
<1>5. (Lower(bytes[i + 1]) = 92 <=> bytes[i + 1] = 92) /\ (Lower(bytes[i + 2]) = 117 <=> bytes[i + 2] = 117)
  <2>1. \A b : IsByte(b) => (Lower(b) = 92 <=> b = 92) /\ (Lower(b) = 117 <=> b = 117)
    BY DEF Lower, IsByte
  <2> QED BY <1>4, <2>1
<1>6. \A b, d : IsByte(b) /\ Nib(d) => (Lower(b) = Literal!HexDigit(d) <=> Literal!Nibble(b) = d)
  BY NibbleOf DEF Lower, IsByte, Nib
<1>7. /\ Lower(bytes[i + 3]) = Literal!HexDigit(p) <=> Literal!Nibble(bytes[i + 3]) = p
      /\ Lower(bytes[i + 4]) = Literal!HexDigit(q) <=> Literal!Nibble(bytes[i + 4]) = q
      /\ Lower(bytes[i + 5]) = Literal!HexDigit(r) <=> Literal!Nibble(bytes[i + 5]) = r
      /\ Lower(bytes[i + 6]) = Literal!HexDigit(s) <=> Literal!Nibble(bytes[i + 6]) = s
  BY <1>2, <1>4, <1>6
<1> DEFINE a == Literal!Nibble(bytes[i + 3])
           b == Literal!Nibble(bytes[i + 4])
           c == Literal!Nibble(bytes[i + 5])
           d == Literal!Nibble(bytes[i + 6])
<1>8. Literal!Hex4(i + 2) = IF a # -1 /\ b # -1 /\ c # -1 /\ d # -1 THEN Hex(a, b, c, d) ELSE -1
  <2>1. i + 2 \in Nat /\ (i + 2) + 4 <= Len(bytes) /\ (i + 2) + 1 = i + 3 /\ (i + 2) + 2 = i + 4
        /\ (i + 2) + 3 = i + 5 /\ (i + 2) + 4 = i + 6
    BY <1>3
  <2>2. Literal!Hex4(i + 2) = IF Digits(i + 2) THEN DigitsCode(i + 2) ELSE -1
    BY <2>1, Hex4Of
  <2> QED BY <2>1, <2>2 DEF Digits, DigitsCode
<1>9. /\ a # -1 => Nib(a)
      /\ b # -1 => Nib(b)
      /\ c # -1 => Nib(c)
      /\ d # -1 => Nib(d)
  BY <1>4, NibOf
<1> HIDE DEF a, b, c, d
<1>10. Literal!Hex4(i + 2) = u <=> a = p /\ b = q /\ c = r /\ d = s
  <2>1. p # -1 /\ q # -1 /\ r # -1 /\ s # -1
    BY <1>2 DEF Nib
  <2>2. ASSUME a = p /\ b = q /\ c = r /\ d = s PROVE Literal!Hex4(i + 2) = u
    BY <1>2, <1>8, <2>1, <2>2
  <2>3. ASSUME Literal!Hex4(i + 2) = u PROVE a = p /\ b = q /\ c = r /\ d = s
    <3>1. u # -1
      OBVIOUS
    <3>2. Nib(a) /\ Nib(b) /\ Nib(c) /\ Nib(d) /\ u = Hex(a, b, c, d)
      BY <1>8, <1>9, <2>3, <3>1
    <3>3. a = u \div 4096 /\ b = (u \div 256) % 16 /\ c = (u \div 16) % 16 /\ d = u % 16
      BY <3>2, HexParts
    <3> QED BY <3>3 DEF p, q, r, s, H1, H2, H3, H4
  <2> QED BY <2>2, <2>3
<1> QED BY <1>1, <1>5, <1>7, <1>10 DEF UnitAt, a, b, c, d

LEMMA Lowered ==
    ASSUME NEW S, S \subseteq Int, NEW s \in Seq(S)
    PROVE  /\ Literal!LowerHex(s) \in Seq(Int) /\ Len(Literal!LowerHex(s)) = Len(s)
           /\ \A k \in 1..Len(s) : Literal!LowerHex(s)[k] = Lower(s[k])
<1>1. DOMAIN s = 1..Len(s) /\ Len(s) \in Nat
  OBVIOUS
<1>2. Literal!LowerHex(s) = [k \in 1..Len(s) |-> Lower(s[k])]
  BY <1>1, Zenon DEF Literal!LowerHex, Lower
<1>3. \A k \in 1..Len(s) : Lower(s[k]) \in Int
  <2> TAKE k \in 1..Len(s)
  <2>1. s[k] \in S
    BY ElementOfSeq
  <2>2. s[k] \in Int
    BY <2>1
  <2> QED BY <2>2 DEF Lower
<1>4. Literal!LowerHex(s) \in [1..Len(s) -> Int]
  BY <1>2, <1>3
<1>5. Literal!LowerHex(s) \in Seq(Int)
  BY <1>1, <1>4, SeqDef
<1> QED BY <1>1, <1>2, <1>4, <1>5

LEMMA UnitIsSeq == ASSUME NEW u \in Int, 0 <= u, u <= 65535 PROVE Literal!U(u) \in Seq(Int) /\ Len(Literal!U(u)) = 6
<1> DEFINE p == H1(u)
           q == H2(u)
           r == H3(u)
           s == H4(u)
<1>1. Nib(p) /\ Nib(q) /\ Nib(r) /\ Nib(s)
  BY HexOf
<1>2. Literal!U(u) = <<92, 117, Literal!HexDigit(p), Literal!HexDigit(q), Literal!HexDigit(r), Literal!HexDigit(s)>>
  BY UnitIs
<1> HIDE DEF p, q, r, s
<1>3. \A x : Nib(x) => Literal!HexDigit(x) \in Int
  BY DEF Nib, Literal!HexDigit
<1>4. Literal!HexDigit(p) \in Int /\ Literal!HexDigit(q) \in Int /\ Literal!HexDigit(r) \in Int
      /\ Literal!HexDigit(s) \in Int
  BY <1>1, <1>3
<1> QED BY <1>2, <1>4

(* What is read from offset i on. *)
Bite(i, n) == SubSeq(bytes, i + 1, i + n)

LEMMA BiteOf ==
    ASSUME BytesGiven, NEW i \in Nat, NEW n \in Nat, i + n <= Len(bytes)
    PROVE  /\ Bite(i, n) \in Seq(Literal!Byte) /\ Len(Bite(i, n)) = n
           /\ \A k \in 1..n : Bite(i, n)[k] = bytes[i + k]
<1>1. Len(bytes) \in Nat /\ \A k \in 1..Len(bytes) : bytes[k] \in Literal!Byte
  BY ElementOfSeq DEF BytesGiven
<1>2. \A k \in (i + 1)..(i + n) : bytes[k] \in Literal!Byte
  BY <1>1
<1>3. /\ Bite(i, n) \in Seq(Literal!Byte)
      /\ Len(Bite(i, n)) = IF i + 1 <= i + n THEN (i + n) - (i + 1) + 1 ELSE 0
      /\ \A k \in 1..((i + n) - (i + 1) + 1) : Bite(i, n)[k] = bytes[(i + 1) + k - 1]
  BY <1>2, SubSeqProperties DEF Bite
<1>4. (i + n) - (i + 1) + 1 = n
  OBVIOUS
<1> QED BY <1>3, <1>4

LEMMA ByteIsInt == Literal!Byte \subseteq Int
BY DEF Literal!Byte

LEMMA LowerIs ==
    ASSUME BytesGiven, NEW i \in Nat, NEW n \in Nat, i + n <= Len(bytes), NEW v \in Seq(Int), Len(v) = n
    PROVE  Literal!LowerHex(Bite(i, n)) = v <=> \A k \in 1..n : Lower(bytes[i + k]) = v[k]
<1> DEFINE s == Bite(i, n)
           l == Literal!LowerHex(s)
<1>1. s \in Seq(Literal!Byte) /\ Len(s) = n /\ \A k \in 1..n : s[k] = bytes[i + k]
  BY BiteOf
<1> HIDE DEF s
<1>2. l \in Seq(Int) /\ Len(l) = n /\ \A k \in 1..n : l[k] = Lower(s[k])
  BY <1>1, Lowered, ByteIsInt
<1> HIDE DEF l
<1>3. \A k \in 1..n : l[k] = Lower(bytes[i + k])
  BY <1>1, <1>2
<1>4. l = v <=> \A k \in 1..n : l[k] = v[k]
  BY <1>2, SeqEqual
<1>5. l = v <=> \A k \in 1..n : Lower(bytes[i + k]) = v[k]
  BY <1>3, <1>4
<1> QED BY <1>5 DEF l, s

LEMMA LowerHalves ==
    ASSUME BytesGiven, NEW i \in Nat, NEW m \in Nat, NEW n \in Nat, i + (m + n) <= Len(bytes),
           NEW v \in Seq(Int), Len(v) = m, NEW w \in Seq(Int), Len(w) = n
    PROVE  Literal!LowerHex(Bite(i, m + n)) = v \o w <=>
             /\ \A k \in 1..m : Lower(bytes[i + k]) = v[k]
             /\ \A k \in 1..n : Lower(bytes[(i + m) + k]) = w[k]
<1> DEFINE x == v \o w
<1>1. /\ x \in Seq(Int) /\ Len(x) = m + n /\ m + n \in Nat
      /\ \A k \in 1..(m + n) : x[k] = IF k <= m THEN v[k] ELSE w[k - m]
  <2>1. /\ x \in Seq(Int) /\ Len(x) = Len(v) + Len(w)
        /\ \A k \in 1..(Len(v) + Len(w)) : x[k] = IF k <= Len(v) THEN v[k] ELSE w[k - Len(v)]
    BY ConcatProperties
  <2> HIDE DEF x
  <2> QED BY <2>1
<1> HIDE DEF x
<1>2. Literal!LowerHex(Bite(i, m + n)) = x <=> \A k \in 1..(m + n) : Lower(bytes[i + k]) = x[k]
  BY <1>1, LowerIs
<1>3. ASSUME \A k \in 1..(m + n) : Lower(bytes[i + k]) = x[k]
      PROVE  /\ \A k \in 1..m : Lower(bytes[i + k]) = v[k]
             /\ \A k \in 1..n : Lower(bytes[(i + m) + k]) = w[k]
  <2>1. ASSUME NEW k \in 1..m PROVE Lower(bytes[i + k]) = v[k]
    <3>1. k \in 1..(m + n) /\ k <= m
      OBVIOUS
    <3> QED BY <1>1, <1>3, <3>1
  <2>2. ASSUME NEW k \in 1..n PROVE Lower(bytes[(i + m) + k]) = w[k]
    <3>1. m + k \in 1..(m + n) /\ ~(m + k <= m) /\ (m + k) - m = k /\ i + (m + k) = (i + m) + k
      OBVIOUS
    <3> QED BY <1>1, <1>3, <3>1
  <2> QED BY <2>1, <2>2
<1>4. ASSUME \A k \in 1..m : Lower(bytes[i + k]) = v[k],
             \A k \in 1..n : Lower(bytes[(i + m) + k]) = w[k],
             NEW k \in 1..(m + n)
      PROVE  Lower(bytes[i + k]) = x[k]
  <2>1. CASE k <= m
    <3>1. k \in 1..m
      BY <2>1
    <3> QED BY <1>1, <1>4, <2>1, <3>1
  <2>2. CASE ~(k <= m)
    <3>1. k - m \in 1..n /\ (i + m) + (k - m) = i + k
      BY <2>2
    <3> QED BY <1>1, <1>4, <2>2, <3>1
  <2> QED BY <2>1, <2>2
<1>5. Literal!LowerHex(Bite(i, m + n)) = x <=>
             /\ \A k \in 1..m : Lower(bytes[i + k]) = v[k]
             /\ \A k \in 1..n : Lower(bytes[(i + m) + k]) = w[k]
  BY <1>2, <1>3, <1>4
<1> QED BY <1>5 DEF x

LEMMA UnitPoints ==
    ASSUME BytesGiven, NEW i \in Nat, i + 6 <= Len(bytes), NEW u \in Int, 0 <= u, u <= 65535
    PROVE  UnitAt(i, u) <=> \A k \in 1..6 : Lower(bytes[i + k]) = Literal!U(u)[k]
<1> DEFINE v == Literal!U(u)
<1>1. UnitAt(i, u) <=> /\ Lower(bytes[i + 1]) = v[1] /\ Lower(bytes[i + 2]) = v[2]
                       /\ Lower(bytes[i + 3]) = v[3] /\ Lower(bytes[i + 4]) = v[4]
                       /\ Lower(bytes[i + 5]) = v[5] /\ Lower(bytes[i + 6]) = v[6]
  BY UnitChars
<1> HIDE DEF v
<1>2. UnitAt(i, u) <=> \A k \in 1..6 : Lower(bytes[i + k]) = v[k]
  BY <1>1
<1> QED BY <1>2 DEF v

LEMMA UnitSpelled ==
    ASSUME BytesGiven, NEW i \in Nat, i + 6 <= Len(bytes), NEW u \in Int, 0 <= u, u <= 65535
    PROVE  Literal!LowerHex(Bite(i, 6)) = Literal!U(u) <=> UnitAt(i, u)
<1> DEFINE v == Literal!U(u)
           six == 6
<1>1. v \in Seq(Int) /\ Len(v) = six /\ six \in Nat /\ i + six <= Len(bytes)
  BY UnitIsSeq
<1>2. UnitAt(i, u) <=> \A k \in 1..six : Lower(bytes[i + k]) = v[k]
  BY UnitPoints
<1> HIDE DEF v, six
<1>3. Literal!LowerHex(Bite(i, six)) = v <=> \A k \in 1..six : Lower(bytes[i + k]) = v[k]
  BY <1>1, LowerIs
<1>4. Literal!LowerHex(Bite(i, six)) = v <=> UnitAt(i, u)
  BY <1>2, <1>3
<1> QED BY <1>4 DEF v, six

(* Two units of m characters each. *)
Twice(i, m, v, w) ==
    Literal!LowerHex(Bite(i, m + m)) = v \o w <=>
      /\ \A k \in 1..m : Lower(bytes[i + k]) = v[k]
      /\ \A k \in 1..m : Lower(bytes[(i + m) + k]) = w[k]

TwoUnits(i, m, v, w) ==
    /\ i \in Nat /\ m \in Nat /\ i + (m + m) <= Len(bytes)
    /\ v \in Seq(Int) /\ Len(v) = m /\ w \in Seq(Int) /\ Len(w) = m

LEMMA TwiceOf ==
    ASSUME BytesGiven, NEW i, NEW m, NEW v, NEW w, TwoUnits(i, m, v, w)
    PROVE  Twice(i, m, v, w)
<1>1. Literal!LowerHex(Bite(i, m + m)) = v \o w <=>
             /\ \A k \in 1..m : Lower(bytes[i + k]) = v[k]
             /\ \A k \in 1..m : Lower(bytes[(i + m) + k]) = w[k]
  BY LowerHalves DEF TwoUnits
<1> QED BY <1>1, Zenon DEF Twice

ByteByByte(i, m, u) == UnitAt(i, u) <=> \A k \in 1..m : Lower(bytes[i + k]) = Literal!U(u)[k]
Jointly(i, m, h, g) ==
    Literal!LowerHex(Bite(i, m + m)) = Literal!U(h) \o Literal!U(g) <=> UnitAt(i, h) /\ UnitAt(i + m, g)

LEMMA TwoSpelled ==
    ASSUME BytesGiven, NEW i, NEW m, NEW h, NEW g, TwoUnits(i, m, Literal!U(h), Literal!U(g)),
           ByteByByte(i, m, h), ByteByByte(i + m, m, g)
    PROVE  Jointly(i, m, h, g)
<1>1. Twice(i, m, Literal!U(h), Literal!U(g))
  BY TwiceOf, Zenon
<1> QED BY <1>1, Zenon DEF Twice, ByteByByte, Jointly

LEMMA PairSpelled ==
    ASSUME BytesGiven, NEW i \in Nat, i + 12 <= Len(bytes), NEW c \in Int, 65536 <= c, c <= 1114111
    PROVE  Literal!LowerHex(Bite(i, 12)) = Literal!Pair(c) <=>
             UnitAt(i, 55296 + (c - 65536) \div 1024) /\ UnitAt(i + 6, 56320 + (c % 1024))
<1> DEFINE h == 55296 + (c - 65536) \div 1024
           g == 56320 + (c % 1024)
<1>1. h \in Int /\ 0 <= h /\ h <= 65535 /\ g \in Int /\ 0 <= g /\ g <= 65535
  OBVIOUS
<1>2. Literal!Pair(c) = Literal!U(h) \o Literal!U(g)
  BY DEF Literal!Pair
<1> HIDE DEF h, g
<1>3. /\ Literal!U(h) \in Seq(Int) /\ Len(Literal!U(h)) = 6
      /\ Literal!U(g) \in Seq(Int) /\ Len(Literal!U(g)) = 6
  BY <1>1, UnitIsSeq
<1>4. i + 6 \in Nat /\ i + 6 <= Len(bytes) /\ (i + 6) + 6 <= Len(bytes)
  BY ByteAt
<1>5. /\ UnitAt(i, h) <=> \A k \in 1..6 : Lower(bytes[i + k]) = Literal!U(h)[k]
      /\ UnitAt(i + 6, g) <=> \A k \in 1..6 : Lower(bytes[(i + 6) + k]) = Literal!U(g)[k]
  BY <1>1, <1>4, UnitPoints
<1> DEFINE six == 6
<1>6. /\ TwoUnits(i, six, Literal!U(h), Literal!U(g)) /\ six = 6 /\ six + six = 12
      /\ ByteByByte(i, six, h) /\ ByteByByte(i + six, six, g)
  BY <1>3, <1>5 DEF TwoUnits, ByteByByte
<1> HIDE DEF six
<1>7. Jointly(i, six, h, g)
  BY <1>6, TwoSpelled
<1>8. Literal!LowerHex(Bite(i, 12)) = Literal!Pair(c) <=> UnitAt(i, h) /\ UnitAt(i + 6, g)
  BY <1>2, <1>6, <1>7 DEF Jointly
<1> QED BY <1>8 DEF h, g

LEMMA StopOf == ASSUME NEW b \in Int PROVE b \in Literal!Stops <=> b = 34 \/ b = 92 \/ (0 <= b /\ b <= 31)
BY DEF Literal!Stops, Literal!Quote, Literal!Backslash

Letters == {34, 92, 47, 98, 102, 110, 114, 116}
LEMMA SimpleOf ==
    /\ DOMAIN Literal!Simple = Letters
    /\ \A b \in Letters : Literal!Simple[b] \in Nat /\ Literal!Simple[b] <= 92
BY DEF Literal!Simple, Literal!Quote, Literal!Backslash, Letters

LEMMA PermittedOf ==
    ASSUME NEW c
    PROVE  Literal!Permitted(c) <=> Literal!Scalar(c) /\ ~Literal!Forbidden(c)
<1>1. ASSUME Literal!Scalar(c)
      PROVE  /\ c % 65536 < 65534 <=> c % 65536 # 65534 /\ c % 65536 # 65535
  <2>1. c \in Nat
    BY <1>1 DEF Literal!Scalar
  <2> DEFINE r == c % 65536
  <2>2. r \in Nat /\ r <= 65535
    BY <2>1
  <2> HIDE DEF r
  <2>3. r < 65534 <=> r # 65534 /\ r # 65535
    BY <2>2
  <2> QED BY <2>3 DEF r
<1> QED BY <1>1 DEF Literal!Permitted, Literal!Forbidden, Literal!IsNoncharacter

(* The four ways of writing a character. *)
Plainly(s, c) == s = Literal!Encode(c) /\ c >= 32 /\ c # 34 /\ c # 92
Shortly(s, c) == Len(s) = 2 /\ s[1] = 92 /\ s[2] \in Letters /\ c = Literal!Simple[s[2]]
AsUnit(s, c) == c <= 65535 /\ Literal!LowerHex(s) = Literal!U(c)
AsPair(s, c) == c > 65535 /\ Literal!LowerHex(s) = Literal!Pair(c)

LEMMA SpellsOf ==
    ASSUME NEW s, NEW c
    PROVE  Literal!Spells(s, c) <=> Plainly(s, c) \/ Shortly(s, c) \/ AsUnit(s, c) \/ AsPair(s, c)
<1>1. Literal!Quote = 34 /\ Literal!Backslash = 92
  BY DEF Literal!Quote, Literal!Backslash
<1>2. c \notin {Literal!Quote, Literal!Backslash} <=> c # 34 /\ c # 92
  BY <1>1
<1> QED BY <1>1, <1>2, SimpleOf DEF Literal!Spells, Plainly, Shortly, AsUnit, AsPair

LEMMA Joined == ASSUME NEW v \in Seq(Int), NEW w \in Seq(Int) PROVE Len(v \o w) = Len(v) + Len(w)
BY ConcatProperties

UnitSized(u) == u \in Int /\ 0 <= u /\ u <= 65535

LEMMA UnitLength == ASSUME NEW u, UnitSized(u) PROVE Len(Literal!U(u)) = 6
BY UnitIsSeq DEF UnitSized

LEMMA TwoUnitsLong == ASSUME NEW h, NEW g, UnitSized(h), UnitSized(g) PROVE Len(Literal!U(h) \o Literal!U(g)) = 12
<1> DEFINE v == Literal!U(h)
           w == Literal!U(g)
<1>1. v \in Seq(Int) /\ Len(v) = 6 /\ w \in Seq(Int) /\ Len(w) = 6
  BY UnitIsSeq DEF UnitSized
<1> HIDE DEF v, w
<1>2. Len(v \o w) = Len(v) + Len(w)
  BY <1>1, Joined
<1>3. Len(v \o w) = 12
  BY <1>1, <1>2
<1> QED BY <1>3 DEF v, w

LEMMA PairLength ==
    ASSUME NEW c \in Int, 65536 <= c, c <= 1114111
    PROVE  Len(Literal!Pair(c)) = 12
<1> DEFINE h == 55296 + (c - 65536) \div 1024
           g == 56320 + (c % 1024)
<1>1. UnitSized(h) /\ UnitSized(g)
  BY DEF UnitSized
<1>2. Literal!Pair(c) = Literal!U(h) \o Literal!U(g)
  BY DEF Literal!Pair
<1> HIDE DEF h, g
<1>3. Len(Literal!U(h) \o Literal!U(g)) = 12
  BY <1>1, TwoUnitsLong
<1> QED BY <1>2, <1>3

Bounded(c) == c \in Int /\ 0 <= c /\ c <= 1114111

LEMMA ScalarIsBounded == ASSUME NEW c, Literal!Scalar(c) PROVE Bounded(c)
BY DEF Literal!Scalar, Bounded

(* The ways differ in length. *)
LEMMA Lengths ==
    ASSUME NEW S, S \subseteq Int, NEW s \in Seq(S), NEW c, Literal!Scalar(c)
    PROVE  /\ Plainly(s, c) => Len(s) \in {1, 2, 3, 4}
           /\ Shortly(s, c) => Len(s) = 2
           /\ AsUnit(s, c) => Len(s) = 6
           /\ AsPair(s, c) => Len(s) = 12
<1>1. Plainly(s, c) => Len(s) \in {1, 2, 3, 4}
  <2>1. Utf8(Literal!Encode(c))
    BY EncodedIsWellFormed
  <2>2. Len(Literal!Encode(c)) \in {1, 2, 3, 4}
    BY <2>1 DEF Utf8
  <2> QED BY <2>2 DEF Plainly
<1>2. Shortly(s, c) => Len(s) = 2
  BY DEF Shortly
<1>3. Len(Literal!LowerHex(s)) = Len(s)
  BY Lowered
<1>4. c \in Int /\ 0 <= c /\ c <= 1114111
  BY ScalarIsBounded DEF Bounded
<1>5. AsUnit(s, c) => Len(s) = 6
  <2> SUFFICES ASSUME AsUnit(s, c) PROVE Len(s) = 6
    OBVIOUS
  <2>1. UnitSized(c)
    BY <1>4 DEF AsUnit, UnitSized
  <2>2. Len(Literal!U(c)) = 6
    BY <2>1, UnitLength
  <2>3. Literal!LowerHex(s) = Literal!U(c)
    BY DEF AsUnit
  <2> QED BY <1>3, <2>2, <2>3
<1>6. AsPair(s, c) => Len(s) = 12
  <2> SUFFICES ASSUME AsPair(s, c) PROVE Len(s) = 12
    OBVIOUS
  <2>1. 65536 <= c
    BY <1>4 DEF AsPair
  <2>2. Len(Literal!Pair(c)) = 12
    BY <1>4, <2>1, PairLength
  <2>3. Literal!LowerHex(s) = Literal!Pair(c)
    BY DEF AsPair
  <2> QED BY <1>3, <2>2, <2>3
<1> QED BY <1>1, <1>2, <1>5, <1>6

(* Two code units in one character. *)
Joint(u, l) == 65536 + (u % 1024) * 1024 + (l % 1024)
UpperOf(c) == 55296 + (c - 65536) \div 1024
LowerOf(c) == 56320 + (c % 1024)
UnitOrNone(u) == u \in Int /\ -1 <= u /\ u <= 65535
Beyond(c) == c \in Int /\ 65536 <= c /\ c <= 1114111
InHigh(u) == 55296 <= u /\ u <= 56319
InLow(u) == 56320 <= u /\ u <= 57343

TenBits(x) == x \in Int /\ 0 <= x /\ x <= 1023
Composed(x, y) == 65536 + x * 1024 + y

LEMMA ComposedParts ==
    ASSUME NEW x, NEW y, TenBits(x), TenBits(y)
    PROVE  LET c == Composed(x, y)
           IN  Beyond(c) /\ UpperOf(c) = 55296 + x /\ LowerOf(c) = 56320 + y
<1> DEFINE c == 65536 + x * 1024 + y
<1>0. x \in Int /\ 0 <= x /\ x <= 1023 /\ y \in Int /\ 0 <= y /\ y <= 1023
  BY DEF TenBits
<1>1. Beyond(c)
  BY <1>0 DEF Beyond
<1>2. (c - 65536) \div 1024 = x
  BY <1>0
<1>3. c % 1024 = y
  BY <1>0
<1> QED BY <1>1, <1>2, <1>3 DEF UpperOf, LowerOf, Composed

LEMMA JointOf ==
    ASSUME NEW u, NEW l, UnitOrNone(u), UnitOrNone(l)
    PROVE  /\ Beyond(Joint(u, l))
           /\ UpperOf(Joint(u, l)) = u <=> InHigh(u)
           /\ LowerOf(Joint(u, l)) = l <=> InLow(l)
           /\ InHigh(u) /\ InLow(l) => Joint(u, l) = 65536 + (u - 55296) * 1024 + (l - 56320)
<1> DEFINE x == u % 1024
           y == l % 1024
<1>1. TenBits(x) /\ TenBits(y)
  BY DEF UnitOrNone, TenBits
<1>2. 55296 + x = u <=> InHigh(u)
  BY DEF UnitOrNone, InHigh
<1>3. 56320 + y = l <=> InLow(l)
  BY DEF UnitOrNone, InLow
<1>4. Joint(u, l) = Composed(x, y)
  BY DEF Joint, Composed
<1> HIDE DEF x, y
<1>5. Beyond(Joint(u, l)) /\ UpperOf(Joint(u, l)) = 55296 + x /\ LowerOf(Joint(u, l)) = 56320 + y
  BY <1>1, <1>4, ComposedParts
<1>6. ASSUME InHigh(u), InLow(l) PROVE Joint(u, l) = 65536 + (u - 55296) * 1024 + (l - 56320)
  <2>1. x = u - 55296 /\ y = l - 56320
    BY <1>1, <1>2, <1>3, <1>6 DEF UnitOrNone, TenBits
  <2> QED BY <1>4, <2>1 DEF Composed
<1> QED BY <1>2, <1>3, <1>5, <1>6

LEMMA SurrogateOf ==
    ASSUME NEW u \in Int
    PROVE  (u \in Literal!HighSurrogate <=> InHigh(u)) /\ (u \in Literal!LowSurrogate <=> InLow(u))
BY High, Low DEF Between, InHigh, InLow

LEMMA BeyondIsScalar == ASSUME NEW c, Beyond(c) PROVE Literal!Scalar(c)
BY SurrogateOf DEF Beyond, Literal!Scalar, InHigh, InLow

LEMMA UnitScalar ==
    ASSUME NEW u, UnitOrNone(u)
    PROVE  Literal!Scalar(u) <=> u # -1 /\ ~InHigh(u) /\ ~InLow(u)
BY SurrogateOf DEF UnitOrNone, Literal!Scalar

LEMMA HexUnit == ASSUME BytesGiven, NEW i \in Nat PROVE UnitOrNone(Literal!Hex4(i))
BY Hex4Of DEF UnitOrNone

----------------------------------------------------------------------------
Few == {1, 2, 3, 4}

LEMMA CandidateOf ==
    ASSUME NEW i, NEW n
    PROVE  /\ n \in Few /\ bytes[i + 1] # 92 => Literal!Candidate(i, n) = Literal!CodeOf(Bite(i, n))
           /\ n = 2 /\ bytes[i + 1] = 92 /\ bytes[i + 2] \in Letters =>
                Literal!Candidate(i, n) = Literal!Simple[bytes[i + 2]]
           /\ n \in Few /\ bytes[i + 1] = 92 /\ ~(n = 2 /\ bytes[i + 2] \in Letters) =>
                Literal!Candidate(i, n) = -1
           /\ n = 6 => Literal!Candidate(i, n) = Literal!Hex4(i + 2)
           /\ n = 12 => Literal!Candidate(i, n) = Joint(Literal!Hex4(i + 2), Literal!Hex4(i + 8))
<1>1. Literal!Backslash = 92 /\ DOMAIN Literal!Simple = Letters
  BY SimpleOf DEF Literal!Backslash
<1>2. n \in 1..4 <=> n \in Few
  BY DEF Few
<1> DEFINE raw == Literal!CodeOf(Bite(i, n))
           letter == Literal!Simple[bytes[i + 2]]
           unit == Literal!Hex4(i + 2)
           joint == Joint(Literal!Hex4(i + 2), Literal!Hex4(i + 8))
           isLetter == bytes[i + 2] \in Letters
           isEscape == bytes[i + 1] = 92
<1>3. Literal!Candidate(i, n) =
        CASE n \in Few /\ ~isEscape -> raw
          [] n = 2 /\ isEscape /\ isLetter -> letter
          [] n = 6 -> unit
          [] n = 12 -> joint
          [] OTHER -> -1
  BY <1>1, <1>2 DEF Literal!Candidate, Joint, Bite
<1> HIDE DEF raw, letter, unit, joint, isLetter, isEscape
<1>4. /\ n \in Few /\ ~isEscape => Literal!Candidate(i, n) = raw
      /\ n = 2 /\ isEscape /\ isLetter => Literal!Candidate(i, n) = letter
      /\ n \in Few /\ isEscape /\ ~(n = 2 /\ isLetter) => Literal!Candidate(i, n) = -1
      /\ n = 6 => Literal!Candidate(i, n) = unit
      /\ n = 12 => Literal!Candidate(i, n) = joint
  BY <1>3 DEF Few
<1> QED BY <1>4 DEF raw, letter, unit, joint, isLetter, isEscape

LEMMA SpelledIn ==
    ASSUME NEW i, NEW n
    PROVE  n \in Literal!SpelledAt(i) <=>
             /\ n \in Few \cup {6, 12} /\ i + n <= Len(bytes)
             /\ Literal!Permitted(Literal!Candidate(i, n))
             /\ Literal!Spells(Bite(i, n), Literal!Candidate(i, n))
<1>1. Few \cup {6, 12} = {1, 2, 3, 4, 6, 12}
  BY DEF Few
<1> QED BY <1>1, Zenon DEF Literal!SpelledAt, Bite

LEMMA FewAreInt == ASSUME NEW n \in Few PROVE n \in Nat /\ 1 <= n /\ n # 6 /\ n # 12 /\ n \notin {6, 12}
BY DEF Few

LEMMA BiteFirst ==
    ASSUME BytesGiven, NEW i \in Nat, NEW n \in Nat, 1 <= n, i + n <= Len(bytes)
    PROVE  /\ Bite(i, n) \in Seq(Literal!Byte) /\ Len(Bite(i, n)) = n
           /\ Bite(i, n)[1] = bytes[i + 1] /\ IsByte(bytes[i + 1])
           /\ n >= 2 => Bite(i, n)[2] = bytes[i + 2] /\ IsByte(bytes[i + 2])
<1>1. /\ Bite(i, n) \in Seq(Literal!Byte) /\ Len(Bite(i, n)) = n
      /\ \A k \in 1..n : Bite(i, n)[k] = bytes[i + k]
  BY BiteOf
<1>2. 1 \in 1..n /\ (n >= 2 => 2 \in 1..n)
  OBVIOUS
<1>3. IsByte(bytes[i + 1]) /\ (n >= 2 => IsByte(bytes[i + 2]))
  BY ByteAt
<1> QED BY <1>1, <1>2, <1>3

(* No other way of writing has the length of a raw character. *)
LEMMA OnlyRaw ==
    ASSUME NEW s \in Seq(Literal!Byte), Len(s) \in Few, s[1] # 92, NEW c, Literal!Scalar(c)
    PROVE  Literal!Spells(s, c) <=> Plainly(s, c)
<1>1. ~AsUnit(s, c) /\ ~AsPair(s, c)
  BY Lengths, ByteIsInt, FewAreInt
<1>2. ~Shortly(s, c)
  BY DEF Shortly
<1> QED BY <1>1, <1>2, SpellsOf

(* What does not stop a run is a character by itself or begins a longer one.   *)
LEMMA RunByte ==
    ASSUME NEW b, IsByte(b), NEW c, Literal!Scalar(c), IF b <= 127 THEN c = b ELSE c >= 128
    PROVE  b \notin Literal!Stops <=> c >= 32 /\ c # 34 /\ c # 92
<1>1. c \in Int /\ b \in Int /\ 0 <= b
  BY ScalarIsBounded DEF Bounded, IsByte
<1>2. b \in Literal!Stops <=> b = 34 \/ b = 92 \/ (0 <= b /\ b <= 31)
  BY <1>1, StopOf
<1> QED BY <1>1, <1>2

LEMMA RawSpelled ==
    ASSUME NEW s \in Seq(Literal!Byte), Len(s) \in Few, s[1] # 92, IsByte(s[1])
    PROVE  LET c == Literal!CodeOf(s)
           IN  Literal!Permitted(c) /\ Literal!Spells(s, c) <=>
                 s[1] \notin Literal!Stops /\ Utf8(s) /\ ~Literal!Forbidden(c)
<1> DEFINE c == Literal!CodeOf(s)
<1>1. Literal!Permitted(c) <=> Literal!Scalar(c) /\ ~Literal!Forbidden(c)
  BY PermittedOf
<1>2. Literal!Scalar(c) => (Literal!Spells(s, c) <=> Plainly(s, c))
  BY OnlyRaw
<1>3. Utf8(s) => /\ s = Literal!Encode(c) /\ Literal!Scalar(c)
                 /\ IF s[1] <= 127 THEN c = s[1] ELSE c >= 128
  BY WellFormed
<1> HIDE DEF c
<1>4. ASSUME Utf8(s) PROVE s[1] \notin Literal!Stops <=> Plainly(s, c)
  BY <1>3, <1>4, RunByte DEF Plainly
<1>5. ASSUME Literal!Scalar(c), Plainly(s, c) PROVE Utf8(s)
  BY <1>5, EncodedIsWellFormed DEF Plainly
<1>6. Literal!Permitted(c) /\ Literal!Spells(s, c) <=>
        s[1] \notin Literal!Stops /\ Utf8(s) /\ ~Literal!Forbidden(c)
  BY <1>1, <1>2, <1>3, <1>4, <1>5
<1> QED BY <1>6 DEF c

SizedAs(i, n) == i \in Nat /\ n \in Nat /\ 1 <= n /\ i + n <= Len(bytes)

LEMMA BiteFits ==
    ASSUME BytesGiven, NEW i, NEW n, SizedAs(i, n)
    PROVE  Bite(i, n) \in Seq(Literal!Byte) /\ Len(Bite(i, n)) = n
BY BiteFirst DEF SizedAs

LEMMA OnlyEscaped ==
    ASSUME NEW s \in Seq(Literal!Byte), Len(s) \notin Few, NEW c, Literal!Scalar(c)
    PROVE  Literal!Spells(s, c) <=> AsUnit(s, c) \/ AsPair(s, c)
<1>1. Few = {1, 2, 3, 4}
  BY DEF Few
<1>2. ~Plainly(s, c) /\ ~Shortly(s, c)
  BY <1>1, Lengths, ByteIsInt
<1> QED BY <1>2, SpellsOf

(* Six bytes spell a character only as an escape, and so do twelve.           *)
LEMMA SixSpelled ==
    ASSUME BytesGiven, NEW i \in Nat, i + 6 <= Len(bytes), NEW u, UnitOrNone(u), Literal!Scalar(u)
    PROVE  Literal!Spells(Bite(i, 6), u) <=> UnitAt(i, u)
<1> DEFINE s == Bite(i, 6)
<1>1. s \in Seq(Literal!Byte) /\ Len(s) \notin Few
  <2> DEFINE n == 6
  <2>1. SizedAs(i, n) /\ n \notin Few
    BY DEF SizedAs, Few
  <2> HIDE DEF n
  <2>2. Bite(i, n) \in Seq(Literal!Byte) /\ Len(Bite(i, n)) = n
    BY <2>1, BiteFits
  <2> QED BY <2>1, <2>2 DEF n
<1>2. u \in Int /\ 0 <= u /\ u <= 65535
  BY ScalarIsBounded DEF Bounded, UnitOrNone
<1>3. Literal!LowerHex(s) = Literal!U(u) <=> UnitAt(i, u)
  BY <1>2, UnitSpelled
<1> HIDE DEF s
<1>4. Literal!Spells(s, u) <=> AsUnit(s, u) \/ AsPair(s, u)
  BY <1>1, OnlyEscaped
<1>5. ~AsPair(s, u) /\ (AsUnit(s, u) <=> UnitAt(i, u))
  BY <1>2, <1>3 DEF AsPair, AsUnit
<1>6. Literal!Spells(s, u) <=> UnitAt(i, u)
  BY <1>4, <1>5
<1> QED BY <1>6 DEF s

LEMMA TwelveSpelled ==
    ASSUME BytesGiven, NEW i \in Nat, i + 12 <= Len(bytes), NEW c, Beyond(c)
    PROVE  Literal!Spells(Bite(i, 12), c) <=> UnitAt(i, UpperOf(c)) /\ UnitAt(i + 6, LowerOf(c))
<1> DEFINE s == Bite(i, 12)
<1>1. s \in Seq(Literal!Byte) /\ Len(s) \notin Few
  <2> DEFINE n == 12
  <2>1. SizedAs(i, n) /\ n \notin Few
    BY DEF SizedAs, Few
  <2> HIDE DEF n
  <2>2. Bite(i, n) \in Seq(Literal!Byte) /\ Len(Bite(i, n)) = n
    BY <2>1, BiteFits
  <2> QED BY <2>1, <2>2 DEF n
<1>2. c \in Int /\ 65536 <= c /\ c <= 1114111
  BY DEF Beyond
<1>3. Literal!LowerHex(s) = Literal!Pair(c) <=> UnitAt(i, UpperOf(c)) /\ UnitAt(i + 6, LowerOf(c))
  BY <1>2, PairSpelled DEF UpperOf, LowerOf
<1> HIDE DEF s
<1>4. Literal!Spells(s, c) <=> AsUnit(s, c) \/ AsPair(s, c)
  BY <1>1, OnlyEscaped, BeyondIsScalar
<1>5. ~AsUnit(s, c)
  BY <1>2 DEF AsUnit
<1>6. AsPair(s, c) <=> UnitAt(i, UpperOf(c)) /\ UnitAt(i + 6, LowerOf(c))
  BY <1>2, <1>3 DEF AsPair
<1>7. Literal!Spells(s, c) <=> UnitAt(i, UpperOf(c)) /\ UnitAt(i + 6, LowerOf(c))
  BY <1>4, <1>5, <1>6
<1> QED BY <1>7 DEF s

(* What the bytes from offset i on spell, by the byte they begin with. *)
Escape(i) == bytes[i + 1] = 92 /\ bytes[i + 2] = 117
UpperUnit(i) == Literal!Hex4(i + 2)
LowerUnit(i) == Literal!Hex4(i + 8)
ReadsRaw(i, n) ==
    /\ n \in Few /\ i + n <= Len(bytes)
    /\ bytes[i + 1] \notin Literal!Stops /\ Utf8(Bite(i, n))
    /\ ~Literal!Forbidden(Literal!CodeOf(Bite(i, n)))
ReadsLetter(i, n) ==
    /\ n = 2 /\ i + n <= Len(bytes)
    /\ bytes[i + 1] = 92 /\ bytes[i + 2] \in Letters
ReadsUnit(i, n) ==
    /\ n = 6 /\ i + n <= Len(bytes)
    /\ Escape(i)
    /\ UpperUnit(i) # -1 /\ ~InHigh(UpperUnit(i)) /\ ~InLow(UpperUnit(i))
    /\ ~Literal!Forbidden(UpperUnit(i))
ReadsPair(i, n) ==
    /\ n = 12 /\ i + n <= Len(bytes)
    /\ Escape(i) /\ Escape(i + 6)
    /\ InHigh(UpperUnit(i)) /\ InLow(LowerUnit(i))
    /\ ~Literal!Forbidden(Joint(UpperUnit(i), LowerUnit(i)))
Reads(i, n) == ReadsRaw(i, n) \/ ReadsLetter(i, n) \/ ReadsUnit(i, n) \/ ReadsPair(i, n)

LEMMA ShapeRaw ==
    ASSUME BytesGiven, NEW i \in Nat, NEW n \in Few, bytes[i + 1] # 92
    PROVE  n \in Literal!SpelledAt(i) <=> ReadsRaw(i, n)
<1> SUFFICES ASSUME i + n <= Len(bytes)
             PROVE  n \in Literal!SpelledAt(i) <=> ReadsRaw(i, n)
  BY SpelledIn DEF ReadsRaw
<1> DEFINE s == Bite(i, n)
<1>1. s \in Seq(Literal!Byte) /\ Len(s) \in Few /\ s[1] = bytes[i + 1] /\ IsByte(s[1])
  BY BiteFirst, FewAreInt
<1>2. Literal!Candidate(i, n) = Literal!CodeOf(s)
  BY CandidateOf
<1> HIDE DEF s
<1>3. Literal!Permitted(Literal!CodeOf(s)) /\ Literal!Spells(s, Literal!CodeOf(s)) <=>
        s[1] \notin Literal!Stops /\ Utf8(s) /\ ~Literal!Forbidden(Literal!CodeOf(s))
  BY <1>1, RawSpelled
<1>4. n \in Literal!SpelledAt(i) <=>
        Literal!Permitted(Literal!CodeOf(s)) /\ Literal!Spells(s, Literal!CodeOf(s))
  BY <1>2, SpelledIn DEF s
<1> QED BY <1>1, <1>3, <1>4 DEF ReadsRaw, s

LEMMA LetterIsPermitted == ASSUME NEW b \in Letters PROVE Literal!Permitted(Literal!Simple[b])
<1> DEFINE c == Literal!Simple[b]
<1>1. c \in Nat /\ c <= 92
  BY SimpleOf
<1> HIDE DEF c
<1>2. Literal!Scalar(c)
  BY <1>1, High, Low DEF Literal!Scalar, Between
<1>3. c % 65536 = c
  BY <1>1
<1>4. c \notin Literal!ArabicNoncharacter
  BY <1>1 DEF Literal!ArabicNoncharacter
<1>5. ~Literal!Forbidden(c)
  BY <1>1, <1>3, <1>4 DEF Literal!Forbidden, Literal!IsNoncharacter
<1> QED BY <1>2, <1>5, PermittedOf DEF c

LEMMA MinusOneIsNone == ~Literal!Permitted(-1)
BY DEF Literal!Permitted, Literal!Scalar

LEMMA ShapeLetter ==
    ASSUME BytesGiven, NEW i \in Nat, NEW n \in Few, bytes[i + 1] = 92
    PROVE  n \in Literal!SpelledAt(i) <=> ReadsLetter(i, n)
<1>1. CASE n = 2 /\ bytes[i + 2] \in Letters /\ i + n <= Len(bytes)
  <2> DEFINE s == Bite(i, n)
             c == Literal!Simple[bytes[i + 2]]
  <2>1. Len(s) = 2 /\ s[1] = 92 /\ s[2] = bytes[i + 2]
    <3>1. n \in Nat /\ 1 <= n /\ n >= 2 /\ i + n <= Len(bytes)
      BY <1>1
    <3>2. Len(Bite(i, n)) = n /\ Bite(i, n)[1] = bytes[i + 1] /\ Bite(i, n)[2] = bytes[i + 2]
      BY <3>1, BiteFirst
    <3> QED BY <1>1, <3>2
  <2>2. Literal!Candidate(i, n) = c
    BY <1>1, CandidateOf
  <2>3. Literal!Permitted(c)
    BY <1>1, LetterIsPermitted
  <2> HIDE DEF s
  <2>4. Shortly(s, c)
    BY <1>1, <2>1 DEF Shortly
  <2> HIDE DEF c
  <2>5. Literal!Spells(s, c)
    BY <2>4, SpellsOf
  <2>6. n \in Literal!SpelledAt(i)
    BY <1>1, <2>2, <2>3, <2>5, SpelledIn DEF s
  <2> QED BY <1>1, <2>6 DEF ReadsLetter
<1>2. CASE ~(n = 2 /\ bytes[i + 2] \in Letters)
  <2>1. Literal!Candidate(i, n) = -1
    BY <1>2, CandidateOf
  <2> QED BY <1>2, <2>1, MinusOneIsNone, SpelledIn DEF ReadsLetter
<1>3. CASE ~(i + n <= Len(bytes))
  BY <1>3, SpelledIn DEF ReadsLetter
<1> QED BY <1>1, <1>2, <1>3

LEMMA ShapeUnit ==
    ASSUME BytesGiven, NEW i \in Nat, NEW six, six = 6
    PROVE  six \in Literal!SpelledAt(i) <=> ReadsUnit(i, six)
<1> SUFFICES ASSUME i + six <= Len(bytes)
             PROVE  six \in Literal!SpelledAt(i) <=> ReadsUnit(i, six)
  BY SpelledIn DEF ReadsUnit
<1> DEFINE u == UpperUnit(i)
<1>1. Literal!Candidate(i, six) = u
  BY CandidateOf DEF UpperUnit
<1>2. UnitOrNone(u)
  BY HexUnit DEF UpperUnit
<1>3. UnitAt(i, u) <=> Escape(i)
  BY DEF UnitAt, Escape, UpperUnit
<1>4. i + 6 <= Len(bytes)
  OBVIOUS
<1> HIDE DEF u
<1>5. Literal!Scalar(u) => (Literal!Spells(Bite(i, 6), u) <=> UnitAt(i, u))
  BY <1>2, <1>4, SixSpelled
<1>6. Literal!Scalar(u) <=> u # -1 /\ ~InHigh(u) /\ ~InLow(u)
  BY <1>2, UnitScalar
<1>7. six \in Literal!SpelledAt(i) <=> Literal!Permitted(u) /\ Literal!Spells(Bite(i, six), u)
  BY <1>1, SpelledIn
<1>8. six \in Literal!SpelledAt(i) <=> /\ u # -1 /\ ~InHigh(u) /\ ~InLow(u)
                                       /\ ~Literal!Forbidden(u) /\ Escape(i)
  BY <1>3, <1>5, <1>6, <1>7, PermittedOf
<1> QED BY <1>8 DEF ReadsUnit, u

LEMMA ShapePair ==
    ASSUME BytesGiven, NEW i \in Nat, NEW twelve, twelve = 12
    PROVE  twelve \in Literal!SpelledAt(i) <=> ReadsPair(i, twelve)
<1> SUFFICES ASSUME i + twelve <= Len(bytes)
             PROVE  twelve \in Literal!SpelledAt(i) <=> ReadsPair(i, twelve)
  BY SpelledIn DEF ReadsPair
<1> DEFINE u == UpperUnit(i)
           l == LowerUnit(i)
           c == Joint(u, l)
<1>1. Literal!Candidate(i, twelve) = c
  BY CandidateOf DEF UpperUnit, LowerUnit
<1>2. UnitOrNone(u) /\ UnitOrNone(l)
  BY HexUnit DEF UpperUnit, LowerUnit
<1>3. /\ UnitAt(i, UpperOf(c)) <=> Escape(i) /\ UpperOf(c) = u
      /\ UnitAt(i + 6, LowerOf(c)) <=> Escape(i + 6) /\ LowerOf(c) = l
  <2>1. (i + 6) + 2 = i + 8
    OBVIOUS
  <2> QED BY <2>1 DEF UnitAt, Escape, UpperUnit, LowerUnit
<1>4. i + 12 <= Len(bytes)
  OBVIOUS
<1> HIDE DEF u, l
<1>5. Beyond(c) /\ (UpperOf(c) = u <=> InHigh(u)) /\ (LowerOf(c) = l <=> InLow(l))
  BY <1>2, JointOf
<1> HIDE DEF c
<1>6. Literal!Spells(Bite(i, 12), c) <=> UnitAt(i, UpperOf(c)) /\ UnitAt(i + 6, LowerOf(c))
  BY <1>4, <1>5, TwelveSpelled
<1>7. twelve \in Literal!SpelledAt(i) <=> Literal!Permitted(c) /\ Literal!Spells(Bite(i, twelve), c)
  BY <1>1, SpelledIn
<1>8. Literal!Permitted(c) <=> ~Literal!Forbidden(c)
  BY <1>5, BeyondIsScalar, PermittedOf
<1>9. twelve \in Literal!SpelledAt(i) <=> /\ Escape(i) /\ Escape(i + 6) /\ InHigh(u) /\ InLow(l)
                                          /\ ~Literal!Forbidden(c)
  BY <1>3, <1>5, <1>6, <1>7, <1>8
<1> QED BY <1>9 DEF ReadsPair, u, l, c

LEMMA Shape ==
    ASSUME BytesGiven, NEW i \in Nat, NEW n
    PROVE  n \in Literal!SpelledAt(i) <=> Reads(i, n)
<1>1. CASE n \in Few
  <2>1. ~ReadsUnit(i, n) /\ ~ReadsPair(i, n)
    BY <1>1, FewAreInt DEF ReadsUnit, ReadsPair
  <2>2. bytes[i + 1] # 92 => ~ReadsLetter(i, n)
    BY DEF ReadsLetter
  <2>3. bytes[i + 1] = 92 => ~ReadsRaw(i, n)
    BY StopOf DEF ReadsRaw
  <2> QED BY <1>1, <2>1, <2>2, <2>3, ShapeRaw, ShapeLetter DEF Reads
<1>2. CASE n = 6
  <2>1. n \notin Few /\ n # 2 /\ n # 12
    BY <1>2 DEF Few
  <2> QED BY <1>2, <2>1, ShapeUnit DEF Reads, ReadsRaw, ReadsLetter, ReadsPair
<1>3. CASE n = 12
  <2>1. n \notin Few /\ n # 2 /\ n # 6
    BY <1>3 DEF Few
  <2> QED BY <1>3, <2>1, ShapePair DEF Reads, ReadsRaw, ReadsLetter, ReadsUnit
<1>4. CASE n \notin Few \cup {6, 12}
  <2>1. n \notin Few /\ n # 2 /\ n # 6 /\ n # 12
    BY <1>4 DEF Few
  <2> QED BY <1>4, <2>1, SpelledIn DEF Reads, ReadsRaw, ReadsLetter, ReadsUnit, ReadsPair
<1> QED BY <1>1, <1>2, <1>3, <1>4

(* At most one number of bytes from an offset on spells a character.          *)
LEMMA OneReading ==
    ASSUME BytesGiven, NEW i \in Nat, NEW n, NEW m, Reads(i, n), Reads(i, m)
    PROVE  m = n
<1>1. 92 \in Literal!Stops
  BY StopOf
<1>2. 117 \notin Letters
  BY DEF Letters
<1>3. ASSUME NEW k, ReadsRaw(i, k) PROVE k = Literal!Width(bytes[i + 1])
  <2>1. Len(Bite(i, k)) = k /\ Bite(i, k)[1] = bytes[i + 1] /\ k \in Few
    BY <1>3, BiteFirst, FewAreInt DEF ReadsRaw
  <2> DEFINE s == Bite(i, k)
  <2>2. Utf8(s) /\ Len(s) = k /\ s[1] = bytes[i + 1]
    BY <1>3, <2>1 DEF ReadsRaw
  <2> HIDE DEF s
  <2>3. Len(s) = Literal!Width(s[1])
    BY <2>2, WidthOf DEF Utf8, Between
  <2> QED BY <2>2, <2>3
<1>4. \A u : ~(InHigh(u) /\ ~InHigh(u))
  OBVIOUS
<1>5. CASE bytes[i + 1] # 92
  <2>1. ReadsRaw(i, n) /\ ReadsRaw(i, m)
    BY <1>5 DEF Reads, ReadsLetter, ReadsUnit, ReadsPair, Escape
  <2> QED BY <1>3, <2>1
<1>6. CASE bytes[i + 1] = 92 /\ bytes[i + 2] # 117
  <2>1. ReadsLetter(i, n) /\ ReadsLetter(i, m)
    BY <1>1, <1>6 DEF Reads, ReadsRaw, ReadsUnit, ReadsPair, Escape
  <2> QED BY <2>1 DEF ReadsLetter
<1>7. CASE bytes[i + 1] = 92 /\ bytes[i + 2] = 117
  <2>1. (ReadsUnit(i, n) \/ ReadsPair(i, n)) /\ (ReadsUnit(i, m) \/ ReadsPair(i, m))
    BY <1>1, <1>2, <1>7 DEF Reads, ReadsRaw, ReadsLetter
  <2>2. InHigh(UpperUnit(i)) => n = 12 /\ m = 12
    BY <2>1 DEF ReadsUnit, ReadsPair
  <2>3. ~InHigh(UpperUnit(i)) => n = 6 /\ m = 6
    BY <2>1 DEF ReadsUnit, ReadsPair
  <2> QED BY <2>2, <2>3
<1> QED BY <1>5, <1>6, <1>7

LEMMA ReadsWithin ==
    ASSUME NEW i \in Nat, NEW n, Reads(i, n)
    PROVE  n \in Nat /\ 1 <= n /\ i + n <= Len(bytes)
BY FewAreInt DEF Reads, ReadsRaw, ReadsLetter, ReadsUnit, ReadsPair

(* The recursive function of Spelled, by the equation it solves: the value at  *)
(* an offset depends on those at later ones.                                  *)
SpelledBody(f, i) ==
    IF Literal!SpelledAt(i) = {} THEN [codes |-> <<>>, cuts |-> {i}]
    ELSE LET n == CHOOSE n \in Literal!SpelledAt(i) : TRUE
         IN  [codes |-> <<Literal!Candidate(i, n)>> \o f[i + n].codes,
              cuts  |-> {i} \cup f[i + n].cuts]
SpelledFrom == CHOOSE f : f = [i \in 1..Len(bytes) |-> SpelledBody(f, i)]

LEMMA SpelledIs == Literal!Spelled = SpelledFrom[1]
BY DEF Literal!Spelled, SpelledFrom, SpelledBody

LEMMA ReadingOf ==
    ASSUME BytesGiven, NEW i \in Nat
    PROVE  /\ (\A n : ~Reads(i, n)) => Literal!SpelledAt(i) = {}
           /\ \A n : Reads(i, n) => /\ Literal!SpelledAt(i) # {}
                                    /\ (CHOOSE m \in Literal!SpelledAt(i) : TRUE) = n
<1>1. (\A n : ~Reads(i, n)) => Literal!SpelledAt(i) = {}
  BY Shape
<1>2. ASSUME NEW n, Reads(i, n)
      PROVE  Literal!SpelledAt(i) # {} /\ (CHOOSE m \in Literal!SpelledAt(i) : TRUE) = n
  <2>1. n \in Literal!SpelledAt(i)
    BY <1>2, Shape
  <2>2. (CHOOSE m \in Literal!SpelledAt(i) : TRUE) \in Literal!SpelledAt(i)
    BY <2>1
  <2> DEFINE m == CHOOSE m \in Literal!SpelledAt(i) : TRUE
  <2>3. Reads(i, m)
    BY <2>2, Shape
  <2> HIDE DEF m
  <2>4. m = n
    BY <1>2, <2>3, OneReading
  <2> QED BY <2>1, <2>4 DEF m
<1> QED BY <1>1, <1>2

LEMMA SpelledBodyOf ==
    ASSUME BytesGiven, NEW f, NEW i \in Nat
    PROVE  /\ (\A n : ~Reads(i, n)) => SpelledBody(f, i) = [codes |-> <<>>, cuts |-> {i}]
           /\ \A n : Reads(i, n) =>
                SpelledBody(f, i) = [codes |-> <<Literal!Candidate(i, n)>> \o f[i + n].codes,
                                     cuts  |-> {i} \cup f[i + n].cuts]
BY ReadingOf, Zenon DEF SpelledBody

LEMMA SpelledBodyLocal ==
    ASSUME BytesGiven, NEW f, NEW g, NEW i \in 1..Len(bytes),
           \A j \in 1..Len(bytes) : j > i => g[j] = f[j]
    PROVE  SpelledBody(g, i) = SpelledBody(f, i)
<1>1. i \in Nat /\ Len(bytes) \in Nat
  BY ByteAt
<1>2. CASE \A n : ~Reads(i, n)
  BY <1>1, <1>2, SpelledBodyOf
<1>3. ASSUME NEW n, Reads(i, n) PROVE SpelledBody(g, i) = SpelledBody(f, i)
  <2>1. i + n \in 1..Len(bytes) /\ i + n > i
    BY <1>1, <1>3, ReadsWithin
  <2>2. g[i + n] = f[i + n]
    BY <2>1
  <2>3. SpelledBody(f, i) = [codes |-> <<Literal!Candidate(i, n)>> \o f[i + n].codes,
                             cuts  |-> {i} \cup f[i + n].cuts]
    BY <1>1, <1>3, SpelledBodyOf
  <2>4. SpelledBody(g, i) = [codes |-> <<Literal!Candidate(i, n)>> \o g[i + n].codes,
                             cuts  |-> {i} \cup g[i + n].cuts]
    BY <1>1, <1>3, SpelledBodyOf
  <2> QED BY <2>2, <2>3, <2>4
<1> QED BY <1>2, <1>3

SolvesSpelled(f, k) ==
    /\ f = [i \in 1..Len(bytes) |-> f[i]]
    /\ \A i \in 1..Len(bytes) : Len(bytes) - k < i => f[i] = SpelledBody(f, i)

LEMMA SpelledSolved == ASSUME BytesGiven PROVE \E f : SolvesSpelled(f, Len(bytes))
<1> DEFINE T == {k \in Nat : k > Len(bytes) \/ \E f : SolvesSpelled(f, k)}
<1>1. Len(bytes) \in Nat
  BY ByteAt
<1>2. 0 \in T
  <2> DEFINE f == [i \in 1..Len(bytes) |-> 0]
  <2>1. f = [i \in 1..Len(bytes) |-> f[i]]
    OBVIOUS
  <2>2. \A i \in 1..Len(bytes) : ~(Len(bytes) - 0 < i)
    BY <1>1
  <2> HIDE DEF f
  <2>3. SolvesSpelled(f, 0)
    BY <2>1, <2>2, Zenon DEF SolvesSpelled
  <2> QED BY <2>3
<1>3. ASSUME NEW k \in Nat, k \in T PROVE k + 1 \in T
  <2> SUFFICES ASSUME k + 1 <= Len(bytes) PROVE \E g : SolvesSpelled(g, k + 1)
    BY <1>1
  <2>1. PICK f : SolvesSpelled(f, k)
    BY <1>1, <1>3
  <2> DEFINE e == Len(bytes) - k
             g == [i \in 1..Len(bytes) |-> IF i = e THEN SpelledBody(f, i) ELSE f[i]]
  <2>2. e \in 1..Len(bytes) /\ e - 1 = Len(bytes) - (k + 1) /\ e \in Int
    BY <1>1
  <2>3. /\ g = [i \in 1..Len(bytes) |-> g[i]]
        /\ \A i \in 1..Len(bytes) : g[i] = IF i = e THEN SpelledBody(f, i) ELSE f[i]
    OBVIOUS
  <2>4. \A i \in 1..Len(bytes) : e < i => f[i] = SpelledBody(f, i)
    BY <2>1, Zenon DEF SolvesSpelled
  <2> HIDE DEF e, g
  <2>5. ASSUME NEW i \in 1..Len(bytes), e - 1 < i PROVE g[i] = SpelledBody(g, i)
    <3>1. i >= e
      BY <2>2, <2>5
    <3>2. \A j \in 1..Len(bytes) : j > i => g[j] = f[j]
      BY <2>2, <2>3, <3>1
    <3>3. SpelledBody(g, i) = SpelledBody(f, i)
      BY <3>2, SpelledBodyLocal
    <3>4. g[i] = SpelledBody(f, i)
      BY <2>2, <2>3, <2>4, <3>1
    <3> QED BY <3>3, <3>4
  <2>6. SolvesSpelled(g, k + 1)
    BY <2>2, <2>3, <2>5 DEF SolvesSpelled
  <2> QED BY <2>6
<1>4. Len(bytes) \in T
  <2> HIDE DEF T
  <2> QED BY <1>1, <1>2, <1>3, Induction
<1> QED BY <1>1, <1>4

LEMMA SpelledEquation ==
    ASSUME BytesGiven
    PROVE  \A i \in 1..Len(bytes) : SpelledFrom[i] = SpelledBody(SpelledFrom, i)
<1>1. PICK f : SolvesSpelled(f, Len(bytes))
  BY SpelledSolved
<1>2. Len(bytes) \in Nat
  BY ByteAt
<1>3. \A i \in 1..Len(bytes) : Len(bytes) - Len(bytes) < i
  BY <1>2
<1>4. f = [i \in 1..Len(bytes) |-> f[i]] /\ \A i \in 1..Len(bytes) : f[i] = SpelledBody(f, i)
  BY <1>1, <1>3, Zenon DEF SolvesSpelled
<1>5. f = [i \in 1..Len(bytes) |-> SpelledBody(f, i)]
  BY <1>4
<1>6. SpelledFrom = [i \in 1..Len(bytes) |-> SpelledBody(SpelledFrom, i)]
  BY <1>5, Zenon DEF SpelledFrom
<1> QED BY <1>6, Zenon

(* The same for the recursive function of FromUtf8. *)
ChunkBody(chunk, f, i) ==
    LET n == Literal!Width(chunk[i])
        c == SubSeq(chunk, i, i + n - 1)
    IN  IF i > Len(chunk) THEN [ok |-> TRUE, chars |-> <<>>]
        ELSE IF n = 0 \/ i + n > Len(chunk) + 1 \/ ~Literal!IsUtf8Char(c)
        THEN [ok |-> FALSE, chars |-> <<>>]
        ELSE [f[i + n] EXCEPT !.chars = <<Literal!CodeOf(c)>> \o @]
ChunkFrom(chunk) == CHOOSE f : f = [i \in 1..(Len(chunk) + 1) |-> ChunkBody(chunk, f, i)]

LEMMA ChunkIs == ASSUME NEW chunk PROVE Literal!FromUtf8(chunk) = ChunkFrom(chunk)[1]
BY DEF Literal!FromUtf8, ChunkFrom, ChunkBody

(* n bytes from place i of the chunk on are a character in UTF-8. *)
ChunkReads(chunk, i, n) ==
    /\ i <= Len(chunk) /\ n = Literal!Width(chunk[i]) /\ n # 0 /\ i + n <= Len(chunk) + 1
    /\ Literal!IsUtf8Char(SubSeq(chunk, i, i + n - 1))

LEMMA WidthIsNat == ASSUME NEW b PROVE Literal!Width(b) \in Nat
BY DEF Literal!Width

LEMMA ChunkBodyOf ==
    ASSUME NEW chunk, Len(chunk) \in Nat, NEW f, NEW i \in 1..(Len(chunk) + 1)
    PROVE  /\ i > Len(chunk) => ChunkBody(chunk, f, i) = [ok |-> TRUE, chars |-> <<>>]
           /\ i <= Len(chunk) /\ (\A n : ~ChunkReads(chunk, i, n)) =>
                ChunkBody(chunk, f, i) = [ok |-> FALSE, chars |-> <<>>]
           /\ \A n : ChunkReads(chunk, i, n) =>
                ChunkBody(chunk, f, i) =
                  [f[i + n] EXCEPT !.chars = <<Literal!CodeOf(SubSeq(chunk, i, i + n - 1))>> \o @]
<1> DEFINE n == Literal!Width(chunk[i])
           c == SubSeq(chunk, i, i + n - 1)
           more == [f[i + n] EXCEPT !.chars = <<Literal!CodeOf(c)>> \o @]
           none == [ok |-> FALSE, chars |-> <<>>]
           done == [ok |-> TRUE, chars |-> <<>>]
<1>1. ChunkBody(chunk, f, i) = IF i > Len(chunk) THEN done
                               ELSE IF n = 0 \/ i + n > Len(chunk) + 1 \/ ~Literal!IsUtf8Char(c)
                               THEN none ELSE more
  BY Zenon DEF ChunkBody
<1>2. n \in Nat
  BY WidthIsNat
<1>3. \A m : ChunkReads(chunk, i, m) <=> m = n /\ i <= Len(chunk) /\ n # 0 /\ i + n <= Len(chunk) + 1
                                        /\ Literal!IsUtf8Char(c)
  BY Zenon DEF ChunkReads
<1>4. \A m : ChunkReads(chunk, i, m) => m = n
  BY <1>3
<1> HIDE DEF n, c, more, none, done
<1>5. /\ i > Len(chunk) => ChunkBody(chunk, f, i) = done
      /\ i <= Len(chunk) /\ (\A m : ~ChunkReads(chunk, i, m)) => ChunkBody(chunk, f, i) = none
      /\ ChunkReads(chunk, i, n) => ChunkBody(chunk, f, i) = more
  BY <1>1, <1>2, <1>3
<1> QED BY <1>4, <1>5, Zenon DEF more, none, done, c

LEMMA ChunkBodyLocal ==
    ASSUME NEW chunk, Len(chunk) \in Nat, NEW f, NEW g, NEW i \in 1..(Len(chunk) + 1),
           \A j \in 1..(Len(chunk) + 1) : j > i => g[j] = f[j]
    PROVE  ChunkBody(chunk, g, i) = ChunkBody(chunk, f, i)
<1>1. CASE i > Len(chunk)
  <2>1. ChunkBody(chunk, f, i) = [ok |-> TRUE, chars |-> <<>>]
    BY <1>1, ChunkBodyOf
  <2>2. ChunkBody(chunk, g, i) = [ok |-> TRUE, chars |-> <<>>]
    BY <1>1, ChunkBodyOf
  <2> QED BY <2>1, <2>2
<1>2. CASE i <= Len(chunk) /\ \A n : ~ChunkReads(chunk, i, n)
  BY <1>2, ChunkBodyOf
<1>3. ASSUME NEW n, ChunkReads(chunk, i, n) PROVE ChunkBody(chunk, g, i) = ChunkBody(chunk, f, i)
  <2>1. n \in Nat /\ i + n \in 1..(Len(chunk) + 1) /\ i + n > i
    BY <1>3, WidthIsNat DEF ChunkReads
  <2>2. g[i + n] = f[i + n]
    BY <2>1
  <2>3. ChunkBody(chunk, f, i) =
          [f[i + n] EXCEPT !.chars = <<Literal!CodeOf(SubSeq(chunk, i, i + n - 1))>> \o @]
    BY <1>3, ChunkBodyOf
  <2>4. ChunkBody(chunk, g, i) =
          [g[i + n] EXCEPT !.chars = <<Literal!CodeOf(SubSeq(chunk, i, i + n - 1))>> \o @]
    BY <1>3, ChunkBodyOf
  <2> QED BY <2>2, <2>3, <2>4, Zenon
<1> QED BY <1>1, <1>2, <1>3

SolvesChunk(chunk, f, k) ==
    /\ f = [i \in 1..(Len(chunk) + 1) |-> f[i]]
    /\ \A i \in 1..(Len(chunk) + 1) : (Len(chunk) + 1) - k < i => f[i] = ChunkBody(chunk, f, i)

LEMMA ChunkSolved ==
    ASSUME NEW chunk, Len(chunk) \in Nat
    PROVE  \E f : SolvesChunk(chunk, f, Len(chunk) + 1)
<1> DEFINE L == Len(chunk) + 1
           T == {k \in Nat : k > L \/ \E f : SolvesChunk(chunk, f, k)}
<1>1. L \in Nat
  OBVIOUS
<1>2. 0 \in T
  <2> DEFINE f == [i \in 1..L |-> 0]
  <2>1. f = [i \in 1..L |-> f[i]]
    OBVIOUS
  <2>2. \A i \in 1..L : ~(L - 0 < i)
    BY <1>1
  <2> HIDE DEF f
  <2>3. SolvesChunk(chunk, f, 0)
    BY <2>1, <2>2, Zenon DEF SolvesChunk
  <2> QED BY <2>3
<1>3. ASSUME NEW k \in Nat, k \in T PROVE k + 1 \in T
  <2> SUFFICES ASSUME k + 1 <= L PROVE \E g : SolvesChunk(chunk, g, k + 1)
    BY <1>1
  <2>1. PICK f : SolvesChunk(chunk, f, k)
    BY <1>1, <1>3
  <2> DEFINE e == L - k
             g == [i \in 1..L |-> IF i = e THEN ChunkBody(chunk, f, i) ELSE f[i]]
  <2>2. e \in 1..L /\ e - 1 = L - (k + 1) /\ e \in Int
    BY <1>1
  <2>3. /\ g = [i \in 1..L |-> g[i]]
        /\ \A i \in 1..L : g[i] = IF i = e THEN ChunkBody(chunk, f, i) ELSE f[i]
    OBVIOUS
  <2>4. \A i \in 1..L : e < i => f[i] = ChunkBody(chunk, f, i)
    BY <2>1, Zenon DEF SolvesChunk
  <2> HIDE DEF e, g
  <2>5. ASSUME NEW i \in 1..L, e - 1 < i PROVE g[i] = ChunkBody(chunk, g, i)
    <3>1. i >= e
      BY <2>2, <2>5
    <3>2. \A j \in 1..L : j > i => g[j] = f[j]
      BY <2>2, <2>3, <3>1
    <3>3. ChunkBody(chunk, g, i) = ChunkBody(chunk, f, i)
      BY <3>2, ChunkBodyLocal
    <3>4. g[i] = ChunkBody(chunk, f, i)
      BY <2>2, <2>3, <2>4, <3>1
    <3> QED BY <3>3, <3>4
  <2>6. SolvesChunk(chunk, g, k + 1)
    BY <2>2, <2>3, <2>5 DEF SolvesChunk
  <2> QED BY <2>6
<1>4. L \in T
  <2> HIDE DEF T, L
  <2> QED BY <1>1, <1>2, <1>3, Induction
<1> QED BY <1>1, <1>4

LEMMA ChunkEquation ==
    ASSUME NEW chunk, Len(chunk) \in Nat
    PROVE  \A i \in 1..(Len(chunk) + 1) : ChunkFrom(chunk)[i] = ChunkBody(chunk, ChunkFrom(chunk), i)
<1> DEFINE L == Len(chunk) + 1
<1>1. PICK f : SolvesChunk(chunk, f, L)
  BY ChunkSolved
<1>2. \A i \in 1..L : L - L < i
  OBVIOUS
<1>3. f = [i \in 1..L |-> f[i]] /\ \A i \in 1..L : f[i] = ChunkBody(chunk, f, i)
  BY <1>1, <1>2, Zenon DEF SolvesChunk
<1>4. f = [i \in 1..L |-> ChunkBody(chunk, f, i)]
  <2> HIDE DEF L
  <2> QED BY <1>3
<1>5. ChunkFrom(chunk) = [i \in 1..L |-> ChunkBody(chunk, ChunkFrom(chunk), i)]
  BY <1>4, Zenon DEF ChunkFrom
<1> QED BY <1>5, Zenon

(* Induction from the end of a sequence to its beginning. *)
LEMMA Backwards ==
    ASSUME NEW L \in Nat, NEW T,
           \A i \in 1..L : (\A j \in 1..L : j > i => j \in T) => i \in T
    PROVE  1..L \subseteq T
<1> SUFFICES ASSUME NEW i \in 1..L, i \notin T PROVE FALSE
  OBVIOUS
<1> DEFINE B == {k \in Nat : L - k \in 1..L /\ L - k \notin T}
<1>1. L - i \in B
  OBVIOUS
<1>2. PICK k \in B : \A m \in B : k <= m
  <2> HIDE DEF B
  <2>1. B # {}
    BY <1>1
  <2>2. B \subseteq Nat
    BY DEF B
  <2> QED BY <2>1, <2>2, Least
<1>3. ASSUME NEW j \in 1..L, j > L - k PROVE j \in T
  <2> SUFFICES ASSUME j \notin T PROVE FALSE
    OBVIOUS
  <2>1. L - j \in Nat /\ L - (L - j) = j /\ L - j < k
    BY <1>3
  <2>2. L - j \in B
    BY <2>1
  <2> QED BY <1>2, <2>1, <2>2
<1> QED BY <1>2, <1>3

CodesFrom(i) == SpelledFrom[i].codes
CutsFrom(i) == SpelledFrom[i].cuts
Highest(S, e) == e \in S /\ \A y \in S : y <= e

LEMMA MaxIs ==
    ASSUME NEW S, S \subseteq Int, NEW e, Highest(S, e)
    PROVE  Literal!Max(S) = e
<1> DEFINE m == CHOOSE x \in S : \A y \in S : x >= y
<1>1. m \in S /\ \A y \in S : m >= y
  BY DEF Highest
<1>2. Literal!Max(S) = m
  BY Zenon DEF Literal!Max
<1> HIDE DEF m
<1> QED BY <1>1, <1>2 DEF Highest

LEMMA SpelledStops ==
    ASSUME BytesGiven, NEW i \in 1..Len(bytes), \A n : ~Reads(i, n)
    PROVE  CodesFrom(i) = <<>> /\ CutsFrom(i) = {i}
<1>1. i \in Nat
  BY ByteAt
<1>2. SpelledFrom[i] = [codes |-> <<>>, cuts |-> {i}]
  BY <1>1, SpelledEquation, SpelledBodyOf
<1> QED BY <1>2 DEF CodesFrom, CutsFrom

LEMMA SpelledGoesOn ==
    ASSUME BytesGiven, NEW i \in 1..Len(bytes), NEW n, Reads(i, n)
    PROVE  /\ CodesFrom(i) = <<Literal!Candidate(i, n)>> \o CodesFrom(i + n)
           /\ CutsFrom(i) = {i} \cup CutsFrom(i + n)
           /\ Literal!Candidate(i, n) \in Nat
           /\ n \in Nat /\ 1 <= n /\ i + n \in 1..Len(bytes)
<1>1. i \in Nat /\ Len(bytes) \in Nat
  BY ByteAt
<1>2. SpelledFrom[i] = [codes |-> <<Literal!Candidate(i, n)>> \o SpelledFrom[i + n].codes,
                        cuts  |-> {i} \cup SpelledFrom[i + n].cuts]
  <2> DEFINE F == SpelledFrom
  <2>1. F[i] = SpelledBody(F, i)
    BY SpelledEquation
  <2> HIDE DEF F
  <2>2. SpelledBody(F, i) = [codes |-> <<Literal!Candidate(i, n)>> \o F[i + n].codes,
                             cuts  |-> {i} \cup F[i + n].cuts]
    BY <1>1, SpelledBodyOf
  <2> QED BY <2>1, <2>2 DEF F
<1>3. Literal!Scalar(Literal!Candidate(i, n))
  BY <1>1, Shape, SpelledIn, PermittedOf
<1>4. n \in Nat /\ 1 <= n /\ i + n \in 1..Len(bytes)
  BY <1>1, ReadsWithin
<1> QED BY <1>2, <1>3, <1>4 DEF CodesFrom, CutsFrom, Literal!Scalar

Spellable(i) ==
    /\ CodesFrom(i) \in Seq(Nat)
    /\ CutsFrom(i) \subseteq i..Len(bytes)
    /\ \E e \in i..Len(bytes) : Highest(CutsFrom(i), e)

LEMMA AllSpellable == ASSUME BytesGiven PROVE \A i \in 1..Len(bytes) : Spellable(i)
<1> DEFINE T == {i \in 1..Len(bytes) : Spellable(i)}
<1>1. Len(bytes) \in Nat
  BY ByteAt
<1>2. ASSUME NEW i \in 1..Len(bytes), \A j \in 1..Len(bytes) : j > i => j \in T
      PROVE  Spellable(i)
  <2>1. CASE \A n : ~Reads(i, n)
    <3>1. CodesFrom(i) = <<>> /\ CutsFrom(i) = {i}
      BY <2>1, SpelledStops
    <3>2. i \in i..Len(bytes) /\ Highest({i}, i)
      BY <1>1 DEF Highest
    <3> QED BY <3>1, <3>2 DEF Spellable
  <2>2. ASSUME NEW n, Reads(i, n) PROVE Spellable(i)
    <3> DEFINE j == i + n
               c == Literal!Candidate(i, n)
    <3>1. /\ CodesFrom(i) = <<c>> \o CodesFrom(j) /\ CutsFrom(i) = {i} \cup CutsFrom(j)
          /\ c \in Nat /\ j \in 1..Len(bytes) /\ j > i
      BY <2>2, SpelledGoesOn
    <3> HIDE DEF j, c
    <3>2. Spellable(j)
      BY <1>2, <3>1
    <3>3. CodesFrom(i) \in Seq(Nat)
      <4>1. <<c>> \in Seq(Nat) /\ CodesFrom(j) \in Seq(Nat)
        BY <3>1, <3>2 DEF Spellable
      <4> QED BY <3>1, <4>1, ConcatProperties
    <3>4. PICK e \in j..Len(bytes) : Highest(CutsFrom(j), e)
      BY <3>2 DEF Spellable
    <3>5. CutsFrom(i) \subseteq i..Len(bytes) /\ e \in i..Len(bytes) /\ Highest(CutsFrom(i), e)
      BY <1>1, <3>1, <3>2, <3>4 DEF Spellable, Highest
    <3> QED BY <3>3, <3>5 DEF Spellable
  <2> QED BY <2>1, <2>2
<1> HIDE DEF T
<1>3. 1..Len(bytes) \subseteq T
  <2>1. \A i \in 1..Len(bytes) : (\A j \in 1..Len(bytes) : j > i => j \in T) => i \in T
    BY <1>2 DEF T
  <2> QED BY <1>1, <2>1, Backwards
<1> QED BY <1>3 DEF T

(* The characters that lead from offset i to offset j are spelled between them. *)
EndFrom(i) == Literal!Max(CutsFrom(i))
LeadsTo(i, chars, j) ==
    /\ CodesFrom(i) = chars \o CodesFrom(j)
    /\ CutsFrom(j) \subseteq CutsFrom(i)
    /\ EndFrom(i) = EndFrom(j)

LEMMA EndOf ==
    ASSUME BytesGiven, NEW i \in 1..Len(bytes), NEW e, Highest(CutsFrom(i), e)
    PROVE  EndFrom(i) = e
<1>1. CutsFrom(i) \subseteq Int
  <2>1. CutsFrom(i) \subseteq i..Len(bytes) /\ i \in Int /\ Len(bytes) \in Int
    BY AllSpellable, ByteAt DEF Spellable
  <2> QED BY <2>1
<1> QED BY <1>1, MaxIs DEF EndFrom

LEMMA EndIsCut ==
    ASSUME BytesGiven, NEW i \in 1..Len(bytes)
    PROVE  Highest(CutsFrom(i), EndFrom(i)) /\ EndFrom(i) \in i..Len(bytes)
<1>1. PICK e \in i..Len(bytes) : Highest(CutsFrom(i), e)
  BY AllSpellable DEF Spellable
<1> QED BY <1>1, EndOf

LEMMA LeadsOne ==
    ASSUME BytesGiven, NEW i \in 1..Len(bytes), NEW n, Reads(i, n)
    PROVE  LeadsTo(i, <<Literal!Candidate(i, n)>>, i + n)
<1> DEFINE j == i + n
           c == Literal!Candidate(i, n)
<1>1. /\ CodesFrom(i) = <<c>> \o CodesFrom(j) /\ CutsFrom(i) = {i} \cup CutsFrom(j)
      /\ j \in 1..Len(bytes) /\ j > i
  BY SpelledGoesOn
<1> HIDE DEF j, c
<1>2. Highest(CutsFrom(j), EndFrom(j)) /\ EndFrom(j) \in j..Len(bytes)
  BY <1>1, EndIsCut
<1>3. Highest(CutsFrom(i), EndFrom(j))
  BY <1>1, <1>2, ByteAt DEF Highest
<1>4. EndFrom(i) = EndFrom(j)
  BY <1>3, EndOf
<1>5. LeadsTo(i, <<c>>, j)
  BY <1>1, <1>4 DEF LeadsTo
<1> QED BY <1>5 DEF j, c

LEMMA LeadsNowhere ==
    ASSUME BytesGiven, NEW i \in 1..Len(bytes)
    PROVE  LeadsTo(i, <<>>, i)
<1>1. CodesFrom(i) \in Seq(Nat)
  BY AllSpellable DEF Spellable
<1>2. <<>> \o CodesFrom(i) = CodesFrom(i)
  BY <1>1, ConcatEmptySeq
<1> QED BY <1>2 DEF LeadsTo

LEMMA CodesAssociate ==
    ASSUME NEW a \in Seq(Nat), NEW b \in Seq(Nat), NEW c \in Seq(Nat)
    PROVE  a \o (b \o c) = (a \o b) \o c
BY ConcatAssociative

LEMMA LeadsOn ==
    ASSUME BytesGiven, NEW i, NEW j, NEW k \in 1..Len(bytes), NEW a \in Seq(Nat), NEW b \in Seq(Nat),
           LeadsTo(i, a, j), LeadsTo(j, b, k)
    PROVE  LeadsTo(i, a \o b, k)
<1>1. CodesFrom(k) \in Seq(Nat)
  BY AllSpellable DEF Spellable
<1>2. a \o (b \o CodesFrom(k)) = (a \o b) \o CodesFrom(k)
  BY <1>1, CodesAssociate
<1> QED BY <1>2 DEF LeadsTo

LEMMA Stuck ==
    ASSUME BytesGiven, NEW i \in 1..Len(bytes), \A n : ~Reads(i, n)
    PROVE  EndFrom(i) = i /\ CodesFrom(i) = <<>> /\ CutsFrom(i) = {i}
<1>1. CodesFrom(i) = <<>> /\ CutsFrom(i) = {i}
  BY SpelledStops
<1>2. Highest(CutsFrom(i), i)
  BY <1>1, ByteAt DEF Highest
<1> QED BY <1>1, <1>2, EndOf

(* A raw run: the bytes a + 1 to e of the literal. *)
RunTo(a, e) ==
    /\ a \in 1..Len(bytes) /\ e \in a..Len(bytes)
    /\ \A k \in (a + 1)..e : bytes[k] \notin Literal!Stops
    /\ e < Len(bytes) => bytes[e + 1] \in Literal!Stops
Chunk(a, e) == SubSeq(bytes, a + 1, e)

LEMMA ChunkOf ==
    ASSUME BytesGiven, NEW a, NEW e, RunTo(a, e)
    PROVE  /\ Chunk(a, e) \in Seq(Literal!Byte) /\ Len(Chunk(a, e)) = e - a
           /\ \A m \in 1..(e - a) : Chunk(a, e)[m] = bytes[a + m]
<1>1. Len(bytes) \in Nat /\ \A k \in 1..Len(bytes) : bytes[k] \in Literal!Byte
  BY ElementOfSeq DEF BytesGiven
<1>2. a \in Nat /\ e \in Nat /\ a <= e /\ 1 <= a /\ e <= Len(bytes)
  BY <1>1 DEF RunTo
<1>3. \A k \in (a + 1)..e : bytes[k] \in Literal!Byte
  BY <1>1, <1>2
<1>4. /\ Chunk(a, e) \in Seq(Literal!Byte)
      /\ Len(Chunk(a, e)) = IF a + 1 <= e THEN e - (a + 1) + 1 ELSE 0
      /\ \A k \in 1..(e - (a + 1) + 1) : Chunk(a, e)[k] = bytes[(a + 1) + k - 1]
  BY <1>2, <1>3, SubSeqProperties DEF Chunk
<1>5. e - (a + 1) + 1 = e - a /\ ~(a + 1 <= e) => e - a = 0
  BY <1>2
<1>6. \A k \in 1..(e - a) : (a + 1) + k - 1 = a + k
  BY <1>2
<1> QED BY <1>2, <1>4, <1>5, <1>6

LEMMA ChunkPart ==
    ASSUME BytesGiven, NEW a, NEW e, RunTo(a, e), NEW m \in 1..(e - a), NEW n \in Nat, 1 <= n, m + n <= (e - a) + 1
    PROVE  SubSeq(Chunk(a, e), m, m + n - 1) = Bite(a + m - 1, n)
<1> DEFINE s == SubSeq(Chunk(a, e), m, m + n - 1)
           k == a + m - 1
           t == Bite(k, n)
<1>1. Len(bytes) \in Nat /\ a \in Nat /\ e \in Nat /\ a <= e /\ 1 <= a /\ e <= Len(bytes)
  BY ByteAt DEF RunTo
<1>2. k \in Nat /\ k + n <= Len(bytes)
  BY <1>1
<1>3. t \in Seq(Literal!Byte) /\ Len(t) = n /\ \A x \in 1..n : t[x] = bytes[k + x]
  BY <1>2, BiteOf
<1>4. s \in Seq(Literal!Byte) /\ Len(s) = n /\ \A x \in 1..n : s[x] = bytes[k + x]
  <2> DEFINE u == Chunk(a, e)
  <2>1. u \in Seq(Literal!Byte) /\ Len(u) = e - a /\ \A y \in 1..(e - a) : u[y] = bytes[a + y]
    BY ChunkOf
  <2> HIDE DEF u
  <2>2. \A y \in 1..(e - a) : u[y] \in Literal!Byte
    BY <2>1, ElementOfSeq
  <2>3. \A y \in m..(m + n - 1) : u[y] \in Literal!Byte
    BY <1>1, <2>2
  <2>4. /\ SubSeq(u, m, m + n - 1) \in Seq(Literal!Byte)
        /\ Len(SubSeq(u, m, m + n - 1)) = IF m <= m + n - 1 THEN (m + n - 1) - m + 1 ELSE 0
        /\ \A x \in 1..((m + n - 1) - m + 1) : SubSeq(u, m, m + n - 1)[x] = u[m + x - 1]
    BY <2>3, SubSeqProperties
  <2>5. m <= m + n - 1 /\ (m + n - 1) - m + 1 = n
    OBVIOUS
  <2>6. \A x \in 1..n : m + x - 1 \in 1..(e - a) /\ a + (m + x - 1) = k + x
    BY <1>1
  <2>7. \A x \in 1..n : u[m + x - 1] = bytes[k + x]
    BY <2>1, <2>6
  <2> QED BY <2>4, <2>5, <2>7 DEF u
<1> HIDE DEF s, t, k
<1>5. s = t
  BY <1>3, <1>4, SeqEqual
<1> QED BY <1>5 DEF s, t, k

LEMMA RunReads ==
    ASSUME BytesGiven, NEW a, NEW e, RunTo(a, e), NEW k \in a..e, k < e
    PROVE  /\ bytes[k + 1] \notin Literal!Stops
           /\ \A n : Reads(k, n) <=> ReadsRaw(k, n)
<1>1. k + 1 \in (a + 1)..e
  BY DEF RunTo
<1>2. bytes[k + 1] \notin Literal!Stops
  BY <1>1 DEF RunTo
<1>3. bytes[k + 1] # 92
  BY <1>2, StopOf
<1> QED BY <1>2, <1>3 DEF Reads, ReadsLetter, ReadsUnit, ReadsPair, Escape

LEMMA Utf8Bytes ==
    ASSUME NEW s \in Seq(Literal!Byte), Len(s) >= 1
    PROVE  /\ Literal!IsUtf8Char(s) <=> Utf8(s)
           /\ Utf8(s) => Len(s) = Literal!Width(s[1]) /\ Len(s) \in Few
           /\ Utf8(s) => \A x \in 2..Len(s) : s[x] \notin Literal!Stops
<1>1. Len(s) \in Nat \ {0} /\ \A x \in 1..Len(s) : s[x] \in Literal!Byte
  BY ElementOfSeq
<1>2. \A x \in 1..Len(s) : Between(0, s[x], 255)
  BY <1>1, Bytes
<1>3. Literal!IsUtf8Char(s) <=> Utf8(s)
  BY <1>1, <1>2, Utf8Char
<1>4. ASSUME Utf8(s) PROVE Len(s) = Literal!Width(s[1])
  <2>1. CASE Len(s) = 1 /\ Between(0, s[1], 127)
    BY <2>1, WidthOf DEF Between
  <2>2. CASE Len(s) = 2 /\ Between(194, s[1], 223)
    BY <2>2, WidthOf DEF Between
  <2>3. CASE Len(s) = 3 /\ Between(224, s[1], 239)
    BY <2>3, WidthOf DEF Between
  <2>4. CASE Len(s) = 4 /\ Between(240, s[1], 244)
    BY <2>4, WidthOf DEF Between
  <2> QED BY <1>4, <2>1, <2>2, <2>3, <2>4, Zenon DEF Utf8
<1>5. Utf8(s) => Len(s) \in Few
  BY DEF Utf8, Few
<1>6. ASSUME Utf8(s), NEW x \in 2..Len(s) PROVE s[x] \notin Literal!Stops
  <2>1. Tail8(s[x])
    BY <1>1, <1>6 DEF Utf8
  <2> QED BY <2>1, StopOf DEF Tail8, Between
<1> QED BY <1>3, <1>4, <1>5, <1>6

LEMMA RunSame ==
    ASSUME BytesGiven, NEW a, NEW e, RunTo(a, e), NEW k \in a..e, k < e, NEW n
    PROVE  ChunkReads(Chunk(a, e), k - a + 1, n) <=> n \in Few /\ k + n <= Len(bytes) /\ Utf8(Bite(k, n))
<1> DEFINE u == Chunk(a, e)
           m == k - a + 1
<1>1. Len(bytes) \in Nat /\ a \in Nat /\ e \in Nat /\ a <= e /\ 1 <= a /\ e <= Len(bytes) /\ k \in Nat
  BY ByteAt DEF RunTo
<1>2. /\ u \in Seq(Literal!Byte) /\ Len(u) = e - a
      /\ \A y \in 1..(e - a) : u[y] = bytes[a + y]
  BY ChunkOf
<1>3. m \in 1..(e - a) /\ a + m = k + 1 /\ a + m - 1 = k
  BY <1>1
<1>4. u[m] = bytes[k + 1]
  BY <1>2, <1>3
<1>5. ASSUME NEW j \in Nat, 1 <= j, m + j <= (e - a) + 1 PROVE SubSeq(u, m, m + j - 1) = Bite(k, j)
  BY <1>3, <1>5, ChunkPart
<1> HIDE DEF u, m
<1>6. ASSUME ChunkReads(u, m, n)
      PROVE  n \in Few /\ k + n <= Len(bytes) /\ Utf8(Bite(k, n))
  <2>1. n \in Nat /\ 1 <= n /\ m + n <= (e - a) + 1 /\ Literal!IsUtf8Char(SubSeq(u, m, m + n - 1))
    BY <1>2, <1>6, WidthIsNat DEF ChunkReads
  <2>2. k + n <= Len(bytes)
    BY <1>1, <1>3, <2>1
  <2>3. Bite(k, n) \in Seq(Literal!Byte) /\ Len(Bite(k, n)) = n
    BY <1>1, <2>1, <2>2, BiteOf
  <2>4. Literal!IsUtf8Char(Bite(k, n))
    BY <1>5, <2>1
  <2> QED BY <2>1, <2>2, <2>3, <2>4, Utf8Bytes
<1>7. ASSUME n \in Few, k + n <= Len(bytes), Utf8(Bite(k, n))
      PROVE  ChunkReads(u, m, n)
  <2>1. n \in Nat /\ 1 <= n
    BY <1>7, FewAreInt
  <2>2. /\ Bite(k, n) \in Seq(Literal!Byte) /\ Len(Bite(k, n)) = n
        /\ \A x \in 1..n : Bite(k, n)[x] = bytes[k + x]
    BY <1>1, <1>7, <2>1, BiteOf
  <2>3. /\ Literal!IsUtf8Char(Bite(k, n)) /\ n = Literal!Width(bytes[k + 1])
        /\ \A x \in 2..n : bytes[k + x] \notin Literal!Stops
    <3> DEFINE s == Bite(k, n)
    <3>1. s \in Seq(Literal!Byte) /\ Len(s) = n /\ Utf8(s) /\ \A x \in 1..n : s[x] = bytes[k + x]
      BY <1>7, <2>2
    <3>2. 1 \in 1..n /\ \A x \in 2..n : x \in 1..n
      BY <2>1
    <3> HIDE DEF s
    <3>3. Literal!IsUtf8Char(s) /\ n = Literal!Width(s[1]) /\ \A x \in 2..n : s[x] \notin Literal!Stops
      BY <2>1, <3>1, Utf8Bytes
    <3>4. s[1] = bytes[k + 1] /\ \A x \in 2..n : s[x] = bytes[k + x]
      BY <3>1, <3>2
    <3> QED BY <3>3, <3>4 DEF s
  <2>4. k + n <= e
    <3> SUFFICES ASSUME k + n > e PROVE FALSE
      BY <1>1, <2>1
    <3>1. e < Len(bytes) /\ (e + 1) - k \in 2..n /\ k + ((e + 1) - k) = e + 1
      BY <1>1, <1>7, <2>1
    <3>2. bytes[e + 1] \in Literal!Stops
      BY <3>1 DEF RunTo
    <3> QED BY <2>3, <3>1, <3>2
  <2>5. m + n <= (e - a) + 1 /\ m <= e - a
    BY <1>1, <1>3, <2>1, <2>4
  <2>6. Literal!IsUtf8Char(SubSeq(u, m, m + n - 1))
    BY <1>5, <2>1, <2>3, <2>5
  <2> QED BY <1>2, <1>4, <2>1, <2>3, <2>5, <2>6 DEF ChunkReads
<1>8. ChunkReads(u, m, n) <=> n \in Few /\ k + n <= Len(bytes) /\ Utf8(Bite(k, n))
  BY <1>6, <1>7
<1> QED BY <1>8 DEF u, m

LEMMA ToSetCons ==
    ASSUME NEW S, NEW c \in S, NEW s \in Seq(S)
    PROVE  Literal!ToSet(<<c>> \o s) = {c} \cup Literal!ToSet(s)
<1> DEFINE t == <<c>> \o s
<1>1. /\ t \in Seq(S) /\ Len(t) = 1 + Len(s)
      /\ \A i \in 1..(1 + Len(s)) : t[i] = IF i <= 1 THEN c ELSE s[i - 1]
  <2> DEFINE w == <<c>>
  <2>1. w \in Seq(S) /\ Len(w) = 1 /\ w[1] = c
    OBVIOUS
  <2> HIDE DEF w
  <2>2. /\ w \o s \in Seq(S) /\ Len(w \o s) = 1 + Len(s)
        /\ \A i \in 1..(1 + Len(s)) : (w \o s)[i] = IF i <= 1 THEN w[i] ELSE s[i - 1]
    BY <2>1, ConcatProperties
  <2>3. \A i \in 1..(1 + Len(s)) : i <= 1 => i = 1
    OBVIOUS
  <2> QED BY <2>1, <2>2, <2>3 DEF w
<1> HIDE DEF t
<1>2. DOMAIN t = 1..Len(t) /\ DOMAIN s = 1..Len(s) /\ Len(s) \in Nat
  BY <1>1
<1>3. Literal!ToSet(t) = {t[i] : i \in 1..Len(t)} /\ Literal!ToSet(s) = {s[i] : i \in 1..Len(s)}
  BY <1>2 DEF Literal!ToSet
<1>4. ASSUME NEW x \in Literal!ToSet(t) PROVE x \in {c} \cup Literal!ToSet(s)
  <2>1. PICK i \in 1..Len(t) : x = t[i]
    BY <1>3
  <2>2. CASE i = 1
    BY <1>1, <2>1, <2>2
  <2>3. CASE i > 1
    <3>1. i - 1 \in 1..Len(s) /\ x = s[i - 1]
      BY <1>1, <1>2, <2>1, <2>3
    <3> QED BY <1>3, <3>1
  <2> QED BY <2>1, <2>2, <2>3
<1>5. c \in Literal!ToSet(t)
  <2>1. 1 \in 1..Len(t) /\ t[1] = c
    BY <1>1, <1>2
  <2> QED BY <1>3, <2>1
<1>6. ASSUME NEW x \in Literal!ToSet(s) PROVE x \in Literal!ToSet(t)
  <2>1. PICK i \in 1..Len(s) : x = s[i]
    BY <1>3
  <2>2. i + 1 \in 1..Len(t) /\ t[i + 1] = s[i]
    BY <1>1, <1>2
  <2> QED BY <1>3, <2>1, <2>2
<1>7. Literal!ToSet(t) = {c} \cup Literal!ToSet(s)
  BY <1>4, <1>5, <1>6
<1> QED BY <1>7 DEF t

RawAt(k, n) == n \in Few /\ k + n <= Len(bytes) /\ Utf8(Bite(k, n))

LEMMA RawWidth ==
    ASSUME BytesGiven, NEW k \in Nat, NEW n, RawAt(k, n)
    PROVE  n = Literal!Width(bytes[k + 1])
<1>1. n \in Nat /\ 1 <= n /\ k + n <= Len(bytes)
  BY FewAreInt DEF RawAt
<1> DEFINE s == Bite(k, n)
<1>2. s \in Seq(Literal!Byte) /\ Len(s) = n /\ s[1] = bytes[k + 1] /\ Utf8(s)
  BY <1>1, BiteFirst DEF RawAt
<1> HIDE DEF s
<1> QED BY <1>1, <1>2, Utf8Bytes

ReadFrom(a, e, k) == ChunkFrom(Chunk(a, e))[k - a + 1]

LEMMA ReadFromOf ==
    ASSUME BytesGiven, NEW a, NEW e, RunTo(a, e), NEW k \in a..e
    PROVE  /\ k = e => ReadFrom(a, e, k) = [ok |-> TRUE, chars |-> <<>>]
           /\ k < e /\ (\A n : ~RawAt(k, n)) => ReadFrom(a, e, k) = [ok |-> FALSE, chars |-> <<>>]
           /\ k < e => \A n : RawAt(k, n) =>
                /\ k + n \in (k + 1)..e
                /\ ReadFrom(a, e, k) =
                     [ReadFrom(a, e, k + n) EXCEPT !.chars = <<Literal!CodeOf(Bite(k, n))>> \o @]
<1> DEFINE u == Chunk(a, e)
           m == k - a + 1
           F == ChunkFrom(u)
<1>1. Len(bytes) \in Nat /\ a \in Nat /\ e \in Nat /\ a <= e /\ 1 <= a /\ e <= Len(bytes) /\ k \in Nat
  BY ByteAt DEF RunTo
<1>2. Len(u) = e - a /\ Len(u) \in Nat
  <2>1. Len(u) = e - a
    BY ChunkOf
  <2> QED BY <1>1, <2>1
<1>3. m \in 1..(Len(u) + 1) /\ a + m - 1 = k
  BY <1>1, <1>2
<1>4. F[m] = ChunkBody(u, F, m)
  BY <1>2, <1>3, ChunkEquation
<1>5. \A n : k < e => (ChunkReads(u, m, n) <=> RawAt(k, n))
  BY RunSame, Zenon DEF RawAt
<1>6. ASSUME NEW n \in Nat, 1 <= n, m + n <= (e - a) + 1, m <= e - a PROVE SubSeq(u, m, m + n - 1) = Bite(k, n)
  <2> HIDE DEF m
  <2>1. m \in 1..(e - a)
    BY <1>1, <1>2, <1>3, <1>6
  <2>2. SubSeq(Chunk(a, e), m, m + n - 1) = Bite(a + m - 1, n)
    BY <1>6, <2>1, ChunkPart
  <2> QED BY <1>3, <2>2
<1> HIDE DEF u, m, F
<1>7. ASSUME k = e PROVE F[m] = [ok |-> TRUE, chars |-> <<>>]
  <2>1. m > Len(u)
    BY <1>1, <1>2, <1>3, <1>7
  <2>2. ChunkBody(u, F, m) = [ok |-> TRUE, chars |-> <<>>]
    BY <1>2, <1>3, <2>1, ChunkBodyOf
  <2> QED BY <1>4, <2>2
<1>8. ASSUME k < e, \A n : ~RawAt(k, n) PROVE F[m] = [ok |-> FALSE, chars |-> <<>>]
  <2>1. m <= Len(u) /\ \A n : ~ChunkReads(u, m, n)
    BY <1>1, <1>2, <1>3, <1>5, <1>8
  <2>2. ChunkBody(u, F, m) = [ok |-> FALSE, chars |-> <<>>]
    BY <1>2, <1>3, <2>1, ChunkBodyOf
  <2> QED BY <1>4, <2>2
<1>9. ASSUME k < e, NEW n, RawAt(k, n)
      PROVE  /\ k + n \in (k + 1)..e
             /\ F[m] = [F[m + n] EXCEPT !.chars = <<Literal!CodeOf(Bite(k, n))>> \o @]
  <2>1. ChunkReads(u, m, n)
    BY <1>5, <1>9
  <2>2. n \in Nat /\ 1 <= n /\ m <= e - a /\ m + n <= (e - a) + 1
    BY <1>2, <2>1, WidthIsNat DEF ChunkReads
  <2>3. SubSeq(u, m, m + n - 1) = Bite(k, n)
    BY <1>6, <2>2
  <2>4. ChunkBody(u, F, m) = [F[m + n] EXCEPT !.chars = <<Literal!CodeOf(SubSeq(u, m, m + n - 1))>> \o @]
    BY <1>2, <1>3, <2>1, ChunkBodyOf
  <2>5. k + n \in (k + 1)..e
    BY <1>1, <1>3, <2>2
  <2> QED BY <1>4, <2>3, <2>4, <2>5
<1>10. \A n \in Nat : (k + n) - a + 1 = m + n
  BY <1>1 DEF m
<1>11. \A n : RawAt(k, n) => n \in Nat
  BY FewAreInt DEF RawAt
<1>12. ASSUME k < e, NEW n, RawAt(k, n)
       PROVE  ReadFrom(a, e, k + n) = F[m + n]
  BY <1>10, <1>11, <1>12 DEF ReadFrom, F, u
<1>13. ReadFrom(a, e, k) = F[m]
  BY DEF ReadFrom, F, u, m
<1>14. ASSUME k < e, NEW n, RawAt(k, n)
       PROVE  /\ k + n \in (k + 1)..e
              /\ ReadFrom(a, e, k) =
                   [ReadFrom(a, e, k + n) EXCEPT !.chars = <<Literal!CodeOf(Bite(k, n))>> \o @]
  <2>1. ReadFrom(a, e, k + n) = F[m + n]
    BY <1>12, <1>14
  <2>2. /\ k + n \in (k + 1)..e
        /\ F[m] = [F[m + n] EXCEPT !.chars = <<Literal!CodeOf(Bite(k, n))>> \o @]
    BY <1>9, <1>14
  <2> QED BY <1>13, <2>1, <2>2, Zenon
<1> QED BY <1>7, <1>8, <1>13, <1>14, Zenon

(* A run either leads to its end or holds the fault. *)
Clean(chars) == \A c \in Literal!ToSet(chars) : ~Literal!Forbidden(c)
RunSound(a, e, k) ==
    LET g == ReadFrom(a, e, k)
    IN  /\ g \in [ok : BOOLEAN, chars : Seq(Nat)]
        /\ IF g.ok /\ Clean(g.chars) THEN LeadsTo(k, g.chars, e) ELSE EndFrom(k) < e

LEMMA NoneIsClean == Clean(<<>>)
BY DEF Clean, Literal!ToSet

LEMMA RunSoundStep ==
    ASSUME BytesGiven, NEW a, NEW e, RunTo(a, e), NEW k \in a..e, k < e,
           \A j \in (k + 1)..e : RunSound(a, e, j)
    PROVE  RunSound(a, e, k)
<1>1. Len(bytes) \in Nat /\ a \in Nat /\ e \in Nat /\ a <= e /\ 1 <= a /\ e <= Len(bytes) /\ k \in Nat
      /\ k \in 1..Len(bytes)
  BY ByteAt DEF RunTo
<1>2. bytes[k + 1] \notin Literal!Stops /\ \A n : Reads(k, n) <=> ReadsRaw(k, n)
  BY RunReads
<1>3. \A n : Reads(k, n) <=> RawAt(k, n) /\ ~Literal!Forbidden(Literal!CodeOf(Bite(k, n)))
  BY <1>2 DEF RawAt, ReadsRaw
<1> DEFINE g == ReadFrom(a, e, k)
<1>4. CASE \A n : ~RawAt(k, n)
  <2>1. g = [ok |-> FALSE, chars |-> <<>>]
    BY <1>4, ReadFromOf
  <2>2. \A n : ~Reads(k, n)
    BY <1>3, <1>4
  <2>3. EndFrom(k) = k
    BY <1>1, <2>2, Stuck
  <2> HIDE DEF g
  <2>4. g \in [ok : BOOLEAN, chars : Seq(Nat)] /\ ~g.ok
    BY <2>1
  <2> QED BY <2>3, <2>4 DEF RunSound, g
<1>5. ASSUME NEW n, RawAt(k, n) PROVE RunSound(a, e, k)
  <2> DEFINE j == k + n
             c == Literal!CodeOf(Bite(k, n))
             h == ReadFrom(a, e, j)
  <2>1. j \in (k + 1)..e /\ g = [h EXCEPT !.chars = <<c>> \o @]
    BY <1>5, ReadFromOf
  <2>2. n \in Few /\ n \in Nat /\ 1 <= n /\ k + n <= Len(bytes) /\ Utf8(Bite(k, n))
    BY <1>5, FewAreInt DEF RawAt
  <2>3. c \in Nat
    <3>1. Bite(k, n) \in Seq(Literal!Byte)
      BY <1>1, <2>2, BiteOf
    <3>2. Literal!Scalar(c)
      BY <2>2, <3>1, WellFormed
    <3> QED BY <3>2 DEF Literal!Scalar
  <2>4. bytes[k + 1] # 92
    BY <1>2, StopOf
  <2>5. Literal!Candidate(k, n) = c
    BY <2>2, <2>4, CandidateOf
  <2>6. Reads(k, n) => LeadsTo(k, <<c>>, j) /\ j \in 1..Len(bytes)
    <3>1. Reads(k, n) => LeadsTo(k, <<Literal!Candidate(k, n)>>, k + n)
      BY <1>1, LeadsOne
    <3> QED BY <1>1, <2>1, <2>5, <3>1
  <2>7. RunSound(a, e, j)
    BY <2>1
  <2>8. Reads(k, n) <=> ~Literal!Forbidden(c)
    BY <1>3, <1>5
  <2>9. Literal!Forbidden(c) => \A m : ~Reads(k, m)
    <3> SUFFICES ASSUME Literal!Forbidden(c), NEW m, Reads(k, m) PROVE FALSE
      OBVIOUS
    <3>1. RawAt(k, m) /\ ~Literal!Forbidden(Literal!CodeOf(Bite(k, m)))
      BY <1>3
    <3>2. m = Literal!Width(bytes[k + 1]) /\ n = Literal!Width(bytes[k + 1])
      BY <1>5, <3>1, RawWidth, <1>1
    <3> QED BY <3>1, <3>2
  <2>10. Literal!Forbidden(c) => EndFrom(k) = k
    BY <1>1, <2>9, Stuck
  <2> HIDE DEF g, h, j, c
  <2>11. /\ h \in [ok : BOOLEAN, chars : Seq(Nat)]
         /\ IF h.ok /\ Clean(h.chars) THEN LeadsTo(j, h.chars, e) ELSE EndFrom(j) < e
    BY <2>7 DEF RunSound, h
  <2>12. g.ok = h.ok /\ g.chars = <<c>> \o h.chars /\ g \in [ok : BOOLEAN, chars : Seq(Nat)]
    <3>1. <<c>> \in Seq(Nat) /\ h.chars \in Seq(Nat) /\ h.ok \in BOOLEAN
      BY <2>3, <2>11
    <3>2. <<c>> \o h.chars \in Seq(Nat)
      BY <3>1, ConcatProperties
    <3> QED BY <2>1, <2>11, <3>2
  <2>13. Clean(g.chars) <=> ~Literal!Forbidden(c) /\ Clean(h.chars)
    <3>1. Literal!ToSet(g.chars) = {c} \cup Literal!ToSet(h.chars)
      BY <2>3, <2>11, <2>12, ToSetCons
    <3> QED BY <3>1 DEF Clean
  <2>14. CASE Literal!Forbidden(c)
    BY <2>10, <2>12, <2>13, <2>14 DEF RunSound, g
  <2>15. CASE ~Literal!Forbidden(c)
    <3>1. LeadsTo(k, <<c>>, j) /\ j \in 1..Len(bytes) /\ EndFrom(k) = EndFrom(j)
      BY <2>6, <2>8, <2>15 DEF LeadsTo
    <3>2. CASE h.ok /\ Clean(h.chars)
      <4>1. <<c>> \in Seq(Nat) /\ h.chars \in Seq(Nat) /\ e \in 1..Len(bytes)
        BY <1>1, <2>3, <2>11
      <4>2. LeadsTo(k, <<c>> \o h.chars, e)
        BY <2>11, <3>1, <3>2, <4>1, LeadsOn
      <4> QED BY <2>12, <2>13, <2>15, <3>2, <4>2 DEF RunSound, g
    <3>3. CASE ~(h.ok /\ Clean(h.chars))
      <4>1. EndFrom(k) < e /\ ~(g.ok /\ Clean(g.chars))
        BY <2>11, <2>12, <2>13, <3>1, <3>3
      <4> QED BY <2>12, <4>1 DEF RunSound, g
    <3> QED BY <3>2, <3>3
  <2> QED BY <2>14, <2>15
<1> QED BY <1>4, <1>5

LEMMA RunIsSound ==
    ASSUME BytesGiven, NEW a, NEW e, RunTo(a, e)
    PROVE  RunSound(a, e, a)
<1> DEFINE M == (e - a) + 1
           T == {m \in 1..M : RunSound(a, e, a + (m - 1))}
<1>1. Len(bytes) \in Nat /\ a \in Nat /\ e \in Nat /\ a <= e /\ 1 <= a /\ e <= Len(bytes) /\ M \in Nat
      /\ e \in 1..Len(bytes)
  BY ByteAt DEF RunTo
<1>2. RunSound(a, e, e)
  <2> DEFINE g == ReadFrom(a, e, e)
  <2>1. g = [ok |-> TRUE, chars |-> <<>>]
    BY <1>1, ReadFromOf
  <2>2. LeadsTo(e, <<>>, e)
    BY <1>1, LeadsNowhere
  <2> HIDE DEF g
  <2>3. g \in [ok : BOOLEAN, chars : Seq(Nat)] /\ g.ok /\ g.chars = <<>>
    BY <2>1
  <2> QED BY <2>2, <2>3, NoneIsClean DEF RunSound, g
<1>3. ASSUME NEW m \in 1..M, \A x \in 1..M : x > m => x \in T PROVE m \in T
  <2> DEFINE k == a + (m - 1)
  <2>1. k \in a..e
    BY <1>1
  <2>2. CASE k = e
    BY <1>2, <2>2
  <2>3. CASE k < e
    <3>1. ASSUME NEW j \in (k + 1)..e PROVE RunSound(a, e, j)
      <4>1. (j - a) + 1 \in 1..M /\ (j - a) + 1 > m /\ a + (((j - a) + 1) - 1) = j
        BY <1>1
      <4>2. (j - a) + 1 \in T
        BY <1>3, <4>1
      <4>3. RunSound(a, e, a + (((j - a) + 1) - 1))
        BY <4>2
      <4> QED BY <4>1, <4>3
    <3> HIDE DEF k
    <3>2. RunSound(a, e, k)
      BY <2>1, <2>3, <3>1, RunSoundStep
    <3> QED BY <3>2 DEF k
  <2> QED BY <1>1, <2>1, <2>2, <2>3
<1> HIDE DEF T, M
<1>4. 1..M \subseteq T
  BY <1>1, <1>3, Backwards
<1>5. 1 \in T
  BY <1>1, <1>4 DEF M
<1>6. RunSound(a, e, a + (1 - 1))
  BY <1>5 DEF T
<1>7. a + (1 - 1) = a
  BY <1>1
<1> QED BY <1>6, <1>7

LEMMA SameLiteral ==
    ASSUME bytes' = bytes, profile' = profile
    PROVE  SpelledFrom' = SpelledFrom
BY DEF SpelledFrom, SpelledBody, Literal!SpelledAt, Literal!Candidate, Literal!Permitted, Literal!Hex4

LEMMA HereIsCut == ASSUME BytesGiven, NEW i \in 1..Len(bytes) PROVE i \in CutsFrom(i)
<1>1. CASE \A n : ~Reads(i, n)
  BY <1>1, SpelledStops
<1>2. ASSUME NEW n, Reads(i, n) PROVE i \in CutsFrom(i)
  BY <1>2, SpelledGoesOn
<1> QED BY <1>1, <1>2

(* Where the next byte is, and where there is none. *)
LEMMA NextByte ==
    ASSUME BytesGiven, NEW i \in Nat
    PROVE  /\ i < Len(bytes) => Literal!Next8(i) = bytes[i + 1] /\ IsByte(bytes[i + 1])
           /\ ~(i < Len(bytes)) => Literal!Next8(i) = -1
BY ByteAt DEF Literal!Next8

LEMMA NextIs ==
    ASSUME BytesGiven, NEW i \in Nat, NEW b \in Nat
    PROVE  Literal!Next8(i) = b <=> i < Len(bytes) /\ bytes[i + 1] = b
BY NextByte

(* The escape at offset i and what it reads. *)
LEMMA EscapedReads ==
    ASSUME BytesGiven, NEW i \in Nat, i + 2 <= Len(bytes), Escape(i)
    PROVE  LET e == Literal!Escaped(i)
           IN  /\ e.code # -1 /\ ~Literal!Forbidden(e.code) =>
                    \E n : Reads(i, n) /\ e.after = i + n /\ e.code = Literal!Candidate(i, n)
               /\ e.code = -1 \/ Literal!Forbidden(e.code) => \A n : ~Reads(i, n)
<1> DEFINE u == UpperUnit(i)
           l == LowerUnit(i)
           follow == Literal!Next8(i + 6) = 92 /\ Literal!Next8(i + 7) = 117
           e == Literal!Escaped(i)
           pair == [code |-> 65536 + (u - 55296) * 1024 + (l - 56320), after |-> i + 12]
           none == [code |-> -1, after |-> i]
           unit == [code |-> u, after |-> i + 6]
<1>1. Len(bytes) \in Nat
  BY ByteAt
<1>2. UnitOrNone(u) /\ UnitOrNone(l)
  BY HexUnit DEF UpperUnit, LowerUnit
<1>3. /\ u \in Literal!HighSurrogate <=> InHigh(u)
      /\ u \in Literal!LowSurrogate <=> InLow(u)
      /\ l \in Literal!LowSurrogate <=> InLow(l)
  <2> HIDE DEF u, l
  <2> QED BY <1>2, SurrogateOf DEF UnitOrNone
<1>4. e = CASE u \in Literal!HighSurrogate /\ follow /\ l \in Literal!LowSurrogate -> pair
            [] u \in Literal!HighSurrogate /\ ~(follow /\ l \in Literal!LowSurrogate) -> none
            [] u \in Literal!LowSurrogate -> none
            [] OTHER -> unit
  BY DEF Literal!Escaped, Literal!Backslash, Literal!LetterU, UpperUnit, LowerUnit
<1>5. follow <=> i + 8 <= Len(bytes) /\ Escape(i + 6)
  <2>1. i + 6 \in Nat /\ i + 7 \in Nat /\ (i + 6) + 1 = i + 7 /\ (i + 7) + 1 = i + 8 /\ (i + 6) + 2 = i + 8
    OBVIOUS
  <2>2. /\ Literal!Next8(i + 6) = 92 <=> i + 6 < Len(bytes) /\ bytes[i + 7] = 92
        /\ Literal!Next8(i + 7) = 117 <=> i + 7 < Len(bytes) /\ bytes[i + 8] = 117
    BY <2>1, NextIs
  <2> QED BY <1>1, <2>1, <2>2 DEF Escape
<1>6. u # -1 => i + 6 <= Len(bytes)
  <2>1. i + 2 \in Nat /\ (i + 2) + 4 = i + 6
    OBVIOUS
  <2> QED BY <2>1, Hex4Of DEF UpperUnit
<1>7. l # -1 => i + 12 <= Len(bytes)
  <2>1. i + 8 \in Nat /\ (i + 8) + 4 = i + 12
    OBVIOUS
  <2> QED BY <2>1, Hex4Of DEF LowerUnit
<1>8. \A n : ~ReadsRaw(i, n) /\ ~ReadsLetter(i, n)
  <2>1. 92 \in Literal!Stops /\ 117 \notin Letters
    BY StopOf DEF Letters
  <2> QED BY <2>1 DEF ReadsRaw, ReadsLetter, Escape
<1>9. ~(InHigh(u) /\ InLow(u)) /\ ~InHigh(-1) /\ ~InLow(-1)
  <2> HIDE DEF u
  <2> QED BY <1>2 DEF InHigh, InLow, UnitOrNone
<1>10. /\ \A n : ReadsUnit(i, n) <=> /\ n = 6 /\ i + 6 <= Len(bytes) /\ u # -1 /\ ~InHigh(u) /\ ~InLow(u)
                                     /\ ~Literal!Forbidden(u)
       /\ \A n : ReadsPair(i, n) <=> /\ n = 12 /\ i + 12 <= Len(bytes) /\ Escape(i + 6)
                                     /\ InHigh(u) /\ InLow(l) /\ ~Literal!Forbidden(Joint(u, l))
  BY DEF ReadsUnit, ReadsPair
<1>11. Literal!Candidate(i, 6) = u /\ Literal!Candidate(i, 12) = Joint(u, l)
  BY CandidateOf DEF UpperUnit, LowerUnit
<1> HIDE DEF u, l, follow, e, pair, none, unit
<1>12. CASE InHigh(u) /\ follow /\ InLow(l)
  <2>1. e.code = Joint(u, l) /\ e.after = i + 12
    <3>1. e = pair
      BY <1>3, <1>4, <1>9, <1>12
    <3>2. Joint(u, l) = 65536 + (u - 55296) * 1024 + (l - 56320)
      BY <1>2, <1>12, JointOf
    <3>3. pair.code = 65536 + (u - 55296) * 1024 + (l - 56320) /\ pair.after = i + 12
      BY DEF pair
    <3> QED BY <3>1, <3>2, <3>3
  <2>2. i + 12 <= Len(bytes) /\ Escape(i + 6)
    BY <1>5, <1>7, <1>9, <1>12
  <2>3. ReadsPair(i, 12) <=> ~Literal!Forbidden(e.code)
    BY <1>10, <1>12, <2>1, <2>2
  <2>4. \A n : Reads(i, n) => n = 12 /\ ReadsPair(i, 12)
    BY <1>8, <1>10, <1>12 DEF Reads
  <2>5. e.code # -1
    <3>1. Beyond(Joint(u, l))
      BY <1>2, JointOf
    <3> QED BY <2>1, <3>1 DEF Beyond
  <2>6. ReadsPair(i, 12) => Reads(i, 12)
    BY DEF Reads
  <2> QED BY <1>11, <2>1, <2>3, <2>4, <2>5, <2>6 DEF e
<1>13. CASE InHigh(u) /\ ~(follow /\ InLow(l))
  <2>1. e.code = -1
    BY <1>3, <1>4, <1>13 DEF none
  <2>2. \A n : ~Reads(i, n)
    <3>1. ASSUME NEW n, ReadsPair(i, n) PROVE FALSE
      BY <1>1, <1>5, <1>10, <1>13, <3>1
    <3> QED BY <1>8, <1>10, <1>13, <3>1 DEF Reads
  <2> QED BY <2>1, <2>2 DEF e
<1>14. CASE InLow(u)
  <2>1. e.code = -1
    BY <1>3, <1>4, <1>9, <1>14 DEF none
  <2>2. \A n : ~Reads(i, n)
    BY <1>8, <1>9, <1>10, <1>14 DEF Reads
  <2> QED BY <2>1, <2>2 DEF e
<1>15. CASE ~InHigh(u) /\ ~InLow(u)
  <2>1. e.code = u /\ e.after = i + 6
    BY <1>3, <1>4, <1>15 DEF unit
  <2>2. \A n : Reads(i, n) => n = 6 /\ ReadsUnit(i, 6)
    BY <1>8, <1>10, <1>15 DEF Reads
  <2>3. ReadsUnit(i, 6) <=> e.code # -1 /\ ~Literal!Forbidden(e.code)
    BY <1>6, <1>10, <1>15, <2>1
  <2>4. ReadsUnit(i, 6) => Reads(i, 6)
    BY DEF Reads
  <2> QED BY <1>11, <2>1, <2>2, <2>3, <2>4 DEF e
<1> QED BY <1>12, <1>13, <1>14, <1>15

(* What is read up to offset i is spelled, and nothing can be read there.     *)
LEMMA StuckHere ==
    ASSUME BytesGiven, NEW c \in Seq(Nat), NEW i \in 1..Len(bytes), LeadsTo(1, c, i), \A n : ~Reads(i, n)
    PROVE  EndFrom(1) = i /\ CodesFrom(1) = c /\ i \in CutsFrom(1)
<1>1. EndFrom(i) = i /\ CodesFrom(i) = <<>> /\ CutsFrom(i) = {i}
  BY Stuck
<1>2. c \o <<>> = c
  BY ConcatEmptySeq
<1> QED BY <1>1, <1>2 DEF LeadsTo

LEMMA NothingAtStop ==
    ASSUME BytesGiven, NEW i \in Nat,
           i < Len(bytes) => bytes[i + 1] \in Literal!Stops /\ bytes[i + 1] # 92, NEW n
    PROVE  ~Reads(i, n)
<1> SUFFICES ASSUME Reads(i, n) PROVE FALSE
  OBVIOUS
<1>1. n \in Nat /\ 1 <= n /\ i + n <= Len(bytes) /\ Len(bytes) \in Nat
  BY ReadsWithin, ByteAt
<1>2. bytes[i + 1] \in Literal!Stops /\ bytes[i + 1] # 92
  BY <1>1
<1> QED BY <1>2 DEF Reads, ReadsRaw, ReadsLetter, ReadsUnit, ReadsPair, Escape

LEMMA NothingAtEscape ==
    ASSUME BytesGiven, NEW i \in Nat, bytes[i + 1] = 92,
           i + 1 < Len(bytes) => bytes[i + 2] # 117 /\ bytes[i + 2] \notin Letters, NEW n
    PROVE  ~Reads(i, n)
<1> SUFFICES ASSUME Reads(i, n) PROVE FALSE
  OBVIOUS
<1>1. 92 \in Literal!Stops
  BY StopOf
<1>2. /\ bytes[i + 2] = 117 \/ bytes[i + 2] \in Letters
      /\ n = 2 \/ n = 6 \/ n = 12
  BY <1>1 DEF Reads, ReadsRaw, ReadsLetter, ReadsUnit, ReadsPair, Escape
<1>3. i + n <= Len(bytes) /\ Len(bytes) \in Nat
  BY ReadsWithin, ByteAt
<1>4. i + 1 < Len(bytes)
  BY <1>2, <1>3
<1> QED BY <1>2, <1>4

(* The inductive invariant: what has been read leads from the quote to the    *)
(* offset, and a verdict is the one on the end of what the literal spells.    *)
ExactlyRead ==
    IF Literal!Next8(EndFrom(1)) = 34
    THEN verdict.status = "string" /\ codes = CodesFrom(1) /\ offset = EndFrom(1) + 1
    ELSE verdict.status = "refused"
FaultNamed ==
    verdict.status = "refused" =>
      IF verdict.class = "Syntax" THEN verdict.offset = EndFrom(1) + 2 /\ Literal!Next8(EndFrom(1)) = 92
      ELSE IF verdict.offset = 0 THEN EndFrom(1) = Len(bytes)
      ELSE /\ verdict.offset \in CutsFrom(1)
           /\ EndFrom(1) < Len(bytes)
           /\ \A i \in verdict.offset..(EndFrom(1) - 1) : Literal!Next8(i) \notin Literal!Stops
ReadingOn ==
    /\ verdict = [status |-> "scanning"]
    /\ offset \in 1..Len(bytes) /\ codes \in Seq(Nat) /\ LeadsTo(1, codes, offset)
Judged == verdict.status \in {"string", "refused"} /\ ExactlyRead /\ FaultNamed
LiteralInv ==
    \/ NoLiteral
    \/ /\ NoNumber /\ bytes \in Literals
       /\ ReadingOn \/ Judged

LEMMA GivenLiteral ==
    ASSUME bytes \in Literals
    PROVE  BytesGiven /\ Len(bytes) \in Nat /\ 1 \in 1..Len(bytes)
<1>1. bytes \in Seq(Literal!Byte) /\ bytes # <<>>
  BY LiteralAssumption DEF Literal!LiteralsFit
<1>2. Len(bytes) \in Nat /\ Len(bytes) # 0
  BY <1>1, EmptySeq
<1> QED BY <1>1, <1>2 DEF BytesGiven

LEMMA SameEnds ==
    ASSUME bytes' = bytes, profile' = profile
    PROVE  /\ CodesFrom(1)' = CodesFrom(1) /\ CutsFrom(1)' = CutsFrom(1) /\ EndFrom(1)' = EndFrom(1)
BY SameLiteral DEF CodesFrom, CutsFrom, EndFrom

SameGiven == UNCHANGED <<bytes, profile, text, answer>> /\ NoNumber /\ bytes \in Literals

LEMMA Pushed ==
    ASSUME SameGiven, ReadingOn, NEW cs \in Seq(Nat), NEW j \in 1..Len(bytes), LeadsTo(offset, cs, j),
           Literal!Push(cs, j)
    PROVE  LiteralInv'
<1>1. codes' = codes \o cs /\ offset' = j /\ verdict' = verdict
  BY DEF Literal!Push
<1>2. BytesGiven /\ 1 \in 1..Len(bytes)
  BY GivenLiteral DEF SameGiven
<1>3. LeadsTo(1, codes \o cs, j)
  BY <1>2, LeadsOn DEF ReadingOn
<1>4. codes \o cs \in Seq(Nat)
  BY ConcatProperties DEF ReadingOn
<1>5. SpelledFrom' = SpelledFrom
  BY SameLiteral DEF SameGiven
<1>6. LeadsTo(1, codes, offset)'
  BY <1>1, <1>3, <1>5 DEF LeadsTo, CodesFrom, CutsFrom, EndFrom
<1>7. ReadingOn'
  BY <1>1, <1>4, <1>6 DEF ReadingOn, SameGiven
<1> QED BY <1>7 DEF LiteralInv, SameGiven, NoNumber

LEMMA Accepted ==
    ASSUME SameGiven, UNCHANGED codes, verdict' = [status |-> "string"], offset' = EndFrom(1) + 1,
           codes = CodesFrom(1), Literal!Next8(EndFrom(1)) = 34
    PROVE  LiteralInv'
<1>1. CodesFrom(1)' = CodesFrom(1) /\ EndFrom(1)' = EndFrom(1)
  BY SameEnds DEF SameGiven
<1>2. Literal!Next8(EndFrom(1))' = Literal!Next8(EndFrom(1))
  BY <1>1 DEF Literal!Next8, SameGiven
<1>3. ExactlyRead' /\ FaultNamed'
  BY <1>1, <1>2 DEF ExactlyRead, FaultNamed
<1> QED BY <1>3 DEF LiteralInv, Judged, SameGiven, NoNumber

LEMMA Refused ==
    ASSUME SameGiven, NEW class, NEW place,
           verdict' = [status |-> "refused", class |-> class, offset |-> place],
           Literal!Next8(EndFrom(1)) # 34,
           IF class = "Syntax" THEN place = EndFrom(1) + 2 /\ Literal!Next8(EndFrom(1)) = 92
           ELSE IF place = 0 THEN EndFrom(1) = Len(bytes)
           ELSE /\ place \in CutsFrom(1)
                /\ EndFrom(1) < Len(bytes)
                /\ \A i \in place..(EndFrom(1) - 1) : Literal!Next8(i) \notin Literal!Stops
    PROVE  LiteralInv'
<1>1. CutsFrom(1)' = CutsFrom(1) /\ EndFrom(1)' = EndFrom(1) /\ bytes' = bytes
  BY SameEnds DEF SameGiven
<1>2. Literal!Next8(EndFrom(1))' = Literal!Next8(EndFrom(1))
  BY <1>1 DEF Literal!Next8
<1>3. ExactlyRead'
  BY <1>2 DEF ExactlyRead
<1>4. \A i : Literal!Next8(i)' = Literal!Next8(i)
  BY <1>1 DEF Literal!Next8
<1>5. verdict'.class = class /\ verdict'.offset = place /\ verdict'.status = "refused"
  OBVIOUS
<1>6. FaultNamed'
  <2>1. CASE class = "Syntax"
    BY <1>1, <1>2, <1>5, <2>1 DEF FaultNamed
  <2>2. CASE class # "Syntax" /\ place = 0
    BY <1>1, <1>5, <2>2 DEF FaultNamed
  <2>3. CASE class # "Syntax" /\ place # 0
    <3>1. \A i \in place..(EndFrom(1) - 1) : Literal!Next8(i)' \notin Literal!Stops
      BY <1>4, <2>3
    <3> QED BY <1>1, <1>5, <2>3, <3>1 DEF FaultNamed, Literal!Stops
  <2> QED BY <2>1, <2>2, <2>3
<1> QED BY <1>3, <1>5, <1>6 DEF LiteralInv, Judged, SameGiven, NoNumber

LEMMA HereGiven ==
    ASSUME SameGiven, ReadingOn
    PROVE  /\ BytesGiven /\ Len(bytes) \in Nat /\ 1 \in 1..Len(bytes)
           /\ offset \in 1..Len(bytes) /\ offset \in Nat /\ codes \in Seq(Nat) /\ LeadsTo(1, codes, offset)
           /\ offset \in CutsFrom(1)
<1>1. BytesGiven /\ Len(bytes) \in Nat /\ 1 \in 1..Len(bytes)
  BY GivenLiteral DEF SameGiven
<1>2. offset \in CutsFrom(offset)
  BY <1>1, HereIsCut DEF ReadingOn
<1> QED BY <1>1, <1>2 DEF ReadingOn, LeadsTo

(* Where nothing can be read, a refusal at the offset is one at the end.      *)
LEMMA RefusedHere ==
    ASSUME SameGiven, ReadingOn, \A n : ~Reads(offset, n),
           offset < Len(bytes), bytes[offset + 1] # 34, Literal!NotScalar(offset)
    PROVE  LiteralInv'
<1>1. EndFrom(1) = offset /\ offset \in CutsFrom(1) /\ offset # 0 /\ offset \in Nat
  BY HereGiven, StuckHere
<1>2. Literal!Next8(offset) # 34
  BY DEF Literal!Next8
<1>3. verdict' = [status |-> "refused", class |-> "StringNotScalar", offset |-> offset]
  BY DEF Literal!NotScalar
<1>4. \A i \in offset..(EndFrom(1) - 1) : Literal!Next8(i) \notin Literal!Stops
  BY <1>1
<1>5. "StringNotScalar" # "Syntax"
  OBVIOUS
<1> QED BY <1>1, <1>2, <1>3, <1>4, <1>5, Refused

LEMMA QuoteRead ==
    ASSUME SameGiven, ReadingOn, Literal!CloseQuote
    PROVE  LiteralInv'
<1>1. /\ BytesGiven /\ offset \in 1..Len(bytes) /\ offset \in Nat
      /\ codes \in Seq(Nat) /\ LeadsTo(1, codes, offset)
  BY HereGiven
<1>2. offset < Len(bytes) /\ bytes[offset + 1] = 34
  BY <1>1, NextIs DEF Literal!CloseQuote, Literal!Quote
<1>3. \A n : ~Reads(offset, n)
  BY <1>1, <1>2, StopOf, NothingAtStop
<1>4. EndFrom(1) = offset /\ CodesFrom(1) = codes
  BY <1>1, <1>3, StuckHere
<1> QED BY <1>4, Accepted DEF Literal!CloseQuote, Literal!Quote

LEMMA EndRead ==
    ASSUME SameGiven, ReadingOn, Literal!Unterminated
    PROVE  LiteralInv'
<1>1. /\ BytesGiven /\ offset \in 1..Len(bytes) /\ offset \in Nat /\ Len(bytes) \in Nat
      /\ codes \in Seq(Nat) /\ LeadsTo(1, codes, offset)
  BY HereGiven
<1>2. offset = Len(bytes)
  BY <1>1 DEF Literal!Unterminated, Literal!Unread
<1>3. \A n : ~Reads(offset, n)
  BY <1>1, <1>2, NothingAtStop
<1>4. EndFrom(1) = Len(bytes)
  BY <1>1, <1>2, <1>3, StuckHere
<1>5. Literal!Next8(EndFrom(1)) # 34
  BY <1>1, <1>4 DEF Literal!Next8
<1>6. verdict' = [status |-> "refused", class |-> "StringNotScalar", offset |-> 0]
  BY DEF Literal!Unterminated, Literal!NotScalar
<1>7. "StringNotScalar" # "Syntax"
  OBVIOUS
<1> QED BY <1>4, <1>5, <1>6, <1>7, Refused

LEMMA ControlRead ==
    ASSUME SameGiven, ReadingOn, Literal!ControlCharacter
    PROVE  LiteralInv'
<1>1. BytesGiven /\ offset \in Nat
  BY HereGiven
<1>2. Literal!Next8(offset) \in 0..31 /\ Literal!NotScalar(offset)
  BY DEF Literal!ControlCharacter
<1> DEFINE b == Literal!Next8(offset)
<1>3. /\ offset < Len(bytes) => b = bytes[offset + 1]
      /\ ~(offset < Len(bytes)) => b = -1
  BY <1>1, NextByte
<1>4. b \in Int /\ 0 <= b /\ b <= 31
  BY <1>2
<1> HIDE DEF b
<1>5. b \in Literal!Stops /\ b # 92 /\ b # 34
  BY <1>4, StopOf
<1>6. offset < Len(bytes) /\ bytes[offset + 1] = b
  BY <1>3, <1>4
<1>7. \A n : ~Reads(offset, n)
  BY <1>1, <1>5, <1>6, NothingAtStop
<1> QED BY <1>2, <1>5, <1>6, <1>7, RefusedHere

LEMMA EscapeBytes ==
    ASSUME SameGiven, ReadingOn, Literal!AtEscape
    PROVE  /\ offset < Len(bytes) /\ bytes[offset + 1] = 92
           /\ IF offset + 1 < Len(bytes)
              THEN Literal!Next8(offset + 1) = bytes[offset + 2] /\ IsByte(bytes[offset + 2])
              ELSE Literal!Next8(offset + 1) = -1
<1>1. BytesGiven /\ offset \in Nat /\ offset + 1 \in Nat /\ (offset + 1) + 1 = offset + 2
  BY HereGiven
<1>2. offset < Len(bytes) /\ bytes[offset + 1] = 92
  BY <1>1, NextIs DEF Literal!AtEscape, Literal!Backslash
<1>3. /\ offset + 1 < Len(bytes) => Literal!Next8(offset + 1) = bytes[(offset + 1) + 1] /\ IsByte(bytes[(offset + 1) + 1])
      /\ ~(offset + 1 < Len(bytes)) => Literal!Next8(offset + 1) = -1
  BY <1>1, NextByte
<1> QED BY <1>1, <1>2, <1>3

LEMMA CutRead ==
    ASSUME SameGiven, ReadingOn, Literal!CutEscape
    PROVE  LiteralInv'
<1>1. Literal!AtEscape /\ Literal!Next8(offset + 1) = -1 /\ Literal!NotScalar(offset)
  BY DEF Literal!CutEscape
<1>2. offset < Len(bytes) /\ bytes[offset + 1] = 92 /\ ~(offset + 1 < Len(bytes))
  BY <1>1, EscapeBytes DEF IsByte
<1>3. \A n : ~Reads(offset, n)
  BY <1>2, HereGiven, NothingAtEscape
<1> QED BY <1>1, <1>2, <1>3, RefusedHere

LEMMA UnknownRead ==
    ASSUME SameGiven, ReadingOn, Literal!UnknownEscape
    PROVE  LiteralInv'
<1>1. /\ Literal!AtEscape /\ Literal!Next8(offset + 1) \notin {-1, 117} \cup Letters
      /\ verdict' = [status |-> "refused", class |-> "Syntax", offset |-> offset + 2]
  BY SimpleOf DEF Literal!UnknownEscape, Literal!LetterU
<1>2. /\ offset < Len(bytes) /\ bytes[offset + 1] = 92
      /\ offset + 1 < Len(bytes) => bytes[offset + 2] # 117 /\ bytes[offset + 2] \notin Letters
  BY <1>1, EscapeBytes
<1>3. \A n : ~Reads(offset, n)
  BY <1>2, HereGiven, NothingAtEscape
<1>4. EndFrom(1) = offset
  BY <1>3, HereGiven, StuckHere
<1>5. Literal!Next8(EndFrom(1)) = 92
  BY <1>2, <1>4 DEF Literal!Next8
<1> QED BY <1>1, <1>4, <1>5, Refused

LEMMA LetterRead ==
    ASSUME SameGiven, ReadingOn, Literal!SimpleEscape
    PROVE  LiteralInv'
<1>1. /\ Literal!AtEscape /\ Literal!Next8(offset + 1) \in Letters
      /\ Literal!Push(<<Literal!Simple[Literal!Next8(offset + 1)]>>, offset + 2)
  BY SimpleOf DEF Literal!SimpleEscape
<1>2. -1 \notin Letters
  BY DEF Letters
<1>3. /\ offset + 1 < Len(bytes) /\ bytes[offset + 1] = 92
      /\ bytes[offset + 2] = Literal!Next8(offset + 1) /\ bytes[offset + 2] \in Letters
  BY <1>1, <1>2, EscapeBytes
<1>4. BytesGiven /\ offset \in 1..Len(bytes) /\ Len(bytes) \in Nat
  BY HereGiven
<1>5. Reads(offset, 2)
  BY <1>3, <1>4 DEF Reads, ReadsLetter
<1>6. Literal!Candidate(offset, 2) = Literal!Simple[bytes[offset + 2]]
  BY <1>3, CandidateOf
<1>7. LeadsTo(offset, <<Literal!Candidate(offset, 2)>>, offset + 2)
  BY <1>4, <1>5, LeadsOne
<1>8. Literal!Candidate(offset, 2) \in Nat /\ offset + 2 \in 1..Len(bytes)
  BY <1>4, <1>5, SpelledGoesOn
<1> DEFINE c == Literal!Candidate(offset, 2)
<1>9. Literal!Push(<<c>>, offset + 2)
  BY <1>1, <1>3, <1>6
<1> HIDE DEF c
<1>10. <<c>> \in Seq(Nat) /\ LeadsTo(offset, <<c>>, offset + 2)
  BY <1>7, <1>8 DEF c
<1> QED BY <1>8, <1>9, <1>10, Pushed

LEMMA UnitRead ==
    ASSUME SameGiven, ReadingOn, Literal!UnicodeEscape
    PROVE  LiteralInv'
<1> DEFINE e == Literal!Escaped(offset)
<1>1. /\ Literal!AtEscape /\ Literal!Next8(offset + 1) = 117
      /\ IF e.code = -1 \/ Literal!Forbidden(e.code) THEN Literal!NotScalar(offset)
         ELSE Literal!Push(<<e.code>>, e.after)
  BY DEF Literal!UnicodeEscape, Literal!LetterU
<1>2. offset + 1 < Len(bytes) /\ bytes[offset + 1] = 92 /\ bytes[offset + 2] = 117
  BY <1>1, EscapeBytes
<1>3. BytesGiven /\ offset \in 1..Len(bytes) /\ Len(bytes) \in Nat /\ offset \in Nat
  BY HereGiven
<1>4. offset + 2 <= Len(bytes) /\ Escape(offset)
  BY <1>2, <1>3 DEF Escape
<1>5. /\ e.code # -1 /\ ~Literal!Forbidden(e.code) =>
           \E n : Reads(offset, n) /\ e.after = offset + n /\ e.code = Literal!Candidate(offset, n)
      /\ e.code = -1 \/ Literal!Forbidden(e.code) => \A n : ~Reads(offset, n)
  BY <1>3, <1>4, EscapedReads
<1> HIDE DEF e
<1>6. CASE e.code = -1 \/ Literal!Forbidden(e.code)
  BY <1>1, <1>2, <1>3, <1>5, <1>6, RefusedHere
<1>7. CASE ~(e.code = -1 \/ Literal!Forbidden(e.code))
  <2>1. PICK n : Reads(offset, n) /\ e.after = offset + n /\ e.code = Literal!Candidate(offset, n)
    BY <1>5, <1>7
  <2>2. LeadsTo(offset, <<e.code>>, e.after)
    BY <1>3, <2>1, LeadsOne
  <2>3. e.code \in Nat /\ e.after \in 1..Len(bytes)
    BY <1>3, <2>1, SpelledGoesOn
  <2>4. <<e.code>> \in Seq(Nat)
    BY <2>3
  <2>5. Literal!Push(<<e.code>>, e.after)
    BY <1>1, <1>7
  <2> QED BY <2>2, <2>3, <2>4, <2>5, Pushed
<1> QED BY <1>6, <1>7

(* The run at an offset ends before the next stop.                            *)
LEMMA RunEnds ==
    ASSUME BytesGiven, offset \in 1..Len(bytes), offset < Len(bytes)
    PROVE  RunTo(offset, Literal!RunEnd)
<1> DEFINE I == {i \in (offset + 1)..Len(bytes) : bytes[i] \in Literal!Stops}
           m == CHOOSE x \in I : \A y \in I : x <= y
           stop == IF I # {} THEN m ELSE 0
<1>1. Len(bytes) \in Nat /\ offset \in Nat /\ 1 <= offset
  BY ByteAt
<1>2. Literal!RunEnd = IF stop = 0 THEN Len(bytes) ELSE stop - 1
  BY DEF Literal!RunEnd, Literal!SelectInSubSeq, Literal!Min
<1>3. I \subseteq Nat
  BY <1>1
<1>4. I # {} => m \in I /\ \A y \in I : m <= y
  <2> SUFFICES ASSUME I # {} PROVE m \in I /\ \A y \in I : m <= y
    OBVIOUS
  <2>1. \E x \in I : \A y \in I : x <= y
    <3> HIDE DEF I
    <3> QED BY <1>3, Least
  <2> QED BY <2>1
<1> HIDE DEF m
<1>5. CASE I = {}
  <2>1. Literal!RunEnd = Len(bytes)
    BY <1>2, <1>5
  <2> QED BY <1>1, <1>5, <2>1 DEF RunTo
<1>6. CASE I # {}
  <2>1. m \in (offset + 1)..Len(bytes) /\ bytes[m] \in Literal!Stops /\ \A y \in I : m <= y
    BY <1>4, <1>6
  <2>2. Literal!RunEnd = m - 1
    BY <1>1, <1>2, <1>6, <2>1
  <2>3. \A k \in (offset + 1)..(m - 1) : bytes[k] \notin Literal!Stops
    BY <1>1, <2>1
  <2> DEFINE e == m - 1
  <2>4. e \in offset..Len(bytes) /\ bytes[e + 1] \in Literal!Stops
    BY <1>1, <2>1
  <2> QED BY <2>2, <2>3, <2>4 DEF RunTo
<1> QED BY <1>5, <1>6

LEMMA RunRead ==
    ASSUME SameGiven, ReadingOn, Literal!Run
    PROVE  LiteralInv'
<1> DEFINE e == Literal!RunEnd
           g == Literal!FromUtf8(SubSeq(bytes, offset + 1, e))
<1>1. /\ offset < Len(bytes)
      /\ IF g.ok /\ Clean(g.chars) THEN Literal!Push(g.chars, e) ELSE Literal!NotScalar(offset)
  BY DEF Literal!Run, Literal!Unread, Clean
<1>2. /\ BytesGiven /\ offset \in 1..Len(bytes) /\ Len(bytes) \in Nat /\ offset \in Nat
      /\ 1 \in 1..Len(bytes) /\ LeadsTo(1, codes, offset) /\ offset \in CutsFrom(1)
  BY HereGiven
<1>3. RunTo(offset, e)
  BY <1>1, <1>2, RunEnds
<1>4. g = ReadFrom(offset, e, offset)
  <2>1. offset - offset + 1 = 1
    BY <1>2
  <2>2. g = ChunkFrom(Chunk(offset, e))[1]
    BY ChunkIs DEF Chunk
  <2> QED BY <2>1, <2>2 DEF ReadFrom
<1> HIDE DEF g, e
<1>5. RunSound(offset, e, offset)
  BY <1>2, <1>3, RunIsSound
<1>6. /\ g.chars \in Seq(Nat)
      /\ IF g.ok /\ Clean(g.chars) THEN LeadsTo(offset, g.chars, e) ELSE EndFrom(offset) < e
  BY <1>4, <1>5 DEF RunSound
<1>7. e \in 1..Len(bytes) /\ e \in Nat /\ \A k \in (offset + 1)..e : bytes[k] \notin Literal!Stops
  BY <1>2, <1>3 DEF RunTo
<1>8. CASE g.ok /\ Clean(g.chars)
  BY <1>1, <1>6, <1>7, <1>8, Pushed
<1>9. CASE ~(g.ok /\ Clean(g.chars))
  <2> DEFINE z == EndFrom(1)
  <2>1. z = EndFrom(offset)
    BY <1>2 DEF LeadsTo
  <2>2. z \in offset..Len(bytes) /\ z < e
    BY <1>2, <1>6, <1>9, <2>1, EndIsCut
  <2> HIDE DEF z
  <2>3. \A i \in offset..z : Literal!Next8(i) \notin Literal!Stops
    <3> SUFFICES ASSUME NEW i \in offset..z PROVE Literal!Next8(i) \notin Literal!Stops
      OBVIOUS
    <3>1. i + 1 \in (offset + 1)..e /\ i < Len(bytes)
      BY <1>2, <1>7, <2>2
    <3> QED BY <1>7, <3>1 DEF Literal!Next8
  <2>4. Literal!Next8(z) # 34
    <3>1. 34 \in Literal!Stops
      BY StopOf
    <3>2. z \in offset..z
      BY <1>2, <2>2
    <3> QED BY <2>3, <3>1, <3>2
  <2>5. verdict' = [status |-> "refused", class |-> "StringNotScalar", offset |-> offset]
    BY <1>1, <1>9 DEF Literal!NotScalar
  <2>6. z < Len(bytes) /\ \A i \in offset..(z - 1) : Literal!Next8(i) \notin Literal!Stops
    BY <1>2, <1>7, <2>2, <2>3
  <2>7. "StringNotScalar" # "Syntax" /\ offset # 0
    BY <1>2
  <2> QED BY <1>2, <2>4, <2>5, <2>6, <2>7, Refused DEF z
<1> QED BY <1>8, <1>9

LEMMA LiteralStepKept ==
    ASSUME LiteralInv, Literal!Next, UNCHANGED numberVars
    PROVE  LiteralInv'
<1>1. verdict.status = "scanning"
  BY DEF Literal!Next, Literal!Run, Literal!Unterminated, Literal!ControlCharacter, Literal!CloseQuote,
         Literal!CutEscape, Literal!UnknownEscape, Literal!SimpleEscape, Literal!UnicodeEscape,
         Literal!AtEscape, Literal!Scanning
<1>2. NoNumber /\ bytes \in Literals /\ ReadingOn
  BY <1>1 DEF LiteralInv, NoLiteral, Judged
<1>3. UNCHANGED <<bytes, profile>>
  BY DEF Literal!Next, Literal!Run, Literal!Unterminated, Literal!ControlCharacter, Literal!CloseQuote,
         Literal!CutEscape, Literal!UnknownEscape, Literal!SimpleEscape, Literal!UnicodeEscape,
         Literal!NotScalar, Literal!Push
<1>4. SameGiven
  BY <1>2, <1>3 DEF SameGiven, numberVars
<1> QED BY <1>2, <1>4, RunRead, EndRead, ControlRead, QuoteRead, CutRead, UnknownRead, LetterRead, UnitRead
        DEF Literal!Next

LEMMA LiteralIdleKept ==
    ASSUME LiteralInv, UNCHANGED <<profile, numberVars, literalVars>>
    PROVE  LiteralInv'
<1>1. UNCHANGED <<bytes, offset, codes, verdict, text, answer, profile>>
  BY DEF numberVars, literalVars
<1>2. SpelledFrom' = SpelledFrom
  BY <1>1, SameLiteral
<1> QED BY <1>1, <1>2 DEF LiteralInv, NoLiteral, NoNumber, ReadingOn, Judged, ExactlyRead, FaultNamed, LeadsTo,
        CodesFrom, CutsFrom, EndFrom, Literal!Next8, Literal!Stops

LEMMA LiteralStarts == ASSUME LexemeInit PROVE LiteralInv
<1>1. CASE Token!Init /\ NoLiteral
  BY <1>1 DEF LiteralInv
<1>2. CASE Literal!Init /\ NoNumber
  <2>1. bytes \in Literals /\ offset = 1 /\ codes = <<>> /\ verdict = [status |-> "scanning"]
    BY <1>2 DEF Literal!Init
  <2>2. BytesGiven /\ 1 \in 1..Len(bytes)
    BY <2>1, GivenLiteral
  <2>3. LeadsTo(1, <<>>, 1)
    BY <2>2, LeadsNowhere
  <2>4. <<>> \in Seq(Nat)
    OBVIOUS
  <2>5. ReadingOn
    BY <2>1, <2>2, <2>3, <2>4 DEF ReadingOn
  <2> QED BY <1>2, <2>1, <2>5 DEF LiteralInv
<1> QED BY <1>1, <1>2 DEF LexemeInit

LEMMA NumberStepKept ==
    ASSUME LiteralInv, Token!Next, UNCHANGED literalVars
    PROVE  LiteralInv'
<1>1. answer.status = "unread"
  BY DEF Token!Next, Token!ReadNumber
<1>2. NoLiteral
  BY <1>1 DEF LiteralInv, NoNumber
<1> QED BY <1>2 DEF LiteralInv, NoLiteral, literalVars

LEMMA LiteralKept == LexemeSpec => []LiteralInv
<1>1. LexemeInit => LiteralInv
  BY LiteralStarts
<1>2. LiteralInv /\ [LexemeNext]_<<profile, numberVars, literalVars>> => LiteralInv'
  BY LiteralStepKept, LiteralIdleKept, NumberStepKept DEF LexemeNext
<1> QED BY <1>1, <1>2, PTL DEF LexemeSpec

LEMMA InvIsExact == ASSUME LiteralInv PROVE LiteralIsExact /\ OffsetNamesFault
<1>1. CASE NoLiteral
  BY <1>1 DEF NoLiteral, LiteralIsExact, OffsetNamesFault, Literal!LiteralIsExact, Literal!OffsetNamesFault
<1>2. CASE ReadingOn
  BY <1>2 DEF ReadingOn, LiteralIsExact, OffsetNamesFault, Literal!LiteralIsExact, Literal!OffsetNamesFault
<1>3. CASE bytes \in Literals /\ Judged
  <2>1. Literal!Max(Literal!Spelled.cuts) = EndFrom(1) /\ Literal!Spelled.codes = CodesFrom(1)
        /\ Literal!Spelled.cuts = CutsFrom(1)
    BY SpelledIs DEF EndFrom, CodesFrom, CutsFrom
  <2>2. EndFrom(1) \in Nat
    <3>1. BytesGiven /\ Len(bytes) \in Nat /\ 1 \in 1..Len(bytes)
      BY <1>3, GivenLiteral
    <3>2. EndFrom(1) \in 1..Len(bytes)
      BY <3>1, EndIsCut
    <3> QED BY <3>1, <3>2
  <2> DEFINE end == Literal!Max(Literal!Spelled.cuts)
  <2>3. LiteralIsExact
    BY <1>3, <2>1 DEF Judged, ExactlyRead, LiteralIsExact, Literal!LiteralIsExact, Literal!Quote
  <2>4. OffsetNamesFault
    <3> DEFINE A == verdict.class = "Syntax"
               B == verdict.offset = 0
               PA == verdict.offset = end + 2 /\ Literal!Next8(end) = Literal!Backslash
               PB == end = Len(bytes)
               PC == /\ verdict.offset \in Literal!Spelled.cuts
                     /\ end < Len(bytes)
                     /\ \A i \in verdict.offset..(end - 1) : Literal!Next8(i) \notin Literal!Stops
    <3>1. OffsetNamesFault <=> (verdict.status = "refused" => CASE A -> PA [] B -> PB [] OTHER -> PC)
      BY DEF OffsetNamesFault, Literal!OffsetNamesFault
    <3>2. verdict.status = "refused" => IF A THEN PA ELSE IF B THEN PB ELSE PC
      BY <1>3, <2>1 DEF Judged, FaultNamed, Literal!Backslash
    <3>3. PA => ~B
      BY <2>1, <2>2
    <3> HIDE DEF A, B, PA, PB, PC
    <3> QED BY <3>1, <3>2, <3>3
  <2> QED BY <2>3, <2>4
<1> QED BY <1>1, <1>2, <1>3 DEF LiteralInv

(* Of whatever bytes a literal is, it is accepted exactly when a quote ends the  *)
(* longest sequence of characters it spells, and it is read as that sequence:   *)
(* raw bytes, escapes and surrogate pairs bring in no code point that the       *)
(* options forbid and lose none they allow (parse.rs, string, escape, hex4).    *)
THEOREM LiteralReadAsSpelled == LexemeSpec => []LiteralIsExact
<1>1. LiteralInv => LiteralIsExact
  BY InvIsExact
<1> QED BY <1>1, LiteralKept, PTL

(* A refusal of any literal names its fault: what is before the offset spells    *)
(* characters, and the fault is in the escape or in the raw run that starts      *)
(* there, or is the missing end of the literal (parse.rs, string and escape).    *)
THEOREM FaultIsNamed == LexemeSpec => []OffsetNamesFault
<1>1. LiteralInv => OffsetNamesFault
  BY InvIsExact
<1> QED BY <1>1, LiteralKept, PTL
=============================================================================
