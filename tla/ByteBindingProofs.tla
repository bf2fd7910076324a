-------------------------- MODULE ByteBindingProofs --------------------------
(***************************************************************************)
(* One call answers for one sequence of bytes, copies no more than the cap,  *)
(* and its message is bounded, for any buffer, bytes, cap and core and any   *)
(* number of writes to a shared buffer.                                      *)
(*                                                                          *)
(* The first needs what each pass has read of what (Copied, Read) and which  *)
(* sequence an error under way is about (Thrown).  The last is a fact about  *)
(* Rendering alone, DisplayBounded; the recursive functions in it are        *)
(* reasoned about by induction over a set of numbers.                        *)
(***************************************************************************)
EXTENDS ByteBinding, SequenceTheorems, WellFoundedInduction, TLAPS

CopyCount == Len(copy)
ScanCount == Len(scanned)
TakeCount == Len(taken)

Typed ==
    /\ host \in {"npm", "python"}
    /\ op \in {"admit", "is_canonical"} /\ (host = "npm" => op = "admit")
    /\ buffer \in [1 .. Size -> Byte]
    /\ input \in Inputs /\ view \in Views
    /\ pc \in {"called", "accepted", "copying", "reading", "thrown", "returned"}
    /\ copy \in Seq(Byte) /\ scanned \in Seq(Byte) /\ taken \in Seq(Byte)
    /\ passed \in [1 .. Size -> SUBSET Byte]
    /\ \A i \in 1 .. Size : buffer[i] \in passed[i]

(* What a call has found out when it is where it is. *)
Advanced ==
    /\ pc \in {"accepted", "copying", "reading"} => input.bytes /\ view = input.is
    /\ pc \in {"copying", "reading"} => view.length <= MaxBytes
    /\ pc = "copying" => host = "npm" /\ CopyCount <= view.length
    /\ pc = "reading" /\ host = "npm" => CopyCount = view.length
    /\ pc \in {"called", "accepted"} \/ host = "python" \/ ~input.bytes => copy = <<>>
    /\ CopyCount <= MaxBytes
    /\ pc \in {"called", "accepted", "copying"} => scanned = <<>> /\ taken = <<>>

(* A byte of the copy was at its place in the buffer when it was copied. *)
Copied ==
    pc \in {"copying", "reading"} =>
      \A i \in 1 .. CopyCount : copy[i] \in passed[view.offset + i]

(* Both passes see the same bytes. *)
Read ==
    pc = "reading" =>
      /\ ScanCount <= view.length /\ TakeCount <= ScanCount
      /\ \A i \in 1 .. ScanCount : scanned[i] = Data[i]
      /\ \A i \in 1 .. TakeCount : taken[i] = Data[i]

(* What the core answers for the bytes s, or the check in front of it. *)
Settled(s) == IF Len(s) > MaxBytes THEN Refused(TooLarge(Len(s))) ELSE Outcome(s)

Thrown ==
    pc = "thrown" =>
      \/ ~input.bytes /\ answer = TypeError
      \/ input.bytes /\ answer = [class |-> "RuntimeError"]
      \/ /\ input.bytes
         /\ answer = Refused(answer.refusal) /\ Refusal(answer.refusal)
         /\ \E s \in Seen(input.is) : answer = Settled(s)

IInv == Typed /\ Advanced /\ Copied /\ Read /\ Thrown /\ AnswerIsOfInput /\ MessageBounded

----------------------------------------------------------------------------
(* The library states induction for an operator; for a set it needs no more.  *)
LEMMA Less == OpToRel(<, Nat) = {ss \in Nat \X Nat : ss[1] < ss[2]}
BY Zenon DEF OpToRel

LEMMA Least ==
    ASSUME NEW T, T \subseteq Nat, T # {}
    PROVE  \E n \in T : \A m \in T : n <= m
<1> DEFINE R == {ss \in Nat \X Nat : ss[1] < ss[2]}
<1>1. IsWellFoundedOn(R, Nat)
  BY NatLessThanWellFounded, Less, Zenon
<1>2. PICK n \in T : \A m \in T : ~(<<m, n>> \in R)
  <2> HIDE DEF R
  <2> QED BY <1>1, WFMin
<1>3. ASSUME NEW m \in T PROVE n <= m
  <2>1. ~(m < n)
    BY <1>2, <1>3
  <2> QED BY <2>1
<1> QED BY <1>3

LEMMA Induction ==
    ASSUME NEW T, 0 \in T, \A n \in Nat : n \in T => n + 1 \in T
    PROVE  Nat \subseteq T
<1> SUFFICES ASSUME Nat \ T # {} PROVE FALSE
  OBVIOUS
<1>1. PICK n \in Nat \ T : \A m \in Nat \ T : n <= m
  BY Least
<1>2. n # 0 /\ n - 1 \in Nat
  BY <1>1
<1>3. n - 1 \in T
  BY <1>1, <1>2
<1> QED BY <1>1, <1>2, <1>3

(* A sequence of values, each made of the one before it. *)
Iterable(S, base, L, G) == base \in S /\ L \in Nat /\ G \in [S \X (1..L) -> S]
Iterates(S, base, L, G) ==
    \E h \in [0..L -> S] : h[0] = base /\ \A m \in 1..L : h[m] = G[<<h[m - 1], m>>]

LEMMA Iterated ==
    ASSUME NEW S, NEW base, NEW L, NEW G, Iterable(S, base, L, G)
    PROVE  Iterates(S, base, L, G)
<1>0. base \in S /\ L \in Nat /\ G \in [S \X (1..L) -> S]
  BY DEF Iterable
<1> DEFINE Good(n) == \E h \in [0..n -> S] :
             h[0] = base /\ \A m \in 1..n : h[m] = G[<<h[m - 1], m>>]
           T == {n \in Nat : n <= L => Good(n)}
<1>1. 0 \in T
  <2> DEFINE h == [i \in 0..0 |-> base]
  <2>1. h \in [0..0 -> S] /\ h[0] = base /\ 1..0 = {}
    BY <1>0
  <2>2. Good(0)
    BY <2>1
  <2> QED BY <2>2
<1>2. ASSUME NEW n \in Nat, n \in T PROVE n + 1 \in T
  <2> SUFFICES ASSUME n + 1 <= L PROVE Good(n + 1)
    OBVIOUS
  <2>1. PICK g \in [0..n -> S] :
             g[0] = base /\ \A m \in 1..n : g[m] = G[<<g[m - 1], m>>]
    <3>1. n <= L
      BY <1>0
    <3> QED BY <1>2, <3>1
  <2> DEFINE next == G[<<g[n], n + 1>>]
             h == [i \in 0..n + 1 |-> IF i = n + 1 THEN next ELSE g[i]]
  <2>2. next \in S
    BY <1>0, <2>1
  <2> HIDE DEF next
  <2>3. h \in [0..n + 1 -> S]
    BY <2>1, <2>2
  <2>4. h[0] = base /\ h[n + 1] = next /\ \A i \in 0..n : h[i] = g[i]
    BY <2>1
  <2>5. ASSUME NEW m \in 1..n + 1 PROVE h[m] = G[<<h[m - 1], m>>]
    <3>1. CASE m = n + 1
      <4>1. h[m - 1] = g[n]
        BY <2>4, <3>1
      <4> HIDE DEF h
      <4> QED BY <3>1, <4>1, <2>4 DEF next
    <3>2. CASE m \in 1..n
      <4>1. h[m] = g[m] /\ h[m - 1] = g[m - 1]
        BY <2>4, <3>2
      <4> HIDE DEF h
      <4> QED BY <2>1, <3>2, <4>1
    <3> QED BY <3>1, <3>2
  <2> HIDE DEF h
  <2> QED BY <2>3, <2>4, <2>5
<1> HIDE DEF T
<1>3. Nat \subseteq T
  BY <1>1, <1>2, Induction
<1>4. L \in T
  BY <1>0, <1>3
<1> QED BY <1>0, <1>4 DEF T, Iterates


----------------------------------------------------------------------------
(* The recursive functions of Rendering. *)
LEMMA UpToTyped ==
    ASSUME NEW widths \in Seq(Nat)
    PROVE  UpTo(widths) \in [0..Len(widths) -> Nat] /\ UpTo(widths)[0] = 0
<1> DEFINE L == Len(widths)
           Body(f) == [n \in 0..L |-> IF n = 0 THEN 0 ELSE f[n - 1] + widths[n]]
           G == [p \in Nat \X (1..L) |-> p[1] + widths[p[2]]]
<1>1. L \in Nat /\ \A n \in 1..L : widths[n] \in Nat
  BY LenProperties, ElementOfSeq
<1>2. UpTo(widths) = CHOOSE f : f = Body(f)
  BY Zenon DEF UpTo
<1> HIDE DEF L
<1>3. G \in [Nat \X (1..L) -> Nat] /\ \A x \in Nat, n \in 1..L : G[<<x, n>>] = x + widths[n]
  BY <1>1
<1> HIDE DEF G
<1>4. PICK h \in [0..L -> Nat] : h[0] = 0 /\ \A n \in 1..L : h[n] = G[<<h[n - 1], n>>]
  <2>1. 0 \in Nat /\ L \in Nat
    BY <1>1
  <2>2. Iterable(Nat, 0, L, G)
    BY <1>3, <2>1 DEF Iterable
  <2>3. Iterates(Nat, 0, L, G)
    BY <2>2, Iterated
  <2> QED BY <2>3 DEF Iterates
<1>5. h = Body(h)
  <2>1. ASSUME NEW n \in 0..L PROVE h[n] = Body(h)[n]
    <3>1. CASE n = 0
      BY <1>1, <1>4, <3>1
    <3>2. CASE n # 0
      <4>1. n \in 1..L /\ n - 1 \in 0..L
        BY <1>1, <3>2
      <4> QED BY <1>3, <1>4, <3>2, <4>1
    <3> QED BY <3>1, <3>2
  <2> QED BY <1>4, <2>1
<1> DEFINE f == UpTo(widths)
<1>6. f = Body(f)
  <2> HIDE DEF Body
  <2> QED BY <1>2, <1>5, Zenon
<1> HIDE DEF f
<1>7. ASSUME NEW n \in 0..L PROVE f[n] \in Nat
  <2> DEFINE T == {m \in Nat : m <= L => f[m] \in Nat}
  <2>1. 0 \in T
    BY <1>1, <1>6
  <2>2. ASSUME NEW m \in Nat, m \in T PROVE m + 1 \in T
    <3> SUFFICES ASSUME m + 1 <= L PROVE f[m + 1] \in Nat
      OBVIOUS
    <3>1. m + 1 \in 0..L /\ m + 1 \in 1..L /\ (m + 1) - 1 = m /\ m <= L
      BY <1>1
    <3>2. f[m + 1] = f[m] + widths[m + 1]
      BY <1>6, <3>1
    <3> QED BY <1>1, <2>2, <3>1, <3>2
  <2> HIDE DEF T
  <2>3. Nat \subseteq T
    BY <2>1, <2>2, Induction
  <2>4. n \in T
    BY <2>3
  <2> QED BY <1>1, <2>4 DEF T
<1>8. f \in [0..L -> Nat] /\ f[0] = 0
  BY <1>1, <1>6, <1>7
<1> QED BY <1>8 DEF f, L

LEMMA SumTyped ==
    ASSUME NEW widths \in Seq(Nat)
    PROVE  Sum(widths) \in Nat
<1>1. Len(widths) \in 0..Len(widths)
  BY LenProperties
<1> QED BY <1>1, UpToTyped DEF Sum

(* A bounded set of numbers has a greatest. *)
LEMMA Greatest ==
    ASSUME NEW S, S \subseteq Nat, S # {}, NEW bound \in Nat, \A x \in S : x <= bound
    PROVE  Max(S) \in S
<1> DEFINE Above == {n \in Nat : \A x \in S : x <= n}
<1>1. PICK n \in Above : \A m \in Above : n <= m
  <2>1. bound \in Above
    OBVIOUS
  <2> HIDE DEF Above
  <2>2. Above \subseteq Nat
    BY DEF Above
  <2> QED BY <2>1, <2>2, Least
<1>2. n \in S
  <2> SUFFICES ASSUME n \notin S PROVE FALSE
    OBVIOUS
  <2>1. PICK x \in S : TRUE
    OBVIOUS
  <2>2. n - 1 \in Nat /\ \A y \in S : y <= n - 1
    BY <1>1, <2>1
  <2> QED BY <1>1, <2>2
<1>3. \E x \in S : \A y \in S : x >= y
  BY <1>1, <1>2
<1> QED BY <1>3 DEF Max

LEMMA EndTyped ==
    ASSUME NEW widths \in Seq(Nat)
    PROVE  End(widths) \in 0..RENDER_BUDGET
<1> DEFINE S == {i \in CharBoundaries(widths) : i <= RENDER_BUDGET} \cup {0}
<1>1. CharBoundaries(widths) \subseteq Nat
  BY UpToTyped DEF CharBoundaries
<1>2. RENDER_BUDGET \in Nat
  BY RenderingAssumption
<1>3. S \subseteq Nat /\ S # {} /\ \A x \in S : x <= RENDER_BUDGET
  BY <1>1, <1>2
<1> HIDE DEF S
<1>4. Max(S) \in S
  BY <1>2, <1>3, Greatest
<1> QED BY <1>2, <1>3, <1>4 DEF End, S

LEMMA DigitsTyped ==
    ASSUME NEW n \in Nat, Usize(n)
    PROVE  Digits(n) \in 1..UsizeDigits
<1> DEFINE Fits == {d \in 1..UsizeDigits : n < 10 ^ d}
<1>1. Fits \subseteq Nat /\ Fits # {}
  BY DEF Usize
<1>2. PICK d \in Fits : \A e \in Fits : d <= e
  <2> HIDE DEF Fits
  <2> QED BY <1>1, Least
<1>3. d \in 1..UsizeDigits /\ n < 10 ^ d
  OBVIOUS
<1>4. d = 1 \/ n >= 10 ^ (d - 1)
  <2> SUFFICES ASSUME d # 1 PROVE n >= 10 ^ (d - 1)
    OBVIOUS
  <2>1. d - 1 \in 1..UsizeDigits /\ ~(d <= d - 1)
    BY <1>3, RenderingAssumption
  <2>2. ~(n < 10 ^ (d - 1))
    BY <1>2, <2>1
  <2>3. d - 1 \in Nat
    BY <2>1
  <2> QED BY <2>2, <2>3
<1> QED BY <1>3, <1>4 DEF Digits

(* A count below another is of no more digits than a usize. *)
LEMMA UsizeBelow ==
    ASSUME NEW n \in Nat, Usize(n), NEW m \in Nat, m <= n
    PROVE  Usize(m)
<1>1. PICK d \in 1..UsizeDigits : n < 10 ^ d
  BY DEF Usize
<1>2. d \in Nat
  BY RenderingAssumption
<1>3. m < 10 ^ d
  BY <1>1, <1>2
<1> QED BY <1>3 DEF Usize
LEMMA FlattenTyped ==
    ASSUME NEW seqs \in Seq(Seq(Nat))
    PROVE  FlattenSeq(seqs) \in Seq(Nat)
<1> DEFINE L == Len(seqs)
           Body(f) == [i \in 1..L |-> IF i = 1 THEN seqs[i] ELSE f[i - 1] \o seqs[i]]
           G == [p \in Seq(Nat) \X (1..L) |-> p[1] \o seqs[p[2]]]
           f == CHOOSE f : f = Body(f)
<1>1. L \in Nat /\ \A i \in 1..L : seqs[i] \in Seq(Nat)
  BY LenProperties, ElementOfSeq
<1>2. CASE L = 0
  <2>1. seqs = <<>>
    BY <1>2, EmptySeq
  <2> QED BY <1>2, <2>1, EmptySeq DEF FlattenSeq
<1>3. CASE L # 0
  <2>1. FlattenSeq(seqs) = f[L]
    BY <1>3, Zenon DEF FlattenSeq
  <2> HIDE DEF L, f
  <2>2. /\ G \in [Seq(Nat) \X (1..L) -> Seq(Nat)]
        /\ \A x \in Seq(Nat), i \in 1..L : G[<<x, i>>] = x \o seqs[i]
    BY <1>1, ConcatProperties
  <2> HIDE DEF G
  <2>3. Iterable(Seq(Nat), <<>>, L, G)
    BY <1>1, <2>2, EmptySeq DEF Iterable
  <2>4. Iterates(Seq(Nat), <<>>, L, G)
    BY <2>3, Iterated
  <2>5. PICK h \in [0..L -> Seq(Nat)] :
          h[0] = <<>> /\ \A i \in 1..L : h[i] = G[<<h[i - 1], i>>]
    BY <2>4 DEF Iterates
  <2> DEFINE k == [i \in 1..L |-> h[i]]
  <2>6. k = Body(k)
    <3>1. ASSUME NEW i \in 1..L PROVE k[i] = Body(k)[i]
      <4>1. h[i] = h[i - 1] \o seqs[i]
        <5>1. i - 1 \in 0..L /\ h[i - 1] \in Seq(Nat)
          BY <1>1, <2>5
        <5>2. h[i] = G[<<h[i - 1], i>>]
          BY <2>5
        <5> QED BY <2>2, <5>1, <5>2
      <4>2. CASE i = 1
        <5>1. i - 1 = 0 /\ seqs[i] \in Seq(Nat)
          BY <1>1, <4>2
        <5>2. h[i] = seqs[i]
          BY <2>5, <4>1, <5>1, ConcatEmptySeq
        <5> QED BY <4>2, <5>2
      <4>3. CASE i # 1
        <5>1. i - 1 \in 1..L
          BY <1>1, <4>3
        <5> QED BY <4>1, <4>3, <5>1
      <4> QED BY <4>2, <4>3
    <3> QED BY <3>1
  <2>7. f = Body(f)
    <3> HIDE DEF Body, k
    <3> QED BY <2>6, Zenon DEF f
  <2>8. ASSUME NEW i \in Nat, i # 0, i <= L PROVE f[i] \in Seq(Nat)
    <3> DEFINE T == {m \in Nat : m # 0 /\ m <= L => f[m] \in Seq(Nat)}
    <3>1. 0 \in T
      OBVIOUS
    <3>2. ASSUME NEW m \in Nat, m \in T PROVE m + 1 \in T
      <4> SUFFICES ASSUME m + 1 <= L PROVE f[m + 1] \in Seq(Nat)
        OBVIOUS
      <4>1. m + 1 \in 1..L /\ (m + 1) - 1 = m
        BY <1>1
      <4>2. CASE m = 0
        BY <1>1, <2>7, <4>1, <4>2
      <4>3. CASE m # 0
        <5>1. f[m] \in Seq(Nat)
          BY <1>1, <3>2, <4>3
        <5>2. f[m + 1] = f[m] \o seqs[m + 1]
          <6>1. m + 1 # 1
            BY <4>3
          <6>2. f[m + 1] = Body(f)[m + 1]
            BY <2>7
          <6> QED BY <4>1, <6>1, <6>2
        <5> QED BY <1>1, <4>1, <5>1, <5>2, ConcatProperties
      <4> QED BY <4>2, <4>3
    <3> HIDE DEF T
    <3>3. Nat \subseteq T
      BY <3>1, <3>2, Induction
    <3>4. i \in T
      BY <3>3
    <3> QED BY <2>8, <3>4 DEF T
  <2> QED BY <1>1, <1>3, <2>1, <2>8
<1> QED BY <1>2, <1>3

----------------------------------------------------------------------------
(* What is written of a text is within the budget, and what is written instead *)
(* of the rest is of a length that has nothing to do with it.                  *)
LEMMA TextTyped ==
    ASSUME NEW text \in Seq(Characters)
    PROVE  Width(text) \in Nat /\ Escaped(text) \in Seq(Nat)
<1>1. Len(text) \in Nat /\ DOMAIN text = 1..Len(text)
  BY LenProperties
<1>2. \A i \in DOMAIN text : text[i].bytes \in Nat /\ text[i].esc \in Seq(Nat)
  <2> SUFFICES ASSUME NEW i \in DOMAIN text
               PROVE  text[i].bytes \in Nat /\ text[i].esc \in Seq(Nat)
    OBVIOUS
  <2>1. text[i] \in Characters
    BY <1>1, ElementOfSeq
  <2> QED BY <2>1 DEF Characters
<1> DEFINE bytes == [i \in DOMAIN text |-> text[i].bytes]
           escs == [i \in DOMAIN text |-> text[i].esc]
<1>3. bytes \in Seq(Nat) /\ escs \in Seq(Seq(Nat))
  BY <1>1, <1>2, SeqDef
<1>4. Width(text) \in Nat
  BY <1>3, SumTyped DEF Width
<1>5. Escaped(text) \in Seq(Nat)
  <2>1. Quote \in Seq(Nat)
    BY DEF Quote
  <2>2. FlattenSeq(escs) \in Seq(Nat)
    BY <1>3, FlattenTyped
  <2> HIDE DEF escs
  <2>3. Quote \o FlattenSeq(escs) \o Quote \in Seq(Nat)
    BY <2>1, <2>2, ConcatProperties
  <2> QED BY <2>3 DEF Escaped, escs
<1> QED BY <1>4, <1>5

LEMMA ClippedBounded ==
    ASSUME NEW text \in Seq(Characters), Usize(Width(text))
    PROVE  /\ Clipped(text) = [clipped |-> Clipped(text).clipped, shown |-> Clipped(text).shown,
                               elided |-> Clipped(text).elided, length |-> Clipped(text).length]
           /\ Clipped(text).length \in 0..(RENDER_BUDGET + 5 + UsizeDigits + 14)
<1>1. RENDER_BUDGET \in Nat /\ UsizeDigits \in Nat
  BY RenderingAssumption
<1>2. CASE Sum(Escaped(text)) <= RENDER_BUDGET
  <2>1. Sum(Escaped(text)) \in Nat
    BY TextTyped, SumTyped
  <2> QED BY <1>1, <1>2, <2>1 DEF Clipped, Whole
<1>3. CASE ~(Sum(Escaped(text)) <= RENDER_BUDGET)
  <2> DEFINE end == End(Escaped(text))
             elided == SaturatingSub(Width(text), end)
  <2>1. end \in 0..RENDER_BUDGET
    BY TextTyped, EndTyped
  <2>2. elided \in Nat /\ elided <= Width(text)
    BY <1>1, <2>1, TextTyped DEF SaturatingSub
  <2> HIDE DEF elided, end
  <2>3. Digits(elided) \in 1..UsizeDigits
    BY <2>2, TextTyped, UsizeBelow, DigitsTyped
  <2>4. Clipped(text) = [clipped |-> TRUE, shown |-> end, elided |-> elided,
                         length |-> end + 5 + Digits(elided) + 14]
    BY <1>3 DEF Clipped, Cut, end, elided
  <2> QED BY <1>1, <2>1, <2>3, <2>4
<1> QED BY <1>2, <1>3

LEMMA DisplayBounded ==
    ASSUME NEW e, Refusal(e)
    PROVE  Display(e).length <= CEILING
<1>1. /\ e.variant \in DOMAIN Worded /\ e.number \in 1..UsizeDigits
      /\ e.text \in Seq(Characters) /\ Usize(Width(e.text))
  BY DEF Refusal
<1>2. RENDER_BUDGET \in Nat /\ UsizeDigits \in Nat /\ LongestReason \in Nat
  BY RenderingAssumption
<1> DEFINE v == e.variant
           fragment == Clipped(e.text)
           prose == Worded[v] + HowMany[v] * e.number
<1>3. Worded[v] \in Nat /\ HowMany[v] \in 0..2
  <2>1. Worded[v] \in Nat
    BY <1>1 DEF Worded
  <2>2. HowMany[v] \in 0..2
    BY <1>1 DEF HowMany
  <2> QED BY <2>1, <2>2
<1>4. Longest(v) <= CEILING /\ CEILING \in Nat
  BY <1>1, CeilingAssumption
<1>5. prose \in Nat /\ prose <= Worded[v] + HowMany[v] * UsizeDigits
  <2> HIDE DEF v
  <2>1. HowMany[v] = 0 \/ HowMany[v] = 1 \/ HowMany[v] = 2
    BY <1>3
  <2> QED BY <1>1, <1>2, <1>3, <2>1
<1> HIDE DEF prose
<1>6. CASE v \in OfText
  <2>1. /\ fragment = [clipped |-> fragment.clipped, shown |-> fragment.shown,
                       elided |-> fragment.elided, length |-> fragment.length]
        /\ fragment.length \in 0..(RENDER_BUDGET + 5 + UsizeDigits + 14)
    BY <1>1, ClippedBounded
  <2>2. Display(e) = [fragment EXCEPT !.length = prose + fragment.length]
    BY <1>6 DEF Display, prose
  <2> HIDE DEF fragment
  <2>3. Display(e).length = prose + fragment.length
    BY <2>1, <2>2
  <2>4. Longest(v) = Worded[v] + HowMany[v] * UsizeDigits
                     + (RENDER_BUDGET + 5 + UsizeDigits + 14)
    BY <1>6 DEF Longest
  <2> DEFINE numbers == HowMany[v] * UsizeDigits
  <2> HIDE DEF v
  <2>5. numbers \in Nat
    BY <1>2, <1>3
  <2> HIDE DEF numbers
  <2>6. prose <= Worded[v] + numbers /\ Longest(v) = Worded[v] + numbers
                                         + (RENDER_BUDGET + 5 + UsizeDigits + 14)
    BY <1>5, <2>4 DEF numbers
  <2> QED BY <1>2, <1>3, <1>4, <1>5, <2>1, <2>3, <2>5, <2>6
<1>7. CASE v \notin OfText
  <2> DEFINE rest == IF v \in OfReason THEN LongestReason ELSE 0
  <2>1. Display(e).length = prose + rest
    <3>1. prose + 0 = prose
      BY <1>5
    <3> QED BY <1>7, <3>1 DEF Display, prose
  <2>2. Longest(v) = Worded[v] + HowMany[v] * UsizeDigits + rest
    BY <1>7 DEF Longest
  <2>3. rest \in Nat
    BY <1>2
  <2> DEFINE numbers == HowMany[v] * UsizeDigits
  <2> HIDE DEF v, rest
  <2>4. numbers \in Nat
    BY <1>2, <1>3
  <2> HIDE DEF numbers
  <2>5. prose <= Worded[v] + numbers /\ Longest(v) = Worded[v] + numbers + rest
    BY <1>5, <2>2 DEF numbers
  <2> QED BY <1>3, <1>4, <1>5, <2>1, <2>3, <2>4, <2>5
<1> QED BY <1>6, <1>7

LEMMA TooLargeRefuses ==
    ASSUME NEW n \in Nat, n <= Size
    PROVE  Refusal(TooLarge(n))
<1>1. Usize(n) /\ Usize(0)
  BY SizesAssumption, UsizeBelow
<1>2. Digits(n) \in 1..UsizeDigits
  BY <1>1, DigitsTyped
<1>3. Width(<<>>) = 0
  <2> DEFINE w == [i \in DOMAIN <<>> |-> <<>>[i].bytes]
  <2>1. w = <<>>
    OBVIOUS
  <2>2. Width(<<>>) = Sum(<<>>)
    BY <2>1 DEF Width
  <2>3. <<>> \in Seq(Nat) /\ Len(<<>>) = 0
    BY EmptySeq
  <2> QED BY <2>2, <2>3, UpToTyped DEF Sum
<1>4. <<>> \in Seq(Characters)
  BY EmptySeq
<1>5. "TooLarge" \in DOMAIN Worded
  BY DEF Worded
<1> HIDE DEF Characters
<1> QED BY <1>1, <1>2, <1>3, <1>4, <1>5 DEF Refusal, TooLarge

----------------------------------------------------------------------------
(* What lies in the buffer is one of the sequences a reader can have seen. *)
LEMMA SeenTyped ==
    ASSUME NEW v \in Views, NEW s \in Seen(v)
    PROVE  s \in [1 .. v.length -> Byte] /\ s \in Seq(Byte) /\ Len(s) = v.length
<1>1. v.length \in Nat /\ s \in [1 .. v.length -> Byte]
  BY SizesAssumption DEF Views, Seen
<1>2. s = [i \in 1 .. v.length |-> s[i]]
  BY <1>1
<1>3. s \in Seq(Byte)
  BY <1>1, SeqDef
<1>4. Len(s) = v.length
  BY <1>1, <1>2
<1> QED BY <1>1, <1>3, <1>4

LEMMA BufferSeen ==
    ASSUME Typed
    PROVE  At(buffer, view) \in Seen(view)
<1>1. /\ view.offset \in Nat /\ view.length \in Nat
      /\ \A i \in 1 .. view.length : view.offset + i \in 1 .. Size
  BY SizesAssumption DEF Typed, Views
<1>2. \A i \in 1 .. view.length : /\ buffer[view.offset + i] \in Byte
                                  /\ buffer[view.offset + i] \in passed[view.offset + i]
  BY <1>1 DEF Typed
<1> QED BY <1>2 DEF At, Seen

LEMMA DataSeen ==
    ASSUME Typed, Advanced, Copied, pc = "reading"
    PROVE  Data \in Seen(view)
<1>1. CASE host = "npm"
  <2>1. CopyCount = view.length /\ copy \in [1 .. CopyCount -> Byte]
    BY <1>1, LenProperties DEF Typed, Advanced, CopyCount
  <2> QED BY <1>1, <2>1 DEF Copied, Data, Seen
<1>2. CASE host # "npm"
  BY <1>2, BufferSeen DEF Data
<1> QED BY <1>1, <1>2

----------------------------------------------------------------------------
LEMMA InitInv == Init => IInv
<1> SUFFICES ASSUME Init PROVE IInv
  OBVIOUS
<1>1. <<>> \in Seq(Byte) /\ CopyCount = 0
  BY EmptySeq DEF Init, CopyCount
<1>2. Typed
  <2>1. view \in Views
    BY SizesAssumption DEF Init, Entire, Views
  <2> QED BY <1>1, <2>1 DEF Init, Typed
<1>3. Advanced
  BY <1>1, SizesAssumption DEF Init, Advanced
<1>4. Copied /\ Read /\ Thrown /\ AnswerIsOfInput
  BY DEF Init, Copied, Read, Thrown, AnswerIsOfInput
<1>5. MessageBounded
  BY DEF Init, MessageBounded, Nothing
<1> QED BY <1>2, <1>3, <1>4, <1>5 DEF IInv

(* A writer adds to what can have been seen, and the core does not look at the *)
(* buffer of a host that has writers.                                         *)
LEMMA WriteInv ==
    ASSUME IInv, Write
    PROVE  IInv'
<1>1. /\ host = "npm" /\ pc # "returned"
      /\ UNCHANGED <<host, op, input, pc, view, copy, scanned, taken, answer, raised>>
  BY DEF Write, call
<1>2. PICK i \in 1 .. Size, b \in Byte :
        /\ buffer' = [buffer EXCEPT ![i] = b]
        /\ passed' = [passed EXCEPT ![i] = @ \cup {b}]
  BY DEF Write
<1>3. /\ buffer' \in [1 .. Size -> Byte] /\ passed' \in [1 .. Size -> SUBSET Byte]
      /\ \A j \in 1 .. Size : buffer'[j] \in passed'[j] /\ passed[j] \subseteq passed'[j]
  BY <1>2 DEF IInv, Typed
<1>4. Typed' /\ Advanced'
  BY <1>1, <1>3 DEF IInv, Typed, Advanced, CopyCount, Plain
<1>5. ASSUME NEW v \in Views, NEW n \in 1 .. v.length PROVE v.offset + n \in 1 .. Size
  BY SizesAssumption DEF Views
<1>6. Copied'
  <2> SUFFICES ASSUME pc \in {"copying", "reading"}, NEW n \in 1 .. CopyCount
               PROVE  copy[n] \in passed'[view.offset + n]
    BY <1>1 DEF Copied, CopyCount
  <2>1. n \in 1 .. view.length
    <3>1. CopyCount \in Nat /\ CopyCount <= view.length
      BY <1>1, LenProperties DEF IInv, Typed, Advanced, CopyCount, Views
    <3>2. view.length \in Nat
      BY SizesAssumption DEF IInv, Typed, Views
    <3> QED BY <3>1, <3>2
  <2>2. copy[n] \in passed[view.offset + n]
    BY DEF IInv, Copied
  <2> QED BY <1>3, <1>5, <2>1, <2>2 DEF IInv, Typed
<1>7. Read'
  BY <1>1 DEF IInv, Read, Data, ScanCount, TakeCount
<1>8. Seen(input.is) \subseteq Seen(input.is)'
  <2>1. input.is \in Views
    BY DEF IInv, Typed, Inputs
  <2> QED BY <1>1, <1>3, <1>5, <2>1 DEF Seen
<1>9. Thrown'
  BY <1>1, <1>8 DEF IInv, Thrown, Settled
<1>10. AnswerIsOfInput' /\ MessageBounded'
  BY <1>1 DEF IInv, AnswerIsOfInput, MessageBounded
<1> QED BY <1>4, <1>6, <1>7, <1>9, <1>10 DEF IInv

----------------------------------------------------------------------------
(* A step of the call that raises nothing.  What it knows of the bytes is left *)
(* to each.                                                                   *)
LEMMA CallStepInv ==
    ASSUME IInv, UNCHANGED <<buffer, writes, passed, call>>, UNCHANGED raised,
           pc' # "returned", pc' \in {"accepted", "copying", "reading", "thrown"},
           view' \in Views, copy' \in Seq(Byte), scanned' \in Seq(Byte), taken' \in Seq(Byte),
           Advanced', Copied', Read', Thrown'
    PROVE  IInv'
<1>1. Typed'
  BY DEF IInv, Typed, call
<1>2. AnswerIsOfInput'
  BY DEF AnswerIsOfInput
<1>3. MessageBounded'
  BY DEF IInv, MessageBounded
<1> QED BY <1>1, <1>2, <1>3 DEF IInv

(* An error may be thrown from anywhere; the passes are over. *)
LEMMA ThrowInv ==
    ASSUME IInv, NEW error, Throw(error), pc \in {"called", "accepted", "copying", "reading"},
           \/ ~input.bytes /\ error = TypeError
           \/ input.bytes /\ error = [class |-> "RuntimeError"]
           \/ /\ input.bytes
              /\ error = Refused(error.refusal) /\ Refusal(error.refusal)
              /\ \E s \in Seen(input.is) : error = Settled(s)
    PROVE  IInv'
<1>1. /\ answer' = error /\ pc' = "thrown"
      /\ UNCHANGED <<buffer, writes, passed, call>>
      /\ UNCHANGED <<view, copy, scanned, taken, raised>>
  BY DEF Throw, Goto
<1>2. Advanced'
  BY <1>1 DEF IInv, Advanced, CopyCount, call
<1>3. Copied' /\ Read'
  BY <1>1 DEF Copied, Read
<1>4. Thrown'
  BY <1>1 DEF Thrown, Settled, Seen, call
<1> QED BY <1>1, <1>2, <1>3, <1>4, CallStepInv DEF IInv, Typed

LEMMA AcceptInv ==
    ASSUME IInv, Accept
    PROVE  IInv'
<1>1. pc = "called"
  BY DEF Accept
<1>2. CASE ~input.bytes
  BY <1>1, <1>2, ThrowInv DEF Accept
<1>3. CASE input.bytes
  <2>1. /\ view' = input.is /\ pc' = "accepted"
        /\ UNCHANGED <<buffer, writes, passed, call>>
        /\ UNCHANGED <<copy, scanned, taken, answer, raised>>
    BY <1>3 DEF Accept, Goto, LocalView
  <2>2. view' \in Views
    BY <2>1 DEF IInv, Typed, Inputs
  <2>3. Advanced'
    BY <1>1, <1>3, <2>1 DEF IInv, Advanced, CopyCount, call
  <2>4. Copied' /\ Read' /\ Thrown'
    BY <2>1 DEF Copied, Read, Thrown
  <2> QED BY <2>1, <2>2, <2>3, <2>4, CallStepInv DEF IInv, Typed
<1> QED BY <1>2, <1>3

LEMMA CheckInputLengthInv ==
    ASSUME IInv, CheckInputLength
    PROVE  IInv'
<1>1. pc = "accepted" /\ input.bytes /\ view = input.is
  BY DEF CheckInputLength, IInv, Advanced
<1>2. view.length \in Nat /\ view.length <= Size /\ view \in Views
  BY SizesAssumption DEF IInv, Typed, Views
<1>3. CASE view.length > MaxBytes
  <2> DEFINE s == At(buffer, view)
             error == Refused(TooLarge(view.length))
  <2>1. Throw(error)
    BY <1>3 DEF CheckInputLength
  <2>2. s \in Seen(view)
    BY BufferSeen DEF IInv
  <2>3. Len(s) = view.length
    BY <1>2, <2>2, SeenTyped
  <2>4. error = Settled(s)
    BY <1>3, <2>3 DEF Settled
  <2>5. error.refusal = TooLarge(view.length) /\ Refusal(error.refusal)
    BY <1>2, TooLargeRefuses DEF Refused
  <2> HIDE DEF s
  <2> QED BY <1>1, <2>1, <2>2, <2>4, <2>5, ThrowInv
<1>4. CASE ~(view.length > MaxBytes)
  <2>1. /\ pc' = IF host = "npm" THEN "copying" ELSE "reading"
        /\ UNCHANGED <<buffer, writes, passed, call>>
        /\ UNCHANGED <<view, copy, scanned, taken, answer, raised>>
    BY <1>4 DEF CheckInputLength, Goto
  <2>2. copy = <<>> /\ scanned = <<>> /\ taken = <<>>
    BY <1>1 DEF IInv, Advanced
  <2>3. CopyCount = 0 /\ ScanCount = 0 /\ TakeCount = 0
    BY <2>2 DEF CopyCount, ScanCount, TakeCount
  <2>4. view.length <= MaxBytes
    BY <1>2, <1>4, SizesAssumption
  <2>5. Advanced'
    BY <1>1, <1>2, <2>1, <2>2, <2>3, <2>4 DEF IInv, Typed, Advanced, CopyCount, call
  <2>6. Copied' /\ Read' /\ Thrown'
    <3>1. CopyCount' = 0 /\ ScanCount' = 0 /\ TakeCount' = 0
      BY <2>1, <2>3 DEF CopyCount, ScanCount, TakeCount
    <3> QED BY <1>2, <2>1, <3>1 DEF Copied, Read, Thrown
  <2> QED BY <2>1, <2>5, <2>6, CallStepInv DEF IInv, Typed
<1> QED BY <1>3, <1>4

LEMMA TrapInv ==
    ASSUME IInv, Trap
    PROVE  IInv'
BY ThrowInv DEF Trap, IInv, Advanced

LEMMA CopyInv ==
    ASSUME IInv, Copy
    PROVE  IInv'
<1>1. /\ pc = "copying" /\ host = "npm" /\ input.bytes /\ view = input.is
      /\ scanned = <<>> /\ taken = <<>>
      /\ view.length <= MaxBytes /\ CopyCount <= view.length
  BY DEF Copy, IInv, Advanced
<1>2. view.length \in Nat /\ CopyCount \in Nat
  BY SizesAssumption, LenProperties DEF IInv, Typed, Views, CopyCount
<1>3. UNCHANGED <<buffer, writes, passed, call, view, scanned, taken, answer, raised>>
  BY DEF Copy, Goto
<1>4. CASE CopyCount < view.length
  <2> DEFINE byte == At(buffer, view)[CopyCount + 1]
  <2>1. copy' = Append(copy, byte) /\ pc' = "copying"
    BY <1>4 DEF Copy, Goto, CopyCount
  <2>2. byte \in Byte /\ byte \in passed[view.offset + (CopyCount + 1)]
    <3>1. CopyCount + 1 \in 1 .. view.length
      BY <1>2, <1>4
    <3> QED BY <3>1, BufferSeen DEF IInv, Seen
  <2> HIDE DEF byte
  <2>3. /\ copy' \in Seq(Byte) /\ CopyCount' = CopyCount + 1
        /\ \A i \in 1 .. CopyCount : copy'[i] = copy[i]
        /\ copy'[CopyCount + 1] = byte
    BY <2>1, <2>2, AppendProperties DEF IInv, Typed, CopyCount
  <2>4. Advanced'
    BY <1>1, <1>2, <1>3, <1>4, <2>1, <2>3, SizesAssumption DEF Advanced, call
  <2>5. Copied'
    <3> SUFFICES ASSUME NEW i \in 1 .. CopyCount + 1
                 PROVE  copy'[i] \in passed[view.offset + i]
      BY <1>3, <2>3 DEF Copied
    <3>1. CASE i = CopyCount + 1
      BY <2>2, <2>3, <3>1
    <3>2. CASE i \in 1 .. CopyCount
      BY <1>1, <2>3, <3>2 DEF IInv, Copied
    <3> QED BY <1>2, <3>1, <3>2
  <2>6. Read' /\ Thrown'
    BY <2>1 DEF Read, Thrown
  <2> QED BY <1>3, <2>1, <2>3, <2>4, <2>5, <2>6, CallStepInv DEF IInv, Typed
<1>5. CASE ~(CopyCount < view.length)
  <2>1. copy' = copy /\ pc' = "reading"
    BY <1>5 DEF Copy, Goto, CopyCount
  <2>2. CopyCount' = view.length /\ CopyCount' = CopyCount
    BY <1>1, <1>2, <1>5, <2>1 DEF CopyCount
  <2>3. Advanced'
    BY <1>1, <1>2, <1>3, <2>1, <2>2 DEF Advanced, IInv, call
  <2>4. Copied'
    BY <1>1, <1>3, <2>1, <2>2 DEF IInv, Copied
  <2>5. Read'
    <3>1. ScanCount' = 0 /\ TakeCount' = 0
      BY <1>1, <1>3 DEF ScanCount, TakeCount
    <3> QED BY <1>2, <1>3, <3>1 DEF Read
  <2>6. Thrown'
    BY <2>1 DEF Thrown
  <2> QED BY <1>3, <2>1, <2>3, <2>4, <2>5, <2>6, CallStepInv DEF IInv, Typed
<1> QED BY <1>4, <1>5

(* A pass looks at the next byte of what has been copied or does not change. *)
LEMMA ScanInv ==
    ASSUME IInv, Scan
    PROVE  IInv'
<1>1. /\ pc = "reading" /\ pc' = "reading" /\ ScanCount < view.length
      /\ scanned' = Append(scanned, Data[ScanCount + 1])
      /\ UNCHANGED <<buffer, writes, passed, call, view, copy, taken, answer, raised>>
  BY DEF Scan, Goto, ScanCount
<1>2. view.length \in Nat /\ ScanCount \in Nat /\ TakeCount \in Nat
  BY SizesAssumption, LenProperties DEF IInv, Typed, Views, ScanCount, TakeCount
<1>3. Data[ScanCount + 1] \in Byte
  <2>1. ScanCount + 1 \in 1 .. view.length
    BY <1>1, <1>2
  <2> QED BY <1>1, <2>1, DataSeen DEF IInv, Seen
<1>4. /\ scanned' \in Seq(Byte) /\ ScanCount' = ScanCount + 1
      /\ \A i \in 1 .. ScanCount : scanned'[i] = scanned[i]
      /\ scanned'[ScanCount + 1] = Data[ScanCount + 1]
  BY <1>1, <1>3, AppendProperties DEF IInv, Typed, ScanCount
<1>5. Data' = Data /\ TakeCount' = TakeCount
  BY <1>1 DEF Data, At, TakeCount, call
<1>6. Read'
  <2>1. /\ TakeCount <= ScanCount
        /\ \A i \in 1 .. ScanCount : scanned[i] = Data[i]
        /\ \A i \in 1 .. TakeCount : taken[i] = Data[i]
    BY <1>1 DEF IInv, Read
  <2>2. ASSUME NEW i \in 1 .. ScanCount + 1 PROVE scanned'[i] = Data[i]
    <3>1. CASE i = ScanCount + 1
      BY <1>4, <3>1
    <3>2. CASE i \in 1 .. ScanCount
      BY <1>4, <2>1, <3>2
    <3> QED BY <1>2, <3>1, <3>2
  <2>3. ScanCount' <= view.length /\ TakeCount' <= ScanCount'
    BY <1>1, <1>2, <1>4, <1>5, <2>1
  <2>4. \A i \in 1 .. ScanCount' : scanned'[i] = Data'[i]
    BY <1>4, <1>5, <2>2
  <2>5. \A i \in 1 .. TakeCount' : taken'[i] = Data'[i]
    BY <1>1, <1>5, <2>1
  <2> QED BY <1>1, <2>3, <2>4, <2>5 DEF Read
<1>7. Advanced' /\ Copied' /\ Thrown'
  BY <1>1 DEF IInv, Advanced, Copied, Thrown, CopyCount, call
<1> QED BY <1>1, <1>4, <1>6, <1>7, CallStepInv DEF IInv, Typed

LEMMA TakeInv ==
    ASSUME IInv, Take
    PROVE  IInv'
<1>1. /\ pc = "reading" /\ pc' = "reading" /\ TakeCount < ScanCount
      /\ taken' = Append(taken, Data[TakeCount + 1])
      /\ UNCHANGED <<buffer, writes, passed, call, view, copy, scanned, answer, raised>>
  BY DEF Take, Goto, ScanCount, TakeCount
<1>2. view.length \in Nat /\ ScanCount \in Nat /\ TakeCount \in Nat
  BY SizesAssumption, LenProperties DEF IInv, Typed, Views, ScanCount, TakeCount
<1>3. /\ ScanCount <= view.length
      /\ \A i \in 1 .. ScanCount : scanned[i] = Data[i]
      /\ \A i \in 1 .. TakeCount : taken[i] = Data[i]
  BY <1>1 DEF IInv, Read
<1>4. Data[TakeCount + 1] \in Byte
  <2>1. TakeCount + 1 \in 1 .. view.length
    BY <1>1, <1>2, <1>3
  <2> QED BY <1>1, <2>1, DataSeen DEF IInv, Seen
<1>5. /\ taken' \in Seq(Byte) /\ TakeCount' = TakeCount + 1
      /\ \A i \in 1 .. TakeCount : taken'[i] = taken[i]
      /\ taken'[TakeCount + 1] = Data[TakeCount + 1]
  BY <1>1, <1>4, AppendProperties DEF IInv, Typed, TakeCount
<1>6. Data' = Data /\ ScanCount' = ScanCount
  BY <1>1 DEF Data, At, ScanCount, call
<1>7. Read'
  <2>1. ASSUME NEW i \in 1 .. TakeCount + 1 PROVE taken'[i] = Data[i]
    <3>1. CASE i = TakeCount + 1
      BY <1>5, <3>1
    <3>2. CASE i \in 1 .. TakeCount
      BY <1>3, <1>5, <3>2
    <3> QED BY <1>2, <3>1, <3>2
  <2>2. ScanCount' <= view.length /\ TakeCount' <= ScanCount'
    BY <1>1, <1>2, <1>3, <1>5, <1>6
  <2>3. \A i \in 1 .. ScanCount' : scanned'[i] = Data'[i]
    BY <1>1, <1>3, <1>6
  <2>4. \A i \in 1 .. TakeCount' : taken'[i] = Data'[i]
    BY <1>5, <1>6, <2>1
  <2> QED BY <1>1, <2>2, <2>3, <2>4 DEF Read
<1>8. Advanced' /\ Copied' /\ Thrown'
  BY <1>1 DEF IInv, Advanced, Copied, Thrown, CopyCount, call
<1> QED BY <1>1, <1>5, <1>7, <1>8, CallStepInv DEF IInv, Typed

----------------------------------------------------------------------------
(* When both passes are over they have read one sequence. *)
LEMMA PassesAgree ==
    ASSUME IInv, pc = "reading", TakeCount = view.length
    PROVE  scanned = taken /\ taken = Data /\ Answers(Data)
<1>1. Data \in [1 .. view.length -> Byte] /\ Data \in Seq(Byte) /\ Len(Data) = view.length
  BY DataSeen, SeenTyped DEF IInv, Typed
<1>2. view.length \in Nat /\ ScanCount \in Nat /\ TakeCount \in Nat /\ view.length <= Size
  BY SizesAssumption, LenProperties DEF IInv, Typed, Views, ScanCount, TakeCount
<1>3. /\ ScanCount = view.length
      /\ \A i \in 1 .. view.length : scanned[i] = Data[i] /\ taken[i] = Data[i]
  BY <1>2 DEF IInv, Read
<1>4. scanned \in [1 .. view.length -> Byte] /\ taken \in [1 .. view.length -> Byte]
  BY <1>3, LenProperties DEF IInv, Typed, ScanCount, TakeCount
<1>5. scanned = Data /\ taken = Data
  <2> HIDE DEF Data
  <2> QED BY <1>1, <1>3, <1>4
<1>6. view.length \in 0 .. MaxBytes
  BY <1>2, SizesAssumption DEF IInv, Advanced
<1> QED BY <1>1, <1>2, <1>5, <1>6, OutcomeAssumption

LEMMA AnswerInv ==
    ASSUME IInv, Answer
    PROVE  IInv'
<1>1. /\ pc = "reading" /\ TakeCount = view.length
      /\ input.bytes /\ view = input.is /\ view.length <= MaxBytes
  BY DEF Answer, TakeCount, IInv, Advanced
<1>2. scanned = taken /\ taken = Data /\ Answers(Data)
  BY <1>1, PassesAgree
<1>3. CoreAnswer = Outcome(Data)
  BY <1>2 DEF CoreAnswer
<1>4. Data \in Seen(input.is) /\ Len(Data) = view.length /\ view.length \in Nat
  <2>1. view \in Views /\ view.length \in Nat
    BY SizesAssumption DEF IInv, Typed, Views
  <2>2. Data \in Seen(view)
    BY <1>1, DataSeen DEF IInv
  <2> QED BY <1>1, <2>1, <2>2, SeenTyped
<1>5. Settled(Data) = Outcome(Data)
  BY <1>1, <1>4, SizesAssumption DEF Settled
<1>6. CASE Outcome(Data).class = "payload"
  <2>1. Throw(Outcome(Data))
    BY <1>3, <1>6 DEF Answer
  <2>2. /\ Outcome(Data) = Refused(Outcome(Data).refusal)
        /\ Refusal(Outcome(Data).refusal)
    BY <1>2, <1>6 DEF Answers, Refused
  <2> QED BY <1>1, <1>4, <1>5, <2>1, <2>2, ThrowInv
<1>7. CASE Outcome(Data).class # "payload"
  <2> DEFINE o == Outcome(Data)
             value == IF op = "admit" THEN o ELSE [class |-> "boolean", value |-> o.bytes = Data]
  <2>1. o.class = "bytes"
    BY <1>2, <1>7 DEF Answers
  <2>2. /\ pc' = "returned" /\ raised' = value
        /\ UNCHANGED <<buffer, writes, passed, call>>
        /\ UNCHANGED <<view, copy, scanned, taken>>
    BY <1>3, <1>7 DEF Answer, Goto
  <2>3. value = Promise(Data)
    <3>1. ~(Len(Data) > MaxBytes)
      BY <1>1, <1>4, SizesAssumption
    <3>2. op = "admit" \/ op = "is_canonical"
      BY DEF IInv, Typed
    <3>3. CASE op = "admit"
      BY <2>1, <3>1, <3>3 DEF Promise
    <3>4. CASE op = "is_canonical"
      <4>1. (o.class = "bytes" /\ o.bytes = Data) = (o.bytes = Data)
        BY <2>1
      <4> QED BY <3>1, <3>4, <4>1 DEF Promise
    <3> QED BY <3>2, <3>3, <3>4
  <2>4. value.class # "JcsError"
    BY <2>1
  <2> HIDE DEF value, o
  <2>5. AnswerIsOfInput'
    <3>1. Seen(input.is)' = Seen(input.is) /\ \A s : Promise(s)' = Promise(s)
      BY <2>2 DEF Seen, Promise, call
    <3>2. \E s \in Seen(input.is) : raised' = Promise(s)
      BY <1>4, <2>2, <2>3
    <3> QED BY <1>1, <2>2, <2>4, <3>1, <3>2 DEF AnswerIsOfInput, call
  <2>6. MessageBounded'
    BY <2>2, <2>4 DEF MessageBounded
  <2>7. Typed'
    BY <2>2 DEF IInv, Typed, call
  <2>8. Advanced' /\ Copied' /\ Read' /\ Thrown'
    BY <1>1, <2>2 DEF IInv, Advanced, Copied, Read, Thrown, CopyCount, call
  <2> QED BY <2>5, <2>6, <2>7, <2>8 DEF IInv
<1> QED BY <1>6, <1>7

(* The call returns with an error, however it is converted. *)
LEMMA ReturnInv ==
    ASSUME IInv, pc = "thrown", pc' = "returned", UNCHANGED <<buffer, writes, passed, call>>,
           UNCHANGED <<view, copy, scanned, taken>>,
           AnswerIsOfInput', MessageBounded'
    PROVE  IInv'
<1>1. Typed'
  BY DEF IInv, Typed, call
<1>2. Advanced' /\ Copied' /\ Read' /\ Thrown'
  BY DEF IInv, Advanced, Copied, Read, Thrown, CopyCount, call
<1> QED BY <1>1, <1>2 DEF IInv

LEMMA RaiseInv ==
    ASSUME IInv, Raise
    PROVE  IInv'
<1>1. /\ pc = "thrown" /\ pc' = "returned" /\ raised' = Converted(answer)
      /\ UNCHANGED <<buffer, writes, passed, call>> /\ UNCHANGED <<view, copy, scanned, taken>>
  BY DEF Raise, Goto
<1>2. CASE ~input.bytes /\ answer = TypeError
  <2>1. raised' = TypeError /\ raised'.class = "TypeError"
    BY <1>1, <1>2 DEF Converted, TypeError
  <2> QED BY <1>1, <1>2, <2>1, ReturnInv DEF AnswerIsOfInput, MessageBounded, call
<1>3. CASE input.bytes /\ answer = [class |-> "RuntimeError"]
  <2>1. raised'.class = "RuntimeError"
    BY <1>1, <1>3 DEF Converted
  <2> QED BY <1>1, <1>3, <2>1, ReturnInv DEF AnswerIsOfInput, MessageBounded, call
<1>4. CASE /\ input.bytes
           /\ answer = Refused(answer.refusal) /\ Refusal(answer.refusal)
           /\ \E s \in Seen(input.is) : answer = Settled(s)
  <2>1. PICK s \in Seen(input.is) : answer = Settled(s)
    BY <1>4
  <2>2. answer.class = "payload"
    BY <1>4 DEF Refused
  <2>3. s \in Seen(input.is)' /\ Promise(s) = Promise(s)'
    BY <1>1 DEF Seen, Promise, call
  <2>4. CASE op = "is_canonical"
    <3>1. raised' = [class |-> "boolean", value |-> FALSE]
      BY <1>1, <2>2, <2>4 DEF Converted, Denied
    <3>2. Promise(s) = [class |-> "boolean", value |-> FALSE]
      <4>1. Settled(s).class # "bytes"
        BY <2>1, <2>2
      <4>2. (Settled(s).class = "bytes" /\ Settled(s).bytes = s) = FALSE
        BY <4>1
      <4>3. Promise(s) = [class |-> "boolean",
                          value |-> Settled(s).class = "bytes" /\ Settled(s).bytes = s]
        BY <2>4 DEF Promise, Settled
      <4> QED BY <4>2, <4>3
    <3>3. raised' = Promise(s)' /\ raised'.class # "JcsError"
      BY <2>3, <3>1, <3>2
    <3>4. AnswerIsOfInput'
      BY <1>1, <1>4, <2>3, <3>3 DEF AnswerIsOfInput, call
    <3> QED BY <1>1, <3>3, <3>4, ReturnInv DEF MessageBounded
  <2>5. CASE op # "is_canonical"
    <3>1. raised' = JcsError(answer.refusal)
      BY <1>1, <2>2, <2>5 DEF Converted
    <3>2. /\ raised'.class = "JcsError" /\ raised'.refusal = answer.refusal
          /\ raised'.message = Display(answer.refusal)
      BY <3>1 DEF JcsError
    <3>3. Promise(s) = [class |-> "JcsError", refusal |-> answer.refusal]
      BY <2>1, <2>2, <2>5 DEF Promise, Settled
    <3>4. AnswerIsOfInput'
      BY <1>1, <1>4, <2>3, <3>2, <3>3 DEF AnswerIsOfInput, call
    <3>5. MessageBounded'
      BY <1>4, <3>2, DisplayBounded DEF MessageBounded
    <3> QED BY <1>1, <3>4, <3>5, ReturnInv
  <2> QED BY <2>4, <2>5
<1> QED BY <1>1, <1>2, <1>3, <1>4 DEF IInv, Thrown

LEMMA UnwritableInv ==
    ASSUME IInv, Unwritable
    PROVE  IInv'
<1>1. /\ pc = "thrown" /\ pc' = "returned" /\ answer.class = "payload"
      /\ raised' = [class |-> IF host = "npm" THEN "Error" ELSE "RuntimeError"]
      /\ UNCHANGED <<buffer, writes, passed, call>> /\ UNCHANGED <<view, copy, scanned, taken>>
  BY DEF Unwritable, Goto
<1>2. raised'.class \in {"Error", "RuntimeError"}
  BY <1>1
<1>3. input.bytes
  BY <1>1 DEF IInv, Thrown, TypeError
<1> QED BY <1>1, <1>2, <1>3, ReturnInv DEF AnswerIsOfInput, MessageBounded, call

----------------------------------------------------------------------------
LEMMA InvNext == IInv /\ [Next]_vars => IInv'
<1> SUFFICES ASSUME IInv, [Next]_vars PROVE IInv'
  OBVIOUS
<1>1. CASE UNCHANGED vars
  <2>1. Typed' /\ Advanced' /\ Copied'
    BY <1>1 DEF vars, call, IInv, Typed, Advanced, Copied, CopyCount
  <2>2. Read'
    BY <1>1 DEF vars, call, IInv, Read, ScanCount, TakeCount, Data, At
  <2>3. Thrown' /\ AnswerIsOfInput' /\ MessageBounded'
    BY <1>1 DEF vars, call, IInv, Thrown, AnswerIsOfInput, MessageBounded, Seen, Settled, Promise
  <2> QED BY <2>1, <2>2, <2>3 DEF IInv
<1>2. CASE Write
  BY <1>2, WriteInv
<1>3. CASE Accept
  BY <1>3, AcceptInv
<1>4. CASE CheckInputLength
  BY <1>4, CheckInputLengthInv
<1>5. CASE Copy
  BY <1>5, CopyInv
<1>6. CASE Trap
  BY <1>6, TrapInv
<1>7. CASE Scan
  BY <1>7, ScanInv
<1>8. CASE Take
  BY <1>8, TakeInv
<1>9. CASE Answer
  BY <1>9, AnswerInv
<1>10. CASE Raise
  BY <1>10, RaiseInv
<1>11. CASE Unwritable
  BY <1>11, UnwritableInv
<1> QED BY <1>1, <1>2, <1>3, <1>4, <1>5, <1>6, <1>7, <1>8, <1>9, <1>10, <1>11 DEF Next

LEMMA Inductive == Spec => []IInv
<1> QED BY InitInv, InvNext, PTL DEF Spec

(* A call answers for one sequence of bytes, each of which has been at its place *)
(* in the object passed, whoever writes there meanwhile (npm/wasm: to_vec;      *)
(* api.mjs: localByteView, invoke; jcs_binding.rs: run).                        *)
THEOREM OneDocumentAnswered == Spec => []AnswerIsOfInput
<1>1. IInv => AnswerIsOfInput
  BY DEF IInv
<1> QED BY <1>1, Inductive, PTL

(* Nothing longer than the cap is copied into the module, and nothing of what is *)
(* no byte array (npm/wasm: check_input_length before to_vec).                  *)
THEOREM CopiesCapped == Spec => []CopyBounded
<1>1. IInv => CopyBounded
  BY DEF IInv, Advanced, CopyBounded, CopyCount
<1> QED BY <1>1, Inductive, PTL

(* No name or token of a document, of whatever length and however much escaping *)
(* multiplies it, makes a message longer than the ceiling of the tests          *)
(* (error.rs: clipped, Display).                                                *)
THEOREM MessagesCapped == Spec => []MessageBounded
<1>1. IInv => MessageBounded
  BY DEF IInv
<1> QED BY <1>1, Inductive, PTL
==============================================================================
