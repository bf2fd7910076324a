---------------------------- MODULE JsonGrammar ----------------------------
(***************************************************************************)
(* The documents admission has to accept, generated from the JSON grammar   *)
(* (RFC 8259) instead of recognised: the reference the parser is compared   *)
(* with.  A sentence is a sequence of lexemes without whitespace, and comes *)
(* with the value it denotes and with whether every object in it has        *)
(* distinct member names.                                                   *)
(***************************************************************************)
EXTENDS Integers, Sequences, SequencesExt, FiniteSetsExt

CONSTANTS
    Atoms,          \* lexemes that are values: words, numbers, strings
    SentenceBound   \* the longest sentence generated, in lexemes

Punct(kind) == [kind |-> kind]

AtomNode(lexeme) ==
    CASE lexeme.kind = "word" -> <<"word", lexeme.word>>
      [] lexeme.kind = "num"  -> <<"num", lexeme.class>>
      [] lexeme.kind = "str"  -> <<"str", lexeme.name>>

StringAtoms == {lexeme \in Atoms : lexeme.kind = "str"}

(***************************************************************************)
(* layer[n] holds everything that is exactly n lexemes long: values, the    *)
(* insides of non-empty arrays and the insides of non-empty objects.        *)
(***************************************************************************)
Layer(layer, n) ==
    LET atoms ==
          IF n = 1
          THEN {[word |-> <<a>>, node |-> AtomNode(a), distinct |-> TRUE] : a \in Atoms}
          ELSE {}
        empties ==
          IF n = 2
          THEN {[word |-> <<Punct("openArray"), Punct("closeArray")>>,
                 node |-> <<"array", <<>>>>, distinct |-> TRUE],
                [word |-> <<Punct("openObject"), Punct("closeObject")>>,
                 node |-> <<"object", <<>>, <<>>>>, distinct |-> TRUE]}
          ELSE {}
        arrays ==
          IF n < 3 THEN {}
          ELSE {[word |-> <<Punct("openArray")>> \o e.word \o <<Punct("closeArray")>>,
                 node |-> <<"array", e.nodes>>, distinct |-> e.distinct]
                  : e \in layer[n - 2].elements}
        objects ==
          IF n < 5 THEN {}
          ELSE {[word |-> <<Punct("openObject")>> \o m.word \o <<Punct("closeObject")>>,
                 node |-> <<"object", m.names, m.nodes>>, distinct |-> m.distinct]
                  : m \in layer[n - 2].members}
        values == atoms \cup empties \cup arrays \cup objects
        elements ==
          {[word |-> v.word, nodes |-> <<v.node>>, distinct |-> v.distinct] : v \in values}
            \cup
          UNION {{[word     |-> v.word \o <<Punct("comma")>> \o e.word,
                   nodes    |-> <<v.node>> \o e.nodes,
                   distinct |-> v.distinct /\ e.distinct]
                     : v \in layer[k].values, e \in layer[n - 1 - k].elements}
                  : k \in 1..(IF n > 2 THEN n - 2 ELSE 0)}
        oneMember ==
          IF n < 3 THEN {}
          ELSE {[word     |-> <<s, Punct("colon")>> \o v.word,
                 names    |-> <<s.name>>,
                 nodes    |-> <<v.node>>,
                 distinct |-> v.distinct]
                   : s \in StringAtoms, v \in layer[n - 2].values}
        moreMembers ==
          UNION {{[word     |-> <<s, Punct("colon")>> \o v.word \o <<Punct("comma")>> \o m.word,
                   names    |-> <<s.name>> \o m.names,
                   nodes    |-> <<v.node>> \o m.nodes,
                   distinct |-> /\ v.distinct
                                /\ m.distinct
                                /\ ~Contains(m.names, s.name)]
                     : s \in StringAtoms, v \in layer[k].values,
                       m \in layer[n - 3 - k].members}
                  : k \in 1..(IF n > 4 THEN n - 4 ELSE 0)}
    IN  [values |-> values, elements |-> elements,
         members |-> oneMember \cup moreMembers]

Layers == FoldLeft(LAMBDA layer, n : Append(layer, Layer(layer, n)),
                   <<>>, [n \in 1..SentenceBound |-> n])

SentencesOfLength(layers, n) == IF n \in DOMAIN layers THEN layers[n].values ELSE {}

Sentences(layers) == UNION {layers[n].values : n \in DOMAIN layers}

----------------------------------------------------------------------------
StripWs(word) == SelectSeq(word, LAMBDA lexeme : lexeme.kind # "ws")

----------------------------------------------------------------------------
(* What the options have to say about a sentence.                            *)
Nesting(word, n) == Cardinality({i \in 1..n : word[i].kind \in {"openArray", "openObject"}})
                      - Cardinality({i \in 1..n : word[i].kind \in {"closeArray", "closeObject"}})
DeepestNesting(word) == Max({Nesting(word, n) : n \in 0..Len(word)})

(* Whether the options allow one lexeme of a sentence. *)
Allowed(lexeme, policy) ==
    CASE lexeme.kind = "num" ->
           /\ lexeme.class.finite
           /\ policy.integers_only => lexeme.class.integer
           /\ policy.safe_integers => ~(lexeme.class.integer /\ lexeme.class.unsafe)
      [] lexeme.kind = "str" ->
           /\ lexeme.fault = "none"
           /\ policy.reject_noncharacters => ~lexeme.nonchar
      [] OTHER -> TRUE

(* A sentence admission has to accept under policy. *)
Acceptable(s, policy) ==
    /\ s.distinct
    /\ DeepestNesting(s.word) <= policy.max_depth
    /\ \A i \in 1..Len(s.word) : Allowed(s.word[i], policy)

(* The values that sentences, which are all of its length, give a document.  *)
Denoted(sentences, document, policy) ==
    LET word == StripWs(document)
    IN  {s.node : s \in {t \in sentences : t.word = word /\ Acceptable(t, policy)}}

----------------------------------------------------------------------------
(* One-lexeme mistakes: a lexeme dropped, added or replaced. *)
Edits(word, alphabet) ==
    {RemoveAt(word, i) : i \in 1..Len(word)}
      \cup {InsertAt(word, i, x) : i \in 1..(Len(word) + 1), x \in alphabet}
      \cup {ReplaceAt(word, i, x) : i \in 1..Len(word), x \in alphabet}
============================================================================
