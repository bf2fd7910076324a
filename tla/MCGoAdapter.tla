---------------------------- MODULE MCGoAdapter ----------------------------
(* Documents, calls and commands for checking GoAdapter. *)
EXTENDS GoAdapter, CanonicalForm, JsonGrammar

CONSTANT EditBound

(* A letter, a name above the surrogates, and one written with surrogates:     *)
(* the order of the last two depends on comparing code units.                 *)
MCNames == {<<97>>, <<65374>>, <<128512>>}
MCSpellings == {"plain", "escaped"}

Str(name, spelling) == [kind |-> "str", name |-> name, spelling |-> spelling,
                        fault |-> "none", nonchar |-> FALSE]
Num(integer, unsafe, finite) ==
    [kind |-> "num", class |-> [integer |-> integer, unsafe |-> unsafe, finite |-> finite]]

MCAtoms == {Str(<<97>>, "plain"), Str(<<97>>, "escaped"), Num(TRUE, FALSE, TRUE),
            [kind |-> "word", word |-> "null"]}

Alphabet == MCAtoms
              \cup {Num(TRUE, TRUE, FALSE), Punct("bad"), Punct("ws"), Punct("comma"),
                    Punct("colon"), Punct("closeArray"), Punct("closeObject"),
                    [Str(<<97>>, "plain") EXCEPT !.fault = "StringNotScalar"],
                    [Str(<<97>>, "plain") EXCEPT !.fault = "Syntax"]}

(* Objects whose members have to be brought into order, repeated ones too. *)
MemberText(name, spelling) == <<Str(name, spelling), Punct("colon"), Num(TRUE, FALSE, TRUE)>>
Wide == {<<Punct("openObject")>> \o MemberText(n[1], "plain") \o <<Punct("comma")>>
           \o MemberText(n[2], "escaped") \o <<Punct("comma")>>
           \o MemberText(n[3], "plain") \o <<Punct("closeObject")>> : n \in [1..3 -> MCNames]}

SentenceWords == {s.word : s \in Sentences(Layers)}

MCDocuments ==
    SentenceWords
      \cup {w \o <<Punct("ws")>> : w \in SentenceWords}
      \cup UNION {Edits(w, Alphabet) : w \in {v \in SentenceWords : Len(v) \in 2..EditBound}}
      \cup Wide \cup {<<>>}

Call(profile, depth, size, bare) ==
    [profile |-> profile, depth |-> depth, size |-> size, bare |-> bare]

MCFlags == {Call("rfc8785", 2, 16, FALSE), Call("ijson", 1, 4, FALSE),
            Call("rfc8785", 2, 16, TRUE),
            Call("ijsonIntegers", 3, 16, FALSE), Call("none", 2, 16, FALSE),
            Call("rfc8785", -1, 16, FALSE)}

MCResponses == {[status |-> "incoherent"], [status |-> "refused", class |-> "Syntax"],
                [status |-> "accepted", value |-> <<"array", <<>>>>]}

(* What the adapter accepts is what the grammar says of the whole document:   *)
(* no limit on the way, no leniency of the writer and no disagreement of the  *)
(* two turns it into another one, or lets in what the options exclude.        *)
AcceptedIsDenoted ==
    answer.status = "accepted" /\ command = "installed" /\ ~flags.bare
      /\ Len(document) <= SentenceBound =>
        /\ opts.max_bytes = NoCap \/ Len(document) <= opts.max_bytes
        /\ answer.value \in {Canonical(node) : node \in
              Denoted(SentencesOfLength(Layers, Len(StripWs(document))), document, opts)}
============================================================================
