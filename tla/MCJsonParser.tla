---------------------------- MODULE MCJsonParser ----------------------------
(***************************************************************************)
(* Documents and options for checking JsonParser, and its reference: two    *)
(* grammars, one for the structure of documents, under every depth request,  *)
(* and one for what the options decide, under the policies callers use.      *)
(***************************************************************************)
EXTENDS JsonParser, SequencesExt, FiniteSetsExt

CONSTANTS
    StructureBound, ProfileBound,   \* the longest sentence of each grammar, in lexemes
    StructureEdits, ProfileEdits,   \* up to this length also submitted with one mistake
    FreeBound                       \* every sequence of lexemes up to this length is submitted

Str(name, spelling) == [kind |-> "str", name |-> name, spelling |-> spelling,
                        fault |-> "none", nonchar |-> FALSE]

SafeInt     == [integer |-> TRUE,  unsafe |-> FALSE, finite |-> TRUE]
UnsafeInt   == [integer |-> TRUE,  unsafe |-> TRUE,  finite |-> TRUE]
Fraction    == [integer |-> FALSE, unsafe |-> FALSE, finite |-> TRUE]
HugeInt     == [integer |-> TRUE,  unsafe |-> TRUE,  finite |-> FALSE]

MCNames == {"a", "b"}
MCSpellings == {"plain", "escaped"}

(* Two spellings of one name, another name, and a number. *)
StructuralAtoms == {Str("a", "plain"), Str("a", "escaped"), Str("b", "plain"),
                    [kind |-> "num", class |-> SafeInt]}

(* One lexeme for each thing the options decide about. *)
ProfileAtoms == {[Str("a", "plain") EXCEPT !.nonchar = TRUE],
                 Str("b", "plain"),
                 [kind |-> "word", word |-> "null"]}
                  \cup {[kind |-> "num", class |-> c]
                          : c \in {SafeInt, UnsafeInt, Fraction, HugeInt}}

FaultyStrings == {[Str("a", "plain") EXCEPT !.fault = "StringNotScalar"],
                  [Str("a", "plain") EXCEPT !.fault = "Syntax"],
                  [Str("a", "plain") EXCEPT !.fault = "Syntax", !.nonchar = TRUE]}

Structure == INSTANCE JsonGrammar WITH Atoms <- StructuralAtoms, SentenceBound <- StructureBound
Profile   == INSTANCE JsonGrammar WITH Atoms <- ProfileAtoms, SentenceBound <- ProfileBound

StructureLayers == Structure!Layers
ProfileLayers == Profile!Layers
StructureSentences == Structure!Sentences(StructureLayers)
ProfileSentences == Profile!Sentences(ProfileLayers)
StructureWords == {s.word : s \in StructureSentences}
ProfileWords == {s.word : s \in ProfileSentences}

Punctuation == {[kind |-> k] : k \in PunctKinds}

(* Sentences, sentences with one mistake, and anything that is short. *)
Submitted(words, editBound, alphabet) ==
    words \cup UNION {Structure!Edits(w, alphabet) : w \in {v \in words : Len(v) <= editBound}}
          \cup BoundedSeq(alphabet, FreeBound)

StructureInputs ==
    Submitted(StructureWords, StructureEdits,
              StructuralAtoms \cup FaultyStrings \cup Punctuation)
ProfileInputs ==
    Submitted(ProfileWords, ProfileEdits,
              ProfileAtoms \cup FaultyStrings \cup Punctuation)
MCInputs == StructureInputs \cup ProfileInputs

NoOptions == [Rfc8785 EXCEPT !.max_bytes = NoCap]

(* Depth requests around the small caps, one of them above the ceiling. *)
StructuralRequests ==
    {[limit |-> limit, opts |-> NoOptions] : limit \in 0..(MAX_SUPPORTED_DEPTH + 1)}

ProfileRequests ==
    {[limit |-> DEFAULT_MAX_DEPTH, opts |-> policy]
        : policy \in {Rfc8785, Ijson, IjsonIntegers,
                    [Rfc8785 EXCEPT !.integers_only = TRUE]}}

MCRequests == StructuralRequests \cup ProfileRequests

StructureOptions == {Configured(r) : r \in StructuralRequests}
ProfileOptions == {Configured(r) : r \in ProfileRequests}

(* Each grammar's documents are submitted under its own requests. *)
MCInit ==
    /\ Init
    /\ \/ input \in StructureInputs /\ opts \in StructureOptions
       \/ input \in ProfileInputs /\ opts \in ProfileOptions

MCSpec == MCInit /\ [][Next]_vars /\ WF_vars(Next)

(* The grammar whose documents are submitted under a policy. *)
ByProfile(policy) == policy \in ProfileOptions
SentencesOfLength(policy, n) ==
    Structure!SentencesOfLength(IF ByProfile(policy) THEN ProfileLayers ELSE StructureLayers, n)
IsSentence(word, policy) ==
    IF ByProfile(policy) THEN word \in ProfileWords ELSE word \in StructureWords

----------------------------------------------------------------------------
(* The values document may be admitted as under policy. *)
DenotedBy(document, policy) ==
    IF policy.max_bytes = NoCap \/ Len(document) <= policy.max_bytes
    THEN Structure!Denoted(SentencesOfLength(policy, Len(Structure!StripWs(document))),
                           document, policy)
    ELSE {}

Answer == CASE result.status = "parsing" -> [status |-> "pending"]
            [] result.status = "refused" -> [status |-> "refused"]
            [] result.status = "parsed"  -> [status |-> "admitted", node |-> result.node]

A == INSTANCE Admission WITH Inputs   <- Seq(Lexeme),
                             Policies <- Policy,
                             Denotes  <- DenotedBy,
                             answer   <- Answer

(* Every call of admit_with is answered, with the value the grammar gives    *)
(* the document exactly when the options allow it, and refused otherwise.    *)
ImplementsAdmission == A!Spec

----------------------------------------------------------------------------
(* word can still become a document that admission accepts under policy. *)
Viable(word, policy) ==
    IF ByProfile(policy)
    THEN \E s \in ProfileSentences : IsPrefix(word, s.word) /\ Structure!Acceptable(s, policy)
    ELSE \E s \in StructureSentences : IsPrefix(word, s.word) /\ Structure!Acceptable(s, policy)

(* The sentences are long enough to complete every viable word this long. *)
ViableBound == ((IF ByProfile(opts) THEN ProfileBound ELSE StructureBound) - 1) \div 2

(* A refusal is at the first fault: what precedes it could still have become *)
(* an admissible document, and with the lexeme it is reported at, or with    *)
(* the end of the input, it could not.                                       *)
RefusedAtFirstFault ==
    LET before == Structure!StripWs(SubSeq(input, 1, at))
    IN  result.status = "refused" /\ result.class # "TooLarge"
          /\ Len(before) <= ViableBound =>
            /\ Viable(before, opts)
            /\ IF AtEnd THEN ~IsSentence(before, opts)
                        ELSE ~Viable(Append(before, input[at + 1]), opts)
============================================================================
