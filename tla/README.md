# A verification project for jcs-admit

jcs-admit decides whether a JSON document is admitted and, if it is, returns its
RFC 8785 canonical form. This directory holds TLA+ specifications of it, the
configurations with which TLC checks them on small instances, and theorems about
them that TLAPS checks for every value of the constants. `PROJECT.json` maps every
definition to the lines it stands for.

## 1. The system

| Part | Source | State | Operations | Talks to |
|---|---|---|---|---|
| Admission core: options and entry points | `src/lib.rs` | five options | `rfc8785`, `ijson`, the builders, `check_input_length`, `admit_with`, `is_canonical_with` | the parser, then the serializer |
| Parser | `src/parse.rs` | input, position, call stack, one set of seen names per open object | `document`, `value`, `array`, `object`, `string`, `escape`, `hex4`, `number` | the number profile |
| Number profile | `src/number.rs` | none | `check`, `decompose`, `exponent_of` | the parser |
| Canonical form | `src/delegate.rs` and an external serializer | none | `serialize` | the parser's tree |
| Go consumer | `interop/go-jcs/` | one document, one child process, the writer's sorted lists | `qualify`, `Transform` (adapter), `Transform` (writer) | the admission command over two pipes, with a deadline |
| Trace reader | `interop/mintid-trace-records-v2/mintid_trace/` | counters, capture directory, members in memory, decisions and logs by session | `document`, `read_member`, `_read_record`, `derive` | a child per document; files somebody else owns |
| Python binding | `python/` | none of its own | `admit*`, `is_canonical*`, DSSE `sign`, `verify_threshold` | the core with the interpreter released; the `dsse` crate |
| npm package | `npm/wasm`, `npm/lib` | none of its own | `admit`, `admit_ijson` | the core, on a copy of a byte view |
| npm release | `npm/build.py`, `npm/artifact.py`, `npm/test/packed-consumers.mjs`, `npm/check_release.py`, workflows | the checkout, `dist`, the receipts, the retained artifact | build, pack, qualify, check, retain, publish | the registry |
| Python release | `scripts/check-python-release.py`, workflows | the version, the built files, the upload directory | check, copy, trial installation, publish | the index |
| Mutation sweep | `tools/mutation_sweep.py` | the sources in place, their backup, the rows | back up, restore, edit, test | cargo, with a timeout; whoever owns the tree |
| Qualification | `interop/mintid-trace-records-v2/qualify.py`, `interop/go-jcs/check.py` | the checkout, `steps.json`, commands, wheel and installed reader, report, results | one captured step after another | git, cargo, go, uv, the installed reader |
| Other qualification scripts | `interop/rfc8785-py/check.py`, `interop/aps-canonical-bytes/check.py`, `scripts/readme-lint.py` | none | compare outcomes with tables | the built wheels |
| Examples | `examples/` | none | call the crate | the crate |

What is hard about each, and what makes it correct:

* **Admission** is sequential, and hard because it is a decision on every possible
  byte sequence: what may follow what, which of several faults is reported, and
  four kinds of limit (bytes, depth, profile, names) that interact. It is correct
  if it admits exactly the documents the grammar and the options allow, with the
  value they denote, and refuses the others at their first fault.
* **The number profile** decides on decimal text so that no rounding takes part.
  It is correct if its verdict is that of the exact value.
* **The Go consumer** runs two parsers that know nothing of each other. It is
  correct if nothing leaves it that they do not agree on, if they do agree on all
  that passes admission, and if no cap on the way turns a document into its prefix.
* **A native call** runs a child over which the reader has no control: two pipes,
  any amount of output in any order, a limit that may strike in the middle, and a
  file system that may fail at each write. It is correct if the host's limits hold
  at each step, no call hangs, and every call leaves a receipt that is true.
* **A record** is three files read one after another that may change meanwhile.
  It is correct if what it accepts is one thing.
* **The projection** binds decisions, log lines, refreshes and a summary by
  session, whatever their order. It is correct if every row it produces is the
  recorded history of one holder on one path.
* **A binding** hands the core memory it does not own. It is correct if the answer
  is the core's, for one reading of the object that was passed.
* **The npm release** reads the same things at several moments: the tree, the output
  of a build, a tarball, a report about a tarball. It is correct if what is
  published is what was tested, made of what was tagged.
* **The Python release** copies what it has checked, file by file, into a directory
  that an earlier run may have left. It is correct if what is uploaded under a tag was
  read and is of that tag.
* **A mutation sweep** edits the tree its author works in, may be stopped at any step,
  and starts the next time on what it left. It is correct if each verdict is about one
  edit and nothing of the author's is lost.
* **A qualification** looks at the checkout for a moment and works from it for minutes.
  It is correct if all its results are of the commit it names.
* **A message** contains text somebody else chose. It is correct if its length is not
  theirs to choose.

The hazards, with the line at which each bites and the properties that would
catch it, are listed in `PROJECT.json`.

## 2. The modules

    Options ── JsonParser ── JsonParserProofs ── JsonDerivation, Admission (implemented)
                   │  ├──────── ContinuationProofs ── JsonParserProofs (cited)
                   │  └──────── MCJsonParser ── JsonGrammar, Admission (refined)
                   └── GoAdapter ── GoWriter ── MemberOrder
                           ├── GoAdapterProofs ── JsonParserProofs (cited)
                           └── MCGoAdapter ── CanonicalForm, JsonGrammar
    Options ── NumberToken ── NumberGrammar ───┐      (what JsonParser takes as given
       └────── StringScan ─── StringSpelling ──┴── Lexemes ── MCLexemes      of a lexeme)
                                                      └────── ContinuationProofs
    CallLedger (refined by) NativeCall ── NativeCallProofs, MCNativeCall
        └──────── TraceReader ──┐
    TraceProjection ────────────┴── Trace ── TraceProofs, MCTrace
                                              (TraceReader takes derive as given)
    Rendering ── ByteBinding ── ByteBindingProofs   (around the core: memory in, messages out)
    NpmRelease, PythonRelease, Qualification ── Releases ── ReleasesProofs, MCReleases
    MutationSweep ── MutationSweepProofs

An `MC` module gives the constants of one specification small values. `Lexemes`,
`Trace` and `Releases` put specifications that do not touch one another side by side:
a behaviour is of one of them, and the variables of the others stand still. One run
checks them and one module proves them, about the same definitions.

### Options, JsonParser, JsonGrammar, JsonDerivation, Admission

A document is a sequence of lexemes; each counts as one byte for offsets and for
the cap. A string lexeme carries what `string()` finds out about it and a number
lexeme what `check()` finds out; `StringScan` and `NumberToken` are about how they
do. The recursion is explicit: `open` has a frame per container being read,
`built` the values each of them holds so far, `pc` the point the innermost call
has reached, and `at` is `Parser.at`. Each action is one decision of the parser.
Whitespace is skipped by an action of its own wherever the code calls `skip_ws`.

`JsonGrammar` generates what RFC 8259 allows, by length, with the value each
sentence denotes; it shares nothing with the parser. `Admission` is the promise:
one answer for each call, the denoted value or a refusal. MCJsonParser has the
refinement mapping and `RefusedAtFirstFault`, a declarative account of which fault
is the first.

`JsonDerivation` has the same grammar for documents of any length, without recursion:
a derivation is a set of spans of the document, each with the value it denotes, and
each justified by a rule from spans that lie strictly inside it. An object's rule says
where its names, colons, commas and values are and that its names differ; a span
carries how many containers are around it, so the depth cap is a condition of the
rules for containers, and the profile (`Allowed`) one of the rules for single lexemes.
It is too large a search for TLC and made for the proofs. The two grammars are
written independently: TLC compares the parser with the one, TLAPS with the other.

### NumberToken, NumberGrammar, StringScan, StringSpelling, Lexemes

All are about characters and bytes. `NumberToken` has the scan of
`Parser::number`, then `decompose`, `exponent_of` and `is_unsafe_magnitude` with
their widths as parameters (2^53 as decimal digits, `i64`, `usize`), and compares
the verdict with one on exact integers. `StringScan` has the run of raw bytes with
UTF-8 decoding, the simple escapes and the surrogate pairs. What the two are compared
with stands beside them: `NumberGrammar` is the number rule of RFC 8259 on subsequences,
`StringSpelling` the ways in which a scalar value can be written in a literal. The latter
takes the tables from `StringScan` (`Simple`, `CodeOf`, `Hex4`, the
surrogates, the noncharacters FDD0 to FDEF), and nothing that scans, pairs or decodes. `Lexemes` has both.

### MemberOrder, CanonicalForm, GoWriter, GoAdapter

`GoWriter` reads the same lexemes as `JsonParser` with the leniency of the pinned
writer: it knows no depth, size or profile, takes what stands before a delimiter
for a scalar, and lets some ill-formed strings pass as some other string.
`GoAdapter` composes the two: the command contains `JsonParser`, the adapter runs
`GoWriter`, and either may be late. The command may also be a substituted one that
answers as it pleases. `MemberOrder` is the order of names by code unit, which the
writer sorts by and the canonical form is ordered by. `GoAdapter` takes the
serialization of a value as the constant `Serialized`, because nothing in the adapter
depends on it; `MCGoAdapter` gives it the canonical form of `CanonicalForm`.

### NativeCall, CallLedger

`NativeCall` is `Admission.document`: reservation, directory, input, spawn, the
selector loop with the streams that were ready when `select()` returned, the kill,
the wait, the charges and the receipt, with the child as an environment that
writes, closes and exits. `disk` is what really is in the capture directory,
`ledger` what the reader has counted; the properties are about how the two differ
in the middle of a call. `CallLedger` is what a caller sees of that: a call is
declined before any work or charged whole. `NativeCall` has the mapping: `Committed` is
what a caller sees charged, `Ended` what has returned.

### TraceReader, TraceProjection, Trace

`TraceReader` is `_read_record` on top of `CallLedger`: the members are read, kept
and admitted while another process replaces them. `TraceProjection` is
`inspect_events` and `derive`: events are collected by session, the log is bound to
the decisions, `deployment` and `source` are looked up by `one`, and then `paths`
binds each result of the summary to decisions, the ring event, the refresh and the
outage of its subject, with the shapes of times and roots checked in the order in
which the code meets them. `TraceReader` takes its outcome as part of a manifest
(`derived`). What the reader collects of one kind is written with sets of indices into
the file, and the first of several complaints is that of the least index: the code's
loops and early returns, in a form that can be reasoned about. `Trace` has both halves.

### ByteBinding, Rendering

`ByteBinding` is one call through `api.mjs` and `npm/wasm`, or through
`jcs_binding.rs` and `errors.rs`. The core is the constant `Outcome`; it reads its
data in two passes, a byte at a time, while another thread may write in the buffer
behind the view. `Data` says what it reads: the module's copy, or in Python the
object itself, which cannot change. `passed` collects the values each byte has had,
so that the property can say that there is one document the answer is about.
`Rendering` is `error.rs`, as operators on a refusal: the length of its wording, of
its numbers and of its text before and after escaping. `JcsError` of `ByteBinding`
uses them for the message it raises.

### NpmRelease

The checkout has three parts (compiled, copied, tested with), each of a commit or
edited. `building` is `build.py` between the moments at which it looks at the tree,
`dist` its output, `qualifying` and `receipts` the run of `packed-consumers.mjs` with
its tarball and `RESULT.json`, `retained` the uploaded artifact. A build replaces its
output in three steps: `Inspect` looks at what is there, `Remove` is `rmtree`, `Copy` is
`copytree`, which raises if there is a directory again. Each of them may be cut short,
and the output may be changed between any two. So a file of someone else's that is put
there after `Inspect` is removed, here as in the code (`build.py:92` refuses such a file,
line 93 does not look again); no property says that such files are kept. The tools may be run
in any order, which includes the workflow's. `Verified` is `check_release.py`; it is
applied by the package job and, in a fresh checkout, by the publish job. `tested`
is what the consumers have passed in fact.

### PythonRelease

`dist` is what `python.yml` built, as names with the metadata inside; `out` the
upload directory; `staging` the run of `check-python-release.py` while it copies.
`Plan` counts wheels by family as the code does, by a text in the name. A run may be
killed between two copies, and the version, the files and the directory may change
between runs. `Publish` is the rest of the job: the trial installation, then all that
the directory holds.

### Qualification

The checkout is five parts, each of a commit or edited. `ledger` is `steps.json`;
steps of `qualify.py` that work on the same parts are one step. The step `go-corpus`
is `check.py`, whose stages are actions of their own: pins, the two commands, the
cases, the report. `worked` collects what every step has read of the checkout, and
`commands`, `wheel` and `reader` what was built from it. The checkout may change at
any moment.

### MutationSweep

`src` and `backup` are the three files and their copies; a copy is two steps, for
`shutil.copy` empties its destination first. What a file holds is the set of marks
that tell it from the committed one: edits, work of the author, or torn. The sweep
restores, reads, counts its anchor, writes and runs cargo; cargo may end with any
verdict, or never, and then `TimeoutExpired` leaves the loop. A sweep may be killed at
each step and started again on what is there, and the author may save a file or check
out the tree at any moment. The text `SIZE` does not occur in `src/lib.rs` as it is, so
the two cases that replace it report `PATCH-DID-NOT-APPLY`.

## 3. The runs

| Run | Question | Bounds, and why they are enough |
|---|---|---|
| `parser` | does the parser admit exactly the grammar, within the cap and the profiles, and report the first fault? | sentences of up to 9 lexemes, those of up to 4 with one mistake, all sequences of up to 3; depth ceiling 3 with requests below, at and above it. Nine lexemes hold an object with two members, or three levels of nesting with siblings. With every number class and noncharacters, under four policies, sentences of up to 7 and those of up to 3 with a mistake |
| `lexemes` | is the verdict on a number that of the exact value; is the value of a literal what it spells, and the offset the fault's? | up to two digits before the dot, after it and in the exponent, all texts of up to five characters; a bound of two digits and an exponent that saturates at 19, so that every comparison happens below, at and above it. Literals of up to three fragments out of escapes, surrogate halves, well-formed and ill-formed UTF-8, each of which may be cut |
| `number_rounding` | is the canonical form of an admitted number admitted again? (no: see 6) | as above, under the I-JSON profile |
| `go_adapter` | do the writers agree, and does nothing else get out? | documents as in `parser`, and objects of three members whose names sort differently by code point and by code unit; caps of 4 and 16, the flags of the profiles, and flags outside their range on either side |
| `native_call` | do the limits hold, does every call end and leave its receipt? | up to two calls; outputs of 0 to 10 bytes on one stream and 0 or 4 on the other, with an allowance of at most 8, reads of 2 bytes and pipes of 3: outputs below, at and above each limit, on one stream or on both together |
| `trace` | is an accepted record one thing, within its budgets; are exactly the sound files accepted, and is every row one history? | records: events of up to four rows, one replacement of any member at any moment; budgets of 7 bytes, 3 rows and 3 calls, each of which runs out for some record, and output and capture budgets that run out in some native call (not before the first: that takes other limits). The twenty entries are just what three calls take, as the 1000 of the profile are for its 199: `EntriesSuffice` is checked at its boundary, and no record is refused for want of entries here. Files: all of up to three rows out of twenty-three, and all of up to three out of the observations a record makes once; summaries of up to two results. Three rows hold a decision, its log line and a third row that contradicts either |
| `byte_binding` | is an answer about one reading of the object passed, within the cap, and is a message bounded? | four bytes of two values, every view of them, every other view the object may claim; a cap of three bytes, so that views below, at and above it exist; two writes by another thread, enough to change a byte between the passes and back. Each faulty document is refused with a text of its own; with the budget (96) and ceiling (256) of the source, these end below, at and above the budget, in every phase of a four-byte character and of a five-byte escape |
| `message_elided` | is the number of elided bytes right? (no: see 6) | as above |
| `releases` | is what is published what was tested, made of what was tagged; is what is uploaded to the index what was read; is a qualification of one commit? | npm: one workflow run, two commits of one version, two compilers, two builds, two mishaps (the tree changed, the output changed or left unfinished, a build or the tests killed). Two are what it takes to change the tree and hide it, to leave a tarball beside another's report, or to kill a build while it replaces the output of another one. The compilers are symmetric. Python: two versions, four machines instead of seven (one family of one wheel that the publishing machine installs, another, and the two of macOS), complete sets and each way to spoil one, two killed runs. Qualification: two commits, two changes of the checkout at any two moments |
| `python_population` | is what is staged one wheel for each machine? (no: see 6) | as above |
| `mutation_sweep` | is a verdict about one edit, is the tree put back, can what was interrupted be undone, does a sweep end? | five of the seventeen cases (two that replace the same text, one in each other file, one whose text is not there), two sweeps, one kill, any number of timeouts, one action of the author: a second sweep on anything the first can leave |
| `sweep_rerun` | is each edit applied to the pristine sources? (no: see 6) | as above, without kill or author |

Every property of a passing run has a mutant: a change of one definition of the code, of
the kind one could make by mistake, under which TLC finds the property violated.

**Fairness.** Admission and the scans are one call on the caller's thread: it
runs until it returns (`WF_vars(Next)`). The adapter and the command go on as long
as they can, and the deadline of the adapter fires. That `Run` returns when the context
has killed the command is taken for granted: `adapter.go` sets no `WaitDelay`, and a
process that has inherited the pipes could hold them open (`AlwaysAnswers`). In `NativeCall` the reader
goes on, and a child that can write or exit does so at some point; it need not
close a stream early. Nothing is assumed of the order of the two. The code itself
sets no deadline for the child (`PROFILE.md` says so), so a child that closes both
pipes and never exits is outside what `CallEnds` says. In `MutationSweep` the script
goes on and the timeout of cargo fires; cargo itself need neither start nor end
(`SweepEnds` rests on the timeout alone). The other modules have safety properties
only.

**Deadlock** is off in all runs: every one of these programs ends.

## 4. What is proved

TLAPS checks the theorems for every value of the constants that satisfies the
assumptions the modules state. Each assumption is something the code guarantees:

| Module | Assumptions | Why the code justifies them |
|---|---|---|
| Options, JsonParser | `DepthConstants`, `ByteConstants`, `InputsAssumption`, `RequestsAssumption` | the default depth is within the ceiling and the default cap is a number; an input is a sequence of lexemes, a request a depth and a cap |
| ContinuationProofs | in the theorems: `Names` is infinite and `Spellings` is not empty; the other document is a sequence of lexemes | a JSON string may have any length, and has a spelling; nothing is asked of the other document |
| Lexemes | `WidthAssumption`, `LiteralAssumption` | a text is a sequence of characters, a literal one of bytes that begins with the quote the parser stands at; the widths are those of the machine integers, the safe-integer bound has digits |
| NativeCall | limits and sizes are numbers, `Digits` grows, `ReceiptBase` is at least 1 | a receipt has braces before it has digits |
| TraceReader | `LimitsAssumption`, `SizeAssumption` | `Limits` refuses what is not a positive number; a member has a length |
| MutationSweep | `SweepAssumption` | a sweep is over some cases of the table, each once |
| GoAdapter | `DocumentsAssumption`, `FlagsAssumption`, `ResponsesAssumption` | what is piped in is a sequence of lexemes; the flags are a name, two integers and a switch, whatever their values; the check of a response's coherence has one of three results |
| Trace | `FilesAssumption`, `ResultsAssumption` | a file is a sequence of objects with a kind; the sessions are those that occur; the ring at a denial is a field of the denying decision (`reader.py:367`), so without that decision there is none |
| NpmRelease | `CommitsAssumption`, `BoundsAssumption` | a commit has one version, and an edited tree is no commit |
| Releases | `FamiliesAssumption`, `ContentsAssumption` | macOS is one of the platforms; an edited tree or a missing file is no commit |
| ByteBinding | `SizesAssumption`, `OutcomeAssumption`, `CeilingAssumption` | lengths fit a `usize` (a slice cannot be longer); the core answers with bytes or with a refusal; the ceiling is above the longest message that Rendering's fixed words and a text clipped at the budget make up |

For every component the argument is the same: an invariant `IInv` that TLC has
checked on the run, one lemma per action, and the theorems from it. (The parser's
`Sound` and `Faithful` are the exception: they speak of derivations, which TLC cannot
enumerate; what follows from them it has checked, as `ImplementsAdmission`.) What each of
them needed besides the property:

* **JsonParserProofs.** `TypeCorrect`, `RecursionBounded`, `AdmittedIsNested`,
  `NoRepeatedMember`. The inductive invariant has, besides the type invariant, the
  shape of control (which frames are open at which `pc`), and `Tracked`: the number
  of open frames is the number of openers minus the number of closers read so far,
  and at no earlier point was it above the cap. Without `Tracked` the stack bound
  says nothing about the document; with it, `AdmittedNesting` follows at the end of
  the document, where no frame is open. The seen set of each frame is the set of
  its names, which is what makes the duplicate check one about names.

  `AdmissionIsExact` and `ParserImplementsAdmission` are the parser's correctness:
  when admission returns, it has parsed a document to a value exactly when the rules
  of `JsonDerivation` give the document that value. Each direction is an invariant on
  top of `IInv`. `Sound` reads the stack as an unfinished derivation: a frame is an
  opener followed by complete entries, every value in `built` is derived, and at each
  `pc` it is known what stands between the last entry and `at`; closing a container is
  applying its rule (`CompleteDerives`), where `Distinct` gives the names and
  `Depth <= max_depth` the level. `Faithful` fixes any value the rules give the document and
  follows its derivation downwards: the frames are nested containers of that derivation
  (`Inverted`), each read up to some entry, and the lexemes from `at` on are what the
  rules say comes next. So no refusal can be taken, because each one contradicts the
  lexeme that must be there, and what is built is the value itself. That a document has
  at most one value is a consequence, not an assumption.
* **ContinuationProofs.** `ReadUpToTheFault`, `RefusedForGood`: admission refuses at the
  first fault, for documents of any length. What the rules say of a span they say by its
  own lexemes (`AlikeDerives`: the spans of a derivation that end by n are a derivation
  in every document with the same n lexemes), so what `Sound` knows of the lexemes read
  holds of a document that goes on otherwise. That document is given (`Mended`): after
  what was read, at most a fresh name, a colon and `null`, and then a closer for each
  open container; that this has a value is an induction over the closers (`AllClose`). A
  fresh name exists because an object has finitely many and strings are infinitely many,
  which the theorem assumes of `Names`. The byte cap is left out: completing a
  document makes it longer. The other half needs no completing: no
  action looks at a lexeme beyond the one the parser is at (`SameStep`), so up to there
  the state is a state of the parser on either of two documents, and the invariants of
  `JsonParserProofs` are carried for both (`Healthy`, cited and not proved again). A
  refusal is then exact for the other document too. `TooLarge` is excluded: it is a
  fault of the whole document, and a shorter one that begins so may fit.

  `NumberReadToItsEnd` is the same question inside a number, for texts of any length:
  the scan reads the longest prefix that is a number or can become one, and answers
  Syntax there exactly when it is not one yet. The grammar of the parts, stated on
  subsequences, is first put by positions (`NumberByPositions`). Then a number that
  agrees with the text on its first n characters is cut where the scan cuts the text
  (`WholeCut`, `FractionCut`, `ExponentCut`: the character that ends a part in one would
  have to be a digit in the other), so n is at most the end of the scan (`ScanReach`).

  `LiteralReadAsSpelled` and `FaultIsNamed` are the same inside a string, for literals of
  any bytes. What a literal spells from an offset is given by `StringSpelling` as a
  function on offsets, and first turned into an equation: either a character begins there
  and the rest is what is spelled behind it (`SpelledGoesOn`), or nothing is (`Stuck`).
  That at most one character begins at an offset, of one width, is a question of its
  bytes: the well-formed sequences of UTF-8 against the encoding of a scalar, and the
  digits of one escape or of two against its code units. The invariant is then that what
  has been read leads from the opening quote to the offset (`LeadsTo`): a run of raw
  bytes is an induction over its characters, an escape is one step, and where the scan
  refuses, nothing can be read on.
* **NativeCallProofs.** `TypeCorrect`, `LimitsHold`, `CallsRecorded`. The
  invariant `Inv` has `Counted` (what is on disk is what is counted plus, in the
  middle of a call, what the streams have brought in) and `Held` (at each `pc`, the
  sum of what is counted, what may still come and what is reserved is within the
  limits). The allowance is needed because the streams are not counted until the
  child has ended; the reserve because the receipt is written after the streams
  have used all they may. That no receipt is longer than the reserve is an
  inequality between the two ways of writing one (`ReceiptFits`), from `Digits`
  being monotone. `ReceiptsHonest` needs `Flows`: what a child has written is in a
  pipe, or kept, or is the one byte that was read and not kept; and a child that
  was not killed is waited for only when both pipes are drained.
  `CallImplementsLedger` needs `Granted`: what a call is charged at its end is within
  what its start was granted, so that the charge the ledger makes at once is one the
  call can still meet, at whichever of its points it ends.
* **GoAdapterProofs.** `AgreedBytesOnly`, `NothingTruncated`, `AdmittedAsAWhole`. The
  invariant relates the adapter to the command by what both were given: `Given` says
  that what was read is the document up to one byte above the cap, `Commanded` that the
  command works on just that, under the options of the call. While it works, the
  parser's own invariants hold of it (`Healthy`), which are cited from
  `JsonParserProofs` and not proved again, so its answer is that of the rules of
  `JsonDerivation`; and because a document above the cap is cut *above* the cap, it is
  refused for its length and never judged by its prefix. `Judged` carries the answer to
  the end, `Final` says where each answer of the adapter can have come from.
  `AdmittedAsAWhole` is what `AcceptedIsDenoted` says on small documents (up to nine
  lexemes, too short for members out of order: these are in `WritersAgree`), with the
  derivation in the place of the generated grammar, and of refusals too.
* **TraceProofs**, the record. `AcceptedBound`, `BudgetsHeld`, `EntriesAreEnough`,
  `CallsAreEnough`. `Admitted` says of what was admitted so far that it is the
  manifest and then the rows of the bytes that were kept, in order; the files do not
  occur in it, which is why it does not matter what happens to them. `Ordered` says
  which members have been read at each `pc`, `Entered` what has been entered in the
  capture directory by then, `Called` that the calls still to be made were reserved
  before the first.
* **TraceProofs**, the projection. `InspectionIsExact`, `RowsAreHistories`,
  `RefreshesAreOfSubjects`, for files and summaries of any length. `Collected` says that
  what `inspect_events` has of a session is the one decision and the one line it has
  met so far, each in its shape; `Decided` that it goes on past the last row only with
  every line bound, and has refused a row only in an unsound file. Soundness is said of
  the whole file without an order, so each refusal is shown to be one by pointing at two
  rows that contradict each other, wherever the second of them is (`WholeFile` joins the
  two accounts at the end). `Rowed` adds that every row of the output is the history of
  a holder on its path and that its refresh is its subject's: each condition of the
  code's lists of checks is shown to have been passed (`NoneFails`, about the first
  complaint of a list), and together they are the definition of a history.
* **ReleasesProofs**, Python. `OnlyVerifiedPublished`. The
  invariant is `Staging`: while a run stages, the version and the built files stand
  still, and all files built or copied so far have been read. That the upload
  directory was empty when the run began is what makes it hold of the copies; what
  an earlier run left behind makes a later one refuse.
* **ReleasesProofs**, npm. `PublishedAfterTests`, `PublishedFromCommit`,
  `OutputOfOneBuild`, for any number of builds, runs and mishaps. `OneBuild` says that a build
  that found the tree clean has seen one tree until the first change to it, and a
  dirty one from then on, which the check at its end would find. `Traced` follows
  every copy of a report and of a record: whatever directory, receipt or artifact
  it is in, it was written by consumers that had passed, or by a build that had
  looked, for the very tarball its digest names. `OutputOfOneBuild` needs no more than
  that only an output that is gone is copied over.
* **ReleasesProofs**, the qualification. `ResultsNameTheirCommit`. A checkout
  may be edited after it was found clean, so nothing can be said of the work of one
  step when it ends. `Lasting` says instead what a clean checkout would show: unless
  it was made clean again, it can only become dirty and stay so, and that it is clean
  now says that all work so far is of the commit named first (`Evidence`). The last
  git status turns this into a fact, and what happens to the checkout afterwards does
  not matter. `Ordered` says that a run that goes on has passed each of its steps.
* **MutationSweepProofs.** `VerdictsAreOfEdits`, `FinishedRestores`,
  `InterruptionsRecoverable`, for any number of sweeps, kills and actions of the
  author. `Recorded` says what the tree and the backup are, at each `pc`, relative to
  what the sweep found; `Undisturbed` ties it to the author's keeping out of the way.
* **ByteBindingProofs.** `OneDocumentAnswered`, `CopiesCapped`, `MessagesCapped`. The
  first rests on `Read`: the bytes the first pass has read are among the values the
  object has had since the call began, and the second pass reads from what the first
  one read. `MessagesCapped` holds for every text: the text shown ends at a character
  boundary, so its length is within the budget (`DisplayBounded`), and what is added to
  it is a fixed number of words and numbers no longer than a `usize` can be. The
  lengths are sums over the text, which are recursive functions; see below.

**Recursion.** The induction theorems of the library take a predicate as an operator,
which the provers at hand cannot instantiate. `ByteBindingProofs` has induction over a
*set* of numbers instead (`Induction`, from the well-foundedness of < on Nat), and with
it the recursion equation of a function defined on numbers (`Iterated`): this is how
the sums of Rendering are reasoned about. A RECURSIVE operator remains out of reach.

Only model-checked, and why:

* the refinement of `Admission` under the generated grammar, with its liveness
  (`ImplementsAdmission`; the theorem is about `JsonDerivation` and about safety),
  `WritersAgree` and `AcceptedIsDenoted`: they are stated with the RECURSIVE grammar and
  canonical form. That two recursive readers of a document compute the same is induction
  over it (`AdmittedAsAWhole` is as far as the theorems go: it says what is emitted, not
  that the writer gets to emit it);
* `RefusedAtFirstFault`: stated with the RECURSIVE grammar. `ReadUpToTheFault` and
  `RefusedForGood` say both halves of it with the rules of `JsonDerivation`;
* `VerdictIsExact`: what folds over the digits of a number compute;
* `CallEnds`, `AlwaysAnswers`, `SweepEnds`: liveness under fairness.

## 5. What is not modelled

* How a number or a string is spelled in the output: the serializer is external,
  and `es6numfmt.go` is taken to agree with it. `WritersAgree` is therefore about
  structure, order and acceptance, not about digits.
* The words of refusals: `Rendering` has their lengths.
* In the trace reader: the values of times, roots and policies (whether they pass
  their checks is modelled) and the fields that `derive` only copies. The paths of commands, directories and names, which are checked before anything
  happens. Hashes are taken to be exact.
* DSSE (`dsse_binding.rs`): signing, verifying and counting keys are the `dsse`
  crate's, which is not in this repository.
* In the npm release: a tree that is changed and changed back while cargo runs
  (nothing in the code would see it, and `PublishedIsOfCommit` does not hold for it);
  which assertions the consumers make; the scan of the output for local paths.
* In the Python release: what the index does with an upload that breaks off.
* In the qualification: the cases `check.py` generates and the outcomes it compares;
  whether they are met is the outcome of a step. A checkout that is clean again when
  it is looked at, because another commit was checked out or an edit undone, is not
  seen by the code, and `ResultsAreOfHead` does not hold for it; the property says so.
* The other qualification scripts (`rfc8785-py/check.py`, `aps-canonical-bytes/check.py`,
  `readme-lint.py`) compare outcomes with tables in one process, and the examples call
  the crate: they keep no state, and nothing runs beside them.

## 6. Where the code and its documentation differ

* `number_rounding`: a fraction next to the safe-integer bound is admitted under
  I-JSON and printed as an integer that the same profile refuses. The finding in
  `PROJECT.json` quotes the sentence it disagrees with.
* `message_elided`: the count in "... [N bytes elided]" is too small, by the
  characters that escaping adds and by the opening quote.
* `python_population`: the check of "exactly the expected population" counts texts in
  file names. Two wheels for one macOS machine pass for the two of macOS, and a wheel
  with the tags of two families for one of each.
* `sweep_rerun`: a sweep that times out leaves its edit in the tree, and the next one
  takes that for the pristine sources, removes the clean copy, and reports verdicts
  about two edits at once.

## 7. Plan

In this order; the first seven are done, but for what 7 names.

1. Admission: Options, JsonParser, JsonGrammar, Admission, and proofs of the stack
   bound, the nesting and the names.
2. The two scans below the parser.
3. The Go consumer, which composes the parser with a second one.
4. The trace reader: native calls with proofs, the ledger they refine, the record,
   the projection.
5. What is around the core: `ByteBinding`, `Rendering`, `NpmRelease`.
6. The tools that act on the repository itself: `PythonRelease`, `Qualification`,
   `MutationSweep`.
7. Theorems: done for the native call with the ledger it refines, the record, the
   projection, the mutation sweep, the releases, the bindings and their messages, the
   parser against the grammar, its first fault, the extent of a number, the value of a literal, and the adapter on
   top of it. Left: the value of a number, without recursion, and that the Go writer gets to emit what it was handed.
8. Abstract specifications: a binding as one atomic call of Admission on a
   snapshot; the release as one step from a commit to a package.
9. DSSE thresholds with the crate as an external service.
