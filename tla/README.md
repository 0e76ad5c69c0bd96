# furqan-lint in TLA+

furqan-lint checks Python, Rust, Go and ONNX files for structural mistakes
(a function that can fall off its end, an optional value used unchecked, a
public name that disappeared), and its Gate 11 signs and verifies *CASM
manifests*: Sigstore-signed statements of a module's hash and public surface.
These modules model four parts of it:

* **the store**: Gate 11's commands over a directory of modules and bundles,
  and the `check` command that walks that directory;
* **the release**: the workflow that publishes and attests furqan-lint itself,
  and `manifest verify-self`, which checks that attestation;
* **the checkers**: what `check` reports of one Python, Rust or Go function,
  held against what running that function can do.

TLC checks them on small instances; TLAPS proves every safety property that
the passing runs check, for every value of the constants.

Paths below are relative to the repository, which is `src/` here:
`cli.py` is `src/furqan_lint/cli.py`, `gate11/x.py` is
`src/furqan_lint/gate11/x.py`.

## 1. Inventory of the system

| Component | State it keeps | Operations | Hard behaviour | What makes it correct |
|---|---|---|---|---|
| **Manifest commands** `gate11/cli.py`, `bundle.py`, `signing.py`, `verification.py`, the per-language facades and builders | the bundle file beside each module; the public Sigstore log | `manifest init`, `update`, `verify` | every command reads its module twice and a bundle up to three times, signs in public, then truncates and rewrites the bundle in place; nothing locks | manifests form chains; a manifest attests one text; an accepted manifest is trusted and matches the disk |
| **CASM manifests** `manifest_schema.py`, `module_canonicalization.py`, `*_surface_extraction.py` | none | parse, canonicalize, hash, extract a surface | the hash and the surface see different things of the same bytes (BOM, newlines, dynamic `__all__`) | the nine verification steps agree on one text |
| **`check`** `cli.py`, `cmd_check_gate11` | none on disk; the exit code | walk files, then bundles | listings go stale; an uncaught exception ends the walk; one exit code for everything | the exit code answers for all that was listed |
| **Self-attestation** `release.yml`, `self_manifest.py`, `checker_set_hash.py`, `verify-self` in `gate11/cli.py` | the tag, PyPI, the release and its two assets; the installed package | build, publish, release, sign, upload; download, verify, compare the checker sources | steps fail and are run again, tags move, maintainers release by hand; two separate uploads and downloads; pip changes the installation meanwhile | a verified self-manifest is the one of the wheel asked for; drift is reported exactly when there is some |
| **Python checks** `adapter.py`, `zero_return.py`, `return_none.py`, `runner.py` | none | translate a syntax tree to returns and ifs; R3, D24, D11, return-none | try, with, match and loops as ifs; narrowing of optionals across rebinding and exceptions | no finding lost or invented, documented limits aside |
| **Rust adapter** `rust_adapter/` | none | tree-sitter tree to returns and ifs; R3, D24, D11 | a file is read twice; match arms, tail expressions, `?` | as the Python checks |
| **Go adapter** `go_adapter/`, `goast` | the goast binary | JSON of a subprocess to returns and ifs; D24, D11 | time-outs; every failure is a parse error; goast drops what it does not know | as the Python checks |
| **Additive diff** `additive.py`, `*/public_names.py`, `cli.py` | none | compare the public names of two files | dispatch by suffix, refusals | exit 0 only if no name disappeared |
| **ONNX adapter** `onnx_adapter/`, `gate11/onnx_*.py` | none | graph checks, numeric probes | numeric tolerance, onnxruntime | the model agrees with its reference |
| **Signature canonicalization** `gate11/*signature_canonicalization.py` | none | annotation text to fingerprint | equal types written differently | equal signatures have equal fingerprints |
| **Release scripts** `scripts/`, `bench/`, `demo/` | git tags, GitHub releases | publish, backfill, sweep | maintainers' tooling | not part of the linter |

How they interact: `check`, `diff` and `manifest` are alternatives of
`cli.main`. `check` runs the adapter and the checkers of a file's language.
`check --gate11` calls the same `Verifier` as `manifest verify`, and so does
`verify-self`, for the manifest of furqan-lint's own release. The builders and
step 8 of the verifier call the surface extractors; the builders embed
`checker_set_hash`, which hashes the checkers' sources. Commands of different
processes (a developer, a pre-commit hook, a CI job) meet only in the files and
in the Sigstore log; workflow runs, maintainers and users only on PyPI and on
GitHub.

`PROJECT.json` lists every component with its status, and under `hazards` each
place where the code is hard to test, with the properties that watch it.

## 2. The modules

| Module | What it is |
|---|---|
| `CasmManifest` | the data: texts, surfaces, manifests, and verification steps 6 to 9 as functions of what one step has read |
| `ManifestStore` | `init`, `update`, `verify` as processes over module files, bundle files and the log; developer and user; the properties |
| `ManifestLog` | the abstract specification: an append-only log of linked manifests and files that hold them |
| `ManifestRefinement` | the refinement mapping from `ManifestStore` to `ManifestLog` |
| `CheckWalk` | `check [--gate11]`, an extension of `ManifestStore` by one walking process |
| `SelfAttestation` | the release workflow, maintainers, pip and `verify-self` |
| `Blocks` | a block as the record of what the walks over it find; what an adapter leaves of it; D24 of the furqan package |
| `PyFunction`, `NativeFunction` | what running a function can end in: the reference, for Python, and for Rust and Go |
| `PyAdapter`, `PyCheckers` | the Python translation; R3, D24 and return-none |
| `RustAdapter`, `GoAdapter` | the other translations (goast included) and their reports |
| `FunctionFlow` | a developer types a function, `check` reports; the properties that compare the two |
| `PyNarrowing` | which calls of a Python function D11 gets to see: the guards that handle a None |
| `MCManifestStore`, `MCCheckWalk`, `MCSelfAttestation`, `MCFunctionFlow` | constants for TLC |
| `ManifestStoreProofs` | type correctness of the store |
| `ManifestChainProofs` | the chain theorem, and the theorems on a writer that is alone |
| `ManifestAttestProofs` | the theorems on attestation, acceptance, trust and step 8 |
| `ManifestLogProofs` | the refinement theorem |
| `CheckWalkProofs` | the theorems on the walk |
| `SelfAttestationProofs` | the theorems on the release |
| `PyBlockProofs` | the lemmas on one block of Python: what holds of a statement when it holds of its clauses |
| `FunctionFlowProofs` | the theorems on the checkers |

### The store: state and actions against the code

One action is one access to the disk or to Sigstore. What a command computes
between two accesses belongs to the action that made the first of them.

* `source`, `store`: the module files and the bundle files. `store[a]` is
  `Absent`, `Torn` (not valid JSON: truncated, half written, or written by two
  commands at once) or the hash of the manifest in it. `store[m]` is the bundle
  `_bundle_path_for(m)`; `Archives` are other `*.furqan.manifest.sigstore`
  names in the directory.
* `log`: every bundle ever signed. The hash of a manifest is its index there.
* `pc`, `path`, `mod`, `arg`, `base`, `draft`, `verdict`: the local variables
  of one run of a command. `shared` says that another command opened or wrote
  the bundle while this one had it open for writing.
* `StartInit`, `StartUpdate`, `StartVerify`: the existence checks at the start
  of `cmd_manifest_init/update/verify`.
* `ReadExisting`: `Bundle.read` in `cmd_manifest_update`.
* `ReadSurface`, `ReadHash`: the two reads of the module by
  `_build_manifest_dict`, `build_manifest_rust` (surface, then hash) and
  `build_manifest_go` (hash, then surface). `Extractions` is what reading the
  surface may end in: a surface, a dynamic `__all__`, or an exception, because
  the file is gone, the parser refuses it, the extra of the language is not
  installed (`Extras`) or goast fails. The Go builder turns an exception into a
  message (`BuilderError`); the others let it pass.
* `Sign`, `SigningFails`: `sign_manifest`.
* `OpenBundle`, `WriteBundle`: `Bundle.write`, whose `open("w")` truncates.
* `Route`: `cmd_manifest_verify` finds the module and reads the bundle for its
  language. `Parsing`: `verify_bundle` reads it again, steps 1 to 6.
  `Step7Action`, `Step8Action`, `Step9Action`: the steps of the same names. Step
  8 runs the extractor again, and no command catches its exceptions.
* `Finish`, `Crash`: the process exits or is killed at any point.
* `Edit`, `Copy`: the developer edits, deletes or restores a module; a user
  copies a bundle to an archive or an older one back.
* `edits`, `stale`, `raced`, and `edited`, `rewritten` in `CheckWalk`:
  history. `p \in stale` says that the module changed since `p` first read it,
  `i \in raced` that manifest `i` was signed by a stale builder.

In `CheckWalk`, `StartCheck` is `main` up to the listing; `CheckFile` and
`SliceRust` are `_check_file` and the per-language checks; `ListBundles`,
`LocateModule`, `Reread`, `VerifyStep`, `Collect` are the loop of
`cmd_check_gate11`, with the steps of `ManifestStore` inside `VerifyStep`. The
lists `todo` and `bundles` are sets taken in the order of the constants
`FileOrder` and `BundleOrder` (`sorted` in the code).

### The release: state and actions against the code

* `tag`, `pypi`, `release`, `assets`: what origin, PyPI and GitHub hold. PyPI
  never replaces the files of a version; assets are two files that are deleted
  and uploaded one at a time.
* `run[r]`: the workflow run of a tag at a commit; its `manifest` and `bundle`
  are the files on the runner's disk.
* `PushTag`: the build job, which demands a commit of main, a version equal to
  the tag and a section of `CHANGELOG.md`, and changes nothing else.
  `PublishWheel`, `CreateRelease`, `Sign`, `Upload`, `EndUpload`: the steps of
  the publish and release jobs of `release.yml`, in order. `Fail`, `Rerun`: a
  step fails; an operator runs the job again, from its start.
* `PublishByHand` (`publish.sh`), `ReleaseByHand`, `UploadByHand`: what
  maintainers do by hand; `touched` remembers the releases of the last.
* `PipUninstall`, `PipUnpack`, `PipFinish`, `EditInstalled`: the installation,
  whose files and metadata change one after the other.
* `session[u]`: a run of `cmd_manifest_verify_self`. `StartVerifySelf` finds
  the version, `DownloadManifest` and `DownloadBundle` are its two requests,
  `VerifySelfSignature` steps 1 to 6 on the downloaded bytes, `HashInstalled`
  the hash of the pinned checker sources, `CompareHash` the comparison and the
  look at the installed version. `changed` remembers whose installation
  changed meanwhile.

### The checkers: definitions against the code

A statement is a kind, a test and clauses. The kinds are those that the
checkers or the execution tell apart: `pass` is every statement that does not
touch the variable `x`, `call` is `x = p()` with `p` returning an Optional (or,
in Rust and Go, something that may fail), `match` has arms that cover all
values or not.

The walks of the code (does the block return, can it complete, what is it
translated to, which calls are in it) are recursions over the syntax tree, and
of one form: what a walk finds in a statement is told from the
statement's own words and from what it finds in the clauses. So in
`FunctionFlow` a block is no tree but the record of what each walk finds in it:
`run` (the ends of an execution), `ir` (the translation), `completes` (R3's
answer), `within` (the statements it has, at any depth), `narrow` (D11's
narrowing), and for Rust and Go `called` (the ends of an execution that called `p()`),
`extracted` (whether the adapter saw such a call) and `misplaced`. Each operator below is one level of a
recursion of the code; a statement that is typed takes all of them one step on.

* `PyStatement` and `PyThen` put the walks over a statement and over a block
  that goes on with one together; so do `NativeStatement` and `NativeThen`.
* `Translate`, `TranslateBody` are `adapter._translate_body` and
  `_translate_statement` with `_try_to_if_chain` (`HandlerChain`);
  `TranslateReturn`, told in `PyType` from the heads of the arguments, is
  `_translate_return`.
* `CheckFunction`, `CanComplete`, `HasSkipDecorator`,
  `AnnotationAllowsNone` are `zero_return.py`; `CheckReturnNone` is
  `return_none.py`; `PythonReports` is `runner.check_python_module`.
* `TranslateBlock`, `ArmsToIfChain`, `TranslateType`, `RustReports` are
  `rust_adapter/translator.py` and `runner.py`; `ConvertStatement` is
  `goast/main.go`, `GoTranslate`, `GoExtractCalls`, `TranslateReturnTypes`,
  `GoReports` are `go_adapter`. The kinds of Rust and Go tell apart the ways to
  call `p()` that the adapters treat differently: `call` (`x = p()`, `p()`),
  `nested` (`x = f(p())`), `method` (`x = c.p()`), `var` (`var x = p()`),
  `defer` (and `go`), `macro`, `ret p` (`return p()`, `return must(p())`), and
  the test `init`, a call in the head of an `if`.
* `AllPathsReturn`, `MissesReturn` and the D11 and ring-close conditions stand
  for the furqan package, which is not in the repository: they say what
  `runner.py` and its tests rely on. They are marked external.
* `Run` and `NativeRun` are the languages' own semantics, also external: every
  way a block can end from a value of `x`, with an exception possible at every
  statement, and, in the mode `suppressing`, context managers that swallow one.
* `FunctionFlow` types a function: its annotation (`WriteType`, arguments
  before heads), then statement by statement its body (`Type`, `OpenBlock`,
  `NextClause`, `CloseBlock`), only programs the compiler accepts; and
  `CheckPythonModule`, `CheckRustModule`, `CheckGoModule` put the reports of
  the language's checkers beside it.

D11's narrowing does not look like a walk of that form in the code:
`_narrowed_call_ids` and the helpers around it look at the statement *after* a
call, and count the reads of a name in the whole function. `PyNarrowing` says
the same with a record `narrow` of each block (and of each statement), which
needs the block's two ends and nothing between them:

* `straight`, `ends`, `sets` are `_straight_prefix`, `_ends_path`
  and the first half of `_rebinds`, for the block a guard's None branch is;
* `binding`: the block ends in `x = p()`; `guard`: what a statement is to an
  `x = p()` right before it (`_guards`). `NarrowOn`, a block that goes on with a
  statement, brings the two together, as the code's `block[i]` and
  `block[i + 1]`;
* `kept`: some call is not narrowed, whatever stands around;
* `alone`, `looped`: guards that count only if every read of `x` is inside the
  guard's body, or in the rest of the loop's. The code looks at all the reads of
  the function at once. Here the condition is carried outwards: at each level
  the reads in what stands beside the block (`NameLoads` of what comes before or
  after it, of the other clauses, of the test) turn `alone` into `kept`, and
  `looped` becomes `alone` at the loop whose body it stands in. Two equal arms
  of a `match` are one block of the set `case`; the field `twice` remembers
  them, because each stands outside of the other.

`ExtractCalls` puts this together with `Unguardable` (`_unguardable_names`);
the calls inside `with` and `try` are always kept (`Sensitive`).

Definitions whose comment begins with "Mutant" are wrong versions of the
definition below them. No specification uses them: with one put in the place of
the right one, the property named in `PROJECT.json` fails, which shows that the
property depends on that piece of code.

### Abstractions

* A text is one of a small set; its canonical form, surface and what a parser
  makes of it are constant functions. SHA-256 is collision free. Two manifests
  with identical fields signed in one second have one hash in the code and two
  in the model.
* Step 5 and the Sigstore verification proper are the two facts the
  certificate gives: who signed, and in which deployment. `CASM-V-021` (no
  trust root) may happen to any verification.
* Parsers fail on what is no program and nowhere else; but goast, a program of
  its own, may fail on any text (its time-out). Whether an extra is installed
  does not change during a run of a command.
* Bundle files are ASCII: `Bundle.write` dumps with `json.dump` and its
  `ensure_ascii`, and what is torn, mixed or copied of it stays ASCII. So what
  `Bundle.read` raises of an unreadable bundle is a `JSONDecodeError`, which the
  commands catch, and no `UnicodeDecodeError`, which they do not.
* `Route` merges the two reads a bundle may get before `verify_bundle`; step 9
  reads all siblings in one action. In `CheckWalk` the reads before
  `verify_bundle` are separate.
* In `ManifestStore` a recorded module path names the file it named when it
  was signed; in `CheckWalk` the constant `FromCwd` says what it names from
  the directory `check` runs in.
* The schema validation of a manifest the builders make never fails; a module
  that vanishes between two reads is a traceback.
* In `CheckWalk`, what the checkers find in a text is the constant `Marads`:
  `FunctionFlow` is about what they find, `CheckWalk` about when they look.
* In `SelfAttestation`, a commit stands for its checker sources; wheels with
  the same checkers are indistinguishable. `PublishWheel` may succeed though
  the version exists: the comments of `release.yml` count on that, the action
  itself is external. `verify-self` is run with its default identity, that of
  the workflow at the tag asked for, or with `--version`.
* In the function models, an arm of Rust's `match` is a block (an arm without
  braces is a block of one expression), and an `if` or `match` in the tail
  position of a block is a statement like others whose blocks may end in
  values. One variable and one producer stand for all.
* The kinds `nested` and `ret p` do not ask what the other function does with
  the failure; a method call in Rust is one without a turbofish.
* ONNX modules and manifests, `--force-refresh`, options that are rejected and
  output are left out.

## 3. What TLC checks

| Run | Instance | Properties | What it shows |
|---|---|---|---|
| `race` | two writers that can be killed, one module that can vanish, its bundle copied away and back, 3 signatures; 0.4 million states | `TypeOK`, `ChainLinked`, `ImplementsLog` | whatever two commands, a crash and an older bundle brought back do to each other, manifests form chains and the store implements the abstract log |
| `trust` | two writers with different identities, a verifier, two deployments, four policies | `AcceptedIsTrusted` | the bundle that is accepted is the one whose signature was checked, though it is overwritten meanwhile |
| `solo` | one writer, never killed, a Python and a Go module, 3 texts (one not UTF-8), 2 edits, fairness; 0.4 million states | `AttestsOneText`, `TornOnlyWhileWritten`, `NoFork`, `SignedReachesDisk` | a manifest whose hash and surface disagree was raced by an edit; alone, a writer keeps the bundle file the head of one chain, and what it signed reaches the file |
| `walk` | walks over a Go and a Rust file, a writer, an edit, 4 texts (one no program, one not UTF-8), goast failing at will; 1.4 million states | `WalkTypeOK`, `ExitCoversAll`, `TracebackHasCause` | the exit code answers for every file and for every bundle the walk could place; what ends a walk is a module file: one that cannot be read, or one that has the hash of a manifest and whose surface cannot be had |
| `pywalk` | walks over a Python file, its bundle and a copy under an old name, a writer, an edit, 6 texts (one with a BOM, one with a dynamic `__all__`, one not UTF-8); 3.8 million states | `AcceptedIsOnDisk`, `SurfaceVerdictNeedsRace`, `TracebackHasCause` | `CASM-OK` is about the file on disk; step 8 never speaks without a race; bundles that change under a walk do not end it |
| `selfattest` | a tag that moves between two commits with different checkers, a version released by hand, one installation, uploads by hand; 0.9 million states | `SelfTypeOK`, `ManifestAttestsWheel`, `AcceptedIsReleased`, `DriftIsReal`, `FailedSignatureNeedsHand` | what is attested is what PyPI ships, what `verify-self` accepts is the release asked for, and its alarms have causes |
| `flow` | Python functions of up to 4 statements of control flow, of up to 5 of guards, of up to 3 of every other use of an optional, of up to 2 under every annotation of 2 types, every kind of decorator with its imports, and every place; Rust functions of up to 3 statements, Go functions of up to 4, and up to 4 of those that call `p()` in every way there is; 2.1 million states | `SilenceIsSound`, `GuardsHold`, `ZeroReturnProves`, `AlarmsAreReal`, `NeverBoth`, `NativeAlarmsAreReal`, `NativeSilenceIsSound`, `FailuresSurface` | what the checkers say of a function and what they leave unsaid is true of its execution; and where D11 is silent, no unchecked `None` leaves it, not even past a context manager that swallows an exception |

Three signatures are enough for a fork (two successors of one manifest), for a
chain of three, and for a chain that restarts; two commands for every overlap
of a read and a write and for a file with two writers. One edit falls between any two reads of a
command, of a verification or of a walk; in `solo` two let a text change and
change back. `v3` lost a name, `v2` changed a fingerprint, `v1crlf`
and `v1bom` have the canonical form of `v1`. Every extra is
installed in the runs; a missing one does to step 8 what a failing goast does,
and `TracebackCorrect` is for any. `pywalk` verifies by the steps of `manifest
verify`, which differs in how it finds the module (`trust` runs it), and the
theorems on both properties are about `manifest verify`. Two modules suffice for a
neighbour's bundle to be taken for a predecessor. Two commits under one tag
are what distinguishes the checkout from the wheel, two versions what
distinguishes the manifest asked for from another's; one installation is
enough because users never meet. `SelfAttestation` is finite without bounds.
Four statements reach a `break` in the handler of a `try` in a loop, and a
`finally` that overrides what the body did; five a guard in a loop after which
something else reads the variable.

The bounds are `MaxSigned` (guard of `Sign` in `ManifestStore`), `MaxEdits`
(guard of `Edit`), and in a task of `FunctionFlow` `grammar.size` (statements
in a function) and `grammar.types` (types of an annotation);
nothing else. The theorems hold for any of them.
`CHECK_DEADLOCK FALSE` everywhere: when the bounds on signatures and edits are
used up, the system may stop, as a directory nobody works on does; a release
is done once it is done, and a function that was checked stays checked.

### Fairness

Two properties need it.

* `SignedReachesDisk`: `ManifestStore!FairSpec` assumes weak fairness of each
  process's `Builder(p) \/ Verifier(p)`: a command that was started is
  scheduled until it ends, which is what an operating system does for a running
  process. No fairness is assumed of starts, edits, copies or crashes, and the
  run has none of the latter. A signature that does not happen may fail
  (`SigningFails`), so progress never depends on Sigstore. The conclusion
  starts where the signature already exists.
* `RerunProvides`: `SelfAttestation!FairSpec` gives the workflow every chance.
  A running job goes on or fails; an operator runs a failed one again (the
  checklist's instruction); a step that can succeed and is tried again and
  again succeeds once (strong fairness). The property fails even so.

### Where the code differs from its documentation

Five runs expect a violation; each checks one sentence of the documentation.

* `additive`: README 271 and 351 say that `manifest update` refuses removals
  (CASM-V-050) and signature changes (CASM-V-051). `cmd_manifest_update`
  compares nothing: after `v1`, `init`, an edit to `v3` and `update`, a
  successor without a name of its predecessor is signed.
* `gocalls`: `go_adapter/runner.py` 57 to 61 says that a caller which declares a
  concrete type and calls a `(T, error)` helper is flagged. goast prints the
  call only of assignments and call statements: after `var x, _ = p()` (here a
  statement of kind `var`) a `return x` is not flagged, nor is a call in the head
  of an `if` or in a block of its own. The property leaves out what the README
  lists as limits (loops, `switch`, `select`, `defer`, methods), and calls whose
  result is an argument of another function, which may see to the failure.
* `neighbour`: step 9's docstring says that CASM-V-060 is raised when the
  previous bundle is found but the hash mismatches. The loop takes *any*
  bundle at the previous position for it, another module's included, so two
  modules in one directory break each other's second manifest, depending on
  the order `glob` lists them in.
* `adjacent`: README 451 says that `check --gate11` verifies any adjacent
  bundle. The walk looks for the module at the bundle's stem plus `.py`
  (`lib.rs.py`, `foo.py.py`), then at the recorded path from the working
  directory, and skips the bundle with exit 0 if neither is a file.
* `rerun`: `docs/release-checklist.md` 440 and the comment at `release.yml` 175
  say that a missing manifest is remedied by running the workflow again, which
  is idempotent. `gh release create` refuses to create a release twice, so a
  run that failed after that step stops at it in every later attempt, before
  the step that signs.

The checkers' own limits: alarms they are known to raise on functions that do
give a value, which `AlarmsAreReal` leaves out.

* `R3Limits`. R3 takes what it cannot see through to complete: a loop (other
  than `while True` without a `break`), a `with`, a `match`, a `try` with a
  handler. It takes `if True` for any `if`, and a `break` for one of the
  outer `while True`, wherever it stands (`zero_return.py`,
  `_stmt_can_complete`, `_contains_break`).
* `D24Limits`. The translation makes a loop an `if` without an else, endless or
  not, and drops the difference of its `else`; a `match` is a row of such ifs,
  also when its arms are all there is; a `try` without handlers gets an empty
  else; `if True` is an `if`; `try*` is not translated.
* `HidesPaths`, `IsUnit` for the others: the loops of both and Go's `switch`,
  `select` and blocks of their own are opaque, and in Rust an expression of type
  `()` at the end of a block counts as its value.
* `HidesCalls`. The Rust adapter walks the bodies of loops for calls, but what
  stands in a macro is tokens to tree-sitter. In Go a call is lost in whatever
  is opaque (with `var`, `defer` and `go` statements), in the head of an `if`,
  in a `return`, as an argument of another call (`main.go` 285 takes the
  outermost), and as a method's, whose name is then `c.p` and not `p`.

Smaller divergences that the models contain and no run is about:

* The docstring of `RustGate11ExtrasNotInstalled`
  (`gate11/rust_surface_extraction.py` 58) and that of the Go parser
  (`go_adapter/parser.py` 76) say that the CLI converts the exception of a
  missing extra to exit code 1 with the install hint. `manifest verify` of an
  attested, unchanged Rust module passes steps 1 to 7, and step 8 ends it in a
  traceback (`cli.py` 407 catches the two Casm exceptions only, `cmd_check_gate11`
  at 597 the same).
* `SAFETY_INVARIANTS.md` 430 offers a private deployment through
  `--trust-config`; `sign_manifest` always uses the public one, and so does
  `Sign`.
* The annotation `None | T`, with `None` on the left, is not recognized as one
  that admits None (`adapter.py` 461 looks at the right arm), so R3 reports a
  function it means to skip. `AlarmsAreReal` claims the recognized forms only.
* In Rust, D24 skips every function with the name of one R3 reported, and so
  also a namesake in another `impl`. `NativeSilenceIsSound` excludes namesakes.

## 4. What is proved

For every set of modules, archives, texts, identities and processes, any
bounds, with and without crashes:

| Theorem | Statement | Argument |
|---|---|---|
| `TypeCorrect` | `Spec => []TypeOK` | `TypeOK` is not inductive: a manifest's hash field is a canonical form only because a builder signs after hashing. `TypeInv` adds `Hashed`: whoever is past the hash read has a hash in its draft |
| `ChainCorrect` | `Spec => []ChainLinked` | `ChainInv` adds that a readable bundle beside `m` holds a manifest of `m` (`StoreOwned`) and that a builder works on its module's bundle and holds a manifest of that module (`HandOwned`) |
| `AttestationCorrect` | `Spec => []AttestsOneText` | `FreshDrafts`: unless the process is stale, what a builder has read still is what the file holds |
| `TrustCorrect` | `Spec => []AcceptedIsTrusted` | `SignatureHolds`: from step 7 on, step 6 holds of the manifest in hand |
| `AcceptanceCorrect` | `Spec => []AcceptedIsOnDisk` | `HashHolds` and `SurfaceHolds`: from step 8 (9) on, step 7 (8) holds of the file, unless stale |
| `SurfaceVerdictCorrect` | `Spec => []SurfaceVerdictNeedsRace` | lemma `SameSurface`: a text with the hash of a coherent manifest has its surface, or the parser refuses it; then `RaceBlamed` is inductive with the above |
| `StoreImplementsLog` | `Spec => ImplementsLog` | `ChainInv`, and each action as a step of `ManifestLog` or a stutter |

The proofs rest on the named assumptions of `CasmManifest` and
`ManifestStore`, which TLC evaluates in every run: the constant functions have
their types, a module is no archive, writers are not verifiers, Go has no
dynamic surfaces, and `CanonAssumption`: two texts with one canonical form read
the same unless the parser rejects one of them (the canonical form removes
exactly a BOM and newline style). The lemma `OthersUntouched` does the work of
non-interference: a step of another process leaves a process's variables alone
and marks it stale if it changes its module.

Under `Alone` (one writer, `MayCrash` false, no archives to bring an older
bundle back from; verifiers, modules and edits as before):

| Theorem | Statement |
|---|---|
| `TornAlone` | `Alone /\ Spec => []TornOnlyWhileWritten` |
| `NoForkAlone` | `Alone /\ Spec => []NoFork` |

`SoloInv` adds that a bundle file nobody replaces holds the head of its chain
(`HeadKept`), and that a builder has that head in hand until it signs and its
own manifest, not yet extended, until it has written it (`HeadExtended`). Two
heads are never confused because of `StoreOwned` of the chain theorem. None of
the three conditions can go: two writers, or a kill between signing and
writing, break both properties, and an older bundle brought back makes a fork.

For every directory, every order of its files, every set of writers, crashes
included, whichever extras are installed where a process runs, and goast failing
at any text:

| Theorem | Statement |
|---|---|
| `WalkTypeCorrect` | `WalkSpec => []WalkTypeOK` |
| `TracebackCorrect` | `WalkSpec => []TracebackHasCause` |
| `ExitCorrect` | `WalkSpec => []ExitCoversAll` |

The invariant `WalkInv` adds to the types where the walk is (`Positions`: files
before bundles, and a walk that was not cut short has done both); what it
relies on while no file changes (`FilesStill`: listed files are still there,
the Rust file in hand is as it was parsed, and from step 8 on the module has
the attested hash, so that only a text the parser refuses can raise); that the
exit code answers for the files and bundles no longer on the lists
(`FilesCovered`, `BundlesCovered`, inductive because `max` never lowers the
code); and what the steps passed so far have shown of the bundle in hand
(`InHand`), without which an accepted bundle could still be one to blame.
`Misread` is what remains of the good cases in `TracebackHasCause`: step 8 may
raise over a module with the attested hash, if it differs by a BOM, its extra is
missing or goast fails, and the property says that nothing else does. The
steps beside the walk are steps of `ManifestStore`, so its lemmas (the types,
`LogGrows`) are used as they are. Beside the assumptions above the proofs use
`WalkAssumption`: the orders list every file, and the walker is not a writer.

For every set of versions, commits, pushes, installations and hand-made
changes of the release:

| Theorem | Statement |
|---|---|
| `SelfTypeCorrect` | `Spec => []SelfTypeOK` |
| `SignedAttestsWheel` | `Spec => []ManifestAttestsWheel` |
| `AcceptedReleased` | `Spec => []AcceptedIsReleased` |
| `DriftReal` | `Spec => []DriftIsReal` |
| `FailedSignature` | `Spec => []FailedSignatureNeedsHand` |

They share one inductive invariant, a chain of facts each of which rests on the
one before: PyPI keeps the wheel of a version (lemma on `pypi`), so what
attests it never changes; a run past the publication finds the wheel there and
carries what attests it (`RunsInv`); so every bundle the workflow ever signed
is the one endorsed for its version, whichever of two runs of a moved tag
signed it (`SignedInv`); so a release nobody touched has in each asset
nothing or just that (`UntouchedInv`); so a session holds matching halves
between its two requests, and after the signature check the attesting manifest
even of a touched release, because only the workflow signs with the workflow's
identity (`SessionInv`); and an alarm is about a wheel that exists
(`AlarmInv`). They assume `CommitsHaveSources`, `TagsAreVersions` and
`NoneIsNothing`.

For every function of Python, Rust and Go that the models can write, of any
size, nested to any depth, under any annotation, decorator and imports:

| Theorem | Statement |
|---|---|
| `FlowInvariant` | `Spec => []FlowInv` |
| `LateInvariant` | `Spec => []LateInv` |
| `SilenceInvariant` | `Spec => []SilenceIsSound` |
| `GuardsInvariant` | `Spec => []GuardsHold` |
| `ZeroReturnInvariant` | `Spec => []ZeroReturnProves` |
| `AlarmsInvariant` | `Spec => []AlarmsAreReal` |
| `NeverBothInvariant` | `Spec => []NeverBoth` |
| `NativeAlarmsInvariant` | `Spec => []NativeAlarmsAreReal` |
| `NativeSilenceInvariant` | `Spec => []NativeSilenceIsSound` |
| `FailuresInvariant` | `Spec => []FailuresSurface` |

None of these properties is inductive: they speak of a function that has been
checked and say nothing of one half written. The induction over the structure of
a function that one would do on paper is here an induction over typing it. What
has to be true of every block, clause and open block on the way is a relation
between the walks over it. For Python, `PySound` says among others:

* `CompletionSound`: a block R3 takes not to complete never ends in "next", in
  either mode; `CompletionReal`: outside `R3Limits`, one it takes to complete,
  without a return, does end so;
* `AlwaysReturns`: a block whose translation always returns, with exits as the
  ends of paths, never ends in "next"; `MissReal`: outside `D24Limits`, one
  whose translation may not return gets to its end, to a `break` or to a
  `continue`;
* `NoneTranslated`: an execution that returns None has left a None in the
  translation;
* `Written`: every block but the empty one may raise, which is what makes
  handlers reachable;
* `NarrowSound`: what D11's narrowing says of a block is true of running it
  (below).

For each of them there is a lemma that a statement has it when its clauses
have, one per kind of statement where the kinds differ (`try` needs the most:
a `finally` overrides how the body ends), and a lemma that a block keeps it
when it goes on with a statement. `RustSound` and `GoSound` are the same for
the other two; `CallsFound` in them says that where an execution ends after a
call of `p()`, the adapter saw a call, unless a statement of `RustLost` or
`GoLost` is in the block. It rests on `CalledParts`: whatever path through ifs,
matches and loops led to the call, some statement on it is one of `CallKinds`. `FlowInv` lifts them to the stack of open blocks (`OpenSound`)
and adds what the relations cannot know: that a `break` stands in a loop
(`BreaksOut`), without which `MissReal` of the whole body would not be an end
of the function; that types are what their translation says (`TypesOf`); and
that what was reported is what the checkers find now (`Found`). Each property
then follows from `FlowInv` alone. `AlarmsAreReal` needs one more lemma, that
the decorator's name means what the last import of it says (`MeaningIsLast`), a
fact about the search from the end of a sequence. The only assumption is
`TasksAssumption`: the tasks draw on the statements and annotations of their
language.

`GuardsInvariant` is the theorem with the most behind it, because a guard
stands after the call it vouches for, and what vouches for the guard (that
nobody else reads the variable) is settled further out still. So `NarrowSound`
cannot say that a block D11 is silent about leaks nothing; it says what such a
block may hand to what surrounds it, and who has to take it from there:

* `SilentSafe`: run from an `x` that is no None, a silent block leaks nothing,
  and a None is in `x` at its end only if the block ends in the call
  (`binding`), at a `break` or `continue` only under `looped`, or if somewhere
  in it a guard counts on nothing outside reading `x` (`alone`);
* `GuardSafe`: run from a None, a guard leaks nothing, and hands a None on only
  if it is a guard that is alone, or, out of the loop, one `in loop`;
* `PathEnds`, `LoopExits`, `RebindsSound`: what the three shapes of a None
  branch do to the None, each over `StraightOn`, the straight prefix;
* `UnreadSafe` and `CleanStays`: where nothing reads `x` nothing leaks, and
  where no call may bring a None, there is none. They are what `alone` comes to
  rest on: beside such a guard `NameLoads` was found false, level by level.

All of it in both modes, that is with context managers that swallow exceptions,
which is why `Sensitive` has to keep the calls under a `with`, and with the
`finally` that overrides an exit. What remains are late readers (a closure that
reads `x` when it runs): a silent block has none of their calls (`Silent`), and
a function that has one is silent only if it has no call that D11 looks at
(`Unguardable`). That a late reader is run only where one was made is no
relation between walks but a fact about what has been typed: `LateInv`, which
in turn needs that a clause which is ended takes the place of an empty one
(`Coming`), so that nothing typed is lost.

Only model-checked:

* `SignedReachesDisk`: liveness, which is out of the prover's reach;
* the five properties that are expected to be violated.

## 5. Not modelled, and what is left

* **Additive diff**: one comparison of two name lists, each extracted once;
  what it shares with `verify` is in `CasmManifest`. The extractors themselves
  are traversals of concrete syntax.
* **ONNX adapter**: numeric probes against onnxruntime and shape inference of
  the onnx library; the behaviour is in those libraries. ONNX manifests would
  add two checks to step 8.
* **Signature canonicalization**: text rewriting of annotations; the model
  takes fingerprints as data.
* **Release scripts** beside `publish.sh`: maintainers' tooling around git and
  gh, no state of the linter.
* **Inside the modelled components**: class bodies, lambdas and comprehensions
  in Python; what macros expand to and the edition lookup in Rust; the JSON and
  the subprocess between goast and its caller (in `CheckWalk` a time-out is one
  more parse error, in the surface extraction one more exception); control flow in the tail expressions of Rust; the
  translation of `except*`, which the adapter leaves out.

Left to do: ONNX manifests in `ManifestStore`.
