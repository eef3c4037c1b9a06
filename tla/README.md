# Formal model of the strategy registry bootstrap

This directory holds TLA+ models, TLC configurations and TLAPS proofs for
`src/strategies/bootstrap_strategies.py` (command-line driver) and
`src/strategies/bootstrape.py` (the same engine with an interactive driver).

## The system

The tool works on one strategies directory. Each run is a sequential
pipeline:

1. **Discovery and loading** (`discover_modules`, `load_module`,
   `extract_metadata`). The tool lists every `*.js` file under the root in
   sorted path order. For each one it runs node to read the `metadata`
   export. The name is stripped and lower-cased, and a blank name is an
   error. The version is stripped and defaults to `v1.0.0`. The sha256 of
   the bytes is the module's hash. `is_versioned_path` decides whether the
   file already sits at its canonical `<name>/<version>/<name>.js`
   location. Any error aborts the run before anything is written.
2. **Normalization** (`materialize_module`), with `--write` or the
   "normalize" answer only. A file that is not canonical is copied to its
   target (`mkdir`, `write_bytes`), then the original is unlinked.
3. **Registry build** (`build_registry`, `pick_latest_tag`). A fold over
   the modules in discovery order:
   - `tags[version] = hash` and `hashes[hash] = {tag, path}`, where a later
     module wins;
   - then `tags["latest"]` is set to the hash of the lexicographically
     greatest version.
4. **Manifest write** (`write_registry`). The tool writes
   `registry.json.tmp`, then `replace()`s it over `registry.json`.
5. **Usage reconciliation** (`read_usage`, `report_usage`), only in the
   command-line driver with `--usage`. The tool reads a usage export and,
   when the list is non-empty, indexes it by (strategy, hash), the last
   record winning. It then reports every tracked hash that has no record
   or whose count is 0.

Nothing runs concurrently: the spec (section 5) and the code are
single-threaded. The hard behaviours are therefore not interleavings.
They are:
- failures and kills between the file-system steps of one run: a torn
  `write_bytes`, a failed `unlink`, a torn temporary manifest;
- the effect one run's moves have on the next run;
- what earlier moves of a run do to files that later modules of the same
  run will overwrite.

## Modules

| Module | Models | Used by |
|---|---|---|
| `Bootstrap` | discovery, loading, normalization, registry build and manifest write, over any number of runs | `MCBootstrap`, `BootstrapProofs` |
| `MCBootstrap` | constants for TLC: two names, two versions, three starting files; further instances with a version containing `/`, a name containing `/`, and a loose file that sorts before the file at its target | the eight Bootstrap runs |
| `BootstrapAbstract` | what a run promises, without its steps: start from a loadable directory, reorganize it (with `--write`), publish its scan in one step, or stop | `Bootstrap` (`Abs`, the refinement mapping) |
| `BootstrapProofs` | TLAPS proofs of type correctness, the inductive invariant and the latest-tag invariant | `tlapm`, the two modules below |
| `BootstrapRerunProofs` | TLAPS proof that a `--write` rerun changes nothing, for names and versions of one path segment | `tlapm` |
| `BootstrapRefinementProofs` | TLAPS proofs that `registry.json` is the scan of its run, and that `Bootstrap` implements `BootstrapAbstract` | `tlapm` |
| `Usage` | `read_usage`'s outcome, the gate in `main`, and `report_usage` one loop iteration per step | `MCUsage` |
| `UsageProofs` | TLAPS proofs of `report_usage`'s loop invariant, type correctness and `UsedNeverReported` | `tlapm` |
| `MCUsage` | constants for TLC: two names, two hashes, three tracked revisions, exports of up to two entries | the four Usage runs |

### Bootstrap: state and actions

The state of `Bootstrap`:
- `fs`: the directory, as path -> bytes. A path is the tuple of its
  segments. The bytes are a record of the declared name, the declared
  version and an opaque body, or `Torn`, or `NoFile`.
- `manifest`: `registry.json`.
- `tmp`: `registry.json.tmp`.
- The current run's control point `pc` and its `write` flag.
- The run's discovered files `snap`, the modules still to fold `todo`, the
  module being moved `cur`, and the registry being built `reg`.
- `runs`, bounded by `MaxRuns`.
- Ghost variables for the properties: whether the last run succeeded, and
  the discovery and flag of the run that wrote `registry.json`.

A sha256 is the content record itself: hashes are taken to be
collision-free. Python's string order is a constant injective `Rank`.
`pathlib` splits a string containing `/` into several path parts, so the
constants `NameSegs`, `VerSegs` and `JsSegs` give the parts that
`root / name`, `/ version` and `/ f"{name}.js"` add; `Target(n, v)` is
their concatenation (`materialize_module`, lines 160-162). A name or a
version of `..` or an absolute path is outside the model.

The actions, one per step of the code:

| Action | Code |
|---|---|
| `DiscoverOK(w)` | `discover_modules` + `load_module` of every file (all must load) and the start of `main` / `rebuild_registry_once` |
| `DiscoverFail` | a load or node error, or no file: the run ends with nothing written |
| `RecordInPlace(p)` | one iteration of `build_registry` for a dry run or an already canonical file |
| `MaterializeWrite(p)` | `mkdir` + `write_bytes` to the target; a torn write ends the run |
| `MaterializeUnlink` | `unlink` of the original and the recording at the target |
| `SetLatest` | the final `latest` loop of `build_registry` |
| `WriteTmp` | `tmp.write_text`, possibly torn |
| `Rename` | `tmp.replace(target)` |
| `Abort` | an `OSError` or a kill at any point of a run |
| `Done` | the operator stops running the tool |

`build_registry` processes modules in sorted path order, which `IsFirstPath`
selects. Recording and moving a module are one action, or two when the move
(write, then unlink) can be cut between its steps.

### Usage: state and actions

The state of `Usage`: the usage list read (its entries are records or
`NotObject`, since `extract_usage_from_payload` checks only that it is a list), the loop index `i`, the
`usage_index` map from (name, hash) to a record, the `report` (or
`NoReport` when `report_usage` was not called) and the `phase`.

A record's raw `strategy` and `count` fields are kept. The constants `Norm`
and `IntOf` give what `str(...).strip().lower()` and `int(...)`, with the
`except` fallback, make of them. `IntOf` is a table over the values TLC
enumerates: 1, 0, -1, the string "2", the string "x", null, and a missing
field. `IndexCrash` is the `AttributeError` that `entry.get` raises on an
entry that is not an object (line 245); `main` catches only
`BootstrapError`, so the process dies (`phase = "crashed"`).

## Runs

| Run | Cfg | Expect | Shows |
|---|---|---|---|
| `bootstrap_core` | `MCBootstrap.cfg` | pass | `TypeOK`, `LatestIsGreatestTag`, `ManifestMatchesScan` and `RerunIsNoop` hold over two runs with every crash and torn write; so does `MInv`, the loop invariant of the manifest proof (about 800k states, 40 s) |
| `bootstrap_refinement` | `MCBootstrap_Refinement.cfg` | pass | `AbsSpec`: every behaviour is one of `BootstrapAbstract`'s (one file body, 116k states, 35 s) |
| `dangling_hash` | `MCBootstrap_HashesTagged.cfg` | violation | two files of one name and tag with different bytes leave a hash no tag names, even in a dry run |
| `collision_overwrites` | `MCBootstrap_ManifestLocationsHold.cfg` | violation | a move overwrites another module's canonical file and the manifest points the old hash at the new bytes |
| `deep_path_canonical` | `MCBootstrap_WriteRunCanonical.cfg` | violation | `lib/b/v2/b.js` counts as canonical and stays where it is |
| `slash_version_deletes` | `MCBootstrapSlash.cfg` | violation | with version `r/1`, a second `--write` run rewrites and then deletes the canonical file |
| `slash_name_deletes` | `MCBootstrapSlashName.cfg` | violation | with name `t/x`, a second `--write` run rewrites `t/x/v1.0.0/t/x.js` in place and then deletes it |
| `pending_file_lost` | `MCBootstrap_UnlinkRemovesOriginal.cfg` | violation | `UnlinkRemovesOriginal`: a move overwrites a file still to be processed, and that file's own move later unlinks the only copy of the module written there |
| `usage_reconcile` | `MCUsage.cfg` | pass | `TypeOK` and `UsedNeverReported`: a revision whose last record has a positive count is never reported, whatever the earlier records say; and the loop invariant `UInv` of the proof |
| `usage_nonobject_crash` | `MCUsage_UsageEndsHandled.cfg` | violation | a non-object entry ends the tool with an uncaught exception, not an error message |
| `usage_negative_count` | `MCUsage_NonPositiveReported.cfg` | violation | count -1 counts as used (the code tests `count == 0`) |
| `usage_empty_export` | `MCUsage_UnmatchedReported.cfg` | violation | an empty export skips the report (`if usage_entries:`) |

Bounds, and why they are enough:
- **Bootstrap.** Three starting paths, each absent or holding any of
  3·3·2 = 18 contents (name `a`, `b` or `""`, version `v1.0.0`, `v2` or `""`, two bodies) (a nameless one included), and two runs.
  - Every scenario of interest fits in this: two files of one name and
    version, a canonical file and a loose one, a deep canonical-looking
    path, a file at the other's target, and a rerun after a `--write`.
  - Each property about reruns needs exactly two runs.
  - `v1.0.0` and `v2` sort so that the default version is not the greatest.
  - The refinement run starts from contents with one body. Two files can
    still carry different bytes of one name and tag (version `""` and
    `v1.0.0`), so every case of the fold remains.
- **Usage.** Two records per export are enough for a duplicate
  (name, hash) in either order, a blank name or hash, and a mixed-case
  name that normalizes to a tracked one.

Deadlock is checked: the model ends in `Done`, which stutters once
`MaxRuns` runs have happened (in `Usage`, once the phase is final).

Every property of a passing run has a mutant in `PROJECT.json`: a plausible
bug in a mapped definition (sorting ascending in `pick_latest_tag`,
`setdefault` instead of assignment, the version directory above the name,
a dropped default, `materialize_module` called on a dry run) that TLC
catches.

## Findings

1. **Collision** (`materialize_module`, line 164). The first of two
   modules declaring the same name and version already sits at its
   canonical path; the second is moved to that same target and
   overwrites it, yet `registry.json` keeps the first hash and records
   it at that path.
2. **Version with `/`** (lines 133 and 160-165). The target nests the
   version, but `is_versioned_path` compares a single segment. The next
   `--write` run writes the file onto itself and unlinks it: the module is
   lost.
3. **Canonical test too weak** (line 127). Three or more parts are
   accepted, and the name directory is never checked.
4. **Negative counts** (line 262). They count as used; the spec says any
   count ≤ 0 is unused.
5. **Empty export** (line 305). It skips reconciliation, so nothing is
   reported.
6. **Non-object usage entry** (line 245). `entry.get` raises
   `AttributeError`, which `main` does not catch: the tool dies with a
   traceback after `registry.json` is written. Spec section 7 asks for a
   descriptive error.
7. **Dangling hash** (line 186). `tags[version]` is overwritten by a later
   module of the same name and tag, but the earlier module's `hashes`
   entry stays. Spec section 3 requires every hash to be some tag's value.
8. **Name with `/`** (lines 131 and 160-165). For name `t/x` the target
   is `t/x/<version>/t/x.js`, whose last part `x.js` is not
   `f"{name}.js"`. The next `--write` run writes the file onto itself
   and unlinks it: the module is lost.
9. **Pending file overwritten, then unlinked** (line 165).
   `materialize_module` writes the bytes read at discovery and unlinks
   `module.path` without checking what the path holds now. In sorted
   order `a/a.js` comes before `a/v2/a.js`. If `a/a.js` declares
   `(a, v2)`, its move writes over the pending `a/v2/a.js`; if that file
   declares the default version, its move to `a/v1.0.0/a.js` then unlinks
   `a/v2/a.js`, deleting the only copy of the `(a, v2)` module. Spec 4.4
   says the normalizer removes *the original file*; the action property
   `UnlinkRemovesOriginal` (the unlinked path still holds the bytes its
   run discovered there) is violated.

## Fairness and liveness

No liveness property is checked, and `Spec` has no fairness. Inside a
run the program is straight-line code and loops over finite lists, so
once every call returns the run ends by the shape of the code; a
property saying so would say nothing about it. The only way a run does
not end is a hang of node or of the usage fetch (lines 139 and 213),
which have no timeout; spec section 5 accepts that such a hang blocks
the run indefinitely. Whether the operator runs the tool again is up to
them, so starting a run gets no fairness either.

## Refinement

`BootstrapAbstract` holds the directory, `registry.json`, whether a run is
in progress, the registry the run must publish (`target`) and its
`--write` flag. Its constants `Ready` and `Scan` are the loadability test
and the scan. `Bootstrap` instantiates it as `Abs`, with this mapping:
- `running <- pc # "idle"`;
- `target <- ScanRegistry(snap, write)`;
- `reorganize <- write`;
- `Ready <- ReadyDir`, `Scan <- ScanRegistry`.

The actions correspond as follows:
- `DiscoverOK` is `Start`.
- `MaterializeWrite` and `MaterializeUnlink` are `Reorganize`.
- `Rename` is `Publish`.
- A torn write, a torn temporary file and `Abort` are `Stop`.
- Every other step leaves the abstract state unchanged.

`ScanRegistry` states the registry without the loop:
- for each (name, tag), the bytes of the last file of that name and tag in
  sorted order;
- for each hash, the last file holding those bytes, at its target when a
  `--write` run moved it;
- then the `latest` tags.

## What is proved

`BootstrapProofs` proves the following for every value of the constants
satisfying `ConstantsAssumption` and `PathsAssumption`:
- `TypeCorrect`: `Spec => []TypeOK`;
- `IInvInvariant`: `Spec => []IInv`;
- `ManifestLatestCorrect`: `Spec => []LatestIsGreatestTag`.

`IInv` is not checked as a property of its own: it is the strengthening
of the latest-tag invariant, and it is proved.

`LatestIsGreatestTag` is not inductive by itself: a `Rename` publishes
whatever is in `registry.json.tmp`. The strengthening `IInv` adds four
conjuncts:
- every module still to fold was loadable when discovered;
- the module being moved is one of them;
- from `persist` on, the registry under construction has correct latest
  tags;
- in `rename`, the temporary file holds such a registry.

The proof has one lemma per action, each showing it preserves `IInv`. It
rests on the following lemmas:
- `MaxTagIsGreatest`: the `CHOOSE` in `MaxTag` finds a maximum of any
  non-empty set of versions. The proof applies well-founded minimality
  (`WFMin` on `Nat`) to `RankBound - Rank[v]`.
- `SetLatestCorrect`: `WithLatest` establishes `LatestOK`.
- `RecordModuleType`: recording a module keeps the registry well typed.

`BootstrapRerunProofs` proves `RerunIdempotent`:
`SingleSegment => (Spec => []RerunIsNoop)`.
- `SingleSegment` assumes every version and every name is one path
  segment: `VerSegs[v] = <<v>>`, `NameSegs[n] = <<n>>` and
  `JsSegs[n] = <<n \o ".js">>`. The `slash_version_deletes` and
  `slash_name_deletes` runs show that each half is needed.
- Under it, `TargetCanonical` shows that `materialize_module`'s target
  passes `is_versioned_path` for the bytes written there.
- The strengthening `RInv` says three things:
  - during a `--write` run, every file is either still to fold or
    canonical for its bytes;
  - after a successful `--write` run, every file is canonical;
  - a run that follows one finds `fs = snap` and every module canonical.

`BootstrapRefinementProofs` proves three theorems:
- `MInvInvariant`: `Spec => []MInv`;
- `ManifestCorrect`: `Spec => []ManifestMatchesScan`;
- `Refinement`: `Spec => AbsSpec`.

`MInv` is the loop invariant of `build_registry` over the sorted order:
- while the run builds, `reg` is the scan of the files folded so far
  (`Scanned(snap, write, Processed)`);
- every folded file sorts before every file still to do;
- the file being moved is the first of those still to do;
- the finished registry, the temporary file and `registry.json` hold the
  scan of their run.

It rests on four lemmas:
- `PathLessAsym`: Python's path order is asymmetric. It follows from
  `PathsAssumption` (paths are sequences of ranked strings) and the
  injectivity of `Rank`.
- `LastPathAdd`: a new greatest path is the last path.
- `ScanAdd`: scanning one more file, greater than all the others, is
  `RecordModule` of the smaller scan. This is the fold step.
- `ScanFiles`: only files that exist enter a scan.

`Refinement` combines `[]IInv`, `[]MInv` and one lemma per action. `MInv`
provides two facts:
- `write` holds in `unlink`, so a move is a `Reorganize`;
- `tmp = ScanRegistry(snap, write)` in `rename`, so `Rename` publishes
  the target.

`UsageProofs` proves three theorems for every value of the constants
satisfying `UsageAssumption`:
- `UsageInvariant`: `Spec => []UInv`;
- `UsageTypeCorrect`: `Spec => []TypeOK`;
- `UsedNeverReportedHolds`: `Spec => []UsedNeverReported`.

`UsedNeverReported` talks about the last matching record of the whole
export, while the code only ever holds `usage_index`. The strengthening
`UInv` is the loop invariant of `report_usage`:
- for every (name, hash), `usage_index` holds the last of the records
  before position `i` that match it, or nothing when none does;
- a printed report comes after the whole list was read, and names only
  revisions whose indexed record is missing or has count 0.

`UInv` holds only because the loop's update overwrites
(`usage_index[...][hash] = entry`). A `setdefault` that kept the first
record (the mutant `IndexRecordKeepFirst`) breaks it. It also needs
`Blank \notin Names \cup Hashes`: the blank name or hash that the loop
skips is never one a revision is tracked under. The proof rests on two
lemmas about `LastIndex`, the `CHOOSE` of the last position:
- `LastIndexIsMax`: it is the greatest element of a non-empty bounded
  set of positions (well-founded minimality, as in `MaxTagIsGreatest`);
- `LastIndexAdd`: a new position after all the others is the last.

`Usage` names the empty string `Blank`. The proofs never expand it,
because the SMT backend fails on obligations holding the literal `""`.

Out of the prover's reach, and only model-checked:
- `RerunIsNoop` on instances with a `/` in a name or a version, where it
  fails;
- the violation runs, which are counterexamples, not theorems.

## Not modelled

- The node harness and JavaScript evaluation (abstracted to the declared
  metadata).
- HTTP and file reads of the usage source, the `--usage-output` copy.
- Argument parsing and prompt wording.
- The sorting and printing of the report.
- Paths escaping the root (`..` as a name or version).
- The `--usage-output` copy of the payload, whose `OSError` is not caught
  (line 216).

## Plan for later work

- A composition of `Bootstrap` and `Usage` that feeds the built manifest
  to the reconciler.
- Paths outside the root (`..` as a name or version).
