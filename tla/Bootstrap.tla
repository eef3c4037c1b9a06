------------------------------ MODULE Bootstrap ------------------------------
(***************************************************************************)
(* The registry bootstrap of src/strategies/bootstrap_strategies.py (and   *)
(* its interactive twin bootstrape.py): repeated runs of the tool over one *)
(* strategies directory.  A run discovers every *.js file in sorted path   *)
(* order, folds them into a registry (moving each file to its canonical    *)
(* <name>/<version>/<name>.js location when --write is given), computes    *)
(* the "latest" tag, writes registry.json.tmp and renames it over          *)
(* registry.json.  Any OSError or a kill of the process ends the run where *)
(* it is; a write may be torn.                                             *)
(*                                                                         *)
(* Data abstraction.  A file's bytes are a record: the metadata its        *)
(* `metadata` export declares (name already trimmed and lower-cased, ""    *)
(* when blank or missing; version "" when missing) and an opaque body.     *)
(* The sha256 hash of the bytes is the record itself (collision-free).  A  *)
(* path is the tuple of its segments relative to the root.                 *)
(***************************************************************************)
EXTENDS Naturals, Sequences, FiniteSets

CONSTANTS
  Names,          \* module names, as load_module normalizes them
  Versions,       \* version strings a module may declare (trimmed)
  DefaultVersion, \* DEFAULT_VERSION
  Bodies,         \* opaque file bodies
  InitPaths,      \* where *.js files may sit when the first run starts
  InitContents,   \* what those files may contain
  NameSegs,       \* the path parts that `root / name` gives a name
  JsSegs,         \* the path parts that `target_dir / f"{name}.js"` adds
  VerSegs,        \* the path parts that `root / name / version` gives a version
  Rank,           \* position of a string in Python's code-point order
  RankBound,      \* an upper bound of Rank
  MaxRuns,        \* how many times the tool is run
  NoFile, Torn, None, NoManifest

Content == [name: Names \cup {""}, version: Versions \cup {""}, body: Bodies]
TagKeys == Versions \cup {"latest"}

ASSUME ConstantsAssumption ==
  /\ DefaultVersion \in Versions
  /\ "latest" \notin Versions
  /\ RankBound \in Nat
  /\ Versions \subseteq DOMAIN Rank
  /\ Rank \in [DOMAIN Rank -> 0..RankBound]
  /\ \A v, w \in DOMAIN Rank : Rank[v] = Rank[w] => v = w
  /\ MaxRuns \in Nat
  /\ InitContents \subseteq Content
  /\ {NoFile, Torn} \cap Content = {}
  /\ None \notin Content
  /\ NoFile # Torn

-----------------------------------------------------------------------------
(* Module fields derived from a file's bytes: load_module, lines 105-108.  *)
ModName(c) == c.name
ModVersion(c) == IF c.version = "" THEN DefaultVersion ELSE c.version

(* A file the loader accepts: extract_metadata succeeds on it and its name  *)
(* is not blank (lines 104-107).  A torn file fails in node.               *)
Loadable(c) == c \in Content /\ c.name # ""

FileName(n) == n \o ".js"

(* Mutation: the version directory placed above the name directory.     *)
TargetVersionFirst(n, v) == VerSegs[v] \o NameSegs[n] \o JsSegs[n]

(* materialize_module, lines 160-162: root / name / version / name.js.    *)
(* pathlib splits a name or a version containing "/" into several parts.   *)
Target(n, v) == NameSegs[n] \o VerSegs[v] \o JsSegs[n]

AllPaths == InitPaths \cup {Target(n, v) : n \in Names, v \in Versions}

(* is_versioned_path, lines 125-134 (segments are lower-case here).        *)
IsVersionedPath(rel, n, v) ==
  /\ Len(rel) >= 3
  /\ rel[Len(rel)] = FileName(n)
  /\ rel[Len(rel) - 1] = v

(* Python's ordering of paths: lexicographic over the segments.            *)
PathLess(p, q) ==
  \E k \in 0..Len(p) :
    /\ k <= Len(q)
    /\ \A i \in 1..k : p[i] = q[i]
    /\ \/ k = Len(p) /\ k < Len(q)
       \/ k < Len(p) /\ k < Len(q) /\ Rank[p[k + 1]] < Rank[q[k + 1]]

ASSUME PathsAssumption == AllPaths \subseteq Seq(DOMAIN Rank)

(* p comes first among the files P in the sorted rglob listing           *)
(* (discover_modules, line 91).                                            *)
IsFirstPath(p, P) == \A q \in P \ {p} : PathLess(p, q)

-----------------------------------------------------------------------------
(* The registry: per name, tag -> hash and hash -> {tag, path}.  A name    *)
(* whose tags are all None has no entry in registry.json.                  *)
Loc == [tag: Versions, path: AllPaths]
Entry == [tags: [TagKeys -> Content \cup {None}],
          hashes: [Content -> Loc \cup {None}]]
Registry == [Names -> Entry]

EmptyEntry == [tags |-> [k \in TagKeys |-> None], hashes |-> [h \in Content |-> None]]
EmptyRegistry == [n \in Names |-> EmptyEntry]

(* Mutation: hashes[sha] filled with setdefault, so the first file       *)
(* holding the bytes wins instead of the last.                             *)
RecordModuleKeepFirst(r, c, path) ==
  [r EXCEPT ![ModName(c)].tags[ModVersion(c)] = c,
            ![ModName(c)].hashes[c] =
              IF @ = None THEN [tag |-> ModVersion(c), path |-> path] ELSE @]

(* Mutation: the location's tag taken from the raw metadata, without the *)
(* DEFAULT_VERSION fallback of load_module.                                *)
RecordModuleRawTag(r, c, path) ==
  [r EXCEPT ![ModName(c)].tags[ModVersion(c)] = c,
            ![ModName(c)].hashes[c] = [tag |-> c.version, path |-> path]]

(* build_registry, lines 181-190: record one module at the given path.     *)
RecordModule(r, c, path) ==
  [r EXCEPT ![ModName(c)].tags[ModVersion(c)] = c,
            ![ModName(c)].hashes[c] = [tag |-> ModVersion(c), path |-> path]]

(* Mutation of pick_latest_tag: sorted(candidates)[0] instead of [-1].   *)
PickLatestTagFirst(e) ==
  e.tags[CHOOSE v \in {u \in Versions : e.tags[u] # None} :
           \A w \in {u \in Versions : e.tags[u] # None} : Rank[v] <= Rank[w]]

(* pick_latest_tag, lines 171-175.  "latest" is never a declared version, *)
(* so the candidates are the tags present and the fallback of line 174 is  *)
(* never reached from build_registry.                                      *)
Present(e) == {v \in Versions : e.tags[v] # None}
MaxTag(S) == CHOOSE v \in S : \A w \in S : Rank[w] <= Rank[v]
PickLatestTag(e) == e.tags[MaxTag(Present(e))]

(* The final pass of build_registry, lines 192-194.                        *)
WithLatest(e) ==
  IF Present(e) = {} THEN e ELSE [e EXCEPT !.tags["latest"] = PickLatestTag(e)]

-----------------------------------------------------------------------------
VARIABLES
  fs,        \* the strategies directory: path -> bytes
  manifest,  \* registry.json
  tmp,       \* registry.json.tmp
  pc,        \* where the current run is
  write,     \* the --write flag (or the "normalize" answer) of the run
  snap,      \* the modules discovered by the run: their paths and bytes
  todo,      \* discovered modules not yet folded by build_registry
  cur,       \* the module materialize_module is moving
  reg,       \* the registry build_registry is building
  runs,      \* runs started so far
  lastOK,    \* the last run wrote registry.json
  prevWrite, \* the run before the current one was a successful --write run
  mSnap,     \* the modules of the run that wrote registry.json
  mWrite     \* and its flag

vars == <<fs, manifest, tmp, pc, write, snap, todo, cur, reg, runs,
          lastOK, prevWrite, mSnap, mWrite>>
runVars == <<snap, todo, cur, reg>>
ghostVars == <<lastOK, prevWrite, mSnap, mWrite>>

FileState == [AllPaths -> Content \cup {NoFile, Torn}]

TypeOK ==
  /\ fs \in FileState
  /\ manifest \in Registry \cup {NoManifest}
  /\ tmp \in Registry \cup {NoFile, Torn}
  /\ pc \in {"idle", "build", "unlink", "persist", "rename"}
  /\ write \in BOOLEAN
  /\ snap \in FileState
  /\ todo \in SUBSET AllPaths
  /\ cur \in AllPaths \cup {None}
  /\ reg \in Registry
  /\ runs \in 0..MaxRuns
  /\ lastOK \in BOOLEAN
  /\ prevWrite \in BOOLEAN
  /\ mSnap \in FileState
  /\ mWrite \in BOOLEAN

Init ==
  /\ fs \in {[p \in AllPaths |-> IF p \in InitPaths THEN g[p] ELSE NoFile] :
               g \in [InitPaths -> InitContents \cup {NoFile}]}
  /\ manifest = NoManifest
  /\ tmp = NoFile
  /\ pc = "idle"
  /\ write = FALSE
  /\ snap = fs
  /\ todo = {}
  /\ cur = None
  /\ reg = EmptyRegistry
  /\ runs = 0
  /\ lastOK = FALSE
  /\ prevWrite = FALSE
  /\ mSnap = fs
  /\ mWrite = FALSE

-----------------------------------------------------------------------------
(* The *.js files present (rglob, line 91).                                *)
Files == {p \in AllPaths : fs[p] # NoFile}

(* A run starts (main, lines 294-296) and discovers every file            *)
(* successfully: discover_modules and load_module, lines 89-122.  The      *)
(* "no JavaScript strategies found" check of line 297 is its guard.        *)
DiscoverOK(w) ==
  /\ pc = "idle"
  /\ runs < MaxRuns
  /\ Files # {}
  /\ \A p \in Files : Loadable(fs[p])
  /\ pc' = "build"
  /\ write' = w
  /\ snap' = fs
  /\ todo' = Files
  /\ reg' = EmptyRegistry
  /\ runs' = runs + 1
  /\ lastOK' = FALSE
  /\ prevWrite' = (lastOK /\ write)
  /\ UNCHANGED <<fs, manifest, tmp, cur, mSnap, mWrite>>

(* A run fails before build_registry: no file, an unloadable file, or an  *)
(* error of read_bytes or node (lines 99-107, 145-154, 297-298).  Nothing  *)
(* is written.                                                             *)
DiscoverFail ==
  /\ pc = "idle"
  /\ runs < MaxRuns
  /\ runs' = runs + 1
  /\ lastOK' = FALSE
  /\ prevWrite' = (lastOK /\ write)
  /\ UNCHANGED <<fs, manifest, tmp, pc, write, runVars, mSnap, mWrite>>

(* build_registry takes the discovered modules in order (line 180); p is  *)
(* the next one.                                                           *)
(* A module recorded where it is: a dry run, or an already canonical file *)
(* which materialize_module returns unchanged (lines 158-159, 182-190).    *)
RecordInPlace(p) ==
  /\ pc = "build"
  /\ IsFirstPath(p, todo)
  /\ \/ ~write
     \/ IsVersionedPath(p, ModName(snap[p]), ModVersion(snap[p]))
  /\ reg' = RecordModule(reg, snap[p], p)
  /\ todo' = todo \ {p}
  /\ UNCHANGED <<fs, manifest, tmp, pc, write, snap, cur, runs, ghostVars>>

(* Mutation: build_registry calls materialize_module without checking    *)
(* the write flag.                                                         *)
MaterializeWriteAlways(p) ==
  LET c == snap[p]
      t == Target(ModName(c), ModVersion(c))
  IN
  /\ pc = "build"
  /\ IsFirstPath(p, todo)
  /\ ~IsVersionedPath(p, ModName(c), ModVersion(c))
  /\ \/ /\ fs' = [fs EXCEPT ![t] = c]
        /\ pc' = "unlink"
        /\ cur' = p
     \/ /\ fs' = [fs EXCEPT ![t] = Torn]
        /\ pc' = "idle"
        /\ UNCHANGED cur
  /\ UNCHANGED <<manifest, tmp, write, snap, todo, reg, runs, ghostVars>>

(* materialize_module writes the module's bytes to its target (lines      *)
(* 160-164); the write may be torn, which ends the run.                    *)
MaterializeWrite(p) ==
  LET c == snap[p]
      t == Target(ModName(c), ModVersion(c))
  IN
  /\ pc = "build"
  /\ IsFirstPath(p, todo)
  /\ write
  /\ ~IsVersionedPath(p, ModName(c), ModVersion(c))
  /\ \/ /\ fs' = [fs EXCEPT ![t] = c]
        /\ pc' = "unlink"
        /\ cur' = p
     \/ /\ fs' = [fs EXCEPT ![t] = Torn]
        /\ pc' = "idle"
        /\ UNCHANGED cur
  /\ UNCHANGED <<manifest, tmp, write, snap, todo, reg, runs, ghostVars>>

(* materialize_module removes the original file (line 165) and            *)
(* build_registry records the module at its target (lines 184-190).        *)
MaterializeUnlink ==
  LET c == snap[cur] IN
  /\ pc = "unlink"
  /\ fs' = [fs EXCEPT ![cur] = NoFile]
  /\ reg' = RecordModule(reg, c, Target(ModName(c), ModVersion(c)))
  /\ todo' = todo \ {cur}
  /\ pc' = "build"
  /\ UNCHANGED <<manifest, tmp, write, snap, cur, runs, ghostVars>>

(* build_registry's last loop: the "latest" tag of every name, lines      *)
(* 192-195.                                                                *)
SetLatest ==
  /\ pc = "build"
  /\ todo = {}
  /\ reg' = [n \in Names |-> WithLatest(reg[n])]
  /\ pc' = "persist"
  /\ UNCHANGED <<fs, manifest, tmp, write, snap, todo, cur, runs, ghostVars>>

(* write_registry writes registry.json.tmp (lines 199-202); a torn write  *)
(* ends the run.                                                           *)
WriteTmp ==
  /\ pc = "persist"
  /\ \/ tmp' = reg /\ pc' = "rename"
     \/ tmp' = Torn /\ pc' = "idle"
  /\ UNCHANGED <<fs, manifest, write, runVars, runs, ghostVars>>

(* write_registry renames the temporary file over registry.json (line     *)
(* 203); the run has succeeded.                                            *)
Rename ==
  /\ pc = "rename"
  /\ manifest' = tmp
  /\ tmp' = NoFile
  /\ pc' = "idle"
  /\ lastOK' = TRUE
  /\ mSnap' = snap
  /\ mWrite' = write
  /\ UNCHANGED <<fs, write, runVars, runs, prevWrite>>

(* An OSError of mkdir, write_bytes, unlink, write_text or replace before *)
(* it changes anything, or a kill of the process: the run ends where it    *)
(* is (lines 161-167, 201-205, 308-310).                                   *)
Abort ==
  /\ pc # "idle"
  /\ pc' = "idle"
  /\ UNCHANGED <<fs, manifest, tmp, write, runVars, runs, ghostVars>>

(* The operator stops running the tool.                                    *)
Done ==
  /\ pc = "idle"
  /\ runs = MaxRuns
  /\ UNCHANGED vars

Next ==
  \/ \E w \in BOOLEAN : DiscoverOK(w)
  \/ DiscoverFail
  \/ \E p \in todo : RecordInPlace(p) \/ MaterializeWrite(p)
  \/ MaterializeUnlink
  \/ SetLatest
  \/ WriteTmp
  \/ Rename
  \/ Abort
  \/ Done

Spec == Init /\ [][Next]_vars


-----------------------------------------------------------------------------
(* The tag of r's entry for n that pick_latest_tag must return: the        *)
(* greatest present version in Python's string order.                      *)
LatestOK(r) ==
  \A n \in Names :
    Present(r[n]) # {} =>
      \E v \in Present(r[n]) :
        /\ r[n].tags["latest"] = r[n].tags[v]
        /\ \A w \in Present(r[n]) : Rank[w] <= Rank[v]

(* Safety (spec section 8, "latest" tie-break; write-temp-then-rename of   *)
(* write_registry): whatever runs crashed or tore registry.json.tmp before, *)
(* registry.json only ever holds a registry whose every "latest" tag is    *)
(* the hash of that name's greatest version.                               *)
LatestIsGreatestTag == manifest # NoManifest => LatestOK(manifest)

(* The inductive strengthening of TypeOK and LatestIsGreatestTag: the      *)
(* modules a run folds were all loadable when discovered, the module being *)
(* moved is one of them, the registry is finished (its "latest" tags set)  *)
(* from the moment write_registry starts, and the temporary file that      *)
(* replace() renames over registry.json holds such a registry.             *)
IInv ==
  /\ TypeOK
  /\ pc \in {"build", "unlink"} => \A p \in todo : Loadable(snap[p])
  /\ pc = "unlink" => cur \in todo
  /\ pc = "persist" => LatestOK(reg)
  /\ pc = "rename" => tmp \in Registry /\ LatestOK(tmp)
  /\ LatestIsGreatestTag

(* The registry build_registry must produce from the files s a run         *)
(* discovered with flag w, stated without its loop: for every (name,       *)
(* version) the bytes of the last such file in sorted order, for every     *)
(* hash the last file holding it, at its target when it was moved.         *)
(* ScanEntry takes only the files of F into account and sets no "latest"; *)
(* ScanRegistry is the scan of every file, with its "latest" tags.        *)
LastPath(P) == CHOOSE p \in P : \A q \in P \ {p} : PathLess(q, p)
RecordedPath(s, w, p) ==
  IF w /\ ~IsVersionedPath(p, ModName(s[p]), ModVersion(s[p]))
  THEN Target(ModName(s[p]), ModVersion(s[p]))
  ELSE p
Tagged(s, F, n, v) ==
  {p \in F : s[p] \in Content /\ ModName(s[p]) = n /\ ModVersion(s[p]) = v}
Holding(s, F, n, h) == {p \in F : s[p] = h /\ ModName(h) = n}
ScanEntry(s, w, F, n) ==
  [tags |-> [k \in TagKeys |->
               IF k = "latest" \/ Tagged(s, F, n, k) = {} THEN None
               ELSE s[LastPath(Tagged(s, F, n, k))]],
   hashes |-> [h \in Content |->
                 IF Holding(s, F, n, h) = {} THEN None
                 ELSE [tag |-> ModVersion(h),
                       path |-> RecordedPath(s, w, LastPath(Holding(s, F, n, h)))]]]
Scanned(s, w, F) == [n \in Names |-> ScanEntry(s, w, F, n)]
ScanRegistry(s, w) == [n \in Names |-> WithLatest(ScanEntry(s, w, AllPaths, n))]

(* Safety (spec 4.5, last-write-wins in discovery order): registry.json    *)
(* is exactly the registry of the files the run that wrote it discovered,  *)
(* whatever files earlier moves in that run overwrote or removed.          *)
ManifestMatchesScan ==
  manifest # NoManifest => manifest = ScanRegistry(mSnap, mWrite)

(* Safety (spec section 8, idempotence of normalization): a --write run    *)
(* that succeeds right after a successful --write run moves, overwrites    *)
(* and deletes nothing.                                                    *)
RerunIsNoop == lastOK /\ write /\ prevWrite => fs = snap

(* A file the loader accepts, at the canonical path of what it declares.  *)
Canonical(p, c) == Loadable(c) /\ IsVersionedPath(p, ModName(c), ModVersion(c))

(* The inductive strengthening of RerunIsNoop, for versions that are one  *)
(* path segment: a --write run leaves every file canonical (each file is  *)
(* either still to fold or canonical for its current bytes), so a --write *)
(* run right after it finds nothing to move.                               *)
RInv ==
  /\ pc # "idle" => ~lastOK
  /\ lastOK => mWrite = write
  /\ pc \in {"persist", "rename"} => todo = {}
  /\ pc = "unlink" => ~IsVersionedPath(cur, ModName(snap[cur]), ModVersion(snap[cur]))
  /\ pc # "idle" /\ write =>
       \A p \in AllPaths : fs[p] # NoFile => p \in todo \/ Canonical(p, fs[p])
  /\ pc \in {"build", "unlink"} /\ write =>
       \A p \in todo : fs[p] = snap[p] \/ Canonical(p, fs[p])
  /\ lastOK /\ mWrite =>
       \A p \in AllPaths : fs[p] # NoFile => Canonical(p, fs[p])
  /\ pc # "idle" /\ write /\ prevWrite =>
       fs = snap /\ \A p \in todo : Canonical(p, snap[p])
  /\ RerunIsNoop

(* The files build_registry has folded so far.                           *)
Processed == {p \in AllPaths : snap[p] # NoFile} \ todo

(* The inductive strengthening of ManifestMatchesScan: build_registry     *)
(* takes the files in sorted order and its registry is at every moment the *)
(* scan of the files folded so far; the registry it finishes and the      *)
(* temporary file hold the scan of everything the run discovered.          *)
MInv ==
  /\ pc # "idle" => \A p \in AllPaths : snap[p] # NoFile => Loadable(snap[p])
  /\ pc \in {"build", "unlink"} =>
       /\ \A q \in todo : snap[q] # NoFile
       /\ \A d \in Processed, q \in todo : PathLess(d, q)
       /\ reg = Scanned(snap, write, Processed)
  /\ pc = "unlink" =>
       /\ write /\ IsFirstPath(cur, todo)
       /\ ~IsVersionedPath(cur, ModName(snap[cur]), ModVersion(snap[cur]))
  /\ pc = "persist" => reg = ScanRegistry(snap, write)
  /\ pc = "rename" => tmp = ScanRegistry(snap, write)
  /\ ManifestMatchesScan

(* Safety (spec sections 1 and 8, scenario B: the manifest maps each hash  *)
(* to the location of those bytes): right after a successful run every     *)
(* path registry.json records for a hash holds exactly those bytes.        *)
ManifestLocationsHold ==
  lastOK =>
    \A n \in Names, h \in Content :
      manifest[n].hashes[h] # None => fs[manifest[n].hashes[h].path] = h

(* Action property (spec 4.4: the normalizer writes the module's content *)
(* to its target, then removes the original file): when materialize_module *)
(* unlinks module.path (line 165), that path still holds the bytes the run *)
(* discovered there, not another module an earlier move of the same run    *)
(* wrote over it.                                                          *)
UnlinkRemovesOriginal ==
  [][pc = "unlink" /\ pc' = "build" => fs[cur] = snap[cur]]_vars

(* Safety (spec 4.2 and 4.4: a module is canonical iff it sits at          *)
(* <name>/<version>/<name>.js, and a --write run leaves every module       *)
(* there): after a successful --write run every path registry.json records *)
(* is the canonical location of its name and tag.                          *)
WriteRunCanonical ==
  lastOK /\ mWrite =>
    \A n \in Names, h \in Content :
      manifest[n].hashes[h] # None =>
        manifest[n].hashes[h].path = Target(n, manifest[n].hashes[h].tag)

(* Safety (spec section 3: every hash appearing in hashes also appears as  *)
(* some tag's value in tags): registry.json never holds a hash that no tag *)
(* of its strategy names, whatever files the run that wrote it folded.      *)
HashesTagged ==
  manifest # NoManifest =>
    \A n \in Names, h \in Content :
      manifest[n].hashes[h] # None => \E k \in TagKeys : manifest[n].tags[k] = h


-----------------------------------------------------------------------------
(* A directory a run can start from: it holds a file and every file loads *)
(* (the guards of DiscoverOK).                                             *)
ReadyDir(f) ==
  /\ \E p \in AllPaths : f[p] # NoFile
  /\ \A p \in AllPaths : f[p] # NoFile => Loadable(f[p])

Abs == INSTANCE BootstrapAbstract
         WITH FileStates <- FileState, Ready <- ReadyDir, Scan <- ScanRegistry,
              running <- pc # "idle", target <- ScanRegistry(snap, write),
              reorganize <- write

(* Refinement (spec 4.5, 4.6 and section 8): every behaviour of the tool  *)
(* is one of the abstract specification's: registry.json is replaced in   *)
(* one step and only by the scan of the directory its run discovered, a    *)
(* dry run never touches a file, and a failed run publishes nothing.       *)
AbsSpec == Abs!Spec

=============================================================================
