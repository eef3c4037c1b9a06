--------------------- MODULE BootstrapRefinementProofs ---------------------
(***************************************************************************)
(* The fold of build_registry over the sorted discovery order, proved:    *)
(* registry.json always holds the scan of the files the run that wrote it  *)
(* discovered (ManifestMatchesScan), and every behaviour of the tool is    *)
(* one of BootstrapAbstract's (a run publishes that scan in one step).    *)
(***************************************************************************)
EXTENDS BootstrapProofs

(* Python's path order is a strict order: never both p < q and q < p.     *)
LEMMA PathLessAsym ==
  ASSUME NEW p \in AllPaths, NEW q \in AllPaths, PathLess(p, q)
  PROVE  ~PathLess(q, p)
<1>1. p \in Seq(DOMAIN Rank) /\ q \in Seq(DOMAIN Rank)
  BY PathsAssumption
<1>2. PICK k \in 0..Len(p) :
        /\ k <= Len(q)
        /\ \A i \in 1..k : p[i] = q[i]
        /\ \/ k = Len(p) /\ k < Len(q)
           \/ k < Len(p) /\ k < Len(q) /\ Rank[p[k + 1]] < Rank[q[k + 1]]
  BY DEF PathLess
<1>3. SUFFICES ASSUME NEW j \in 0..Len(q),
                      j <= Len(p),
                      \A i \in 1..j : q[i] = p[i],
                      \/ j = Len(q) /\ j < Len(p)
                      \/ j < Len(q) /\ j < Len(p) /\ Rank[q[j + 1]] < Rank[p[j + 1]]
               PROVE  FALSE
  BY DEF PathLess
<1>4. \A i \in 1..Len(p) : Rank[p[i]] \in Nat
  BY <1>1, ConstantsAssumption
<1>5. \A i \in 1..Len(q) : Rank[q[i]] \in Nat
  BY <1>1, ConstantsAssumption
<1>6. CASE j < k
  <2>1. j < Len(q) /\ j < Len(p) /\ p[j + 1] = q[j + 1]
    BY <1>1, <1>2, <1>3, <1>6
  <2> QED
    BY <1>1, <1>3, <1>5, <2>1
<1>7. CASE k < j
  <2>1. k < Len(q) /\ k < Len(p) /\ p[k + 1] = q[k + 1]
    BY <1>1, <1>2, <1>3, <1>7
  <2> QED
    BY <1>1, <1>2, <1>4, <2>1
<1>8. CASE j = k
  <2>1. CASE k = Len(p)
    BY <1>1, <1>2, <1>3, <1>8, <2>1
  <2>2. CASE k < Len(p)
    <3>1. k < Len(q) /\ j < Len(p)
      BY <1>1, <1>2, <1>3, <1>8, <2>2
    <3>2. Rank[p[k + 1]] < Rank[q[k + 1]] /\ Rank[q[k + 1]] < Rank[p[k + 1]]
      BY <1>1, <1>2, <1>3, <1>8, <3>1
    <3>3. k + 1 \in 1..Len(p) /\ k + 1 \in 1..Len(q)
      BY <1>1, <2>2, <3>1
    <3>4. Rank[p[k + 1]] \in Nat /\ Rank[q[k + 1]] \in Nat
      BY <1>4, <1>5, <3>3
    <3> QED
      BY <3>2, <3>4
  <2> QED
    BY <1>1, <1>2, <2>1, <2>2
<1> QED
  BY <1>1, <1>6, <1>7, <1>8

(* The last of a set of paths, one greater than all the others, is it.    *)
LEMMA LastPathAdd ==
  ASSUME NEW P \in SUBSET AllPaths, NEW p \in AllPaths,
         \A q \in P : PathLess(q, p)
  PROVE  LastPath(P \cup {p}) = p
<1> DEFINE Last(x) == \A q \in (P \cup {p}) \ {x} : PathLess(q, x)
<1>1. Last(p)
  OBVIOUS
<1>2. ASSUME NEW x \in P \cup {p}, Last(x) PROVE x = p
  <2>1. SUFFICES ASSUME x # p PROVE FALSE
    OBVIOUS
  <2>2. PathLess(x, p) /\ PathLess(p, x)
    BY <1>2, <2>1
  <2> QED
    BY <2>2, PathLessAsym
<1> QED
  BY <1>1, <1>2 DEF LastPath

(* The scan of no file is the empty registry build_registry starts from.   *)
LEMMA ScanEmpty ==
  ASSUME NEW s, NEW w
  PROVE  Scanned(s, w, {}) = EmptyRegistry
BY DEF Scanned, ScanEntry, Tagged, Holding, EmptyRegistry, EmptyEntry

(* One iteration of build_registry's loop: scanning one more file, later  *)
(* in sorted order than all those scanned, is recording it (RecordModule)  *)
(* at the path it ends up at.                                              *)
LEMMA ScanAdd ==
  ASSUME NEW s \in FileState, NEW w, NEW F \in SUBSET AllPaths,
         NEW p \in AllPaths \ F, Loadable(s[p]),
         \A d \in F : PathLess(d, p)
  PROVE  Scanned(s, w, F \cup {p}) =
           RecordModule(Scanned(s, w, F), s[p], RecordedPath(s, w, p))
<1> DEFINE c == s[p]
           N == ModName(c)
           V == ModVersion(c)
           G == F \cup {p}
           r == Scanned(s, w, F)
           loc == [tag |-> V, path |-> RecordedPath(s, w, p)]
<1>1. N \in Names /\ V \in Versions /\ c \in Content
  BY ConstantsAssumption DEF Loadable, Content, ModName, ModVersion
<1>2. ASSUME NEW n \in Names \ {N}
      PROVE  ScanEntry(s, w, G, n) = ScanEntry(s, w, F, n)
  <2>1. \A k \in TagKeys : Tagged(s, G, n, k) = Tagged(s, F, n, k)
    BY DEF Tagged, c, N
  <2>2. \A h \in Content : Holding(s, G, n, h) = Holding(s, F, n, h)
    BY DEF Holding, c, N
  <2>3. ScanEntry(s, w, G, n).tags = ScanEntry(s, w, F, n).tags
    BY <2>1 DEF ScanEntry
  <2>4. ScanEntry(s, w, G, n).hashes = ScanEntry(s, w, F, n).hashes
    BY <2>2 DEF ScanEntry
  <2> QED
    BY <2>3, <2>4 DEF ScanEntry
<1>3. ScanEntry(s, w, G, N).tags = [r[N].tags EXCEPT ![V] = c]
  <2>1. Tagged(s, G, N, V) = Tagged(s, F, N, V) \cup {p}
    BY <1>1 DEF Tagged, c, N, V
  <2>2. LastPath(Tagged(s, G, N, V)) = p
    <3>1. Tagged(s, F, N, V) \subseteq AllPaths
      BY DEF Tagged
    <3>2. \A q \in Tagged(s, F, N, V) : PathLess(q, p)
      BY DEF Tagged
    <3> QED
      BY <2>1, <3>1, <3>2, LastPathAdd
  <2>3. \A k \in TagKeys \ {V} : Tagged(s, G, N, k) = Tagged(s, F, N, k)
    BY DEF Tagged, c, N, V
  <2>4. V # "latest"
    BY <1>1, ConstantsAssumption
  <2> QED
    BY <1>1, <2>1, <2>2, <2>3, <2>4 DEF ScanEntry, Scanned, TagKeys, r
<1>4. ScanEntry(s, w, G, N).hashes = [r[N].hashes EXCEPT ![c] = loc]
  <2>1. Holding(s, G, N, c) = Holding(s, F, N, c) \cup {p}
    BY DEF Holding, c, N
  <2>2. LastPath(Holding(s, G, N, c)) = p
    <3>1. Holding(s, F, N, c) \subseteq AllPaths
      BY DEF Holding
    <3>2. \A q \in Holding(s, F, N, c) : PathLess(q, p)
      BY DEF Holding
    <3> QED
      BY <2>1, <3>1, <3>2, LastPathAdd
  <2>3. \A h \in Content \ {c} : Holding(s, G, N, h) = Holding(s, F, N, h)
    BY DEF Holding, c, N
  <2> QED
    BY <1>1, <2>1, <2>2, <2>3 DEF ScanEntry, Scanned, r, loc, V
<1>5. r[N] = [tags |-> r[N].tags, hashes |-> r[N].hashes]
  BY <1>1 DEF r, Scanned, ScanEntry
<1> DEFINE e == [tags |-> [r[N].tags EXCEPT ![V] = c],
                 hashes |-> [r[N].hashes EXCEPT ![c] = loc]]
<1>6. RecordModule(r, c, RecordedPath(s, w, p)) = [r EXCEPT ![N] = e]
  <2>1. /\ DOMAIN r = Names
        /\ DOMAIN r[N].tags = TagKeys /\ DOMAIN r[N].hashes = Content
        /\ V \in TagKeys
    BY <1>1 DEF r, Scanned, ScanEntry, TagKeys
  <2> DEFINE rm == RecordModule(r, c, RecordedPath(s, w, p))
  <2>2. DOMAIN rm = Names /\ \A n \in Names \ {N} : rm[n] = r[n]
    BY <1>1, <2>1 DEF RecordModule, rm, N
  <2>3. rm[N].tags = [r[N].tags EXCEPT ![V] = c]
    BY <1>1, <2>1 DEF RecordModule, rm, N, V
  <2>4. rm[N].hashes = [r[N].hashes EXCEPT ![c] = loc]
    BY <1>1, <2>1 DEF RecordModule, rm, N, V, loc
  <2>5. rm[N] = [tags |-> rm[N].tags, hashes |-> rm[N].hashes]
    BY <1>1, <1>5, <2>1 DEF RecordModule, rm, N
  <2>6. rm[N] = e
    BY <2>3, <2>4, <2>5 DEF e
  <2>7. rm = [n \in Names |-> IF n = N THEN e ELSE r[n]]
    BY <1>1, <2>2, <2>6 DEF rm, RecordModule, r, Scanned
  <2>8. [r EXCEPT ![N] = e] = [n \in Names |-> IF n = N THEN e ELSE r[n]]
    BY <1>1 DEF r, Scanned
  <2> QED
    BY <2>7, <2>8 DEF rm
<1>7. ScanEntry(s, w, G, N) = e
  <2>1. ScanEntry(s, w, G, N) = [tags |-> ScanEntry(s, w, G, N).tags,
                                 hashes |-> ScanEntry(s, w, G, N).hashes]
    BY DEF ScanEntry
  <2> QED
    BY <1>3, <1>4, <2>1 DEF e
<1>8. r = [n \in Names |-> ScanEntry(s, w, F, n)]
  BY DEF r, Scanned
<1> QED
  BY <1>1, <1>2, <1>6, <1>7, <1>8 DEF Scanned

(* Only files that exist enter a scan: the scan of the files present is   *)
(* the scan of every path.                                                 *)
LEMMA ScanFiles ==
  ASSUME NEW s \in FileState, NEW w, NEW n
  PROVE  ScanEntry(s, w, {p \in AllPaths : s[p] # NoFile}, n) =
           ScanEntry(s, w, AllPaths, n)
<1> DEFINE E == {p \in AllPaths : s[p] # NoFile}
<1>1. \A k : Tagged(s, E, n, k) = Tagged(s, AllPaths, n, k)
  BY ConstantsAssumption DEF Tagged, E
<1>2. \A h \in Content : Holding(s, E, n, h) = Holding(s, AllPaths, n, h)
  BY ConstantsAssumption DEF Holding, E
<1>3. ScanEntry(s, w, E, n).tags = ScanEntry(s, w, AllPaths, n).tags
  BY <1>1 DEF ScanEntry
<1>4. ScanEntry(s, w, E, n).hashes = ScanEntry(s, w, AllPaths, n).hashes
  BY <1>2 DEF ScanEntry
<1> QED
  BY <1>3, <1>4 DEF ScanEntry, E

-----------------------------------------------------------------------------
(* MInv is inductive: one lemma per action.                                *)

LEMMA InitMInv == Init => MInv
BY DEF Init, MInv, ManifestMatchesScan

LEMMA DiscoverOKMInv ==
  ASSUME MInv, NEW w \in BOOLEAN, DiscoverOK(w)
  PROVE  MInv'
<1>1. /\ pc' = "build" /\ snap' = fs /\ todo' = Files /\ write' = w
      /\ reg' = EmptyRegistry
      /\ UNCHANGED <<manifest, mSnap, mWrite>>
  BY DEF DiscoverOK
<1>2. Processed' = {}
  BY <1>1 DEF Processed, Files
<1>3. reg' = Scanned(snap', write', Processed')
  BY <1>1, <1>2, ScanEmpty
<1>4. \A p \in AllPaths : snap'[p] # NoFile => Loadable(snap'[p])
  BY <1>1 DEF DiscoverOK, Files
<1> QED
  BY <1>1, <1>2, <1>3, <1>4 DEF MInv, ManifestMatchesScan, Files

LEMMA DiscoverFailMInv ==
  ASSUME MInv, DiscoverFail
  PROVE  MInv'
BY DEF DiscoverFail, MInv, ManifestMatchesScan

(* Folding the first module still to do keeps the registry the scan of    *)
(* the modules folded, when it is recorded where the scan says.            *)
LEMMA FoldStep ==
  ASSUME IInv, MInv, pc \in {"build", "unlink"}, NEW p \in todo,
         IsFirstPath(p, todo),
         todo' = todo \ {p}, UNCHANGED <<snap, write>>,
         reg' = RecordModule(reg, snap[p], RecordedPath(snap, write, p))
  PROVE  /\ \A q \in todo' : snap'[q] # NoFile
         /\ \A d \in Processed', q \in todo' : PathLess(d, q)
         /\ reg' = Scanned(snap', write', Processed')
<1>1. snap \in FileState /\ todo \subseteq AllPaths
  BY DEF IInv, TypeOK
<1>2. snap[p] # NoFile /\ Loadable(snap[p])
  BY <1>1 DEF MInv
<1>3. Processed' = Processed \cup {p} /\ p \notin Processed
  BY <1>1, <1>2 DEF Processed
<1>4. \A d \in Processed : PathLess(d, p)
  BY DEF MInv
<1>5. Processed \subseteq AllPaths
  BY DEF Processed
<1>6. Scanned(snap, write, Processed \cup {p}) =
        RecordModule(Scanned(snap, write, Processed), snap[p], RecordedPath(snap, write, p))
  BY <1>1, <1>2, <1>3, <1>4, <1>5, ScanAdd
<1>7. \A d \in Processed', q \in todo' : PathLess(d, q)
  BY <1>3 DEF MInv, IsFirstPath
<1> QED
  BY <1>3, <1>6, <1>7 DEF MInv

LEMMA RecordInPlaceMInv ==
  ASSUME IInv, MInv, NEW p \in todo, RecordInPlace(p)
  PROVE  MInv'
<1>1. /\ pc = "build" /\ pc' = "build" /\ IsFirstPath(p, todo)
      /\ todo' = todo \ {p} /\ UNCHANGED <<snap, write, manifest, mSnap, mWrite>>
      /\ reg' = RecordModule(reg, snap[p], p)
  BY DEF RecordInPlace, ghostVars
<1>2. RecordedPath(snap, write, p) = p
  BY DEF RecordInPlace, RecordedPath
<1>3. /\ \A q \in todo' : snap'[q] # NoFile
      /\ \A d \in Processed', q \in todo' : PathLess(d, q)
      /\ reg' = Scanned(snap', write', Processed')
  BY <1>1, <1>2, FoldStep
<1> QED
  BY <1>1, <1>3 DEF MInv, ManifestMatchesScan

LEMMA MaterializeWriteMInv ==
  ASSUME IInv, MInv, NEW p \in todo, MaterializeWrite(p)
  PROVE  MInv'
<1>1. /\ pc = "build" /\ IsFirstPath(p, todo) /\ write
      /\ ~IsVersionedPath(p, ModName(snap[p]), ModVersion(snap[p]))
      /\ UNCHANGED <<snap, write, todo, reg, manifest, mSnap, mWrite>>
  BY DEF MaterializeWrite, ghostVars
<1>2. CASE pc' = "unlink" /\ cur' = p
  BY <1>1, <1>2 DEF MInv, ManifestMatchesScan, Processed
<1>3. CASE pc' = "idle"
  BY <1>1, <1>3 DEF MInv, ManifestMatchesScan
<1> QED
  BY <1>2, <1>3 DEF MaterializeWrite

LEMMA MaterializeUnlinkMInv ==
  ASSUME IInv, MInv, MaterializeUnlink
  PROVE  MInv'
<1>1. /\ pc = "unlink" /\ pc' = "build" /\ cur \in todo
      /\ write /\ IsFirstPath(cur, todo)
      /\ ~IsVersionedPath(cur, ModName(snap[cur]), ModVersion(snap[cur]))
      /\ todo' = todo \ {cur} /\ UNCHANGED <<snap, write, manifest, mSnap, mWrite>>
      /\ reg' = RecordModule(reg, snap[cur],
                             Target(ModName(snap[cur]), ModVersion(snap[cur])))
  BY DEF MaterializeUnlink, IInv, MInv, ghostVars
<1>2. RecordedPath(snap, write, cur) = Target(ModName(snap[cur]), ModVersion(snap[cur]))
  BY <1>1 DEF RecordedPath
<1>3. /\ \A q \in todo' : snap'[q] # NoFile
      /\ \A d \in Processed', q \in todo' : PathLess(d, q)
      /\ reg' = Scanned(snap', write', Processed')
  BY <1>1, <1>2, FoldStep
<1> QED
  BY <1>1, <1>3 DEF MInv, ManifestMatchesScan

LEMMA SetLatestMInv ==
  ASSUME IInv, MInv, SetLatest
  PROVE  MInv'
<1>1. /\ pc = "build" /\ pc' = "persist" /\ todo = {}
      /\ reg' = [n \in Names |-> WithLatest(reg[n])]
      /\ UNCHANGED <<snap, write, manifest, mSnap, mWrite>>
  BY DEF SetLatest, ghostVars
<1>2. snap \in FileState
  BY DEF IInv, TypeOK
<1>3. Processed = {p \in AllPaths : snap[p] # NoFile}
  BY <1>1 DEF Processed
<1>4. \A n \in Names : reg[n] = ScanEntry(snap, write, AllPaths, n)
  BY <1>1, <1>2, <1>3, ScanFiles DEF MInv, Scanned
<1>5. reg' = ScanRegistry(snap, write)
  BY <1>1, <1>4 DEF ScanRegistry
<1> QED
  BY <1>1, <1>5 DEF MInv, ManifestMatchesScan

LEMMA WriteTmpMInv ==
  ASSUME MInv, WriteTmp
  PROVE  MInv'
<1>1. pc = "persist" /\ UNCHANGED <<snap, write, reg, manifest, mSnap, mWrite>>
  BY DEF WriteTmp, runVars, ghostVars
<1>2. CASE tmp' = reg /\ pc' = "rename"
  BY <1>1, <1>2 DEF MInv, ManifestMatchesScan
<1>3. CASE tmp' = Torn /\ pc' = "idle"
  BY <1>1, <1>3 DEF MInv, ManifestMatchesScan
<1> QED
  BY <1>2, <1>3 DEF WriteTmp

LEMMA RenameMInv ==
  ASSUME MInv, Rename
  PROVE  MInv'
BY DEF Rename, MInv, ManifestMatchesScan, runVars

LEMMA AbortMInv ==
  ASSUME MInv, Abort
  PROVE  MInv'
BY DEF Abort, MInv, ManifestMatchesScan, runVars, ghostVars

(* IInv and MInv together are inductive.                                   *)
LEMMA MInvStep ==
  ASSUME IInv, MInv, [Next]_vars
  PROVE  MInv'
<1>1. CASE \E w \in BOOLEAN : DiscoverOK(w)
  BY <1>1, DiscoverOKMInv
<1>2. CASE \E p \in todo : RecordInPlace(p) \/ MaterializeWrite(p)
  BY <1>2, RecordInPlaceMInv, MaterializeWriteMInv
<1>3. CASE UNCHANGED vars \/ Done
  BY <1>3 DEF MInv, ManifestMatchesScan, Processed, vars, Done
<1> QED
  BY <1>1, <1>2, <1>3, DiscoverFailMInv, MaterializeUnlinkMInv,
     SetLatestMInv, WriteTmpMInv, RenameMInv, AbortMInv DEF Next

THEOREM MInvInvariant == Spec => []MInv
<1>1. Init => MInv
  BY InitMInv
<1>2. IInv /\ MInv /\ [Next]_vars => MInv'
  BY MInvStep
<1>3. Spec => []IInv
  BY IInvInvariant
<1> QED
  BY <1>1, <1>2, <1>3, PTL DEF Spec

(* Safety (spec 4.5, last-write-wins in discovery order): registry.json    *)
(* always holds the scan of the files discovered by the run that wrote it  *)
(* (build_registry, write_registry), whatever runs crashed before and      *)
(* whatever files earlier moves of that run overwrote or removed.          *)
THEOREM ManifestCorrect == Spec => []ManifestMatchesScan
BY MInvInvariant, PTL DEF MInv

-----------------------------------------------------------------------------
(* Refinement: each step of a run is a step of BootstrapAbstract or leaves *)
(* its variables (the directory, registry.json, whether a run is in        *)
(* progress, the scan it will publish and its flag) unchanged.             *)

LEMMA InitRefines == Init => Abs!Init
<1> SUFFICES ASSUME Init PROVE Abs!Init
  OBVIOUS
<1>1. fs \in FileState
  BY InitIInv DEF IInv, TypeOK
<1> QED
  BY <1>1 DEF Init, Abs!Init

LEMMA DiscoverOKRefines ==
  ASSUME NEW w \in BOOLEAN, DiscoverOK(w)
  PROVE  Abs!Start(w)
<1>1. ReadyDir(fs)
  BY DEF DiscoverOK, Files, ReadyDir
<1> QED
  BY <1>1 DEF DiscoverOK, Abs!Start

LEMMA MaterializeWriteRefines ==
  ASSUME IInv', NEW p \in todo, MaterializeWrite(p)
  PROVE  Abs!Reorganize \/ Abs!Stop
<1>1. pc = "build" /\ write /\ UNCHANGED <<manifest, snap, write>>
  BY DEF MaterializeWrite
<1>2. fs' \in FileState
  BY DEF IInv, TypeOK
<1>3. CASE pc' = "unlink"
  BY <1>1, <1>2, <1>3 DEF Abs!Reorganize
<1>4. CASE pc' = "idle"
  BY <1>1, <1>2, <1>4 DEF Abs!Stop
<1> QED
  BY <1>3, <1>4 DEF MaterializeWrite

LEMMA MaterializeUnlinkRefines ==
  ASSUME IInv', MInv, MaterializeUnlink
  PROVE  Abs!Reorganize
<1>1. pc = "unlink" /\ pc' = "build" /\ write
      /\ UNCHANGED <<manifest, snap, write>>
  BY DEF MaterializeUnlink, MInv
<1>2. fs' \in FileState
  BY DEF IInv, TypeOK
<1> QED
  BY <1>1, <1>2 DEF Abs!Reorganize

LEMMA WriteTmpRefines ==
  ASSUME WriteTmp
  PROVE  Abs!Stop \/ UNCHANGED Abs!vars
<1>1. pc = "persist" /\ UNCHANGED <<fs, manifest, snap, write>>
  BY DEF WriteTmp, runVars
<1>2. CASE pc' = "rename"
  BY <1>1, <1>2 DEF Abs!vars
<1>3. CASE pc' = "idle"
  BY <1>1, <1>3 DEF Abs!Stop
<1> QED
  BY <1>2, <1>3 DEF WriteTmp

LEMMA RenameRefines ==
  ASSUME MInv, Rename
  PROVE  Abs!Publish
<1>1. tmp = ScanRegistry(snap, write)
  BY DEF Rename, MInv
<1> QED
  BY <1>1 DEF Rename, Abs!Publish, runVars

LEMMA AbortRefines ==
  ASSUME Abort
  PROVE  Abs!Stop
BY DEF Abort, Abs!Stop, runVars

(* The steps that change none of the abstract variables.                   *)
LEMMA StutterRefines ==
  ASSUME \/ DiscoverFail
         \/ \E p \in todo : RecordInPlace(p)
         \/ SetLatest
         \/ UNCHANGED vars \/ Done
  PROVE  UNCHANGED Abs!vars
BY DEF DiscoverFail, RecordInPlace, SetLatest, vars, Done, Abs!vars, runVars

LEMMA StepRefines ==
  ASSUME IInv', MInv, [Next]_vars
  PROVE  [Abs!Next]_Abs!vars
<1>1. CASE \E w \in BOOLEAN : DiscoverOK(w)
  BY <1>1, DiscoverOKRefines DEF Abs!Next
<1>2. CASE \E p \in todo : MaterializeWrite(p)
  BY <1>2, MaterializeWriteRefines DEF Abs!Next
<1>3. CASE MaterializeUnlink
  BY <1>3, MaterializeUnlinkRefines DEF Abs!Next
<1>4. CASE WriteTmp
  BY <1>4, WriteTmpRefines DEF Abs!Next
<1>5. CASE Rename
  BY <1>5, RenameRefines DEF Abs!Next
<1>6. CASE Abort
  BY <1>6, AbortRefines DEF Abs!Next
<1>7. CASE \/ DiscoverFail
           \/ \E p \in todo : RecordInPlace(p)
           \/ SetLatest
           \/ UNCHANGED vars \/ Done
  BY <1>7, StutterRefines
<1> QED
  BY <1>1, <1>2, <1>3, <1>4, <1>5, <1>6, <1>7 DEF Next

(* Refinement (spec 4.5, 4.6 and section 8): every behaviour of the tool  *)
(* is one of BootstrapAbstract's.  registry.json changes only in a Rename *)
(* (write_registry's replace), and then to the scan of the directory its   *)
(* run discovered; files change only in a --write run (materialize_module) *)
(* and a failed run publishes nothing.                                     *)
THEOREM Refinement == Spec => AbsSpec
<1>1. Init => Abs!Init
  BY InitRefines
<1>2. IInv' /\ MInv /\ [Next]_vars => [Abs!Next]_Abs!vars
  BY StepRefines
<1>3. Spec => []IInv /\ []MInv
  BY IInvInvariant, MInvInvariant
<1> QED
  BY <1>1, <1>2, <1>3, PTL DEF Spec, AbsSpec, Abs!Spec

=============================================================================
