-------------------------- MODULE BootstrapProofs --------------------------
(***************************************************************************)
(* Proofs about Bootstrap for every value of its constants: type           *)
(* correctness, and that registry.json only ever holds a registry whose    *)
(* "latest" tags are the greatest versions (LatestIsGreatestTag).          *)
(***************************************************************************)
EXTENDS Bootstrap, TLAPS, WellFoundedInduction

(* MaxTag, the choice of sorted(candidates)[-1] in pick_latest_tag, is a  *)
(* greatest element of every non-empty set of versions.                    *)
LEMMA MaxTagIsGreatest ==
  ASSUME NEW S \in SUBSET Versions, S # {}
  PROVE  /\ MaxTag(S) \in S
         /\ \A w \in S : Rank[w] <= Rank[MaxTag(S)]
<1>1. \E v \in S : \A w \in S : Rank[w] <= Rank[v]
  <2> DEFINE T == {RankBound - Rank[v] : v \in S}
  <2>1. T \subseteq Nat /\ T # {}
    BY ConstantsAssumption
  <2>2. \E x \in T : \A y \in T : ~(<<y, x>> \in OpToRel(<, Nat))
    BY <2>1, WFMin, NatLessThanWellFounded
  <2>3. PICK x \in T : \A y \in T : ~(<<y, x>> \in OpToRel(<, Nat))
    BY <2>2
  <2>4. PICK v \in S : x = RankBound - Rank[v]
    BY <2>3
  <2>5. ASSUME NEW w \in S PROVE Rank[w] <= Rank[v]
    <3>1. RankBound - Rank[w] \in T
      OBVIOUS
    <3>2. ~(RankBound - Rank[w] < x)
      BY <2>1, <2>3, <3>1 DEF OpToRel
    <3> QED
      BY <3>2, <2>4, ConstantsAssumption
  <2> QED
    BY <2>5
<1> QED
  BY <1>1 DEF MaxTag


(* build_registry's per-module update keeps the registry well typed.       *)
LEMMA RecordModuleType ==
  ASSUME NEW r \in Registry, NEW c, Loadable(c), NEW path \in AllPaths
  PROVE  RecordModule(r, c, path) \in Registry
<1>1. ModName(c) \in Names /\ ModVersion(c) \in Versions
  BY ConstantsAssumption DEF Loadable, Content, ModName, ModVersion
<1>2. [tag |-> ModVersion(c), path |-> path] \in Loc
  BY <1>1 DEF Loc
<1>3. c \in Content /\ ModVersion(c) \in TagKeys
  BY <1>1 DEF Loadable, TagKeys
<1> QED
  BY <1>1, <1>2, <1>3 DEF RecordModule, Registry, Entry

(* The final pass of build_registry yields a well typed registry whose     *)
(* "latest" tags are the greatest versions.                                *)
LEMMA SetLatestCorrect ==
  ASSUME NEW r \in Registry
  PROVE  LET r2 == [n \in Names |-> WithLatest(r[n])]
         IN  r2 \in Registry /\ LatestOK(r2)
<1> DEFINE r2 == [n \in Names |-> WithLatest(r[n])]
<1>1. ASSUME NEW n \in Names
      PROVE  /\ r2[n] \in Entry
             /\ Present(r2[n]) = Present(r[n])
             /\ Present(r[n]) # {} =>
                  /\ r2[n].tags["latest"] = r2[n].tags[MaxTag(Present(r[n]))]
                  /\ MaxTag(Present(r[n])) \in Present(r[n])
                  /\ \A w \in Present(r[n]) : Rank[w] <= Rank[MaxTag(Present(r[n]))]
  <2> DEFINE e == r[n]
  <2>1. e \in Entry
    BY DEF Registry
  <2>2. CASE Present(e) = {}
    BY <2>1, <2>2 DEF WithLatest
  <2>3. CASE Present(e) # {}
    <3>1. Present(e) \in SUBSET Versions
      BY DEF Present
    <3>2. MaxTag(Present(e)) \in Present(e)
          /\ \A w \in Present(e) : Rank[w] <= Rank[MaxTag(Present(e))]
      BY <2>3, <3>1, MaxTagIsGreatest
    <3>3. r2[n] = [e EXCEPT !.tags["latest"] = e.tags[MaxTag(Present(e))]]
      BY <2>3 DEF WithLatest, PickLatestTag
    <3>4. e.tags[MaxTag(Present(e))] \in Content \cup {None}
      BY <2>1, <3>1, <3>2 DEF Entry, TagKeys
    <3>5. r2[n] \in Entry
      BY <2>1, <3>3, <3>4 DEF Entry, TagKeys
    <3>6. Present(r2[n]) = Present(e)
      BY <2>1, <3>3, ConstantsAssumption DEF Present, Entry, TagKeys
    <3>7. r2[n].tags["latest"] = r2[n].tags[MaxTag(Present(e))]
      BY <2>1, <3>1, <3>2, <3>3, ConstantsAssumption DEF Entry, TagKeys
    <3> QED
      BY <3>2, <3>5, <3>6, <3>7
  <2> QED
    BY <2>2, <2>3
<1>2. r2 \in Registry
  BY <1>1 DEF Registry
<1>3. LatestOK(r2)
  BY <1>1 DEF LatestOK
<1> QED
  BY <1>2, <1>3


LEMMA InitIInv == Init => IInv
<1> SUFFICES ASSUME Init PROVE IInv
  OBVIOUS
<1>1. fs \in FileState
  <2>1. PICK g \in [InitPaths -> InitContents \cup {NoFile}] :
          fs = [p \in AllPaths |-> IF p \in InitPaths THEN g[p] ELSE NoFile]
    BY DEF Init
  <2> QED
    BY <2>1, ConstantsAssumption DEF FileState
<1>2. EmptyRegistry \in Registry
  BY DEF EmptyRegistry, EmptyEntry, Registry, Entry
<1>3. /\ snap = fs /\ mSnap = fs /\ reg = EmptyRegistry /\ runs = 0
      /\ manifest = NoManifest /\ tmp = NoFile /\ pc = "idle" /\ todo = {}
      /\ cur = None /\ write = FALSE /\ lastOK = FALSE /\ prevWrite = FALSE
      /\ mWrite = FALSE
  BY DEF Init
<1>4. TypeOK
  <2>1. snap \in FileState /\ mSnap \in FileState /\ reg \in Registry
    BY <1>1, <1>2, <1>3
  <2>2. runs \in 0..MaxRuns
    BY <1>3, ConstantsAssumption
  <2>3. manifest \in Registry \cup {NoManifest} /\ tmp \in Registry \cup {NoFile, Torn}
    BY <1>3
  <2> QED
    BY <1>1, <2>1, <2>2, <2>3, <1>3 DEF TypeOK
<1> QED
  BY <1>3, <1>4 DEF IInv, LatestIsGreatestTag

(* The steps of a run: each keeps IInv.                                    *)
LEMMA DiscoverOKIInv ==
  ASSUME IInv, NEW w \in BOOLEAN, DiscoverOK(w)
  PROVE  IInv'
<1>1. EmptyRegistry \in Registry
  BY DEF EmptyRegistry, EmptyEntry, Registry, Entry
<1>2. runs' \in 0..MaxRuns
  BY ConstantsAssumption DEF IInv, TypeOK, DiscoverOK
<1>3. todo' \in SUBSET AllPaths /\ snap' \in FileState /\ reg' \in Registry
  BY <1>1 DEF IInv, TypeOK, DiscoverOK, Files
<1>4. TypeOK'
  BY <1>2, <1>3 DEF IInv, TypeOK, DiscoverOK
<1>5. \A p \in todo' : Loadable(snap'[p])
  BY DEF DiscoverOK, Files
<1> QED
  BY <1>4, <1>5 DEF IInv, DiscoverOK, LatestIsGreatestTag

LEMMA DiscoverFailIInv ==
  ASSUME IInv, DiscoverFail
  PROVE  IInv'
<1>1. runs' \in 0..MaxRuns
  BY ConstantsAssumption DEF IInv, TypeOK, DiscoverFail
<1>2. TypeOK'
  BY <1>1 DEF IInv, TypeOK, DiscoverFail, runVars
<1> QED
  BY <1>2 DEF IInv, DiscoverFail, LatestIsGreatestTag, runVars, ghostVars

LEMMA RecordInPlaceIInv ==
  ASSUME IInv, NEW p \in todo, RecordInPlace(p)
  PROVE  IInv'
<1>1. Loadable(snap[p]) /\ p \in AllPaths
  BY DEF IInv, TypeOK, RecordInPlace
<1>2. reg' \in Registry
  BY <1>1, RecordModuleType DEF IInv, TypeOK, RecordInPlace
<1>3. TypeOK'
  BY <1>2 DEF IInv, TypeOK, RecordInPlace, ghostVars
<1> QED
  BY <1>3 DEF IInv, RecordInPlace, LatestIsGreatestTag, ghostVars

LEMMA MaterializeWriteIInv ==
  ASSUME IInv, NEW p \in todo, MaterializeWrite(p)
  PROVE  IInv'
<1> DEFINE c == snap[p]
           t == Target(ModName(c), ModVersion(c))
<1>1. Loadable(c)
  BY DEF IInv, TypeOK, MaterializeWrite
<1>2. t \in AllPaths /\ c \in Content
  <2>1. ModName(c) \in Names /\ ModVersion(c) \in Versions
    BY <1>1, ConstantsAssumption DEF Loadable, Content, ModName, ModVersion
  <2>2. t \in {Target(n, v) : n \in Names, v \in Versions}
    BY <2>1
  <2>3. c \in Content
    BY <1>1 DEF Loadable
  <2>4. t \in AllPaths
    BY <2>2 DEF AllPaths, t
  <2> QED
    BY <2>3, <2>4
<1>3. fs' \in FileState
  BY <1>2 DEF IInv, TypeOK, MaterializeWrite, FileState
<1>4. TypeOK'
  BY <1>3 DEF IInv, TypeOK, MaterializeWrite, ghostVars
<1> QED
  BY <1>4 DEF IInv, MaterializeWrite, LatestIsGreatestTag, ghostVars

LEMMA MaterializeUnlinkIInv ==
  ASSUME IInv, MaterializeUnlink
  PROVE  IInv'
<1> DEFINE c == snap[cur]
<1>1. Loadable(c) /\ cur \in AllPaths
  BY DEF IInv, TypeOK, MaterializeUnlink
<1>2. Target(ModName(c), ModVersion(c)) \in AllPaths
  <2>1. ModName(c) \in Names /\ ModVersion(c) \in Versions
    BY <1>1, ConstantsAssumption DEF Loadable, Content, ModName, ModVersion
  <2> QED
    BY <2>1 DEF AllPaths
<1>3. reg' \in Registry
  BY <1>1, <1>2, RecordModuleType DEF IInv, TypeOK, MaterializeUnlink
<1>4. fs' \in FileState
  BY <1>1 DEF IInv, TypeOK, MaterializeUnlink, FileState
<1>5. TypeOK'
  BY <1>3, <1>4 DEF IInv, TypeOK, MaterializeUnlink, ghostVars
<1> QED
  BY <1>5 DEF IInv, MaterializeUnlink, LatestIsGreatestTag, ghostVars

LEMMA SetLatestIIv ==
  ASSUME IInv, SetLatest
  PROVE  IInv'
<1>1. reg' \in Registry /\ LatestOK(reg')
  BY SetLatestCorrect DEF IInv, TypeOK, SetLatest
<1>2. TypeOK'
  BY <1>1 DEF IInv, TypeOK, SetLatest, ghostVars
<1> QED
  BY <1>1, <1>2 DEF IInv, SetLatest, LatestIsGreatestTag, ghostVars

LEMMA WriteTmpIInv ==
  ASSUME IInv, WriteTmp
  PROVE  IInv'
<1>1. CASE tmp' = reg /\ pc' = "rename"
  BY <1>1 DEF IInv, TypeOK, WriteTmp, LatestIsGreatestTag, runVars, ghostVars
<1>2. CASE tmp' = Torn /\ pc' = "idle"
  BY <1>2 DEF IInv, TypeOK, WriteTmp, LatestIsGreatestTag, runVars, ghostVars
<1> QED
  BY <1>1, <1>2 DEF WriteTmp

LEMMA RenameIInv ==
  ASSUME IInv, Rename
  PROVE  IInv'
<1>1. TypeOK'
  BY DEF IInv, TypeOK, Rename, runVars
<1>2. LatestIsGreatestTag'
  BY DEF IInv, Rename, LatestIsGreatestTag
<1> QED
  BY <1>1, <1>2 DEF IInv, Rename

LEMMA AbortIInv ==
  ASSUME IInv, Abort
  PROVE  IInv'
BY DEF IInv, TypeOK, Abort, LatestIsGreatestTag, runVars, ghostVars

(* Safety: IInv holds in every state of every behaviour.                   *)
THEOREM IInvInvariant == Spec => []IInv
<1>1. Init => IInv
  BY InitIInv
<1>2. IInv /\ [Next]_vars => IInv'
  <2> SUFFICES ASSUME IInv, [Next]_vars PROVE IInv'
    OBVIOUS
  <2>1. CASE \E w \in BOOLEAN : DiscoverOK(w)
    BY <2>1, DiscoverOKIInv
  <2>2. CASE \E p \in todo : RecordInPlace(p) \/ MaterializeWrite(p)
    BY <2>2, RecordInPlaceIInv, MaterializeWriteIInv
  <2>3. CASE UNCHANGED vars \/ Done
    BY <2>3 DEF IInv, TypeOK, LatestIsGreatestTag, vars, Done
  <2> QED
    BY <2>1, <2>2, <2>3, DiscoverFailIInv, MaterializeUnlinkIInv,
       SetLatestIIv, WriteTmpIInv, RenameIInv, AbortIInv DEF Next
<1> QED
  BY <1>1, <1>2, PTL DEF Spec

(* Safety (the type invariant checked by the MCBootstrap run).             *)
THEOREM TypeCorrect == Spec => []TypeOK
BY IInvInvariant, PTL DEF IInv

(* Safety: registry.json only ever holds a registry whose every "latest"   *)
(* tag is its name's greatest version, whatever runs crashed, aborted or   *)
(* tore registry.json.tmp before (write_registry, build_registry).         *)
THEOREM ManifestLatestCorrect == Spec => []LatestIsGreatestTag
BY IInvInvariant, PTL DEF IInv

=============================================================================
