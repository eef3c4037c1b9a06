------------------------ MODULE BootstrapRerunProofs ------------------------
(***************************************************************************)
(* Idempotence of normalization (spec section 8): when every version and *)
(* every name is a single path segment, a --write run that follows a      *)
(* successful --write run changes nothing in the directory.  The runs     *)
(* MCBootstrapSlash (a version with "/") and MCBootstrapSlashName (a name  *)
(* with "/") show that the hypothesis is needed: the rerun deletes the     *)
(* file it rewrites.                                                       *)
(***************************************************************************)
EXTENDS BootstrapProofs, SequenceTheorems

(* root / name / version / f"{name}.js" is four path parts: neither the    *)
(* name nor the version contains "/".                                       *)
SingleSegment ==
  /\ \A v \in Versions : VerSegs[v] = <<v>>
  /\ \A n \in Names : NameSegs[n] = <<n>> /\ JsSegs[n] = <<FileName(n)>>

(* The path parts of root / n / v / f.                                    *)
LEMMA ConcatTriple ==
  ASSUME NEW a, NEW b, NEW f
  PROVE  LET t == <<a>> \o <<b>> \o <<f>>
         IN  Len(t) = 3 /\ t[2] = b /\ t[3] = f
<1> DEFINE S == {a, b, f}
<1>1. /\ <<a>> \in Seq(S) /\ <<b>> \in Seq(S) /\ <<f>> \in Seq(S)
      /\ Len(<<a>>) = 1 /\ Len(<<b>>) = 1 /\ Len(<<f>>) = 1
  OBVIOUS
<1>2. /\ <<a>> \o <<b>> \in Seq(S)
      /\ Len(<<a>> \o <<b>>) = 2
      /\ (<<a>> \o <<b>>)[2] = b
  BY <1>1, ConcatProperties
<1> QED
  BY <1>1, <1>2, ConcatProperties

(* materialize_module's target is canonical for the bytes it receives.    *)
LEMMA TargetCanonical ==
  ASSUME SingleSegment, NEW c, Loadable(c)
  PROVE  Canonical(Target(ModName(c), ModVersion(c)), c)
<1> DEFINE n == ModName(c)
           v == ModVersion(c)
           t == Target(n, v)
<1>1. v \in Versions /\ n \in Names
  BY ConstantsAssumption DEF Loadable, Content, ModVersion, ModName
<1>2. t = <<n>> \o <<v>> \o <<FileName(n)>>
  BY <1>1 DEF SingleSegment, Target, t
<1>3. Len(t) = 3 /\ t[2] = v /\ t[3] = FileName(n)
  BY <1>2, ConcatTriple
<1> QED
  BY <1>3 DEF Canonical, IsVersionedPath, t

LEMMA InitRInv == Init => RInv
BY DEF Init, RInv, RerunIsNoop

LEMMA DiscoverOKRInv ==
  ASSUME IInv, RInv, NEW w \in BOOLEAN, DiscoverOK(w)
  PROVE  RInv'
<1>1. lastOK' = FALSE /\ pc' = "build" /\ fs' = fs /\ snap' = fs
      /\ todo' = Files /\ write' = w /\ prevWrite' = (lastOK /\ write)
  BY DEF DiscoverOK
<1>2. (pc' # "idle" /\ write' =>
         \A p \in AllPaths : fs'[p] # NoFile => p \in todo' \/ Canonical(p, fs'[p]))
  BY <1>1 DEF Files
<1>3. (pc' # "idle" /\ write' /\ prevWrite' =>
         fs' = snap' /\ \A p \in todo' : Canonical(p, snap'[p]))
  BY <1>1 DEF RInv, Files
<1> QED
  BY <1>1, <1>2, <1>3 DEF RInv, RerunIsNoop

LEMMA DiscoverFailRInv ==
  ASSUME IInv, RInv, DiscoverFail
  PROVE  RInv'
BY DEF DiscoverFail, RInv, RerunIsNoop, runVars

LEMMA RecordInPlaceRInv ==
  ASSUME IInv, RInv, NEW p \in todo, RecordInPlace(p)
  PROVE  RInv'
<1>1. UNCHANGED <<fs, pc, write, snap, cur, lastOK, prevWrite, mSnap, mWrite>>
      /\ todo' = todo \ {p} /\ pc = "build"
  BY DEF RecordInPlace, ghostVars
<1>2. write => Canonical(p, fs[p])
  BY DEF RecordInPlace, RInv, IInv, Canonical
<1>3. (pc' # "idle" /\ write' =>
         \A q \in AllPaths : fs'[q] # NoFile => q \in todo' \/ Canonical(q, fs'[q]))
  BY <1>1, <1>2 DEF RInv
<1> QED
  BY <1>1, <1>3 DEF RInv, RerunIsNoop

LEMMA MaterializeWriteRInv ==
  ASSUME SingleSegment, IInv, RInv, NEW p \in todo, MaterializeWrite(p)
  PROVE  RInv'
<1> DEFINE c == snap[p]
           t == Target(ModName(c), ModVersion(c))
<1>1. pc = "build" /\ write /\ ~lastOK
      /\ ~IsVersionedPath(p, ModName(c), ModVersion(c))
  BY DEF MaterializeWrite, RInv
<1>2. ~prevWrite
  BY <1>1 DEF RInv, Canonical
<1>3. UNCHANGED <<write, snap, todo, lastOK, prevWrite, mWrite>>
  BY DEF MaterializeWrite, ghostVars
<1>4. CASE fs' = [fs EXCEPT ![t] = c] /\ pc' = "unlink" /\ cur' = p
  <2>1. Canonical(t, c)
    <3>1. Loadable(c)
      BY <1>1 DEF IInv, c
    <3> QED
      BY <3>1, TargetCanonical DEF t
  <2>2. fs \in [AllPaths -> Content \cup {NoFile, Torn}]
    BY DEF IInv, TypeOK, FileState
  <2>3. \A q \in AllPaths : fs'[q] = IF q = t THEN c ELSE fs[q]
    BY <1>4, <2>2
  <2>4. \A q \in AllPaths : fs'[q] # NoFile => q \in todo' \/ Canonical(q, fs'[q])
    BY <1>1, <1>3, <2>1, <2>3 DEF RInv
  <2>5. \A q \in todo' : fs'[q] = snap'[q] \/ Canonical(q, fs'[q])
    <3>1. todo \subseteq AllPaths
      BY DEF IInv, TypeOK
    <3> QED
      BY <1>1, <1>3, <2>1, <2>3, <3>1 DEF RInv
  <2>6. ~IsVersionedPath(cur', ModName(snap'[cur']), ModVersion(snap'[cur']))
    BY <1>1, <1>3, <1>4
  <2> QED
    BY <1>1, <1>2, <1>3, <1>4, <2>4, <2>5, <2>6 DEF RInv, RerunIsNoop
<1>5. CASE fs' = [fs EXCEPT ![t] = Torn] /\ pc' = "idle"
  BY <1>1, <1>3, <1>5 DEF RInv, RerunIsNoop
<1> QED
  BY <1>4, <1>5 DEF MaterializeWrite

LEMMA MaterializeUnlinkRInv ==
  ASSUME IInv, RInv, MaterializeUnlink
  PROVE  RInv'
<1>1. pc = "unlink" /\ ~lastOK /\ cur \in todo /\ pc' = "build"
      /\ fs' = [fs EXCEPT ![cur] = NoFile] /\ todo' = todo \ {cur}
  BY DEF MaterializeUnlink, RInv, IInv
<1>2. UNCHANGED <<write, snap, cur, lastOK, prevWrite, mWrite>>
  BY DEF MaterializeUnlink, ghostVars
<1>3. ~(write /\ prevWrite)
  BY <1>1 DEF RInv, Canonical
<1>4. fs \in [AllPaths -> Content \cup {NoFile, Torn}] /\ cur \in AllPaths
      /\ todo \subseteq AllPaths
  BY <1>1 DEF IInv, TypeOK, FileState
<1>5. \A q \in AllPaths : fs'[q] = IF q = cur THEN NoFile ELSE fs[q]
  BY <1>1, <1>4
<1>6. write => \A q \in AllPaths : fs'[q] # NoFile => q \in todo' \/ Canonical(q, fs'[q])
  BY <1>1, <1>5 DEF RInv
<1>7. write => \A q \in todo' : fs'[q] = snap'[q] \/ Canonical(q, fs'[q])
  BY <1>1, <1>2, <1>4, <1>5 DEF RInv
<1> QED
  BY <1>1, <1>2, <1>3, <1>6, <1>7 DEF RInv, RerunIsNoop

LEMMA SetLatestRInv ==
  ASSUME IInv, RInv, SetLatest
  PROVE  RInv'
BY DEF SetLatest, RInv, RerunIsNoop, ghostVars

LEMMA WriteTmpRInv ==
  ASSUME IInv, RInv, WriteTmp
  PROVE  RInv'
<1>1. pc = "persist" /\ ~lastOK /\ todo = {}
  BY DEF WriteTmp, RInv
<1>2. CASE tmp' = reg /\ pc' = "rename"
  BY <1>1, <1>2 DEF WriteTmp, RInv, RerunIsNoop, runVars, ghostVars
<1>3. CASE tmp' = Torn /\ pc' = "idle"
  BY <1>1, <1>3 DEF WriteTmp, RInv, RerunIsNoop, runVars, ghostVars
<1> QED
  BY <1>2, <1>3 DEF WriteTmp

LEMMA RenameRInv ==
  ASSUME IInv, RInv, Rename
  PROVE  RInv'
<1>1. pc = "rename" /\ todo = {} /\ pc' = "idle" /\ lastOK' /\ mWrite' = write
      /\ UNCHANGED <<fs, write, snap, todo, prevWrite>>
  BY DEF Rename, RInv, runVars
<1>2. write => \A p \in AllPaths : fs[p] # NoFile => Canonical(p, fs[p])
  BY <1>1 DEF RInv
<1>3. write /\ prevWrite => fs = snap
  BY <1>1 DEF RInv
<1> QED
  BY <1>1, <1>2, <1>3 DEF RInv, RerunIsNoop

LEMMA AbortRInv ==
  ASSUME IInv, RInv, Abort
  PROVE  RInv'
BY DEF Abort, RInv, RerunIsNoop, runVars, ghostVars

(* IInv and RInv together are inductive.                                   *)
LEMMA RInvStep ==
  ASSUME SingleSegment, IInv, RInv, [Next]_vars
  PROVE  RInv'
<1>1. CASE \E w \in BOOLEAN : DiscoverOK(w)
  BY <1>1, DiscoverOKRInv
<1>2. CASE \E p \in todo : RecordInPlace(p) \/ MaterializeWrite(p)
  BY <1>2, RecordInPlaceRInv, MaterializeWriteRInv
<1>3. CASE UNCHANGED vars \/ Done
  BY <1>3 DEF RInv, RerunIsNoop, vars, Done
<1> QED
  BY <1>1, <1>2, <1>3, DiscoverFailRInv, MaterializeUnlinkRInv,
     SetLatestRInv, WriteTmpRInv, RenameRInv, AbortRInv DEF Next

(* Safety (spec section 8, idempotence of normalization): for names and   *)
(* versions without "/", a --write run that succeeds right after a        *)
(* successful --write run moves, overwrites and deletes nothing            *)
(* (materialize_module, is_versioned_path).                                *)
THEOREM RerunIdempotent ==
  ASSUME SingleSegment
  PROVE  Spec => []RerunIsNoop
<1>1. Init => RInv
  BY InitRInv
<1>2. IInv /\ RInv /\ [Next]_vars => RInv'
  BY RInvStep
<1>3. Spec => []IInv
  BY IInvInvariant
<1>4. Spec => []RInv
  BY <1>1, <1>2, <1>3, PTL DEF Spec
<1> QED
  BY <1>4, PTL DEF RInv

=============================================================================
