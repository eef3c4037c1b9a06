----------------------------- MODULE UsageProofs -----------------------------
(***************************************************************************)
(* Proofs about the usage reconciliation for every value of its constants: *)
(* type correctness, and that report_usage never reports a revision whose  *)
(* last usage record has a positive count (UsedNeverReported).  The        *)
(* argument is the loop invariant UInv of the indexing loop.               *)
(***************************************************************************)
EXTENDS Usage, TLAPS, WellFoundedInduction, SequenceTheorems

(* A non-empty set of positions bounded above has a last element, and      *)
(* LastIndex finds it.                                                      *)
LEMMA LastIndexIsMax ==
  ASSUME NEW S \in SUBSET Nat, NEW b \in Nat, S # {},
         \A k \in S : k <= b
  PROVE  /\ LastIndex(S) \in S
         /\ \A j \in S : j <= LastIndex(S)
<1>1. \E k \in S : \A j \in S : j <= k
  <2> DEFINE T == {b - k : k \in S}
  <2>1. T \subseteq Nat /\ T # {}
    <3>1. \A k \in S : b - k \in Nat
      OBVIOUS
    <3> QED
      BY <3>1
  <2>2. \E x \in T : \A y \in T : ~(<<y, x>> \in OpToRel(<, Nat))
    BY <2>1, WFMin, NatLessThanWellFounded
  <2>3. PICK x \in T : \A y \in T : ~(<<y, x>> \in OpToRel(<, Nat))
    BY <2>2
  <2>4. PICK k \in S : x = b - k
    BY <2>3
  <2>5. ASSUME NEW j \in S PROVE j <= k
    <3>1. b - j \in T
      OBVIOUS
    <3>2. ~(b - j < x)
      BY <2>1, <2>3, <3>1 DEF OpToRel
    <3> QED
      BY <3>2, <2>4
  <2> QED
    BY <2>5
<1> QED
  BY <1>1 DEF LastIndex

(* A position after all those of S is the last of S with it.               *)
LEMMA LastIndexAdd ==
  ASSUME NEW S \in SUBSET Nat, NEW m \in Nat, \A k \in S : k < m
  PROVE  LastIndex(S \cup {m}) = m
<1>1. \A j \in S \cup {m} : j <= m
  OBVIOUS
<1>2. \A k \in S \cup {m} : (\A j \in S \cup {m} : j <= k) => k = m
  OBVIOUS
<1> QED
  BY <1>1, <1>2 DEF LastIndex

(* The records before position j with a name and hash are positions      *)
(* before j.                                                               *)
LEMMA MatchBeforeBounded ==
  ASSUME NEW n, NEW h, NEW j \in Nat
  PROVE  /\ MatchBefore(n, h, j) \subseteq Nat
         /\ \A k \in MatchBefore(n, h, j) : k < j
BY DEF MatchBefore

(* The facts about the constants that the proofs use, one by one.         *)
LEMMA ConstFacts ==
  /\ Norm \in [RawNames -> Names \cup {Blank}]
  /\ IntOf \in [RawCounts -> Int]
  /\ MaxUsage \in Nat
  /\ None \notin UsageRecord
  /\ NotObject \notin UsageRecord
  /\ Blank \notin Names
  /\ Blank \notin Hashes
  /\ Tracked \subseteq [name: Names, tag: STRING \cup {Blank}, hash: Hashes]
BY UsageAssumption, Zenon

(* The usage list of a UInv state is a list of entries.                   *)
LEMMA UsageList ==
  ASSUME UInv
  PROVE  /\ Len(usage) \in Nat
         /\ \A k \in 1..Len(usage) : usage[k] \in UsageEntry
BY LenProperties, ElementOfSeq DEF UInv, TypeOK

(* The initial states of main satisfy UInv: nothing is indexed yet.       *)
LEMMA InitUInv == Init => UInv
<1> SUFFICES ASSUME Init PROVE UInv
  OBVIOUS
<1>1. PICK k \in 0..MaxUsage : usage \in [1..k -> UsageEntry]
  BY DEF Init
<1>2. usage \in Seq(UsageEntry)
  BY <1>1, ConstFacts, SeqDef
<1>3a. Len(usage) = k
  <2>1. Len(usage) \in Nat /\ DOMAIN usage = 1..Len(usage)
    BY <1>2, LenProperties
  <2>2. DOMAIN usage = 1..k /\ k \in Nat
    BY <1>1, ConstFacts
  <2> DEFINE L == Len(usage)
  <2>3. 1..L = 1..k
    BY <2>1, <2>2 DEF L
  <2>4. ~(L < k)
    <3>1. SUFFICES ASSUME L < k PROVE FALSE
      OBVIOUS
    <3>2. k \in 1..k /\ k \notin 1..L
      BY <2>1, <2>2, <3>1 DEF L
    <3> QED
      BY <2>3, <3>2
  <2>5. ~(k < L)
    <3>1. SUFFICES ASSUME k < L PROVE FALSE
      OBVIOUS
    <3>2. L \in 1..L /\ L \notin 1..k
      BY <2>1, <2>2, <3>1 DEF L
    <3> QED
      BY <2>3, <3>2
  <2>6. L \in Nat /\ k \in Nat
    BY <2>1, <2>2 DEF L
  <2> QED
    BY <2>4, <2>5, <2>6 DEF L
<1>3. \A n \in Names, h \in Hashes : MatchBefore(n, h, i) = {}
  BY DEF Init, MatchBefore
<1>4. TypeOK
  <2>1. i \in 1..(MaxUsage + 1)
    BY ConstFacts DEF Init
  <2>2. index \in [Names \X Hashes -> UsageRecord \cup {None}]
    BY DEF Init
  <2> QED
    BY <1>2, <2>1, <2>2 DEF Init, TypeOK
<1>5. Len(usage) <= MaxUsage /\ i <= Len(usage) + 1
  BY <1>1, <1>3a, ConstFacts DEF Init
<1>6. \A n \in Names, h \in Hashes :
        index[<<n, h>>] = IF MatchBefore(n, h, i) = {} THEN None
                          ELSE usage[LastIndex(MatchBefore(n, h, i))]
  BY <1>3 DEF Init
<1> QED
  BY <1>4, <1>5, <1>6 DEF Init, UInv

(* read_usage returning, or failing, leaves the index and the report.     *)
LEMMA ReadUInv ==
  ASSUME UInv, ReadUsage \/ ReadFail \/ IndexCrash \/ Done \/ UNCHANGED vars
  PROVE  UInv'
<1>1. phase # "done" => report = NoReport
  BY DEF UInv
<1>2. UNCHANGED <<usage, i, index>> /\ (report' = report)
  BY DEF ReadUsage, ReadFail, IndexCrash, Done, vars
<1>3. report' # NoReport => phase' = "done"
  BY <1>1, <1>2 DEF ReadUsage, ReadFail, IndexCrash, Done, vars
<1>4. TypeOK'
  BY <1>2 DEF UInv, TypeOK, ReadUsage, ReadFail, IndexCrash, Done, vars
<1>5. \A n \in Names, h \in Hashes :
        MatchBefore(n, h, i)' = MatchBefore(n, h, i)
  BY <1>2 DEF MatchBefore
<1>6. IsUnused(NoReport)' = IsUnused(NoReport)
  BY <1>2 DEF IsUnused
<1>7. \A u : IsUnused(u)' = IsUnused(u)
  BY <1>2 DEF IsUnused
<1> QED
  BY <1>2, <1>3, <1>4, <1>5, <1>7 DEF UInv

(* One iteration of the indexing loop (lines 244-249) keeps usage_index   *)
(* the index of the last record of every (name, hash) read so far.        *)
LEMMA IndexRecordUInv ==
  ASSUME UInv, IndexRecord
  PROVE  UInv'
<1> DEFINE e == usage[i]
           nn == Norm[e.strategy]
<1>0. Len(usage) \in Nat /\ \A k \in 1..Len(usage) : usage[k] \in UsageEntry
  BY UsageList
<1>1. i \in 1..Len(usage) /\ i \in Nat
  BY <1>0 DEF UInv, TypeOK, IndexRecord
<1>2. e \in UsageRecord
  BY <1>0, <1>1 DEF IndexRecord, UsageEntry, e
<1>3. nn \in Names \cup {Blank} /\ e.hash \in Hashes \cup {Blank}
  BY <1>2, ConstFacts DEF UsageRecord, nn
<1>4. index' = IF nn # Blank /\ e.hash # Blank
               THEN [index EXCEPT ![<<nn, e.hash>>] = e]
               ELSE index
  BY DEF IndexRecord, e, nn
<1>5. UNCHANGED <<usage, report, phase>> /\ i' = i + 1
  BY DEF IndexRecord
<1>6. TypeOK'
  <2>1. index' \in [Names \X Hashes -> UsageRecord \cup {None}]
    BY <1>2, <1>3, <1>4 DEF UInv, TypeOK
  <2>2. i' \in 1..(MaxUsage + 1)
    BY <1>0, <1>1, <1>5, ConstFacts DEF UInv
  <2> QED
    BY <2>1, <2>2, <1>5 DEF UInv, TypeOK
<1>7. ASSUME NEW n \in Names, NEW h \in Hashes
      PROVE  index'[<<n, h>>] =
               IF MatchBefore(n, h, i + 1) = {} THEN None
               ELSE usage[LastIndex(MatchBefore(n, h, i + 1))]
  <2> DEFINE M == MatchBefore(n, h, i)
             M1 == MatchBefore(n, h, i + 1)
  <2>1. M \subseteq Nat /\ \A k \in M : k < i
    BY <1>1, MatchBeforeBounded DEF M
  <2>2. index[<<n, h>>] = IF M = {} THEN None ELSE usage[LastIndex(M)]
    BY DEF UInv, M
  <2>3. CASE nn = n /\ e.hash = h
    <3>1. M1 = M \cup {i}
      BY <1>1, <1>2, <2>3, ConstFacts DEF MatchBefore, M, M1, e, nn
    <3>2. LastIndex(M1) = i
      BY <1>1, <2>1, <3>1, LastIndexAdd
    <3>3. nn # Blank /\ e.hash # Blank
      BY <2>3, ConstFacts
    <3>4. index'[<<n, h>>] = e
      BY <1>4, <2>3, <3>3 DEF UInv, TypeOK
    <3> QED
      BY <3>1, <3>2, <3>4 DEF M1, e
  <2>4. CASE ~(nn = n /\ e.hash = h)
    <3>1. M1 = M
      BY <1>1, <2>4 DEF MatchBefore, M, M1, e, nn
    <3>2. index'[<<n, h>>] = index[<<n, h>>]
      BY <1>4, <2>4 DEF UInv, TypeOK
    <3> QED
      BY <2>2, <3>1, <3>2 DEF M, M1
  <2> QED
    BY <2>3, <2>4
<1>8. \A n \in Names, h \in Hashes :
        MatchBefore(n, h, i)' = MatchBefore(n, h, i + 1)
  BY <1>5 DEF MatchBefore
<1> QED
  BY <1>1, <1>5, <1>6, <1>7, <1>8 DEF UInv

(* The lookup loop and the report (lines 251-273) report only tracked     *)
(* revisions whose indexed record is missing or has count 0, after the    *)
(* indexing loop has read the whole list.                                  *)
LEMMA ReportUnusedUInv ==
  ASSUME UInv, ReportUnused
  PROVE  UInv'
<1> DEFINE Rep(t) == [name |-> t.name,
                      tag |-> IF t.tag = Blank THEN Untagged ELSE t.tag,
                      hash |-> t.hash]
<1>1. report' = {Rep(t) : t \in {u \in Tracked : IsUnused(u)}}
  BY DEF ReportUnused, Rep
<1>2. UNCHANGED <<usage, i, index>> /\ phase' = "done"
  BY DEF ReportUnused
<1>3. i = Len(usage) + 1
  BY UsageList DEF UInv, TypeOK, ReportUnused
<1>4. \A t \in Tracked : Rep(t) \in Report
  <2> SUFFICES ASSUME NEW t \in Tracked PROVE Rep(t) \in Report
    OBVIOUS
  <2>1. t.name \in Names /\ t.hash \in Hashes /\ t.tag \in STRING \cup {Blank}
    BY ConstFacts
  <2>2. (IF t.tag = Blank THEN Untagged ELSE t.tag) \in (STRING \ {Blank}) \cup {Untagged}
    BY <2>1
  <2> QED
    BY <2>1, <2>2 DEF Report, Rep
<1>5. report' \in SUBSET Report
  BY <1>1, <1>4
<1>6. \A u : IsUnused(u)' = IsUnused(u)
  BY <1>2 DEF IsUnused
<1>7. \A r \in report' :
        \E u \in Tracked : r.name = u.name /\ r.hash = u.hash /\ IsUnused(u)'
  BY <1>1, <1>6 DEF Rep
<1>8. TypeOK'
  BY <1>2, <1>5 DEF UInv, TypeOK
<1>9. \A n \in Names, h \in Hashes :
        MatchBefore(n, h, i)' = MatchBefore(n, h, i)
  BY <1>2 DEF MatchBefore
<1> QED
  BY <1>2, <1>3, <1>7, <1>8, <1>9 DEF UInv

(* UInv holds in every state of the usage reconciliation.                  *)
LEMMA UInvStep ==
  ASSUME UInv, [Next]_vars
  PROVE  UInv'
<1>1. CASE IndexRecord
  BY <1>1, IndexRecordUInv
<1>2. CASE ReportUnused
  BY <1>2, ReportUnusedUInv
<1>3. CASE ReadUsage \/ ReadFail \/ IndexCrash \/ Done \/ UNCHANGED vars
  BY <1>3, ReadUInv
<1> QED
  BY <1>1, <1>2, <1>3 DEF Next

(* The loop invariant of report_usage holds in every reachable state.     *)
THEOREM UsageInvariant == Spec => []UInv
BY InitUInv, UInvStep, PTL DEF Spec

(* Every state of the usage reconciliation is well typed: the usage list, *)
(* the position of the loop, usage_index and the report.                  *)
THEOREM UsageTypeCorrect == Spec => []TypeOK
<1>1. UInv => TypeOK
  BY DEF UInv
<1> QED
  BY UsageInvariant, <1>1, PTL

(* In every state, UInv implies UsedNeverReported: a revision reported     *)
(* unused has a missing or zero-count record in usage_index, and           *)
(* usage_index holds the last record of the export for it.                 *)
LEMMA UInvUsedNeverReported == UInv => UsedNeverReported
<1> SUFFICES ASSUME UInv, phase = "done", report # NoReport,
                    NEW t \in Tracked, Matching(t) # {},
                    IntOf[LastMatch(t).count] > 0, ReportedHash(t)
             PROVE  FALSE
  BY DEF UsedNeverReported
<1>1. i = Len(usage) + 1 /\ Len(usage) \in Nat
  BY UsageList DEF UInv
<1>2. t.name \in Names /\ t.hash \in Hashes
  BY ConstFacts
<1>3. index[<<t.name, t.hash>>] = LastMatch(t)
  BY <1>1, <1>2 DEF UInv, Matching, LastMatch
<1>4. LastIndex(Matching(t)) \in Matching(t)
  <2>1. Matching(t) \subseteq Nat /\ \A k \in Matching(t) : k <= Len(usage)
    BY <1>1 DEF Matching, MatchBefore
  <2> QED
    BY <1>1, <2>1, LastIndexIsMax
<1>5. LastMatch(t) \in UsageRecord
  <2> DEFINE k == LastIndex(Matching(t))
  <2>0. k \in MatchBefore(t.name, t.hash, Len(usage) + 1)
    BY <1>4 DEF Matching, k
  <2>1. k \in 1..Len(usage) /\ usage[k] # NotObject
    BY <2>0, <1>1 DEF MatchBefore
  <2>2. usage[k] \in UsageEntry
    BY <2>1, UsageList
  <2> QED
    BY <2>1, <2>2 DEF UsageEntry, LastMatch, k
<1>6. PICK r \in report : r.name = t.name /\ r.hash = t.hash
  BY DEF ReportedHash
<1>7. PICK u \in Tracked : r.name = u.name /\ r.hash = u.hash /\ IsUnused(u)
  BY <1>6 DEF UInv
<1>8. LastMatch(t) = None \/ IntOf[LastMatch(t).count] = 0
  BY <1>3, <1>6, <1>7 DEF IsUnused
<1>9. LastMatch(t) # None
  BY <1>5, ConstFacts
<1> QED
  BY <1>8, <1>9

(* report_usage never reports unused a tracked revision whose last usage   *)
(* record has a positive count, however many records precede it.          *)
THEOREM UsedNeverReportedHolds == Spec => []UsedNeverReported
BY UsageInvariant, UInvUsedNeverReported, PTL

=============================================================================
