------------------------------- MODULE Usage -------------------------------
(***************************************************************************)
(* The usage reconciliation at the end of main (bootstrap_strategies.py):  *)
(* read_usage fetches the usage export, and when it is a non-empty list    *)
(* report_usage indexes it by (strategy, hash), last record winning, and   *)
(* reports every tracked revision of registry.json whose record is missing *)
(* or whose count is 0.                                                    *)
(*                                                                         *)
(* A usage record is a record of its three JSON fields as they arrive;     *)
(* Norm and IntOf give what str(...).strip().lower() and int(...) (with    *)
(* the except of lines 258-261) make of them.                              *)
(***************************************************************************)
EXTENDS Naturals, Integers, Sequences, FiniteSets

CONSTANTS
  Names,       \* registry names
  Hashes,      \* content hashes
  Tracked,     \* the (name, tag, hash) of every hashes entry of registry.json
  RawNames,    \* values of a record's "strategy" field
  RawCounts,   \* values of a record's "count" field, absent included
  Norm,        \* str(strategy).strip().lower() (line 245)
  IntOf,       \* int(count), 0 on TypeError or ValueError (lines 256-261)
  MaxUsage,    \* longest usage export considered
  NotObject,   \* a usage entry that is not a JSON object (a string, a list)
  None, NoReport, Untagged

(* The empty string: what .strip() leaves of a blank field, and a missing *)
(* "tag" of a hashes entry.                                                *)
Blank == ""

UsageRecord == [strategy: RawNames, hash: Hashes \cup {Blank}, count: RawCounts]

ASSUME UsageAssumption ==
  /\ Norm \in [RawNames -> Names \cup {Blank}]
  /\ IntOf \in [RawCounts -> Int]
  /\ Tracked \subseteq [name: Names, tag: STRING \cup {Blank}, hash: Hashes]
  /\ MaxUsage \in Nat
  /\ None \notin UsageRecord
  /\ NotObject \notin UsageRecord
  /\ Blank \notin Names \cup Hashes

VARIABLES
  usage,   \* the list read_usage returns (lines 208-239)
  i,       \* the next record report_usage indexes
  index,   \* usage_index: name -> hash -> record
  report,  \* the unused revisions reported, or NoReport
  phase

vars == <<usage, i, index, report, phase>>

\* A reported tag is never blank: "(untagged)" stands in for a missing one.
UsageEntry == UsageRecord \cup {NotObject}

Report == [name: Names, tag: (STRING \ {Blank}) \cup {Untagged}, hash: Hashes]

TypeOK ==
  /\ usage \in Seq(UsageEntry)
  /\ i \in 1..(MaxUsage + 1)
  /\ index \in [Names \X Hashes -> UsageRecord \cup {None}]
  /\ report \in (SUBSET Report) \cup {NoReport}
  /\ phase \in {"read", "index", "done", "failed", "crashed"}

Init ==
  /\ usage \in UNION {[1..k -> UsageEntry] : k \in 0..MaxUsage}
  /\ i = 1
  /\ index = [k \in Names \X Hashes |-> None]
  /\ report = NoReport
  /\ phase = "read"

(* read_usage and extract_usage_from_payload succeed (lines 208-239); main *)
(* calls report_usage only when the list is non-empty (lines 304-306).     *)
ReadUsage ==
  /\ phase = "read"
  /\ phase' = IF usage = <<>> THEN "done" ELSE "index"
  /\ UNCHANGED <<usage, i, index, report>>

(* The fetch, the file read or the JSON parse fails, or the payload has no *)
(* usage array (lines 215-216, 223-224, 231-238): main exits with 1.       *)
ReadFail ==
  /\ phase = "read"
  /\ phase' = "failed"
  /\ UNCHANGED <<usage, i, index, report>>

(* Mutant: setdefault keeps the first record of a (name, hash).           *)
IndexRecordKeepFirst ==
  LET e == usage[i]
      n == Norm[e.strategy]
  IN
  /\ phase = "index"
  /\ i <= Len(usage)
  /\ e # NotObject
  /\ index' = IF n # Blank /\ e.hash # Blank /\ index[<<n, e.hash>>] = None
              THEN [index EXCEPT ![<<n, e.hash>>] = e]
              ELSE index
  /\ i' = i + 1
  /\ UNCHANGED <<usage, report, phase>>

(* One iteration of the indexing loop of report_usage, lines 244-249:     *)
(* records with a blank name or hash are skipped, a later record for the   *)
(* same (name, hash) replaces an earlier one.                              *)
IndexRecord ==
  LET e == usage[i]
      n == Norm[e.strategy]
  IN
  /\ phase = "index"
  /\ i <= Len(usage)
  /\ e # NotObject
  /\ index' = IF n # Blank /\ e.hash # Blank
              THEN [index EXCEPT ![<<n, e.hash>>] = e]
              ELSE index
  /\ i' = i + 1
  /\ UNCHANGED <<usage, report, phase>>

(* entry.get on an entry that is not a dict raises AttributeError (line   *)
(* 245), which main does not catch: the process dies with a traceback.     *)
IndexCrash ==
  /\ phase = "index"
  /\ i <= Len(usage)
  /\ usage[i] = NotObject
  /\ phase' = "crashed"
  /\ UNCHANGED <<usage, i, index, report>>

(* A tracked revision is unused when it has no record or its count reads  *)
(* as 0 (lines 254-262).                                                   *)
IsUnused(t) ==
  \/ index[<<t.name, t.hash>>] = None
  \/ IntOf[index[<<t.name, t.hash>>].count] = 0

(* Mutant: the tag is reported as it is, without the "(untagged)" default. *)
ReportUnusedRawTag ==
  /\ phase = "index"
  /\ i > Len(usage)
  /\ report' = {[name |-> t.name, tag |-> t.tag, hash |-> t.hash] :
                  t \in {u \in Tracked : IsUnused(u)}}
  /\ phase' = "done"
  /\ UNCHANGED <<usage, i, index>>

(* The lookup loop and the report of report_usage, lines 251-273.          *)
ReportUnused ==
  /\ phase = "index"
  /\ i > Len(usage)
  /\ report' = {[name |-> t.name,
                 tag |-> IF t.tag = Blank THEN Untagged ELSE t.tag,
                 hash |-> t.hash] : t \in {u \in Tracked : IsUnused(u)}}
  /\ phase' = "done"
  /\ UNCHANGED <<usage, i, index>>

Done ==
  /\ phase \in {"done", "failed", "crashed"}
  /\ UNCHANGED vars

Next == ReadUsage \/ ReadFail \/ IndexRecord \/ IndexCrash \/ ReportUnused \/ Done

Spec == Init /\ [][Next]_vars

-----------------------------------------------------------------------------
(* The record of the usage export that speaks for tracked revision t, by   *)
(* the spec's reading (4.7): the last one with t's name and hash.          *)
(* MatchBefore(n, h, j): the records before position j with name n and    *)
(* hash h.                                                                 *)
MatchBefore(n, h, j) ==
  {k \in 1..(j - 1) :
     /\ usage[k] # NotObject
     /\ Norm[usage[k].strategy] = n
     /\ usage[k].hash = h}
LastIndex(S) == CHOOSE k \in S : \A j \in S : j <= k
Matching(t) == MatchBefore(t.name, t.hash, Len(usage) + 1)
LastMatch(t) == usage[LastIndex(Matching(t))]

ReportedHash(t) == \E r \in report : r.name = t.name /\ r.hash = t.hash

(* Safety (spec section 7: a usage source of the wrong shape aborts the   *)
(* run with one descriptive message): the usage step never ends other than *)
(* with a report, a skip, or an error main reports and exits 1 on.         *)
UsageEndsHandled == phase \in {"read", "index", "done", "failed"}

(* Safety (spec section 8): a tracked revision whose last usage record     *)
(* has a positive count is never reported unused, however many earlier    *)
(* records for it the export holds.                                        *)
UsedNeverReported ==
  phase = "done" /\ report # NoReport =>
    \A t \in Tracked :
      Matching(t) # {} /\ IntOf[LastMatch(t).count] > 0 => ~ReportedHash(t)

(* The inductive strengthening of TypeOK and UsedNeverReported: the index  *)
(* loop of report_usage has read the records before i, and usage_index    *)
(* holds for every (name, hash) the last of them (the assignment of line   *)
(* 249 overwrites); a printed report names only revisions whose indexed    *)
(* record is missing or has count 0.                                       *)
UInv ==
  /\ TypeOK
  /\ Len(usage) <= MaxUsage
  /\ i <= Len(usage) + 1
  /\ \A n \in Names, h \in Hashes :
       index[<<n, h>>] = IF MatchBefore(n, h, i) = {} THEN None
                         ELSE usage[LastIndex(MatchBefore(n, h, i))]
  /\ report # NoReport =>
       /\ phase = "done" /\ i = Len(usage) + 1
       /\ \A r \in report :
            \E u \in Tracked : r.name = u.name /\ r.hash = u.hash /\ IsUnused(u)

(* Safety (spec 4.7 and section 8): a tracked revision whose last usage    *)
(* record has a count <= 0 or an unparseable one is always reported.       *)
NonPositiveReported ==
  phase = "done" /\ report # NoReport =>
    \A t \in Tracked :
      Matching(t) # {} /\ IntOf[LastMatch(t).count] <= 0 => ReportedHash(t)

(* Safety (spec 4.7 and section 8): once a usage export has been read, a   *)
(* tracked revision with no usage record is always reported unused.        *)
UnmatchedReported ==
  phase = "done" =>
    \A t \in Tracked : Matching(t) = {} => report # NoReport /\ ReportedHash(t)

=============================================================================
