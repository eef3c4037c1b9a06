---------------------------- MODULE MCBootstrap ----------------------------
(* A small instance of Bootstrap: two names, the default version and "v2", *)
(* and three starting locations: a canonical slot, a file at the root that *)
(* sorts after it, and a four-segment path that is_versioned_path accepts. *)
EXTENDS Bootstrap, TLC

MCNames == {"a", "b"}
MCVersions == {"v1.0.0", "v2"}
MCDefaultVersion == "v1.0.0"
MCBodies == {1, 2}
MCInitPaths == {<<"a", "v2", "a.js">>, <<"a.js">>, <<"lib", "b", "v2", "b.js">>}
MCVerSegs == [v \in MCVersions |-> <<v>>]
MCNameSegs == [n \in MCNames |-> <<n>>]
MCJsSegs == [n \in MCNames |-> <<FileName(n)>>]

(* The starting contents of the refinement run: one body, so two files    *)
(* differ only in what they declare ("" and "v1.0.0" are one tag).         *)
MCRefContents == {c \in Content : c.body = 1}

(* Python's code-point order of every segment and version of the instance. *)
MCRank ==
  "a" :> 1 @@ "a.js" :> 2 @@ "b" :> 3 @@ "b.js" :> 4 @@ "lib" :> 5
  @@ "v1.0.0" :> 6 @@ "v2" :> 7
MCRankBound == 7

(* A second instance whose non-default version contains a path separator, *)
(* so that root / name / version makes two directory levels of it.        *)
MCSlashVersions == {"v1.0.0", "r/1"}
MCSlashVerSegs == "v1.0.0" :> <<"v1.0.0">> @@ "r/1" :> <<"r", "1">>
MCSlashInitPaths == {<<"a.js">>, <<"lib", "b", "v2", "b.js">>}
MCSlashRank ==
  "1" :> 1 @@ "a" :> 2 @@ "a.js" :> 3 @@ "b" :> 4 @@ "b.js" :> 5
  @@ "lib" :> 6 @@ "r" :> 7 @@ "r/1" :> 8 @@ "v1.0.0" :> 9 @@ "v2" :> 10
MCSlashRankBound == 10

(* A third instance whose name contains a path separator: root / "t/x"    *)
(* is two directories, and f"t/x.js" is a directory and the file x.js.     *)
MCSlashNames == {"t/x"}
MCSlashNameSegs == "t/x" :> <<"t", "x">>
MCSlashJsSegs == "t/x" :> <<"t", "x.js">>
MCSlashNameVersions == {"v1.0.0"}
MCSlashNameVerSegs == [v \in MCSlashNameVersions |-> <<v>>]
MCSlashNameInitPaths == {<<"x.js">>}
MCSlashNameRank ==
  "t" :> 1 @@ "v1.0.0" :> 2 @@ "x" :> 3 @@ "x.js" :> 4
MCSlashNameRankBound == 4

(* Starting locations where a loose file sorts before the file at its     *)
(* target: a/a.js comes before a/v2/a.js in the sorted listing.            *)
MCPendingInitPaths == {<<"a", "a.js">>, <<"a", "v2", "a.js">>}
=============================================================================
