------------------------------ MODULE MCUsage ------------------------------
(* Usage on a registry of two strategies, three tracked revisions, and   *)
(* usage exports of up to two records.                                     *)
EXTENDS Usage, TLC

MCNames == {"a", "b"}
MCHashes == {"h1", "h2"}
MCTracked == {[name |-> "a", tag |-> "v1.0.0", hash |-> "h1"],
              [name |-> "a", tag |-> "", hash |-> "h2"],
              [name |-> "b", tag |-> "v2", hash |-> "h1"]}
\* " A " arrives with whitespace and capitals; "" is a record without strategy.
MCRawNames == {"a", " A ", ""}
MCNorm == "a" :> "a" @@ " A " :> "a" @@ "" :> ""
\* The non-integer JSON values of "count" are model values: the string "2",
\* the string "x", null, and an absent field.
CONSTANTS CountStr2, CountStrX, CountNull, CountMissing

\* 1 and "2" parse; "x" and null fail to parse; -1 is a negative count.
MCRawCounts == {1, -1, 0, CountStr2, CountStrX, CountNull, CountMissing}
MCIntOf == 1 :> 1 @@ -1 :> -1 @@ 0 :> 0 @@ CountStr2 :> 2 @@ CountStrX :> 0
           @@ CountNull :> 0 @@ CountMissing :> 0
=============================================================================
