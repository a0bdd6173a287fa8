----------------------------- MODULE MCPipeline -----------------------------
(* Values of the constants of Pipeline for model checking. *)
EXTENDS Pipeline, TLC

CONSTANTS a1, a2, w1, w2, r1, r2

AllImages == [a \in Assets |-> "image"]
AllVideos == [a \in Assets |-> "video"]
ImagesAndVideo == [a \in Assets |-> IF a \in {a1, a2} THEN "image" ELSE "video"]
AllDifferent == [a \in Assets |-> a]
AllSame == [a \in Assets |-> "c"]
TwoSame == [a \in Assets |-> IF a \in {a1, a2} THEN "c" ELSE a]

OneRole == <<"thumbnail">>
TwoVideoRoles == <<"poster", "transcoded">>

ForeignAsset == {[kind |-> "asset", asset |-> a1]}
ForeignMalformed == {[kind |-> "malformed", asset |-> a1]}

Symmetry == Permutations(Workers) \cup Permutations(Requests)
=============================================================================
