----------------------------- MODULE MCEnricher -----------------------------
(***************************************************************************)
(* Instances of Enricher for TLC.                                          *)
(***************************************************************************)
EXTENDS Enricher

CONSTANTS e1, e2, e3, e4, v1, v2, v3

\* The first three events are of three videos,  the fourth is of v1 again, with the title of
\* a music video.
Watched == [e \in Events |-> CASE e \in {e1, e4} -> v1 [] e = e2 -> v2 [] OTHER -> v3]
\* Two partitions: the second event of v1 is alone in its own.
Order == {<<e1, e2>>, <<e1, e3>>, <<e2, e3>>} \cap (Events \X Events)
MusicTitles == {e4} \cap Events
Facts == [v \in Videos |-> IF v = v2 THEN {"channel_vevo", "category_id"} ELSE {}]
=============================================================================
