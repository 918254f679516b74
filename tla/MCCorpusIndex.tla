--------------------------- MODULE MCCorpusIndex ---------------------------
(* Three corpora: two of two entries with the same events in the other order, *)
(* and one of three entries with one other event; in the first an entry has   *)
(* no event, in the second and the third two entries share an id.  To the     *)
(* hashed embedder two texts are alike, and one of its signatures is blank.   *)
EXTENDS CorpusIndex

CONSTANTS textA, textB, textC, id1, id2

Line(id, text, event) == [id |-> id, text |-> text, event |-> event]

SomeCorpora ==
  {<<Line(id1, textA, 2), Line(id2, textB, Unnamed)>>,
   <<Line(id1, textB, Unnamed), Line(id1, textA, 2)>>,
   <<Line(id2, textB, 3), Line(id1, textC, 3), Line(id2, textA, 3)>>}

SomeTranscripts == {<<1, 2>>, <<2, 3, 1, 3>>}

LineDistance ==
  [p \in Signatures \X Signatures |-> IF p[1] <= p[2] THEN p[2] - p[1] ELSE p[1] - p[2]]

SomeEncoding ==
  [p \in Embedders \X Texts |->
     CASE p[1] = "hashed" -> IF p[2] = textB THEN 0 ELSE 2
       [] p[2] = textA    -> 0
       [] p[2] = textB    -> 1
       [] OTHER           -> 2]

=============================================================================
