------------------------- MODULE MCLiveKitRetriever -------------------------
(* Two utterances, one with a partial that is asked about and one whose      *)
(* partial is too short.                                                     *)
EXTENDS LiveKitRetriever

MCShort == {<<"observe", 2, 1>>}

=============================================================================
