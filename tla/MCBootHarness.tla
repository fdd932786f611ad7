--------------------------- MODULE MCBootHarness ---------------------------
EXTENDS BootHarness

(* Two markers, of which the second starts like a test result and the first *)
(* is a prefix of the second.                                               *)
MCMarkers == << <<"t">>, <<"t", "t">> >>
MCResult == <<"t", "t">>
=============================================================================
