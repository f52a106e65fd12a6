---------------------------- MODULE MCRecognition ----------------------------
(* Instances of RecognitionSession for TLC.                                *)
EXTENDS RecognitionSession

\* Enough to agree, to grow, to shrink, to correct and to disagree.
ShortTexts == {<<>>, <<"a">>, <<"b">>, <<"a", "a">>, <<"a", "b">>, <<"a", "b", "a">>,
               <<"a", "b", "b">>, <<"b", "a", "b">>}
===============================================================================
