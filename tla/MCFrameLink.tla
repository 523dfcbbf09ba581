----------------------------- MODULE MCFrameLink -----------------------------
(* A model-checking instance of FrameLink: frames below, at and over a limit *)
(* of three bytes.                                                           *)
EXTENDS FrameLink

MCEvents == {<<"x">>, <<"x", "x", "x">>, <<"x", "x", "x", "x">>}
=============================================================================
