----------------------------- MODULE MCTextOutput -----------------------------
(* Instances of TextOutput for TLC.                                        *)
EXTENDS TextOutput

\* Everything installed, each kind of command alone, and nothing.
SomeToolsets ==
  {{"xclip", "xsel", "wl-copy", "wl-paste"}, {"xsel", "wl-copy"}, {}}
===============================================================================
