------------------------------- MODULE MCOverlay -------------------------------
EXTENDS Overlay

================================================================================
