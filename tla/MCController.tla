----------------------------- MODULE MCController -----------------------------
(* Instances of Controller for TLC.                                        *)
EXTENDS Controller

AllSettings == Settings

\* Enough to move between two routes and to switch listening off; the user may
\* switch it on by hand.
TwoRoutes == {[listening |-> "on", route |-> "r1", tuning |-> "t1"],
              [listening |-> "off", route |-> "r2", tuning |-> "t1"]}
===============================================================================
