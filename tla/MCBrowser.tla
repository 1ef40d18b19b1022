------------------------------- MODULE MCBrowser -------------------------------
(***************************************************************************)
(* The player page's components for TLC; README.md says why these values   *)
(* are enough.  A governed and an ungoverned session with a fault and a    *)
(* click in each; two attempts to end a session, with and without the      *)
(* manager's tab; two videos of two sizes; fewer touches than numbers; two *)
(* gamepads, in and out twice; the page loaded for a session, and for      *)
(* another; reports across a new peer and a new connection, and reports of *)
(* the path that cross failures and one another; videos and players of all *)
(* small sizes, and an axis about its noise; eyes that move, and           *)
(* controllers that come and go.                                           *)
(***************************************************************************)
EXTENDS Browser

\* An eye, and where it is once the headset was adjusted.
TwoPositions == {<<0, 0, 0>>, <<1, 0, 0>>}
=============================================================================
