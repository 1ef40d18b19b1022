------------------------------- MODULE MCServer -------------------------------
(***************************************************************************)
(* The server's components for TLC; README.md says why these values are    *)
(* enough.  A governed viewer and another that is in its way; a streamer   *)
(* that comes and goes; two sockets of one customer, that overlap and      *)
(* leave gaps; as many ICE records as viewers, and media peers that exceed *)
(* them; two customers at admission; a player that answers as late as it   *)
(* may; a lifetime of TURN credentials that ends while the peers are       *)
(* connected; and three streamers that may ask for one name, or for its    *)
(* numbered form.                                                          *)
(***************************************************************************)
EXTENDS Server

\* One policy that prefers VP9 and allows H264.
PrefersVP9 == {[default |-> "VP9", allowed |-> {"VP9", "H264"}]}

OneRequest == [p \in Places |-> "r1"]

Names == {<<"s", <<>>>>, <<"s", <<1>>>>, <<"s", <<2>>>>}

Prefix == <<"U", <<>>>>
=============================================================================
