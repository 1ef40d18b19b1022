---------------------------- MODULE MCSignalling ----------------------------
(***************************************************************************)
(* Signalling for TLC: the viewers of one session at one streamer, which   *)
(* the .cfg gives.  MCServer has a governed and an unmanaged viewer at a   *)
(* streamer with one place.                                                *)
(***************************************************************************)
EXTENDS Signalling, TLC

CONSTANTS p1, p2

\* One policy that prefers VP9 and allows H264.
PrefersVP9 == {[default |-> "VP9", allowed |-> {"VP9", "H264"}]}

\* The owners are of one kind.
Symmetry == Permutations({p1, p2})

\* One viewer has come and gone: of two owners and one without a ticket, two come.
AfterOne ==
  \E gone \in Owners \cup Unmanaged :
    /\ conn = [p \in Players |-> IF p = gone THEN [Idle EXCEPT !.sock = "closed"] ELSE Idle]
    /\ registry = <<>> /\ online = <<>>
    /\ subscribers = [u \in Streamers |-> {}]
    /\ peers = [u \in Streamers |-> {}]

SpecAfterOne == AfterOne /\ [][Next]_vars

=============================================================================
