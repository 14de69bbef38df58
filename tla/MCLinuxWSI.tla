------------------------------ MODULE MCLinuxWSI ------------------------------
(***************************************************************************)
(* Instances of LinuxWSI and FrameCodec: two frames, of which one is worth *)
(* compressing, for the windows; every frame of up to MaxSize bytes of two *)
(* values for the code.                                                    *)
(***************************************************************************)
EXTENDS LinuxWSI

CONSTANT MaxSize   \* bound: size of the frames that are coded

Plain   == <<1, 2, 1, 2, 1, 2, 1, 2>>
Flat    == <<1, 1, 1, 1, 1, 1, 1, 1>>
TwoFrames == {Plain, Flat}

SmallFrames == UNION {[1 .. n -> {1, 2}] : n \in 0 .. MaxSize}

AllSmallFrames == \A s \in SmallFrames : CodedFaithfully(s)

\* Whatever small frame the server sends to an open window, the client decodes
\* that frame, however runs straddle the largest count and literals swallow
\* runs; and a payload cut short is never taken for a frame.
RoundTrip == kind # "none" => AllSmallFrames
=============================================================================
