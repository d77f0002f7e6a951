------------------------- MODULE MCPublicationSystem -------------------------
(* Small instances of PublicationSystem for TLC. *)
EXTENDS PublicationSystem, TLC

CONSTANTS photo, clip, h1, h2, h3, o1, o2, o3

\* A photo from the meeting library and an uploaded clip: the first draft shows
\* the photo, the second the clip, the third both.
MCSha == (photo :> "p") @@ (clip :> "c")
TwoDrafts   == <<{photo}, {clip}>>
ThreeDrafts == <<{photo}, {clip}, {photo, clip}>>
MCOrder == <<photo, clip>>

MCSymmetry == Permutations(Handlers) \cup Permutations(Operations)
=============================================================================
