--------------------------- MODULE MCPublicWxPost ---------------------------
(* A small instance of PublicWxPost for TLC. *)
EXTENDS PublicWxPost, TLC

CONSTANTS photo, clip, h1, h2

\* A photo from the meeting library and an uploaded clip: the first draft shows
\* the photo, the second both.
MCSha == (photo :> "p") @@ (clip :> "c")
TwoDrafts == <<{photo}, {photo, clip}>>

HandlerSymmetry == Permutations(Handlers)
=============================================================================
