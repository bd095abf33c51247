-------------------------- MODULE MCRemoteImage --------------------------
(* A five-byte image in chunks of two, two and one bytes.  The file that   *)
(* replaces it has the same length and differs only in its tag.            *)
EXTENDS RemoteImage

Sizes == <<5, 5>>
Tags == <<"a", "b">>
=============================================================================
