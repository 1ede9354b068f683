-------------------------- MODULE MCResumableUpload --------------------------
(* Instances of ResumableUpload for TLC: versions of a file of which two    *)
(* have one size, longer than a chunk; and a file that grows.               *)
EXTENDS ResumableUpload

ThreeVersions == <<3, 3, 2>>
=============================================================================
