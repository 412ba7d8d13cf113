------------------------------ MODULE MCS3Client ------------------------------
(* Instances of S3Client for TLC.                                          *)
EXTENDS S3Client

\* Version 1 goes up in one request, versions 2 and 3 (of the same size) in
\* two parts.
Sizes == <<1, 2, 2, 3>>
=============================================================================
