--------------------------- MODULE MCUploadQuota ---------------------------
(* A small budget for TLC. *)
EXTENDS UploadQuota, TLC

Interchangeable == Permutations(Uploader)

=============================================================================
