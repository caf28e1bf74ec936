--------------------------- MODULE MCApeSocketJobs ---------------------------
(* Small instances of ApeSocketJobs; the numbers are in the .cfg files.    *)
EXTENDS ApeSocketJobs

=============================================================================
