------------------------------- MODULE Sheets -------------------------------
(***************************************************************************)
(* The source files of a behaviour and the batch each resolves to.  A file *)
(* is content-addressed, so its batch never changes.                       *)
(***************************************************************************)
EXTENDS Batches

CONSTANTS
    Files,  \* source files, by source_file_sha256
    Sheet   \* Sheet[f]: the observations of file f

ASSUME SheetsAreBatches == Sheet \in [Files -> Seq(Observation)]
=============================================================================
