------------------------- MODULE MCMetadataService -------------------------
(* Instances of MetadataService for TLC. *)
EXTENDS MetadataService, TLC

\* Folder names without LIKE wildcards: a folder's prefix matches its own files.
OwnFilesOnly == [f \in Folder |-> {f}]

\* One folder's name, read as a LIKE pattern, matches the files of every other.
Wild == CHOOSE f \in Folder : TRUE
Aliasing == [f \in Folder |-> IF f = Wild THEN Folder ELSE {f}]
=============================================================================
