--------------------------- MODULE ArtifactStore ---------------------------
(***************************************************************************)
(* ArtifactStore.write of tracking/artifacts.py: an artifact is written to *)
(* a temporary file beside result.json, flushed to disk and put in its     *)
(* place by a rename; the finally clause removes what is left of it.       *)
(* Nothing happens between the calls, so a write is idle, or past one of   *)
(* its system calls.                                                       *)
(***************************************************************************)
CONSTANTS
  None,
  Torn     \* the content of a file whose data the disk had not taken

VARIABLES
  wpc,      \* "idle", "fill": the temporary file exists, "replace": it is complete
  temp,     \* None, or how much of it is safe: "part", "cached", "synced"
  saved,    \* the content of result.json, or None
  durable   \* what result.json may hold after the power fails, by the rename
            \* being on disk or not

storeVars == <<wpc, temp, saved, durable>>

StoreInit == wpc = "idle" /\ temp = None /\ saved = None /\ durable = {None}

(* tempfile.mkstemp                                                        *)
MakeTemporary ==
  /\ wpc = "idle" /\ wpc' = "fill"
  /\ temp' = "part"
  /\ UNCHANGED <<saved, durable>>

(* Mutant: the stream is flushed and not synced.                           *)
FillUnsynced ==
  /\ wpc = "fill" /\ wpc' = "replace"
  /\ temp' = "cached"
  /\ UNCHANGED <<saved, durable>>

(* stream.write, flush, os.fsync and the end of the with statement         *)
Fill ==
  /\ wpc = "fill" /\ wpc' = "replace"
  /\ temp' = "synced"
  /\ UNCHANGED <<saved, durable>>

(* os.replace; the file to be unlinked is no longer there.                 *)
Replace(artifact) ==
  /\ wpc = "replace" /\ wpc' = "idle"
  /\ temp' = None
  /\ saved' = artifact
  /\ durable' = durable \cup {IF temp = "synced" THEN artifact ELSE Torn}

(* An exception at any point: OSError becomes TraceWriteError.  The unlink  *)
(* may fail, or the name be not known yet; then a file is left that nobody *)
(* reads.                                                                  *)
Abandon ==
  /\ wpc' = "idle" /\ temp' = None
  /\ UNCHANGED <<saved, durable>>
=============================================================================
