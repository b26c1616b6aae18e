----------------------------- MODULE ImageFiles -----------------------------
(* save_image() (tools/goodix_handshake.py): an image becomes a .raw and a .pgm
   file of one new name, or nothing. `Ok` and `Raise` are what the caller makes
   of a call that works and of its OSError; ReaderRun says where Ctrl-C falls. *)

Images == {"raw", "pgm"}

VARIABLES files,   \* per file: "none", of this run "part" or "whole", of an earlier
                   \* run "old", and "lost" for an old one destroyed
          written, \* the files noted for clean-up
          imageSaved, \* report['image_saved'], or "skipped" (image_save_skipped)
          leaked   \* history: Ctrl-C between creating and noting or in the clean-up,
                   \* or a file that could not be removed

imageVars == <<files, written, imageSaved, leaked>>

ImageTypeOK == /\ files \in [Images -> {"none", "part", "whole", "old", "lost"}]
               /\ written \subseteq Images
               /\ imageSaved \in {"absent", "no", "yes", "skipped"} /\ leaked \in BOOLEAN

ImageInit == /\ files = [f \in Images |-> "none"] /\ written = {}
             /\ imageSaved = "absent" /\ leaked = FALSE

\* The loop's file: .raw first; the one opened is not noted yet, the one filled is.
ToOpen == IF "raw" \in written THEN "pgm" ELSE "raw"
ToFill == IF "pgm" \in written THEN "pgm" ELSE "raw"

\* O_CREAT | O_EXCL: an older file of the name makes it fail.
Create(Ok, Raise) ==
  \/ files' = [files EXCEPT ![ToOpen] = "part"] /\ Ok
  \/ files' \in {files, [files EXCEPT ![ToOpen] = "old"]} /\ Raise

Note(Ok) == written' = written \cup {ToOpen} /\ Ok

\* write, close and chown.
Fill(Ok, Raise) ==
  \/ files' = [files EXCEPT ![ToFill] = "whole"] /\ Ok
  \/ files' \in {files, [files EXCEPT ![ToFill] = "whole"]} /\ Raise

\* The except block removes what was noted; `failing` files stay.
Removed(f) == IF files[f] = "old" THEN "lost" ELSE "none"
CleanUp(failing) ==
  /\ files' = [f \in Images |-> IF f \in written \ failing THEN Removed(f) ELSE files[f]]
  /\ leaked' = (leaked \/ failing # {})
=============================================================================
