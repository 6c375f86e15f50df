----------------------------- MODULE BundleFile -----------------------------
(***************************************************************************)
(* A workbook file and the three that write it: bundle.py in the worker of *)
(* the launcher, the same library in a desktop script, and Excel.  A       *)
(* writer of bundles copies the archive into <file>.xlpod.tmp, which all   *)
(* of them share, and renames it over the workbook.  Files behave as on    *)
(* Windows: a name can be opened twice for writing but not be renamed      *)
(* while another process has it open.                                      *)
(***************************************************************************)
EXTENDS Naturals, Sequences

CONSTANTS
  Processes,  \* that write bundles
  Bundles,    \* what a bundle can hold
  MaxCells,   \* bound: saves of Excel
  None

\* What an archive holds, and the temporary file with what was last done to it.
Image    == [cells : 0..MaxCells, bundle : Bundles \cup {None}]
TempFile == [image : Image, by : Processes, state : {"partial", "whole", "spoiled"}]

ASSUME BundleFileAssumption ==
  /\ MaxCells \in Nat
  /\ None \notin Bundles
  /\ None \notin Image
  /\ None \notin TempFile

VARIABLES
  file,     \* the workbook
  temp,     \* <file>.xlpod.tmp
  writer,   \* each process: its step of BundleWriter.write and what it read
  excel,    \* the image Excel has in memory, or None when it is closed
  saved,    \* history variable: the newest cells Excel has saved
  raced,    \* history variable: Excel saved while a write was under way
  overlap   \* history variable: two processes used the temporary file at once

fileVars == <<file, temp, writer, excel, saved, raced, overlap>>

Steps == {"idle", "read", "open", "closed", "replaced"}

FileInit ==
  /\ file = [image |-> [cells |-> 0, bundle |-> None], whole |-> TRUE]
  /\ temp = None
  /\ writer = [p \in Processes |-> [at |-> "idle", image |-> file.image]]
  /\ excel = None
  /\ saved = 0
  /\ raced = FALSE
  /\ overlap = FALSE

FileTypeOK ==
  /\ file \in [image : Image, whole : BOOLEAN]
  /\ temp \in {None} \cup TempFile
  /\ writer \in [Processes -> [at : Steps, image : Image]]
  /\ excel \in {None} \cup Image
  /\ saved \in 0..MaxCells
  /\ raced \in BOOLEAN
  /\ overlap \in BOOLEAN

-----------------------------------------------------------------------------
(* BundleWriter.write                                                      *)

At(p) == writer[p].at
To(p, step) == writer' = [writer EXCEPT ![p].at = step]
Others(p, steps) == \E q \in Processes \ {p} : At(q) \in steps

\* Every part of the archive is copied but the bundle, which is replaced.
\* The archive is read through one handle; one that is no zip is an error, and
\* nothing is written.
BeginWrite(p, bundle) ==
  /\ At(p) = "idle"
  /\ file.whole
  /\ writer' = [writer EXCEPT ![p] =
       [at |-> "read", image |-> [file.image EXCEPT !.bundle = bundle]]]
  /\ UNCHANGED <<file, temp, excel, saved, raced, overlap>>

\* Mutant: the workbook is rewritten in place.
CreateInPlace(p) ==
  /\ At(p) = "read"
  /\ To(p, "open")
  /\ temp' = [image |-> writer[p].image, by |-> p, state |-> "partial"]
  /\ file' = [image |-> writer[p].image, whole |-> FALSE]
  /\ overlap' = (overlap \/ Others(p, {"open", "closed"}))
  /\ UNCHANGED <<excel, saved, raced>>

\* Mutant: a temporary file that was left behind is taken for this write's.
CreateTempKept(p) ==
  /\ At(p) = "read"
  /\ To(p, "open")
  /\ temp' = IF temp # None THEN [temp EXCEPT !.by = p, !.state = "partial"]
             ELSE [image |-> writer[p].image, by |-> p, state |-> "partial"]
  /\ overlap' = (overlap \/ Others(p, {"open", "closed"}))
  /\ UNCHANGED <<file, excel, saved, raced>>

\* Opening the temporary file empties it, whoever wrote it.
CreateTemp(p) ==
  /\ At(p) = "read"
  /\ To(p, "open")
  /\ temp' = [image |-> writer[p].image, by |-> p, state |-> "partial"]
  /\ overlap' = (overlap \/ Others(p, {"open", "closed"}))
  /\ UNCHANGED <<file, excel, saved, raced>>

\* The last part and the directory of the archive are written.  Over the
\* parts of another process that makes no archive at all.
CloseTemp(p) ==
  /\ At(p) = "open"
  /\ To(p, "closed")
  /\ temp' = [temp EXCEPT !.state =
       IF temp.by = p /\ temp.state = "partial" THEN "whole" ELSE "spoiled"]
  /\ UNCHANGED <<file, excel, saved, raced, overlap>>

\* Mutant: a rename that cannot be done is passed over.
CannotReplaceSilently(p) ==
  /\ At(p) = "closed"
  /\ temp = None \/ Others(p, {"open"}) \/ excel # None
  /\ To(p, "replaced")
  /\ UNCHANGED <<file, temp, excel, saved, raced, overlap>>

\* The rename fails when another renamed the file, has it open, or when
\* Excel has the workbook open, which it may or may not lock.
CannotReplace(p) ==
  /\ At(p) = "closed"
  /\ temp = None \/ Others(p, {"open"}) \/ excel # None
  /\ To(p, "idle")
  /\ UNCHANGED <<file, temp, excel, saved, raced, overlap>>

Replace(p) ==
  /\ At(p) = "closed"
  /\ temp # None
  /\ ~Others(p, {"open"})
  /\ To(p, "replaced")
  /\ file' = [image |-> temp.image, whole |-> temp.state = "whole"]
  /\ temp' = None
  /\ UNCHANGED <<excel, saved, raced, overlap>>

Finish(p) ==
  /\ At(p) = "replaced"
  /\ To(p, "idle")
  /\ UNCHANGED <<file, temp, excel, saved, raced, overlap>>

\* The process is killed; its handles are closed and its files stay.
Die(p) ==
  /\ At(p) # "idle"
  /\ To(p, "idle")
  /\ UNCHANGED <<file, temp, excel, saved, raced, overlap>>

WriteStep(p) ==
  CreateTemp(p) \/ CloseTemp(p) \/ Replace(p) \/ CannotReplace(p) \/ Finish(p)

-----------------------------------------------------------------------------
(* Excel                                                                   *)

ExcelOpens ==
  /\ excel = None
  /\ file.whole
  /\ excel' = file.image
  /\ UNCHANGED <<file, temp, writer, saved, raced, overlap>>

\* The user edits and saves: the package Excel holds, bundle included,
\* takes the place of the file.
ExcelSaves ==
  /\ excel # None
  /\ saved < MaxCells
  /\ saved' = saved + 1
  /\ excel' = [excel EXCEPT !.cells = saved + 1]
  /\ file' = [image |-> excel', whole |-> TRUE]
  /\ raced' = (raced \/ \E p \in Processes : At(p) \in {"read", "open", "closed"})
  /\ UNCHANGED <<temp, writer, overlap>>

ExcelCloses ==
  /\ excel # None
  /\ excel' = None
  /\ UNCHANGED <<file, temp, writer, saved, raced, overlap>>

-----------------------------------------------------------------------------
(* Properties                                                              *)

\* The workbook is a whole archive at every moment, wherever a writer was
\* killed; only two processes in the temporary file at once can spoil it.
FileWhole == file.whole \/ overlap

\* The cells are those Excel saved last, unless it saved between the read
\* and the rename of a bundle.
CellsKept == file.image.cells = saved \/ raced
=============================================================================
