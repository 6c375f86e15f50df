----------------------------- MODULE PanelProofs -----------------------------
(***************************************************************************)
(* Theorems about the workbook file and the panel, for every set of        *)
(* writers and any number of messages, saves of Excel and faults.          *)
(***************************************************************************)
EXTENDS Panel, SequenceTheorems, TLAPS

USE BundleFileAssumption, PanelAssumption

-----------------------------------------------------------------------------
(* The inductive invariant, in layers                                      *)

\* A process between the read of the workbook and the rename; one that has the
\* temporary file in use.
InFlight(p) == At(p) \in {"read", "open", "closed"}
Using(p)    == At(p) \in {"open", "closed"}

\* The temporary file of a write that has it to itself is what it wrote.
Temporary ==
  /\ \A p \in Processes : At(p) = "open" => temp # None
  /\ ~overlap =>
       /\ \A p, q \in Processes : Using(p) /\ Using(q) => p = q
       /\ \A p \in Processes : Using(p) =>
            /\ temp # None
            /\ temp.by = p
            /\ temp.image = writer[p].image
            /\ temp.state = IF At(p) = "open" THEN "partial" ELSE "whole"

\* As long as Excel did not save during a write, all that is about to reach the
\* workbook has the newest cells.
Cells ==
  ~raced =>
    /\ file.image.cells = saved
    /\ \A p \in Processes : InFlight(p) => writer[p].image.cells = saved
    /\ (\E p \in Processes : Using(p)) /\ temp # None => temp.image.cells = saved

\* What the panel shows, and what the writers carry.
Conversation ==
  /\ panel = "closed" <=> excel = None
  /\ panel \in {"closed", "opening", "restoring"} => history = <<>>
  /\ InFlight(Launcher) => writer[Launcher].image.bundle # None
  /\ \A p \in Processes \ {Launcher} : InFlight(p) => writer[p].image.bundle = <<>>

\* A save that finds no earlier call in the pipes has them to itself: it is in
\* one place, carries what the panel shows, and once it has reached the workbook
\* that is there until somebody else writes.
Told ==
  /\ panel = "saving" /\ ~stale =>
       /\ requests # <<>> => requests = <<history>>
       /\ requests # <<>> => answers = <<>> /\ At(Launcher) = "idle"
       /\ At(Launcher) # "idle" => answers = <<>>
       /\ InFlight(Launcher) => writer[Launcher].image.bundle = history
       /\ At(Launcher) = "replaced" /\ ~others => file.image.bundle = history
       /\ answers # <<>> =>
            /\ Len(answers) = 1
            /\ answers[1].ok /\ ~others => file.image.bundle = history
  /\ SavedStands

\* No message of the bundle is newer than the last one sent.
Aged(bundle) == bundle # None => \A i \in 1..Len(bundle) : bundle[i].number <= sent

Ages ==
  /\ Aged(history)
  /\ Aged(file.image.bundle)
  /\ temp # None => Aged(temp.image.bundle)
  /\ \A p \in Processes : Aged(writer[p].image.bundle)
  /\ excel # None => Aged(excel.bundle)
  /\ \A i \in 1..Len(requests) : Aged(requests[i])
  /\ \A i \in 1..Len(answers) : Aged(answers[i].payload)

\* The bundles due to reach the workbook by the worker, in their order: the one
\* it is writing, then those of the requests; None is none.
Due(i) == IF i = 0 THEN IF InFlight(Launcher) THEN writer[Launcher].image.bundle ELSE None
          ELSE requests[i]

\* The panel shows a conversation.
Here == panel \in {"ready", "asking", "saving"}

\* A panel that knows what the file holds shows it, and goes on from whatever
\* is due; each that is due goes on from what the file holds, from what is due
\* before it, and from what Excel holds unless that is a bundle the panel never
\* saw.
Knows ==
  ~blind /\ ~overlap =>
    /\ Here => Known(file.image.bundle)
    /\ \A i \in 0..Len(requests) : Due(i) # None =>
         /\ Extends(Due(i), file.image.bundle)
         /\ \A j \in i..Len(requests) : Due(j) # None => IsPrefix(Due(i), Due(j))
         /\ Here => /\ IsPrefix(Due(i), history)
                    /\ Known(excel.bundle) => Extends(Due(i), excel.bundle)

IInv == TypeOK /\ Temporary /\ Cells /\ FileWhole /\ Conversation /\ Told /\ Ages /\ Knows

-----------------------------------------------------------------------------
(* What a step does to the file and its writers                            *)

\* What a process has read and where it is.
Writers == [at : Steps, image : Image]

\* The types of the variables of BundleFile, with these names.
FileTypes ==
  /\ file \in [image : Image, whole : BOOLEAN]
  /\ temp \in {None} \cup TempFile
  /\ writer \in [Processes -> Writers]
  /\ excel \in {None} \cup Image
  /\ saved \in 0..MaxCells
  /\ raced \in BOOLEAN
  /\ overlap \in BOOLEAN

\* They are the same.
LEMMA FileTypesAreFileTypeOK == FileTypes <=> FileTypeOK
BY Zenon DEF FileTypes, FileTypeOK, Writers

\* Any step of the panel is one of these for the file.
FileNext ==
  \/ UNCHANGED fileVars
  \/ ExcelOpens
  \/ ExcelSaves
  \/ ExcelCloses
  \/ \E p \in Processes : \E bundle \in Bundles : BeginWrite(p, bundle)
  \/ \E p \in Processes : WriteStep(p)
  \/ \E p \in Processes : Die(p)

\* The steps of the panel that leave the file alone, and the others.
LEMMA StepsOfTheFile == requests \in Seq(Bundles \cup {None}) /\ [Next]_vars => FileNext
<1> SUFFICES ASSUME requests \in Seq(Bundles \cup {None}), [Next]_vars
             PROVE  FileNext
  OBVIOUS
<1>1. <<>> \in Bundles
  BY EmptySeq
<1>2. ASSUME NEW p \in Processes, Progress(p) \/ KillScript(p) \/ ScriptWrites(p)
      PROVE  FileNext
  BY <1>1, <1>2 DEF Progress, KillScript, ScriptWrites, FileNext
<1>3. CASE OpenPanel \/ ClosePanel \/ ExcelSavesOver
  BY <1>3 DEF OpenPanel, ClosePanel, ExcelSavesOver, FileNext
<1>4. CASE \/ Restore \/ Restored \/ RestoreFails \/ Send \/ NewSession \/ Save \/ Refuse
           \/ Approve \/ Saved \/ SaveFails
  BY <1>4 DEF Restore, Restored, RestoreFails, Send, NewSession, Save, Refuse, Approve, Saved,
              SaveFails, FileNext
<1>5. CASE Serve
  <2>1. requests # <<>> => Head(requests) \in Bundles \cup {None}
    OBVIOUS
  <2>2. QED
    BY <1>5, <2>1 DEF Serve, FileNext
<1>6. CASE KillWorker
  BY <1>6 DEF KillWorker, FileNext
<1>7. CASE UNCHANGED vars
  BY <1>7 DEF vars, FileNext
<1>8. QED
  BY <1>2, <1>3, <1>4, <1>5, <1>6, <1>7 DEF Next, Quiescent

\* A step keeps the types of the file.
LEMMA FileTypesStep == FileTypes /\ Temporary /\ FileNext => FileTypes'
<1> SUFFICES ASSUME FileTypes, Temporary, FileNext
             PROVE  FileTypes'
  OBVIOUS
<1>a. /\ file.image \in Image /\ file.whole \in BOOLEAN
      /\ \A p \in Processes : writer[p] \in Writers
  BY DEF FileTypes
<1>b. \A image \in Image, bundle \in Bundles : [image EXCEPT !.bundle = bundle] \in Image
  BY DEF Image
<1>c. \A p \in Processes : writer[p].image \in Image /\ writer[p].at \in Steps
  BY <1>a DEF Writers
<1>d. \A p \in Processes, step \in Steps : [writer[p] EXCEPT !.at = step] \in Writers
  BY <1>a DEF Writers
<1>e. temp # None => temp \in TempFile
  BY DEF FileTypes
<1>1. CASE UNCHANGED fileVars
  BY <1>1 DEF fileVars, FileTypes
<1>2. CASE ExcelOpens
  BY <1>2, <1>a DEF ExcelOpens, FileTypes
<1>3. CASE ExcelSaves
  <2>1. excel' \in Image
    BY <1>3 DEF ExcelSaves, FileTypes, Image
  <2>2. file' \in [image : Image, whole : BOOLEAN]
    BY <2>1, <1>3 DEF ExcelSaves
  <2>3. saved' \in 0..MaxCells
    BY <1>3 DEF ExcelSaves, FileTypes
  <2>4. QED
    BY <2>1, <2>2, <2>3, <1>3 DEF ExcelSaves, FileTypes
<1>4. CASE ExcelCloses
  BY <1>4 DEF ExcelCloses, FileTypes
<1>5. ASSUME NEW p \in Processes, NEW bundle \in Bundles, BeginWrite(p, bundle)
      PROVE  FileTypes'
  <2>1. [at |-> "read", image |-> [file.image EXCEPT !.bundle = bundle]] \in Writers
    BY <1>a, <1>b DEF Writers, Steps
  <2>2. writer' \in [Processes -> Writers]
    BY <2>1, <1>5 DEF BeginWrite, FileTypes
  <2>3. QED
    BY <2>2, <1>5 DEF BeginWrite, FileTypes
<1>6. ASSUME NEW p \in Processes, WriteStep(p)
      PROVE  FileTypes'
  <2>1. CASE CreateTemp(p)
    <3>1. temp' \in TempFile
      BY <2>1, <1>c DEF CreateTemp, TempFile
    <3>2. writer' \in [Processes -> Writers]
      BY <2>1, <1>d DEF CreateTemp, To, FileTypes, Steps
    <3>3. overlap' \in BOOLEAN
      BY <2>1 DEF CreateTemp, FileTypes
    <3>4. QED
      BY <3>1, <3>2, <3>3, <2>1 DEF CreateTemp, FileTypes
  <2>2. CASE CloseTemp(p)
    <3>1. temp # None
      BY <2>2 DEF CloseTemp, Temporary
    <3>2. temp' \in TempFile
      BY <3>1, <2>2, <1>e DEF CloseTemp, TempFile
    <3>3. writer' \in [Processes -> Writers]
      BY <2>2, <1>d DEF CloseTemp, To, FileTypes, Steps
    <3>4. QED
      BY <3>2, <3>3, <2>2 DEF CloseTemp, FileTypes
  <2>3. CASE Replace(p)
    <3>1. file' \in [image : Image, whole : BOOLEAN]
      BY <2>3, <1>e DEF Replace, TempFile
    <3>2. writer' \in [Processes -> Writers]
      BY <2>3, <1>d DEF Replace, To, FileTypes, Steps
    <3>3. QED
      BY <3>1, <3>2, <2>3 DEF Replace, FileTypes
  <2>4. ASSUME CannotReplace(p) \/ Finish(p)
        PROVE  FileTypes'
    <3>1. To(p, "idle")
      BY <2>4 DEF CannotReplace, Finish
    <3>2. writer' \in [Processes -> Writers]
      BY <3>1, <1>d DEF To, FileTypes, Steps
    <3>3. QED
      BY <3>2, <2>4 DEF CannotReplace, Finish, FileTypes
  <2>5. QED
    BY <1>6, <2>1, <2>2, <2>3, <2>4 DEF WriteStep
<1>7. ASSUME NEW p \in Processes, Die(p)
      PROVE  FileTypes'
  <2>1. writer' \in [Processes -> Writers]
    BY <1>7, <1>d DEF Die, To, FileTypes, Steps
  <2>2. QED
    BY <2>1, <1>7 DEF Die, FileTypes
<1>8. QED
  BY <1>1, <1>2, <1>3, <1>4, <1>5, <1>6, <1>7 DEF FileNext

\* A step of a process moves it on and leaves every image as it is.
LEMMA Moves ==
  ASSUME FileTypes, NEW p \in Processes, NEW step, To(p, step)
  PROVE  \A q \in Processes :
           /\ writer'[q].image = writer[q].image
           /\ writer'[q].at = IF q = p THEN step ELSE writer[q].at
BY DEF FileTypes, Writers, To

\* So does the start of a write, for all but the process that starts.
LEMMA Begins ==
  ASSUME FileTypes, NEW p \in Processes, NEW bundle \in Bundles, BeginWrite(p, bundle)
  PROVE  /\ writer[p].at = "idle" /\ writer'[p].at = "read"
         /\ writer'[p].image.cells = file.image.cells
         /\ writer'[p].image.bundle = bundle
         /\ \A q \in Processes \ {p} : writer'[q] = writer[q]
         /\ UNCHANGED <<file, temp, excel, saved, raced, overlap>>
BY DEF FileTypes, BeginWrite, At, Image

\* A script's write starts from an empty conversation and leaves the launcher alone.
LEMMA ScriptBegins ==
  ASSUME FileTypes, Launcher \in Processes, NEW p \in Processes, ScriptWrites(p)
  PROVE  /\ writer'[Launcher] = writer[Launcher]
         /\ \A q \in Processes : writer'[q] = writer[q] \/ writer'[q].image.bundle = <<>>
         /\ UNCHANGED <<file, temp, excel, saved, raced, overlap>>
<1>1. <<>> \in Bundles
  BY EmptySeq
<1>2. p # Launcher /\ BeginWrite(p, <<>>)
  BY DEF ScriptWrites
<1>3. /\ \A q \in Processes \ {p} : writer'[q] = writer[q]
      /\ writer'[p].image.bundle = <<>>
      /\ UNCHANGED <<file, temp, excel, saved, raced, overlap>>
  BY <1>1, <1>2, Begins
<1>4. QED
  BY <1>2, <1>3

\* What a step of a write changes, besides the process's place.
LEMMA StepsOfAWrite ==
  ASSUME FileTypes, NEW p \in Processes, WriteStep(p)
  PROVE  /\ \A q \in Processes : writer'[q].image = writer[q].image
         /\ \A q \in Processes \ {p} : writer'[q].at = writer[q].at
         /\ UNCHANGED <<excel, saved, raced>>
         /\ \/ /\ writer[p].at = "read" /\ writer'[p].at = "open"
               /\ temp' = [image |-> writer[p].image, by |-> p, state |-> "partial"]
               /\ overlap' = (overlap \/ \E q \in Processes \ {p} : Using(q))
               /\ UNCHANGED file
            \/ /\ writer[p].at = "open" /\ writer'[p].at = "closed"
               /\ temp' = [temp EXCEPT !.state =
                    IF temp.by = p /\ temp.state = "partial" THEN "whole" ELSE "spoiled"]
               /\ UNCHANGED <<file, overlap>>
            \/ /\ writer[p].at = "closed" /\ writer'[p].at = "replaced"
               /\ temp # None /\ temp' = None
               /\ \A q \in Processes \ {p} : writer[q].at # "open"
               /\ file' = [image |-> temp.image, whole |-> temp.state = "whole"]
               /\ UNCHANGED overlap
            \/ /\ writer[p].at \in {"closed", "replaced"} /\ writer'[p].at = "idle"
               /\ UNCHANGED <<file, temp, overlap>>
<1> USE DEF At, Others, Using
<1>1. CASE CreateTemp(p)
  BY <1>1, Moves DEF CreateTemp
<1>2. CASE CloseTemp(p)
  BY <1>2, Moves DEF CloseTemp
<1>3. CASE Replace(p)
  BY <1>3, Moves DEF Replace
<1>4. CASE CannotReplace(p)
  BY <1>4, Moves DEF CannotReplace
<1>5. CASE Finish(p)
  BY <1>5, Moves DEF Finish
<1>6. QED
  BY <1>1, <1>2, <1>3, <1>4, <1>5 DEF WriteStep

\* A process that dies is idle, and leaves its files as they are.
LEMMA Dies ==
  ASSUME FileTypes, NEW p \in Processes, Die(p)
  PROVE  /\ \A q \in Processes : writer'[q].image = writer[q].image
         /\ \A q \in Processes \ {p} : writer'[q].at = writer[q].at
         /\ writer'[p].at = "idle"
         /\ UNCHANGED <<file, temp, excel, saved, raced, overlap>>
BY Moves DEF Die

-----------------------------------------------------------------------------
(* The file and its writers                                                *)

\* A write keeps the temporary file to itself unless processes overlap.
LEMMA TemporaryStep == FileTypes /\ Temporary /\ FileNext => Temporary'
<1> SUFFICES ASSUME FileTypes, Temporary, FileNext
             PROVE  Temporary'
  OBVIOUS
<1> USE DEF At, Using
<1>1. CASE UNCHANGED fileVars
  BY <1>1 DEF fileVars, Temporary
<1>2. CASE ExcelOpens \/ ExcelSaves \/ ExcelCloses
  BY <1>2 DEF ExcelOpens, ExcelSaves, ExcelCloses, Temporary
<1>3. ASSUME NEW p \in Processes, NEW bundle \in Bundles, BeginWrite(p, bundle)
      PROVE  Temporary'
  <2>1. \A q \in Processes : \/ writer'[q] = writer[q]
                             \/ writer'[q].at \in {"idle", "read"}
    BY <1>3, Begins
  <2>2. UNCHANGED <<temp, overlap>>
    BY <1>3 DEF BeginWrite
  <2>3. QED
    BY <2>1, <2>2 DEF Temporary
<1>4. ASSUME NEW p \in Processes, WriteStep(p)
      PROVE  Temporary'
  <2>1. /\ \A q \in Processes : writer'[q].image = writer[q].image
        /\ \A q \in Processes \ {p} : writer'[q].at = writer[q].at
    BY <1>4, StepsOfAWrite
  <2>2. temp # None => temp \in TempFile
    BY DEF FileTypes
  <2>3. CASE /\ writer[p].at = "read" /\ writer'[p].at = "open"
             /\ temp' = [image |-> writer[p].image, by |-> p, state |-> "partial"]
             /\ overlap' = (overlap \/ \E q \in Processes \ {p} : Using(q))
    <3>1. temp' # None
      <4>1. temp' \in TempFile
        BY <2>3, FileTypesAreFileTypeOK DEF TempFile, FileTypes, Writers
      <4>2. QED
        BY <4>1
    <3>2. \A q \in Processes : (At(q) = "open")' => temp' # None
      BY <3>1
    <3>3. ASSUME ~overlap'
          PROVE  /\ \A q \in Processes \ {p} : writer'[q].at \notin {"open", "closed"}
                 /\ temp'.by = p /\ temp'.image = writer'[p].image /\ temp'.state = "partial"
      BY <3>3, <2>1, <2>3
    <3>4. QED
      BY <3>1, <3>2, <3>3, <2>3 DEF Temporary
  <2>4. CASE /\ writer[p].at = "open" /\ writer'[p].at = "closed"
             /\ temp' = [temp EXCEPT !.state =
                  IF temp.by = p /\ temp.state = "partial" THEN "whole" ELSE "spoiled"]
             /\ UNCHANGED overlap
    BY <2>1, <2>2, <2>4 DEF Temporary, TempFile
  <2>5. CASE /\ writer[p].at = "closed" /\ writer'[p].at = "replaced"
             /\ \A q \in Processes \ {p} : writer[q].at # "open"
             /\ UNCHANGED overlap
    BY <2>1, <2>5 DEF Temporary
  <2>6. CASE /\ writer[p].at \in {"closed", "replaced"} /\ writer'[p].at = "idle"
             /\ UNCHANGED <<temp, overlap>>
    BY <2>1, <2>6 DEF Temporary
  <2>7. QED
    BY <1>4, <2>3, <2>4, <2>5, <2>6, StepsOfAWrite
<1>5. ASSUME NEW p \in Processes, Die(p)
      PROVE  Temporary'
  BY <1>5, Dies DEF Temporary
<1>6. QED
  BY <1>1, <1>2, <1>3, <1>4, <1>5 DEF FileNext

\* An archive that is not whole reaches the workbook only when processes overlap.
LEMMA WholeStep == FileTypes /\ Temporary /\ FileWhole /\ FileNext => FileWhole'
<1> SUFFICES ASSUME FileTypes, Temporary, FileWhole, FileNext
             PROVE  FileWhole'
  OBVIOUS
<1>1. CASE UNCHANGED fileVars
  BY <1>1 DEF fileVars, FileWhole
<1>2. CASE ExcelOpens \/ ExcelSaves \/ ExcelCloses
  BY <1>2 DEF ExcelOpens, ExcelSaves, ExcelCloses, FileWhole
<1>3. ASSUME NEW p \in Processes, NEW bundle \in Bundles, BeginWrite(p, bundle)
      PROVE  FileWhole'
  BY <1>3 DEF BeginWrite, FileWhole
<1>4. ASSUME NEW p \in Processes, WriteStep(p)
      PROVE  FileWhole'
  <2>1. \/ /\ writer[p].at = "closed"
           /\ file' = [image |-> temp.image, whole |-> temp.state = "whole"]
           /\ overlap' = overlap
        \/ file' = file /\ (overlap => overlap')
    BY <1>4, StepsOfAWrite
  <2>2. ~overlap /\ writer[p].at = "closed" => temp.state = "whole"
    BY DEF Temporary, Using, At
  <2>3. CASE /\ writer[p].at = "closed"
             /\ file' = [image |-> temp.image, whole |-> temp.state = "whole"]
             /\ overlap' = overlap
    <3>1. file'.whole = (temp.state = "whole")
      BY <2>3
    <3>2. QED
      BY <2>2, <2>3, <3>1 DEF FileWhole
  <2>4. CASE file' = file /\ (overlap => overlap')
    BY <2>4 DEF FileWhole
  <2>5. QED
    BY <2>1, <2>3, <2>4
<1>5. ASSUME NEW p \in Processes, Die(p)
      PROVE  FileWhole'
  BY <1>5 DEF Die, FileWhole
<1>6. QED
  BY <1>1, <1>2, <1>3, <1>4, <1>5 DEF FileNext

\* What is on its way to the workbook has the cells of the workbook, until
\* Excel saves during a write.
LEMMA CellsStep == FileTypes /\ Temporary /\ Cells /\ FileNext => Cells'
<1> SUFFICES ASSUME FileTypes, Temporary, Cells, FileNext, ~raced'
             PROVE  /\ file'.image.cells = saved'
                    /\ \A p \in Processes : InFlight(p)' => writer'[p].image.cells = saved'
                    /\ (\E p \in Processes : Using(p)') /\ temp' # None
                         => temp'.image.cells = saved'
  BY DEF Cells
<1> USE DEF At, Using, InFlight
<1>1. CASE UNCHANGED fileVars
  BY <1>1 DEF fileVars, Cells
<1>2. CASE ExcelOpens \/ ExcelCloses
  BY <1>2 DEF ExcelOpens, ExcelCloses, Cells
<1>3. CASE ExcelSaves
  <2>1. /\ \A p \in Processes : writer'[p].at \notin {"read", "open", "closed"}
        /\ ~raced
    BY <1>3 DEF ExcelSaves
  <2>2. excel \in Image
    BY <1>3 DEF ExcelSaves, FileTypes
  <2>3. file'.image.cells = saved'
    BY <1>3, <2>2 DEF ExcelSaves, Image
  <2>4. QED
    BY <2>1, <2>3
<1>4. ASSUME NEW p \in Processes, NEW bundle \in Bundles, BeginWrite(p, bundle)
      PROVE  /\ file'.image.cells = saved'
             /\ \A q \in Processes : InFlight(q)' => writer'[q].image.cells = saved'
             /\ (\E q \in Processes : Using(q)') /\ temp' # None
                  => temp'.image.cells = saved'
  <2>1. UNCHANGED <<file, temp, saved, raced>>
    BY <1>4 DEF BeginWrite
  <2>2. QED
    BY <1>4, <2>1, Begins DEF Cells
<1>5. ASSUME NEW p \in Processes, WriteStep(p)
      PROVE  /\ file'.image.cells = saved'
             /\ \A q \in Processes : InFlight(q)' => writer'[q].image.cells = saved'
             /\ (\E q \in Processes : Using(q)') /\ temp' # None
                  => temp'.image.cells = saved'
  <2>1. /\ \A q \in Processes : writer'[q].image = writer[q].image
        /\ \A q \in Processes \ {p} : writer'[q].at = writer[q].at
        /\ saved' = saved /\ raced' = raced
    BY <1>5, StepsOfAWrite
  <2>2. writer[p].at \in {"read", "open", "closed", "replaced"}
    BY <1>5, StepsOfAWrite
  <2>3. /\ writer'[p].at \in {"open", "closed"} => writer[p].at \in {"read", "open"}
        /\ writer'[p].at # "read"
    BY <1>5, StepsOfAWrite
  <2>4. \A q \in Processes : InFlight(q)' => writer'[q].image.cells = saved'
    <3>1. \A q \in Processes : InFlight(q)' => InFlight(q)
      BY <2>1, <2>3
    <3>2. QED
      BY <2>1, <3>1 DEF Cells
  <2>5. file'.image.cells = saved'
    BY <1>5, <2>1, StepsOfAWrite DEF Cells
  <2>6. ASSUME NEW q \in Processes, Using(q)', temp' # None
        PROVE  temp'.image.cells = saved'
    <3>1. CASE temp'.image = writer[p].image /\ writer[p].at = "read"
      BY <3>1, <2>1 DEF Cells
    <3>2. CASE /\ temp # None /\ temp'.image = temp.image
               /\ \E r \in Processes : Using(r)
      BY <3>2, <2>1 DEF Cells
    <3>3. temp # None => temp \in TempFile
      BY DEF FileTypes
    <3>4. \/ temp'.image = writer[p].image /\ writer[p].at = "read"
          \/ /\ temp # None /\ temp'.image = temp.image
             /\ \E r \in Processes : Using(r)
      <4>1. writer[p].at = "open" => temp # None
        BY DEF Temporary
      <4>2. \/ q # p /\ Using(q)
            \/ writer[p].at \in {"read", "open"}
        BY <2>1, <2>3, <2>6
      <4>3. QED
        BY <1>5, <2>6, <3>3, <4>1, <4>2, StepsOfAWrite DEF TempFile
    <3>5. QED
      BY <3>1, <3>2, <3>4
  <2>7. QED
    BY <2>4, <2>5, <2>6
<1>6. ASSUME NEW p \in Processes, Die(p)
      PROVE  /\ file'.image.cells = saved'
             /\ \A q \in Processes : InFlight(q)' => writer'[q].image.cells = saved'
             /\ (\E q \in Processes : Using(q)') /\ temp' # None
                  => temp'.image.cells = saved'
  BY <1>6, Dies DEF Cells
<1>7. QED
  BY <1>1, <1>2, <1>3, <1>4, <1>5, <1>6 DEF FileNext

-----------------------------------------------------------------------------
(* Conversations                                                           *)

\* A prefix is no longer than the conversation and agrees with it.
LEMMA PrefixProperties ==
  ASSUME NEW s \in Bundles, NEW t \in Bundles
  PROVE  IsPrefix(s, t) <=> Len(s) <= Len(t) /\ \A i \in 1..Len(s) : s[i] = t[i]
<1>1. Len(s) \in Nat /\ Len(t) \in Nat
  OBVIOUS
<1>2. ASSUME Len(s) <= Len(t)
      PROVE  SubSeq(s, 1, Len(s)) = SubSeq(t, 1, Len(s)) <=> \A i \in 1..Len(s) : s[i] = t[i]
  <2> DEFINE a == SubSeq(s, 1, Len(s))
             b == SubSeq(t, 1, Len(s))
  <2>1. /\ a \in Seq(Message) /\ Len(a) = Len(s)
        /\ \A i \in 1..Len(s) : a[i] = s[i]
    <3>1. \A i \in 1..Len(s) : s[i] \in Message
      OBVIOUS
    <3>2. QED
      BY <1>1, <3>1, SubSeqProperties
  <2>2. /\ b \in Seq(Message) /\ Len(b) = Len(s)
        /\ \A i \in 1..Len(s) : b[i] = t[i]
    <3>1. \A i \in 1..Len(s) : t[i] \in Message
      BY <1>1, <1>2
    <3>2. QED
      BY <1>1, <3>1, SubSeqProperties
  <2> HIDE DEF a, b
  <2>3. ASSUME \A i \in 1..Len(s) : s[i] = t[i]
        PROVE  a = b
    BY <2>1, <2>2, <2>3, SeqEqual
  <2>4. QED
    BY <2>1, <2>2, <2>3 DEF a, b
<1>3. QED
  BY <1>2 DEF IsPrefix

\* A conversation is a prefix of itself, and the empty one is of all.
LEMMA TrivialPrefixes ==
  ASSUME NEW s \in Bundles
  PROVE  /\ <<>> \in Bundles
         /\ IsPrefix(s, s)
         /\ IsPrefix(<<>>, s)
         /\ IsPrefix(s, <<>>) => s = <<>>
<1>1. <<>> \in Bundles /\ Len(<<>>) = 0 /\ Len(s) \in Nat
  BY EmptySeq
<1>2. Len(s) = 0 => s = <<>>
  BY EmptySeq
<1>3. IsPrefix(s, s)
  BY <1>1, PrefixProperties
<1>4. IsPrefix(<<>>, s) <=> Len(<<>>) <= Len(s) /\ \A i \in 1..Len(<<>>) : (<<>>)[i] = s[i]
  BY <1>1, PrefixProperties
<1>5. IsPrefix(s, <<>>) => Len(s) <= Len(<<>>)
  BY <1>1, PrefixProperties
<1>6. QED
  BY <1>1, <1>2, <1>3, <1>4, <1>5

\* Two prefixes of one conversation: what the shorter holds, the longer holds.
LEMMA PrefixOfPrefix ==
  ASSUME NEW s \in Bundles, NEW t \in Bundles, NEW u \in Bundles,
         IsPrefix(s, t), IsPrefix(t, u)
  PROVE  IsPrefix(s, u)
<1>1. Len(s) \in Nat /\ Len(t) \in Nat /\ Len(u) \in Nat
  OBVIOUS
<1>2. QED
  BY <1>1, PrefixProperties

\* A conversation that is extended keeps its prefixes, and gains none that has
\* only older messages than the new ones.
LEMMA PrefixOfExtension ==
  ASSUME NEW h \in Bundles, NEW new \in Bundles, NEW b \in Bundles,
         \A i \in 1..Len(new), j \in 1..Len(b) : new[i] # b[j]
  PROVE  /\ h \o new \in Bundles
         /\ IsPrefix(b, h \o new) <=> IsPrefix(b, h)
<1>1. Len(h) \in Nat /\ Len(new) \in Nat /\ Len(b) \in Nat
  OBVIOUS
<1>2. /\ h \o new \in Bundles
      /\ Len(h \o new) = Len(h) + Len(new)
      /\ \A i \in 1..Len(h) + Len(new) :
           (h \o new)[i] = IF i <= Len(h) THEN h[i] ELSE new[i - Len(h)]
  BY ConcatProperties
<1>3. /\ IsPrefix(b, h) <=> Len(b) <= Len(h) /\ \A i \in 1..Len(b) : b[i] = h[i]
      /\ IsPrefix(b, h \o new) <=>
           Len(b) <= Len(h \o new) /\ \A i \in 1..Len(b) : b[i] = (h \o new)[i]
  BY <1>2, PrefixProperties
<1>4. CASE Len(b) <= Len(h)
  <2>1. \A i \in 1..Len(b) : (h \o new)[i] = h[i]
    BY <1>1, <1>2, <1>4
  <2>2. Len(b) <= Len(h \o new)
    BY <1>1, <1>2, <1>4
  <2>3. QED
    BY <1>2, <1>3, <1>4, <2>1, <2>2
<1>5. CASE Len(b) > Len(h)
  <2>1. ASSUME IsPrefix(b, h \o new)
        PROVE  FALSE
    <3>1. /\ Len(h) + 1 \in 1..Len(b)
          /\ Len(h) + 1 \in 1..Len(h) + Len(new)
          /\ 1 \in 1..Len(new) /\ (Len(h) + 1) - Len(h) = 1
      BY <1>1, <1>2, <1>3, <1>5, <2>1
    <3>2. b[Len(h) + 1] = (h \o new)[Len(h) + 1]
      BY <1>3, <2>1, <3>1
    <3>3. (h \o new)[Len(h) + 1] = new[1]
      BY <1>1, <1>2, <3>1
    <3>4. QED
      BY <3>1, <3>2, <3>3
  <2>2. ~IsPrefix(b, h)
    BY <1>1, <1>3, <1>5
  <2>3. QED
    BY <1>2, <2>1, <2>2
<1>6. QED
  BY <1>1, <1>4, <1>5

\* Send extends the conversation with messages of the next number.
LEMMA SendExtends ==
  ASSUME history \in Bundles, sent \in 0..MaxSends, Send
  PROVE  /\ sent' = sent + 1
         /\ \E new \in Bundles :
              /\ history' = history \o new
              /\ \A i \in 1..Len(new) : new[i].number = sent + 1
<1> DEFINE user  == [from |-> "user", number |-> sent + 1]
           reply == [from |-> "assistant", number |-> sent + 1]
<1>1. /\ sent' = sent + 1
      /\ history' = history \o <<user, reply>> \/ history' = Append(history, user)
  BY DEF Send
<1>2. sent + 1 \in 1..MaxSends
  BY DEF Send
<1>3. user \in Message /\ reply \in Message /\ user.number = sent + 1 /\ reply.number = sent + 1
  BY <1>2 DEF Message
<1> HIDE DEF user, reply
<1>4. <<user>> \in Bundles /\ <<user, reply>> \in Bundles
  BY <1>3
<1>5. Append(history, user) = history \o <<user>>
  BY <1>3, AppendIsConcat
<1>6. /\ \A i \in 1..Len(<<user>>) : <<user>>[i].number = sent + 1
      /\ \A i \in 1..Len(<<user, reply>>) : <<user, reply>>[i].number = sent + 1
  BY <1>3
<1>7. QED
  BY <1>1, <1>4, <1>5, <1>6

-----------------------------------------------------------------------------
(* The panel                                                               *)

\* The types of the pipes.
Pipes ==
  /\ up \in BOOLEAN
  /\ requests \in Seq(Bundles \cup {None})
  /\ answers \in Seq(Answer)
  /\ stale \in BOOLEAN

\* The types of all variables.
Types ==
  /\ FileTypes
  /\ panel \in {"closed", "opening", "restoring", "ready", "asking", "saving"}
  /\ history \in Bundles
  /\ sent \in 0..MaxSends
  /\ faults \in 0..MaxFaults
  /\ Pipes
  /\ kept \in Bundles \cup {None}
  /\ others \in BOOLEAN
  /\ blind \in BOOLEAN

\* They are those of the type invariant.
LEMMA TypesAreTypeOK == Types <=> TypeOK
BY FileTypesAreFileTypeOK, Zenon DEF Types, Pipes, TypeOK

\* A bundle that is there is a conversation, wherever it is held.
LEMMA HeldBundles ==
  ASSUME Types
  PROVE  /\ file.image.bundle # None => file.image.bundle \in Bundles
         /\ excel # None /\ excel.bundle # None => excel.bundle \in Bundles
         /\ \A p \in Processes :
              writer[p].image.bundle # None => writer[p].image.bundle \in Bundles
         /\ temp # None /\ temp.image.bundle # None => temp.image.bundle \in Bundles
BY DEF Types, FileTypes, Writers, Image, TempFile

\* The first answer is one of the pipe's, and gives a conversation.
LEMMA FirstAnswer ==
  ASSUME answers \in Seq(Answer), answers # <<>>
  PROVE  /\ Head(answers) = answers[1] /\ 1 \in 1..Len(answers)
         /\ Head(answers) \in Answer
         /\ Given(Head(answers)) \in Bundles
         /\ Given(Head(answers)) \in {<<>>, Head(answers).payload}
<1>1. Head(answers) = answers[1] /\ 1 \in 1..Len(answers) /\ Head(answers) \in Answer
  OBVIOUS
<1>2. <<>> \in Bundles
  BY EmptySeq
<1>3. QED
  BY <1>1, <1>2 DEF Given, Answer

\* A call adds its request at the end, and the read takes the first answer.
LEMMA CallStep ==
  ASSUME Pipes, NEW request \in Bundles \cup {None}, Call(request)
  PROVE  /\ Pipes'
         /\ Len(requests') = Len(requests) + 1
         /\ \A i \in 1..Len(requests) : requests'[i] = requests[i]
         /\ requests'[Len(requests) + 1] = request
         /\ answers' = answers
<1>1. requests \in Seq(Bundles \cup {None})
  BY DEF Pipes
<1>2. /\ requests' \in Seq(Bundles \cup {None})
      /\ Len(requests') = Len(requests) + 1
      /\ \A i \in 1..Len(requests) : requests'[i] = requests[i]
      /\ requests'[Len(requests) + 1] = request
  BY <1>1, AppendProperties DEF Call
<1>3. stale' \in BOOLEAN
  BY DEF Call
<1>4. QED
  BY <1>2, <1>3 DEF Call, Pipes

\* The other ends of a call leave the requests, and no new answer.
LEMMA EndStep ==
  ASSUME Pipes, Take \/ CallFails \/ GiveUp
  PROVE  /\ Pipes'
         /\ requests' = requests
         /\ \A i \in 1..Len(answers') : \E j \in 1..Len(answers) : answers'[i] = answers[j]
<1>1. CASE Take
  <2>1. /\ Tail(answers) \in Seq(Answer)
        /\ \A i \in 1..Len(Tail(answers)) :
             i + 1 \in 1..Len(answers) /\ Tail(answers)[i] = answers[i + 1]
    BY <1>1, HeadTailProperties DEF Take, Pipes
  <2>2. QED
    BY <1>1, <2>1 DEF Take, Pipes
<1>2. CASE CallFails
  <2>1. answers' = <<>> /\ <<>> \in Seq(Answer)
    BY <1>2, EmptySeq DEF CallFails
  <2>2. Len(<<>>) = 0
    OBVIOUS
  <2>3. \A i \in 1..Len(answers') : \E j \in 1..Len(answers) : answers'[i] = answers[j]
    BY <2>1, <2>2
  <2>4. Pipes' /\ requests' = requests
    BY <1>2, <2>1 DEF CallFails, Pipes
  <2>5. QED
    BY <2>3, <2>4
<1>3. CASE GiveUp
  BY <1>3 DEF GiveUp, Pipes
<1>4. QED
  BY <1>1, <1>2, <1>3

\* The worker takes the first request; what it answers at once is the bundle of
\* the workbook or nothing.
LEMMA ServeStep ==
  ASSUME Types, Serve
  PROVE  /\ Pipes'
         /\ requests # <<>> /\ writer[Launcher].at = "idle"
         /\ Head(requests) = requests[1] /\ requests' = Tail(requests)
         /\ Len(requests') = Len(requests) - 1
         /\ \A i \in 1..Len(requests') :
              i + 1 \in 1..Len(requests) /\ requests'[i] = requests[i + 1]
         /\ \/ /\ answers' = answers
               /\ requests[1] \in Bundles
               /\ BeginWrite(Launcher, requests[1])
            \/ /\ fileVars' = fileVars
               /\ \E payload \in {None, file.image.bundle} :
                    answers' = Append(answers, [ok |-> payload # None, payload |-> payload])
<1>1. requests \in Seq(Bundles \cup {None}) /\ requests # <<>>
  BY DEF Types, Pipes, Serve
<1>2. /\ Head(requests) = requests[1] /\ Head(requests) \in Bundles \cup {None}
      /\ requests' = Tail(requests)
      /\ Tail(requests) \in Seq(Bundles \cup {None})
      /\ Len(Tail(requests)) = Len(requests) - 1
      /\ \A i \in 1..Len(Tail(requests)) :
           i + 1 \in 1..Len(requests) /\ Tail(requests)[i] = requests[i + 1]
  BY <1>1, HeadTailProperties DEF Serve
<1>3. \/ /\ answers' = answers
         /\ requests[1] \in Bundles
         /\ BeginWrite(Launcher, requests[1])
      \/ /\ fileVars' = fileVars
         /\ \E payload \in {None, file.image.bundle} :
              answers' = Append(answers, [ok |-> payload # None, payload |-> payload])
  BY <1>2 DEF Serve
<1>4. answers' \in Seq(Answer)
  <2>1. \A payload \in {None, file.image.bundle} :
          [ok |-> payload # None, payload |-> payload] \in Answer
    BY DEF Types, FileTypes, Image, Answer
  <2>2. answers \in Seq(Answer)
    BY DEF Types, Pipes
  <2>3. ASSUME NEW answer \in Answer
        PROVE  Append(answers, answer) \in Seq(Answer)
    BY <2>2
  <2>4. QED
    BY <1>3, <2>1, <2>2, <2>3
<1>5. Pipes'
  BY <1>2, <1>4 DEF Serve, Types, Pipes
<1>6. QED
  BY <1>1, <1>2, <1>3, <1>5 DEF Serve, At

\* A step of a write answers at most once, without a payload.
LEMMA ProgressStep ==
  ASSUME Types, NEW p \in Processes, Progress(p)
  PROVE  /\ Pipes'
         /\ requests' = requests
         /\ answers' = IF p = Launcher /\ writer'[p].at = "idle"
                       THEN Append(answers, [ok |-> writer[p].at = "replaced", payload |-> None])
                       ELSE answers
<1>1. answers' = IF p = Launcher /\ writer'[p].at = "idle"
                 THEN Append(answers, [ok |-> writer[p].at = "replaced", payload |-> None])
                 ELSE answers
  BY DEF Progress, At
<1>2. answers' \in Seq(Answer)
  <2>1. [ok |-> writer[p].at = "replaced", payload |-> None] \in Answer
    BY DEF Answer
  <2>2. QED
    BY <1>1, <2>1 DEF Types, Pipes
<1>3. QED
  BY <1>1, <1>2 DEF Progress, Types, Pipes

\* A step keeps the types.
LEMMA TypesStep == Types /\ Temporary /\ [Next]_vars => Types'
<1> SUFFICES ASSUME Types, Temporary, [Next]_vars
             PROVE  Types'
  OBVIOUS
<1>a. FileTypes'
  BY StepsOfTheFile, FileTypesStep DEF Types, Pipes
<1>b. \A n \in 0..MaxFaults : n < MaxFaults => n + 1 \in 0..MaxFaults
  OBVIOUS
<1>c. UNCHANGED callVars => Pipes'
  BY DEF callVars, Types, Pipes
<1>1. CASE OpenPanel
  BY <1>1, <1>a, <1>c DEF OpenPanel, Types
<1>2. CASE Restore
  BY <1>2, <1>a, CallStep DEF Restore, Types
<1>3. CASE Restored
  <2>1. answers # <<>> /\ history' = Given(Head(answers))
    BY <1>3 DEF Restored, Take
  <2>2. history' \in Bundles
    BY <2>1, FirstAnswer DEF Types, Pipes
  <2>3. blind' \in BOOLEAN
    BY <1>3 DEF Restored
  <2>4. Pipes'
    BY <1>3, EndStep DEF Restored, Types
  <2>5. QED
    BY <1>3, <1>a, <2>2, <2>3, <2>4 DEF Restored, Types
<1>4. CASE RestoreFails
  <2>1. Pipes'
    BY <1>4, EndStep DEF RestoreFails, Types
  <2>2. faults' \in 0..MaxFaults
    BY <1>4, <1>b DEF RestoreFails, GiveUp, Fault, Types
  <2>3. QED
    BY <1>4, <1>a, <2>1, <2>2 DEF RestoreFails, Types
<1>5. CASE Send
  <2>1. sent' \in 0..MaxSends
    BY <1>5 DEF Send, Types
  <2>2. history' \in Bundles
    BY <1>5, SendExtends, ConcatProperties DEF Types
  <2>3. faults' \in 0..MaxFaults
    BY <1>5, <1>b DEF Send, Fault, Types
  <2>4. QED
    BY <1>5, <1>a, <1>c, <2>1, <2>2, <2>3 DEF Send, Types
<1>6. CASE NewSession
  BY <1>6, <1>a, <1>c, TrivialPrefixes DEF NewSession, Types
<1>7. CASE Save \/ Refuse
  BY <1>7, <1>a, <1>c DEF Save, Refuse, Types
<1>8. CASE Approve
  <2>1. Pipes'
    BY <1>8, CallStep DEF Approve, Types
  <2>2. QED
    BY <1>8, <1>a, <2>1 DEF Approve, Types
<1>9. CASE Saved
  <2>1. Pipes'
    BY <1>9, EndStep DEF Saved, Types
  <2>2. QED
    BY <1>9, <1>a, <2>1 DEF Saved, Types
<1>10. CASE SaveFails
  <2>1. Pipes'
    BY <1>10, EndStep DEF SaveFails, Types
  <2>2. faults' \in 0..MaxFaults
    BY <1>10, <1>b DEF SaveFails, GiveUp, Fault, Types
  <2>3. QED
    BY <1>10, <1>a, <2>1, <2>2 DEF SaveFails, Types
<1>11. CASE ClosePanel
  <2>1. Pipes' /\ faults' \in 0..MaxFaults
    BY <1>11, <1>b, <1>c, EndStep DEF ClosePanel, GiveUp, Fault, Types
  <2>2. QED
    BY <1>11, <1>a, <2>1, TrivialPrefixes DEF ClosePanel, Types
<1>12. CASE ExcelSavesOver
  <2>1. others' \in BOOLEAN /\ blind' \in BOOLEAN
    BY <1>12 DEF ExcelSavesOver, Types
  <2>2. QED
    BY <1>12, <1>a, <1>c, <2>1 DEF ExcelSavesOver, Types
<1>13. CASE Serve
  <2>1. Pipes'
    BY <1>13, ServeStep
  <2>2. QED
    BY <1>13, <1>a, <2>1 DEF Serve, Types
<1>14. CASE KillWorker
  <2>1. Pipes'
    BY <1>14, EmptySeq DEF KillWorker, Types, Pipes
  <2>2. QED
    BY <1>14, <1>a, <1>b, <2>1 DEF KillWorker, Fault, Types
<1>15. ASSUME NEW p \in Processes, Progress(p)
       PROVE  Types'
  <2>1. Pipes'
    BY <1>15, ProgressStep
  <2>2. kept' \in Bundles \cup {None} /\ others' \in BOOLEAN
    BY <1>15 DEF Progress, Types
  <2>3. QED
    BY <1>15, <1>a, <2>1, <2>2 DEF Progress, Types
<1>16. ASSUME NEW p \in Processes, KillScript(p)
       PROVE  Types'
  BY <1>16, <1>a, <1>b, <1>c DEF KillScript, Fault, Types
<1>17. ASSUME NEW p \in Processes, ScriptWrites(p)
       PROVE  Types'
  BY <1>17, <1>a, <1>c DEF ScriptWrites, panelVars, Types
<1>18. CASE UNCHANGED vars
  BY <1>18, <1>a, <1>c DEF vars, panelVars, Types
<1>19. QED
  BY <1>1, <1>2, <1>3, <1>4, <1>5, <1>6, <1>7, <1>8, <1>9, <1>10, <1>11, <1>12, <1>13, <1>14,
     <1>15, <1>16, <1>17, <1>18 DEF Next, Quiescent

\* A script's write carries no conversation, and a panel that has none shows none.
LEMMA ConversationStep == Types /\ Conversation /\ [Next]_vars => Conversation'
<1> SUFFICES ASSUME Types, Conversation, [Next]_vars
             PROVE  Conversation'
  OBVIOUS
<1> USE DEF At, InFlight
<1>a. FileTypes /\ Launcher \in Processes
  BY DEF Types
<1>b. ASSUME UNCHANGED writer
      PROVE  /\ InFlight(Launcher)' => writer'[Launcher].image.bundle # None
             /\ \A q \in Processes \ {Launcher} : InFlight(q)' => writer'[q].image.bundle = <<>>
  BY <1>b DEF Conversation
<1>c. ASSUME NEW p \in Processes,
             \A q \in Processes : writer'[q].image = writer[q].image,
             \A q \in Processes : InFlight(q)' => InFlight(q),
             UNCHANGED <<panel, excel, history>>
      PROVE  Conversation'
  <2>1. \A q \in Processes \ {Launcher} : InFlight(q)' => writer'[q].image.bundle = <<>>
    <3> SUFFICES ASSUME NEW q \in Processes \ {Launcher}, InFlight(q)'
                 PROVE  writer'[q].image.bundle = <<>>
      OBVIOUS
    <3>1. InFlight(q) /\ writer'[q].image = writer[q].image
      BY <1>c
    <3>2. writer[q].image.bundle = <<>>
      BY <3>1 DEF Conversation
    <3>3. QED
      BY <3>1, <3>2
  <2>2. InFlight(Launcher)' => writer'[Launcher].image.bundle # None
    BY <1>a, <1>c DEF Conversation
  <2>3. QED
    BY <1>c, <2>1, <2>2 DEF Conversation
<1>1. CASE OpenPanel
  <2>1. excel' # None
    BY <1>1, <1>a DEF OpenPanel, ExcelOpens, FileTypes
  <2>2. QED
    BY <1>1, <1>b, <2>1 DEF OpenPanel, ExcelOpens, Conversation
<1>2. CASE Restore \/ Restored \/ RestoreFails
  BY <1>2, <1>b DEF Restore, Restored, RestoreFails, fileVars, Conversation
<1>3. CASE Send \/ NewSession
  BY <1>3, <1>b DEF Send, NewSession, fileVars, Conversation
<1>4. CASE Save \/ Refuse \/ Approve \/ Saved \/ SaveFails
  BY <1>4, <1>b DEF Save, Refuse, Approve, Saved, SaveFails, fileVars, Conversation
<1>5. CASE ClosePanel
  BY <1>5, <1>b DEF ClosePanel, ExcelCloses, Conversation
<1>6. CASE ExcelSavesOver
  <2>1. excel \in Image
    BY <1>6, <1>a DEF ExcelSavesOver, ExcelSaves, FileTypes
  <2>2. excel' \in Image
    BY <1>6, <2>1 DEF ExcelSavesOver, ExcelSaves, Image, FileTypes, Types
  <2>3. QED
    BY <1>6, <1>b, <2>1, <2>2 DEF ExcelSavesOver, ExcelSaves, Conversation
<1>7. CASE Serve
  <2>1. UNCHANGED <<panel, history>>
    BY <1>7 DEF Serve
  <2>2. CASE fileVars' = fileVars
    BY <1>b, <2>1, <2>2 DEF fileVars, Conversation
  <2>3. CASE requests[1] \in Bundles /\ BeginWrite(Launcher, requests[1])
    <3>1. /\ writer'[Launcher].image.bundle # None /\ excel' = excel
          /\ \A q \in Processes \ {Launcher} : writer'[q] = writer[q]
      BY <1>a, <2>3, Begins
    <3>2. QED
      BY <2>1, <3>1 DEF Conversation
  <2>4. QED
    BY <1>7, <2>2, <2>3, ServeStep
<1>8. CASE KillWorker
  <2>1. CASE UNCHANGED fileVars
    BY <1>8, <1>b, <2>1 DEF KillWorker, fileVars, Conversation
  <2>2. CASE Die(Launcher)
    BY <1>8, <1>a, <1>c, <2>2, Dies DEF KillWorker
  <2>3. QED
    BY <1>8, <2>1, <2>2 DEF KillWorker
<1>9. ASSUME NEW p \in Processes, Progress(p)
      PROVE  Conversation'
  <2>1. WriteStep(p) /\ UNCHANGED <<panel, history>>
    BY <1>9 DEF Progress
  <2>2. QED
    BY <1>a, <1>c, <2>1, StepsOfAWrite
<1>10. ASSUME NEW p \in Processes, KillScript(p)
       PROVE  Conversation'
  BY <1>10, <1>a, <1>c, Dies DEF KillScript
<1>11. ASSUME NEW p \in Processes, ScriptWrites(p)
       PROVE  Conversation'
  BY <1>11, <1>a, ScriptBegins DEF ScriptWrites, panelVars, Conversation
<1>12. CASE UNCHANGED vars
  BY <1>12, <1>b DEF vars, fileVars, panelVars, Conversation
<1>13. QED
  BY <1>1, <1>2, <1>3, <1>4, <1>5, <1>6, <1>7, <1>8, <1>9, <1>10, <1>11, <1>12
     DEF Next, Quiescent

\* What the user was told by the answer of the save stays true until somebody
\* writes; a save that has the pipes to itself moves through them.
LEMMA ToldStep == Types /\ Temporary /\ Conversation /\ Told /\ [Next]_vars => Told'
<1> SUFFICES ASSUME Types, Temporary, Conversation, Told, [Next]_vars
             PROVE  Told'
  OBVIOUS
<1> USE DEF At, InFlight, Using, SavedStands
<1>a. FileTypes /\ Launcher \in Processes /\ answers \in Seq(Answer)
  BY DEF Types, Pipes
<1>b. ASSUME UNCHANGED <<file, kept>>, panel' # "saving"
      PROVE  Told'
  BY <1>b DEF Told
<1>c. ASSUME UNCHANGED <<file, kept, panel, history, requests, answers, stale, others>>,
             writer'[Launcher] = writer[Launcher]
      PROVE  Told'
  BY <1>c DEF Told
<1>1. CASE OpenPanel \/ Restore \/ Restored \/ RestoreFails
  BY <1>1, <1>b DEF OpenPanel, ExcelOpens, Restore, Restored, RestoreFails, fileVars
<1>2. CASE Send \/ NewSession \/ Save \/ Refuse \/ SaveFails
  BY <1>2, <1>b DEF Send, NewSession, Save, Refuse, SaveFails, fileVars
<1>3. CASE ClosePanel
  BY <1>3, <1>b DEF ClosePanel, ExcelCloses
<1>4. CASE Approve
  <2>1. /\ UNCHANGED <<file, kept, writer, history>>
        /\ answers' = answers /\ requests' = Append(requests, history)
        /\ ~stale' => requests = <<>> /\ answers = <<>> /\ writer[Launcher].at = "idle"
    BY <1>4 DEF Approve, Call, fileVars
  <2>2. Append(<<>>, history) = <<history>>
    OBVIOUS
  <2>3. QED
    BY <2>1, <2>2 DEF Told
<1>5. CASE Saved
  <2>1. panel = "saving" /\ panel' = "ready" /\ file' = file /\ answers # <<>>
    BY <1>5 DEF Saved, Take, fileVars
  <2>2. Head(answers).ok /\ ~stale /\ ~others => file.image.bundle = history
    BY <1>a, <2>1, FirstAnswer DEF Told
  <2>3. kept' = kept \/ (kept' = history /\ file.image.bundle = history)
    BY <1>5, <2>2 DEF Saved
  <2>4. QED
    BY <2>1, <2>3 DEF Told
<1>6. CASE ExcelSavesOver
  <2>1. /\ kept' = None /\ (panel' = "saving" => others')
        /\ UNCHANGED <<panel, history, requests, answers, stale, writer>>
    BY <1>6 DEF ExcelSavesOver, ExcelSaves, callVars
  <2>2. QED
    BY <2>1 DEF Told
<1>7. CASE Serve
  <2>1. /\ UNCHANGED <<file, kept, panel, history, stale, others>>
        /\ requests # <<>> /\ requests' = Tail(requests) /\ writer[Launcher].at = "idle"
    BY <1>7, ServeStep DEF Serve, BeginWrite, fileVars
  <2>2. ASSUME panel = "saving", ~stale
        PROVE  requests[1] = history /\ requests' = <<>> /\ answers = <<>>
    <3>1. requests = <<history>> /\ answers = <<>>
      BY <2>1, <2>2 DEF Told
    <3>2. Tail(<<history>>) = <<>> /\ <<history>>[1] = history
      OBVIOUS
    <3>3. QED
      BY <2>1, <3>1, <3>2
  <2>3. CASE answers' = answers /\ requests[1] \in Bundles /\ BeginWrite(Launcher, requests[1])
    <3>1. writer'[Launcher].at = "read" /\ writer'[Launcher].image.bundle = requests[1]
      BY <1>a, <2>3, Begins
    <3>2. QED
      BY <2>1, <2>2, <2>3, <3>1 DEF Told
  <2>4. ASSUME Head(requests) # None, fileVars' = fileVars,
               answers' = Append(answers, [ok |-> FALSE, payload |-> None])
        PROVE  Told'
    <3>1. Append(<<>>, [ok |-> FALSE, payload |-> None]) = <<[ok |-> FALSE, payload |-> None]>>
      OBVIOUS
    <3>2. panel = "saving" /\ ~stale =>
            Len(answers') = 1 /\ ~answers'[1].ok /\ requests' = <<>>
      BY <2>2, <2>4, <3>1
    <3>3. writer' = writer
      BY <2>4 DEF fileVars
    <3>4. QED
      BY <2>1, <3>2, <3>3 DEF Told
  <2>5. CASE Head(requests) = None /\ fileVars' = fileVars
    <3>1. ~(panel = "saving" /\ ~stale)
      <4>1. Head(requests) = requests[1]
        BY <1>7, ServeStep
      <4>2. history # None
        BY DEF Types
      <4>3. QED
        BY <2>2, <2>5, <4>1, <4>2
    <3>2. QED
      BY <2>1, <3>1 DEF Told
  <2>6. QED
    BY <1>7, <2>3, <2>4, <2>5, ServeStep DEF Serve
<1>8. CASE KillWorker
  <2>1. /\ UNCHANGED <<file, kept, panel, history, answers, stale, others>> /\ requests' = <<>>
        /\ writer'[Launcher].at = "idle"
    BY <1>8, <1>a, Dies DEF KillWorker, fileVars
  <2>2. QED
    BY <2>1 DEF Told
<1>9. ASSUME NEW p \in Processes, Progress(p)
      PROVE  Told'
  <2>1. /\ \A q \in Processes : writer'[q].image = writer[q].image
        /\ \A q \in Processes \ {p} : writer'[q].at = writer[q].at
        /\ UNCHANGED <<panel, history, requests, stale>>
    BY <1>9, <1>a, StepsOfAWrite DEF Progress
  <2>2. answers' = IF p = Launcher /\ writer'[p].at = "idle"
                   THEN Append(answers, [ok |-> writer[p].at = "replaced", payload |-> None])
                   ELSE answers
    BY <1>9, ProgressStep
  <2>3. CASE file' = file /\ writer'[p].at # "replaced"
    <3>1. kept' = kept /\ others' = others
      BY <1>9, <2>3 DEF Progress, Types
    <3>2. CASE p # Launcher
      BY <1>a, <2>1, <2>2, <2>3, <3>1, <3>2 DEF Told
    <3>3. CASE p = Launcher /\ writer'[p].at # "idle"
      <4>1. InFlight(p) /\ InFlight(p)' /\ answers' = answers
        BY <1>9, <1>a, <2>2, <2>3, <3>3, StepsOfAWrite DEF Progress
      <4>2. QED
        BY <1>a, <2>1, <2>3, <3>1, <3>3, <4>1 DEF Told
    <3>4. CASE p = Launcher /\ writer'[p].at = "idle"
      <4> DEFINE answer == [ok |-> writer[p].at = "replaced", payload |-> None]
      <4>1. writer[p].at \in {"closed", "replaced"} /\ answers' = Append(answers, answer)
        BY <1>9, <1>a, <2>2, <3>4, StepsOfAWrite DEF Progress
      <4>2. answer.ok = (writer[p].at = "replaced")
        OBVIOUS
      <4> HIDE DEF answer
      <4>3. ASSUME panel = "saving", ~stale
            PROVE  /\ requests = <<>> /\ answers' = <<answer>>
                   /\ answer.ok /\ ~others => file.image.bundle = history
        <5>1. answers = <<>> /\ requests = <<>>
          BY <1>a, <3>4, <4>1, <4>3 DEF Told
        <5>2. Append(<<>>, answer) = <<answer>>
          OBVIOUS
        <5>3. QED
          BY <3>4, <4>1, <4>2, <4>3, <5>1, <5>2 DEF Told
      <4>4. panel' = "saving" /\ ~stale' =>
              /\ requests' = <<>> /\ Len(answers') = 1
              /\ answers'[1].ok /\ ~others' => file'.image.bundle = history'
        BY <2>1, <2>3, <3>1, <4>3
      <4>5. QED
        BY <1>a, <2>3, <3>1, <3>4, <4>4 DEF Told
    <3>5. QED
      BY <3>2, <3>3, <3>4
  <2>4. CASE /\ writer[p].at = "closed" /\ writer'[p].at = "replaced"
             /\ file'.image = temp.image
    <3>1. kept' = None /\ answers' = answers
      BY <1>9, <2>2, <2>4 DEF Progress, At
    <3>2. panel = "saving" => others' = (others \/ p # Launcher \/ overlap)
      BY <1>9, <2>4 DEF Progress, At
    <3>3. p = Launcher /\ ~overlap => file'.image = writer[p].image
      BY <2>4 DEF Temporary
    <3>4. CASE p = Launcher
      BY <1>a, <2>1, <2>4, <3>1, <3>2, <3>3, <3>4 DEF Told
    <3>5. CASE p # Launcher
      BY <1>a, <2>1, <2>4, <3>1, <3>2, <3>5 DEF Told
    <3>6. QED
      BY <3>4, <3>5
  <2>5. \/ file' = file /\ writer'[p].at # "replaced"
        \/ /\ writer[p].at = "closed" /\ writer'[p].at = "replaced"
           /\ file'.image = temp.image
    BY <1>9, <1>a, StepsOfAWrite DEF Progress
  <2>6. QED
    BY <2>3, <2>4, <2>5
<1>10. ASSUME NEW p \in Processes, KillScript(p)
       PROVE  Told'
  <2>1. /\ UNCHANGED <<file, kept, panel, history, requests, answers, stale, others>>
        /\ writer'[Launcher].image = writer[Launcher].image
        /\ writer'[Launcher].at = writer[Launcher].at
    BY <1>10, <1>a, Dies DEF KillScript, callVars
  <2>2. QED
    BY <2>1 DEF Told
<1>11. ASSUME NEW p \in Processes, ScriptWrites(p)
       PROVE  Told'
  BY <1>11, <1>a, <1>c, ScriptBegins DEF ScriptWrites, panelVars, callVars
<1>12. CASE UNCHANGED vars
  BY <1>12, <1>c DEF vars, fileVars, panelVars, callVars
<1>13. QED
  BY <1>1, <1>2, <1>3, <1>4, <1>5, <1>6, <1>7, <1>8, <1>9, <1>10, <1>11, <1>12
     DEF Next, Quiescent

\* What is older than the messages sent stays so.
LEMMA StaysAged ==
  ASSUME Types, Types', sent' >= sent, NEW b \in Bundles \cup {None}, Aged(b)
  PROVE  b # None => \A i \in 1..Len(b) : b[i].number <= sent'
<1> SUFFICES ASSUME b \in Bundles, NEW i \in 1..Len(b)
             PROVE  b[i].number <= sent'
  OBVIOUS
<1>1. b # None
  OBVIOUS
<1>2. b[i] \in Message
  BY ElementOfSeq
<1>3. b[i].number \in Nat /\ b[i].number <= sent
  BY <1>1, <1>2 DEF Message, Aged
<1>4. sent \in Nat /\ sent' \in Nat
  BY DEF Types
<1>5. QED
  BY <1>3, <1>4

\* What a step puts into the pipes is what the panel shows and what the workbook
\* holds, and what it makes the panel show comes from there, except for a message
\* the user sends.
LEMMA WhatMoves ==
  ASSUME Types, [Next]_vars
  PROVE  /\ \A i \in 1..Len(requests') :
              \/ requests'[i] \in {None, history}
              \/ \E j \in 1..Len(requests) : requests'[i] = requests[j]
         /\ \A i \in 1..Len(answers') :
              \/ answers'[i].payload \in {None, file.image.bundle}
              \/ \E j \in 1..Len(answers) : answers'[i] = answers[j]
         /\ \/ Send
            \/ history' \in {history, <<>>}
            \/ \E j \in 1..Len(answers) : history' = answers[j].payload
         /\ Send \/ sent' = sent
         /\ \A p \in Processes :
              \/ writer'[p].image = writer[p].image
              \/ writer'[p].image.bundle = <<>>
              \/ \E j \in 1..Len(requests) : writer'[p].image.bundle = requests[j]
<1>a. /\ FileTypes /\ Launcher \in Processes /\ Pipes
      /\ history \in Bundles \cup {None} /\ None \in Bundles \cup {None}
  BY DEF Types
<1>b. ASSUME UNCHANGED <<requests, answers>>
      PROVE  /\ \A i \in 1..Len(requests') : \E j \in 1..Len(requests) : requests'[i] = requests[j]
             /\ \A i \in 1..Len(answers') : \E j \in 1..Len(answers) : answers'[i] = answers[j]
  BY <1>b
<1>c. ASSUME NEW request \in {None, history}, Call(request)
      PROVE  /\ \A i \in 1..Len(requests') :
                  \/ requests'[i] \in {None, history}
                  \/ \E j \in 1..Len(requests) : requests'[i] = requests[j]
             /\ \A i \in 1..Len(answers') : \E j \in 1..Len(answers) : answers'[i] = answers[j]
  <2>1. /\ Len(requests') = Len(requests) + 1
        /\ \A i \in 1..Len(requests) : requests'[i] = requests[i]
        /\ requests'[Len(requests) + 1] = request
        /\ answers' = answers
    BY <1>a, <1>c, CallStep
  <2>2. Len(requests) \in Nat
    BY <1>a DEF Pipes
  <2>3. \A i \in 1..Len(requests') : i \in 1..Len(requests) \/ i = Len(requests) + 1
    BY <2>1, <2>2
  <2>4. QED
    BY <1>c, <2>1, <2>3
<1>d. ASSUME Take \/ CallFails \/ GiveUp
      PROVE  /\ \A i \in 1..Len(requests') : \E j \in 1..Len(requests) : requests'[i] = requests[j]
             /\ \A i \in 1..Len(answers') : \E j \in 1..Len(answers) : answers'[i] = answers[j]
  BY <1>a, <1>d, EndStep
<1>1. CASE OpenPanel \/ NewSession \/ Save \/ Refuse \/ ExcelSavesOver
  BY <1>1, <1>b DEF OpenPanel, ExcelOpens, NewSession, Save, Refuse, ExcelSavesOver, ExcelSaves,
     fileVars, callVars
<1>2. CASE Send
  BY <1>2, <1>b DEF Send, fileVars, callVars
<1>3. CASE Restore
  BY <1>3, <1>c DEF Restore, fileVars
<1>4. CASE Approve
  BY <1>4, <1>c DEF Approve, fileVars
<1>5. CASE Restored
  <2>1. answers # <<>> /\ history' = Given(Head(answers)) /\ sent' = sent /\ writer' = writer
    BY <1>5 DEF Restored, Take, fileVars
  <2>2. history' = <<>> \/ \E j \in 1..Len(answers) : history' = answers[j].payload
    BY <1>a, <2>1, FirstAnswer DEF Pipes
  <2>3. QED
    BY <1>5, <1>d, <2>1, <2>2 DEF Restored
<1>6. CASE RestoreFails \/ Saved \/ SaveFails
  BY <1>6, <1>d DEF RestoreFails, Saved, SaveFails, fileVars
<1>7. CASE ClosePanel
  BY <1>7, <1>b, <1>d DEF ClosePanel, ExcelCloses, callVars
<1>8. CASE Serve
  <2>1. /\ \A i \in 1..Len(requests') : \E j \in 1..Len(requests) : requests'[i] = requests[j]
        /\ UNCHANGED <<history, sent>>
    BY <1>8, ServeStep DEF Serve
  <2>2. CASE answers' = answers /\ requests[1] \in Bundles /\ BeginWrite(Launcher, requests[1])
    <3>1. /\ writer'[Launcher].image.bundle = requests[1]
          /\ \A q \in Processes \ {Launcher} : writer'[q] = writer[q]
      BY <1>a, <2>2, Begins
    <3>2. 1 \in 1..Len(requests)
      BY <1>8, <1>a, ServeStep, HeadTailProperties DEF Pipes
    <3>3. QED
      BY <2>1, <2>2, <3>1, <3>2
  <2>3. ASSUME fileVars' = fileVars, NEW payload \in {None, file.image.bundle},
               answers' = Append(answers, [ok |-> payload # None, payload |-> payload])
        PROVE  /\ writer' = writer
               /\ \A i \in 1..Len(answers') :
                    \/ answers'[i].payload \in {None, file.image.bundle}
                    \/ \E j \in 1..Len(answers) : answers'[i] = answers[j]
    <3> DEFINE answer == [ok |-> payload # None, payload |-> payload]
    <3>1. answer \in Answer /\ answer.payload = payload
      BY DEF Answer, Types, FileTypes, Image
    <3> HIDE DEF answer
    <3>2. answers' = Append(answers, answer) /\ answers \in Seq(Answer)
      BY <1>a, <2>3 DEF answer, Pipes
    <3>3. /\ Len(answers') = Len(answers) + 1 /\ Len(answers) \in Nat
          /\ \A i \in 1..Len(answers) : answers'[i] = answers[i]
          /\ answers'[Len(answers) + 1] = answer
      BY <3>1, <3>2, AppendProperties
    <3>4. \A i \in 1..Len(answers') : i \in 1..Len(answers) \/ i = Len(answers) + 1
      BY <3>3
    <3>5. writer' = writer
      BY <2>3 DEF fileVars
    <3>6. QED
      BY <3>1, <3>3, <3>4, <3>5
  <2>4. QED
    BY <1>8, <2>1, <2>2, <2>3, ServeStep
<1>9. CASE KillWorker
  <2>1. requests' = <<>> /\ Len(<<>>) = 0 /\ UNCHANGED <<answers, history, sent>>
    BY <1>9, EmptySeq DEF KillWorker
  <2>2. \A q \in Processes : writer'[q].image = writer[q].image
    BY <1>9, <1>a, Dies DEF KillWorker, fileVars
  <2>3. QED
    BY <2>1, <2>2
<1>10. ASSUME NEW p \in Processes, Progress(p)
       PROVE  /\ UNCHANGED <<requests, history, sent>>
              /\ \A q \in Processes : writer'[q].image = writer[q].image
              /\ \A i \in 1..Len(answers') :
                   \/ answers'[i].payload \in {None, file.image.bundle}
                   \/ \E j \in 1..Len(answers) : answers'[i] = answers[j]
  <2>1. /\ UNCHANGED <<requests, history, sent>>
        /\ \A q \in Processes : writer'[q].image = writer[q].image
    BY <1>10, <1>a, StepsOfAWrite DEF Progress
  <2> DEFINE answer == [ok |-> writer[p].at = "replaced", payload |-> None]
  <2>2. answers' = answers \/ answers' = Append(answers, answer)
    BY <1>10, ProgressStep
  <2>3. answer \in Answer /\ answer.payload = None
    BY DEF Answer
  <2> HIDE DEF answer
  <2>4. answers \in Seq(Answer)
    BY <1>a DEF Pipes
  <2>5. CASE answers' = Append(answers, answer)
    <3>1. /\ Len(answers') = Len(answers) + 1 /\ Len(answers) \in Nat
          /\ \A i \in 1..Len(answers) : answers'[i] = answers[i]
          /\ answers'[Len(answers) + 1] = answer
      BY <2>3, <2>4, <2>5, AppendProperties
    <3>2. \A i \in 1..Len(answers') : i \in 1..Len(answers) \/ i = Len(answers) + 1
      BY <3>1
    <3>3. QED
      BY <2>1, <2>3, <3>1, <3>2
  <2>6. QED
    BY <2>1, <2>2, <2>5
<1>11. ASSUME NEW p \in Processes, KillScript(p) \/ ScriptWrites(p)
       PROVE  /\ UNCHANGED <<requests, answers, history, sent>>
              /\ \A q \in Processes : \/ writer'[q].image = writer[q].image
                                      \/ writer'[q].image.bundle = <<>>
  <2>1. CASE KillScript(p)
    BY <1>a, <2>1, Dies DEF KillScript, callVars
  <2>2. CASE ScriptWrites(p)
    BY <1>a, <2>2, ScriptBegins DEF ScriptWrites, panelVars, callVars
  <2>3. QED
    BY <1>11, <2>1, <2>2
<1>12. CASE UNCHANGED vars
  BY <1>12, <1>b DEF vars, fileVars, panelVars, callVars
<1>13. CASE \E p \in Processes : Progress(p) \/ KillScript(p) \/ ScriptWrites(p)
  <2>1. PICK p \in Processes : Progress(p) \/ KillScript(p) \/ ScriptWrites(p)
    BY <1>13
  <2>2. CASE Progress(p)
    BY <1>10, <2>2
  <2>3. CASE KillScript(p) \/ ScriptWrites(p)
    BY <1>11, <1>b, <2>3
  <2>4. QED
    BY <2>1, <2>2, <2>3
<1>14. QED
  BY <1>1, <1>2, <1>3, <1>4, <1>5, <1>6, <1>7, <1>8, <1>9, <1>12, <1>13 DEF Next, Quiescent

\* Whatever holds a bundle holds messages that were sent.
LEMMA AgesStep == Types /\ Types' /\ Temporary /\ Ages /\ [Next]_vars => Ages'
<1> SUFFICES ASSUME Types, Types', Temporary, Ages, [Next]_vars
             PROVE  Ages'
  OBVIOUS
<1>a. FileTypes /\ Pipes
  BY DEF Types
<1>b. /\ history \in Bundles \cup {None}
      /\ file.image.bundle \in Bundles \cup {None}
      /\ temp # None => temp.image.bundle \in Bundles \cup {None}
      /\ \A p \in Processes : writer[p].image.bundle \in Bundles \cup {None}
      /\ excel # None => excel.bundle \in Bundles \cup {None}
      /\ \A i \in 1..Len(requests) : requests[i] \in Bundles \cup {None}
      /\ \A i \in 1..Len(answers) : answers[i].payload \in Bundles \cup {None}
  <2>1. \A i \in 1..Len(requests) : requests[i] \in Bundles \cup {None}
    BY <1>a, ElementOfSeq DEF Pipes
  <2>2. \A i \in 1..Len(answers) : answers[i] \in Answer
    BY <1>a, ElementOfSeq DEF Pipes
  <2>3. QED
    BY <2>1, <2>2 DEF Types, FileTypes, Writers, Image, TempFile, Answer
<1> DEFINE Old(b) == b # None => \A i \in 1..Len(b) : b[i].number <= sent'
<1>c. sent' >= sent
  BY WhatMoves, SendExtends DEF Types
<1>d. \A b \in Bundles \cup {None} : Aged(b) => Old(b)
  BY <1>c, StaysAged
<1>e. /\ Old(history')
      /\ Old(file'.image.bundle)
      /\ temp' # None => Old(temp'.image.bundle)
      /\ \A p \in Processes : Old(writer'[p].image.bundle)
      /\ excel' # None => Old(excel'.bundle)
      /\ \A i \in 1..Len(requests') : Old(requests'[i])
      /\ \A i \in 1..Len(answers') : Old(answers'[i].payload)
      => Ages'
  BY DEF Ages, Aged
<1>f. Old(<<>>) /\ Old(None)
  BY EmptySeq
<1> HIDE DEF Old
<1>g. /\ Old(history)
      /\ Old(file.image.bundle)
      /\ temp # None => Old(temp.image.bundle)
      /\ \A p \in Processes : Old(writer[p].image.bundle)
      /\ excel # None => Old(excel.bundle)
      /\ \A i \in 1..Len(requests) : Old(requests[i])
      /\ \A i \in 1..Len(answers) : Old(answers[i].payload)
  BY <1>b, <1>d DEF Ages
<1>h. FileNext
  BY StepsOfTheFile DEF Types, Pipes
<1>i. /\ Old(file'.image.bundle)
      /\ temp' # None => Old(temp'.image.bundle)
      /\ excel' # None => Old(excel'.bundle)
  <2>1. CASE UNCHANGED fileVars
    BY <1>g, <2>1 DEF fileVars
  <2>2. CASE ExcelOpens
    BY <1>g, <2>2 DEF ExcelOpens
  <2>3. CASE ExcelSaves
    <3>1. excel \in Image
      BY <1>a, <2>3 DEF ExcelSaves, FileTypes
    <3>2. excel'.bundle = excel.bundle /\ file'.image = excel' /\ temp' = temp
      BY <2>3, <3>1 DEF ExcelSaves, Image
    <3>3. QED
      BY <1>g, <2>3, <3>2 DEF ExcelSaves
  <2>4. CASE ExcelCloses
    BY <1>g, <2>4 DEF ExcelCloses
  <2>5. CASE \E p \in Processes : \E bundle \in Bundles : BeginWrite(p, bundle)
    BY <1>g, <2>5 DEF BeginWrite
  <2>6. ASSUME NEW p \in Processes, WriteStep(p)
        PROVE  /\ Old(file'.image.bundle)
               /\ temp' # None => Old(temp'.image.bundle)
               /\ excel' # None => Old(excel'.bundle)
    <3>1. excel' = excel
      BY <1>a, <2>6, StepsOfAWrite
    <3>2. file' = file \/ (temp # None /\ file'.image = temp.image)
      BY <1>a, <2>6, StepsOfAWrite
    <3>3. temp # None => temp \in TempFile
      BY <1>a DEF FileTypes
    <3>4. \/ temp' = temp \/ temp' = None \/ temp'.image = writer[p].image
          \/ (temp # None /\ temp'.image = temp.image)
      BY <1>a, <2>6, <3>3, StepsOfAWrite DEF Temporary, TempFile, At
    <3>5. QED
      BY <1>g, <3>1, <3>2, <3>4
  <2>7. CASE \E p \in Processes : Die(p)
    BY <1>g, <2>7 DEF Die
  <2>8. QED
    BY <1>h, <2>1, <2>2, <2>3, <2>4, <2>5, <2>6, <2>7 DEF FileNext
<1>j. Old(history')
  <2>1. CASE Send
    <3>1. PICK new \in Bundles : /\ history' = history \o new
                                /\ \A i \in 1..Len(new) : new[i].number = sent + 1
      BY <2>1, SendExtends DEF Types
    <3>2. /\ sent' = sent + 1 /\ sent \in Nat
          /\ history \in Bundles /\ history' \in Bundles
          /\ Len(history) \in Nat /\ Len(new) \in Nat
      BY <2>1 DEF Send, Types
    <3>3. /\ Len(history') = Len(history) + Len(new)
          /\ \A i \in 1..Len(history) + Len(new) :
               history'[i] = IF i <= Len(history) THEN history[i] ELSE new[i - Len(history)]
      BY <3>1, <3>2, ConcatProperties
    <3>4. \A i \in 1..Len(history) : history[i].number <= sent'
      BY <1>g, <3>2 DEF Old
    <3>5. ASSUME NEW i \in 1..Len(history')
          PROVE  history'[i].number <= sent'
      <4>1. CASE i <= Len(history)
        BY <3>2, <3>3, <3>4, <4>1
      <4>2. CASE i > Len(history)
        <5>1. i - Len(history) \in 1..Len(new) /\ history'[i] = new[i - Len(history)]
          BY <3>2, <3>3, <4>2
        <5>2. QED
          BY <3>1, <3>2, <5>1
      <4>3. QED
        BY <3>2, <4>1, <4>2
    <3>6. QED
      BY <3>5 DEF Old
  <2>2. CASE ~Send
    BY <1>f, <1>g, <2>2, WhatMoves
  <2>3. QED
    BY <2>1, <2>2
<1>k. \A p \in Processes : Old(writer'[p].image.bundle)
  BY <1>f, <1>g, WhatMoves
<1>l. \A i \in 1..Len(requests') : Old(requests'[i])
  BY <1>f, <1>g, WhatMoves
<1>m. \A i \in 1..Len(answers') : Old(answers'[i].payload)
  BY <1>f, <1>g, WhatMoves
<1>n. QED
  BY <1>e, <1>i, <1>j, <1>k, <1>l, <1>m

\* What is due is a conversation, or None.
LEMMA WhatIsDue ==
  ASSUME Types
  PROVE  /\ Len(requests) \in Nat
         /\ \A i \in 0..Len(requests) : Due(i) # None => Due(i) \in Bundles
<1>1. requests \in Seq(Bundles \cup {None})
  BY DEF Types, Pipes
<1>2. \A i \in 1..Len(requests) : Due(i) = requests[i] /\ requests[i] \in Bundles \cup {None}
  BY <1>1, ElementOfSeq DEF Due
<1>3. Due(0) # None => Due(0) \in Bundles
  BY HeldBundles DEF Due, Types
<1>4. QED
  BY <1>1, <1>2, <1>3

\* When what is due only gets less, keeping its order, and nothing else that
\* Knows speaks of changes, but a panel that may stop showing a conversation.
LEMMA LessIsDue ==
  ASSUME Types, Knows, ~blind, ~overlap, NEW d \in {0, 1},
         Len(requests') \in Nat, Len(requests') + d <= Len(requests),
         \A i \in 0..Len(requests') : Due(i)' # None => Due(i)' = Due(i + d),
         file'.image = file.image, history' = history \/ ~Here',
         excel' = excel \/ ~Here', Here' => Here
  PROVE  Knows'
<1>1. Len(requests) \in Nat
  BY WhatIsDue
<1>2. Here' => Known(file.image.bundle)'
  BY DEF Knows, Known, Extends
<1>3. ASSUME NEW i \in 0..Len(requests'), Due(i)' # None
      PROVE  /\ Extends(Due(i), file.image.bundle)'
             /\ \A j \in i..Len(requests') : Due(j)' # None => IsPrefix(Due(i)', Due(j)')
             /\ Here' => /\ IsPrefix(Due(i), history)'
                         /\ Known(excel.bundle)' => Extends(Due(i), excel.bundle)'
  <2>1. i + d \in 0..Len(requests) /\ Due(i)' = Due(i + d) /\ Due(i + d) # None
    BY <1>1, <1>3
  <2>2. ASSUME NEW j \in i..Len(requests'), Due(j)' # None
        PROVE  IsPrefix(Due(i)', Due(j)')
    <3>1. j \in 0..Len(requests') /\ j + d \in (i + d)..Len(requests)
      BY <1>1, <2>2
    <3>2. Due(j)' = Due(j + d) /\ Due(j + d) # None
      BY <2>2, <3>1
    <3>3. QED
      BY <2>1, <3>1, <3>2 DEF Knows
  <2>3. Extends(Due(i), file.image.bundle)'
    BY <2>1 DEF Knows, Extends
  <2>4. Here' => /\ IsPrefix(Due(i), history)'
                 /\ Known(excel.bundle)' => Extends(Due(i), excel.bundle)'
    BY <2>1 DEF Knows, Known, Extends
  <2>5. QED
    BY <2>2, <2>3, <2>4
<1>4. QED
  BY <1>2, <1>3 DEF Knows

\* A panel that knows the file goes on knowing it.
LEMMA KnowsStep ==
  Types /\ Types' /\ Temporary /\ Conversation /\ Ages /\ Knows /\ [Next]_vars => Knows'
<1> SUFFICES ASSUME Types, Types', Temporary, Conversation, Ages, Knows, [Next]_vars,
                    ~blind', ~overlap'
             PROVE  Knows'
  BY DEF Knows
<1> DEFINE b == file.image.bundle
           x == excel.bundle
<1>a. FileTypes /\ Launcher \in Processes /\ FileNext /\ Pipes
  BY StepsOfTheFile DEF Types, Pipes
<1>b. ~overlap
  BY <1>a, StepsOfAWrite DEF FileNext, fileVars, ExcelOpens, ExcelSaves, ExcelCloses, BeginWrite, Die
<1>c. /\ Len(requests) \in Nat
      /\ \A i \in 0..Len(requests) : Due(i) # None => Due(i) \in Bundles
  BY WhatIsDue
<1>d. /\ b # None => b \in Bundles
      /\ Here => excel # None
      /\ excel # None /\ x # None => x \in Bundles
      /\ history \in Bundles /\ history' \in Bundles
      /\ <<>> \in Bundles
  BY <1>a, HeldBundles, EmptySeq DEF Types, Conversation, Here
<1>e. ASSUME ~blind, UNCHANGED <<requests, writer>>,
             file'.image = file.image, history' = history \/ ~Here',
             excel' = excel \/ ~Here', Here' => Here
      PROVE  Knows'
  <2>1. \A i \in 0..Len(requests') : Due(i)' = Due(i + 0)
    BY <1>c, <1>e DEF Due, InFlight, At
  <2>2. QED
    BY <1>b, <1>c, <1>e, <2>1, LessIsDue
<1>f. ASSUME NEW request \in {None, history}, Call(request), ~blind, UNCHANGED writer
      PROVE  /\ Len(requests') = Len(requests) + 1
             /\ \A i \in 0..Len(requests) : Due(i)' = Due(i)
             /\ \A i : i = Len(requests) + 1 => Due(i)' = request
  <2>1. /\ Len(requests') = Len(requests) + 1
        /\ \A i \in 1..Len(requests) : requests'[i] = requests[i]
        /\ requests'[Len(requests) + 1] = request
    BY <1>a, <1>d, <1>f, CallStep
  <2>2. QED
    BY <1>c, <1>f, <2>1 DEF Due, InFlight, At
<1>1. CASE OpenPanel
  BY <1>1, <1>e DEF OpenPanel, ExcelOpens, callVars, Here
<1>2. CASE Restore
  <2>1. ~blind /\ ~Here' /\ UNCHANGED <<file, writer>>
    BY <1>2 DEF Restore, fileVars, Here
  <2>2. /\ Len(requests') = Len(requests) + 1
        /\ \A i \in 0..Len(requests) : Due(i)' = Due(i)
        /\ \A i : i = Len(requests) + 1 => Due(i)' = None
    BY <1>2, <1>f, <2>1 DEF Restore
  <2>3. \A i \in 0..Len(requests') : Due(i)' # None => i \in 0..Len(requests)
    BY <1>c, <2>2
  <2>4. ASSUME NEW i \in 0..Len(requests'), Due(i)' # None
        PROVE  /\ Extends(Due(i), b)'
               /\ \A j \in i..Len(requests') : Due(j)' # None => IsPrefix(Due(i)', Due(j)')
    <3>1. i \in 0..Len(requests) /\ Due(i)' = Due(i) /\ Due(i) # None
      BY <2>2, <2>3, <2>4
    <3>2. \A j \in i..Len(requests') :
            Due(j)' # None => j \in i..Len(requests) /\ Due(j)' = Due(j)
      BY <1>c, <2>2, <2>3, <3>1
    <3>3. QED
      BY <1>b, <2>1, <3>1, <3>2 DEF Knows, Extends
  <2>5. QED
    BY <2>1, <2>4 DEF Knows
<1>3. CASE Restored
  <2>1. /\ answers # <<>> /\ history' = Given(Head(answers))
        /\ Extends(Given(Head(answers)), b) /\ ~WritePending
        /\ UNCHANGED <<file, writer, requests>>
    BY <1>3 DEF Restored, Take, fileVars
  <2>2. Known(b)'
    BY <2>1 DEF Known, Extends
  <2>3. \A i \in 0..Len(requests') : Due(i)' = None
    BY <2>1, <1>a DEF WritePending, Due, InFlight, At, Pipes
  <2>4. QED
    BY <2>2, <2>3 DEF Knows
<1>4. CASE RestoreFails \/ NewSession
  BY <1>4 DEF RestoreFails, NewSession
<1>5. CASE Send
  <2>1. ~blind /\ Here /\ Here' /\ UNCHANGED <<file, writer, excel, requests>>
    BY <1>5 DEF Send, fileVars, callVars, Here
  <2>2. PICK new \in Bundles : /\ history' = history \o new
                              /\ \A i \in 1..Len(new) : new[i].number = sent + 1
    BY <1>5, SendExtends DEF Types
  <2>3. ASSUME NEW old \in Bundles, Aged(old)
        PROVE  IsPrefix(old, history') <=> IsPrefix(old, history)
    <3>1. \A i \in 1..Len(new), j \in 1..Len(old) : new[i] # old[j]
      <4> SUFFICES ASSUME NEW i \in 1..Len(new), NEW j \in 1..Len(old)
                   PROVE  new[i] # old[j]
        OBVIOUS
      <4>1. old[j] \in Message /\ old # None
        BY ElementOfSeq
      <4>2. new[i].number = sent + 1 /\ old[j].number \in Nat /\ old[j].number <= sent
        BY <2>2, <2>3, <4>1 DEF Aged, Message
      <4>3. sent \in Nat
        BY DEF Types
      <4>4. QED
        BY ONLY <4>2, <4>3
    <3>2. QED
      BY <1>d, <2>2, <3>1, PrefixOfExtension
  <2>4. /\ Aged(b) /\ (excel # None => Aged(x))
        /\ \A i \in 0..Len(requests) : Due(i) # None => Aged(Due(i))
    BY <1>a DEF Ages, Due
  <2>5. b # None => (IsPrefix(b, history') <=> IsPrefix(b, history))
    BY <1>d, <2>3, <2>4
  <2>6. \A i \in 0..Len(requests) :
          Due(i) # None => (IsPrefix(Due(i), history') <=> IsPrefix(Due(i), history))
    BY <1>c, <2>3, <2>4
  <2>7. x # None => (IsPrefix(x, history') <=> IsPrefix(x, history))
    BY <1>d, <2>1, <2>3, <2>4
  <2>8. Known(b)' /\ (Known(x)' <=> Known(x))
    BY <1>b, <2>1, <2>5, <2>7 DEF Known, Extends, Knows
  <2>9. \A i \in 0..Len(requests) : Due(i)' = Due(i)
    BY <2>1 DEF Due, InFlight, At
  <2>10. ASSUME NEW i \in 0..Len(requests'), Due(i)' # None
         PROVE  /\ Extends(Due(i), b)'
                /\ \A j \in i..Len(requests') : Due(j)' # None => IsPrefix(Due(i)', Due(j)')
                /\ IsPrefix(Due(i), history)'
                /\ Known(x)' => Extends(Due(i), x)'
    <3>1. i \in 0..Len(requests) /\ Due(i)' = Due(i) /\ Due(i) # None
      BY <2>1, <2>9, <2>10
    <3>2. \A j \in i..Len(requests') : j \in 0..Len(requests) /\ Due(j)' = Due(j)
      BY <1>c, <2>1, <2>9, <3>1
    <3>3. /\ Extends(Due(i), b)
          /\ \A j \in i..Len(requests) : Due(j) # None => IsPrefix(Due(i), Due(j))
          /\ IsPrefix(Due(i), history)
          /\ Known(x) => Extends(Due(i), x)
      BY <1>b, <2>1, <3>1 DEF Knows
    <3>4. QED
      BY <2>1, <2>6, <2>8, <3>1, <3>2, <3>3 DEF Extends
  <2>11. QED
    BY <2>8, <2>10 DEF Knows
<1>6. CASE Save \/ Refuse \/ Saved \/ SaveFails
  <2>1. /\ ~blind /\ Here /\ UNCHANGED <<file, writer, excel, history>>
        /\ UNCHANGED requests
    BY <1>6, <1>a, EndStep DEF Save, Refuse, Saved, SaveFails, fileVars, callVars, Here
  <2>2. QED
    BY <1>e, <2>1
<1>7. CASE Approve
  <2>1. ~blind /\ Here /\ UNCHANGED <<file, writer, excel, history>>
    BY <1>7 DEF Approve, fileVars, Here
  <2>2. /\ Len(requests') = Len(requests) + 1
        /\ \A i \in 0..Len(requests) : Due(i)' = Due(i)
        /\ \A i : i = Len(requests) + 1 => Due(i)' = history
    BY <1>7, <1>f, <2>1 DEF Approve
  <2>3. Known(b)' /\ Extends(history, b) /\ (Known(x)' <=> Known(x))
    BY <1>b, <2>1 DEF Known, Extends, Knows
  <2>4. ASSUME NEW i \in 0..Len(requests), Due(i) # None
        PROVE  /\ Extends(Due(i), b)
               /\ \A j \in i..Len(requests) : Due(j) # None => IsPrefix(Due(i), Due(j))
               /\ IsPrefix(Due(i), history)
               /\ Known(x) => Extends(Due(i), x)
    BY <1>b, <2>1, <2>4 DEF Knows
  <2>5. ASSUME NEW i \in 0..Len(requests'), Due(i)' # None
        PROVE  /\ Extends(Due(i), b)'
               /\ \A j \in i..Len(requests') : Due(j)' # None => IsPrefix(Due(i)', Due(j)')
               /\ IsPrefix(Due(i), history)'
               /\ Known(x)' => Extends(Due(i), x)'
    <3>1. CASE i \in 0..Len(requests)
      <4>1. Due(i)' = Due(i) /\ Due(i) # None
        BY <2>2, <2>5, <3>1
      <4>2. \A j \in i..Len(requests') :
              \/ j \in i..Len(requests) /\ Due(j)' = Due(j)
              \/ Due(j)' = history
        BY <1>c, <2>2, <3>1
      <4>3. QED
        BY <2>1, <2>3, <2>4, <3>1, <4>1, <4>2 DEF Extends
    <3>2. CASE i = Len(requests) + 1
      <4>1. Due(i)' = history /\ \A j \in i..Len(requests') : Due(j)' = history
        BY <1>c, <2>2, <3>2
      <4>2. IsPrefix(history, history)
        BY <1>d, TrivialPrefixes
      <4>3. QED
        BY <2>1, <2>3, <4>1, <4>2 DEF Known, Extends
    <3>3. QED
      BY <1>c, <2>2, <2>5, <3>1, <3>2
  <2>6. QED
    BY <2>3, <2>5 DEF Knows
<1>8. CASE ClosePanel
  <2>1. ~blind /\ ~Here' /\ UNCHANGED <<file, writer>>
    BY <1>8 DEF ClosePanel, ExcelCloses, Here
  <2>2. UNCHANGED requests
    BY <1>8, <1>a, EndStep DEF ClosePanel, callVars
  <2>3. QED
    BY <1>e, <2>1, <2>2
<1>9. CASE ExcelSavesOver
  <2>1. /\ ~blind /\ Known(x) /\ excel \in Image
        /\ UNCHANGED <<writer, panel, history, requests>>
    BY <1>9, <1>a DEF ExcelSavesOver, ExcelSaves, FileTypes, Types, callVars
  <2>2. b' = x /\ x' = x
    BY <1>9, <2>1 DEF ExcelSavesOver, ExcelSaves, Image
  <2>3. Known(b)' /\ (Here' <=> Here)
    BY <2>1, <2>2 DEF Known, Extends, Here
  <2>4. \A i \in 0..Len(requests) : Due(i)' = Due(i)
    BY <2>1 DEF Due, InFlight, At
  <2>5. ASSUME NEW i \in 0..Len(requests), Due(i) # None
        PROVE  Extends(Due(i), x)
    <3>1. CASE Here
      BY <1>b, <2>1, <2>5, <3>1 DEF Knows
    <3>2. CASE ~Here
      <4>1. history = <<>>
        BY <3>2 DEF Conversation, Here, Types
      <4>2. x # None => x = <<>>
        BY <1>d, <2>1, <4>1, TrivialPrefixes DEF Known, Extends
      <4>3. Due(i) \in Bundles
        BY <1>c, <2>5
      <4>4. QED
        BY <4>2, <4>3, TrivialPrefixes DEF Extends
    <3>3. QED
      BY <3>1, <3>2
  <2>6. ASSUME NEW i \in 0..Len(requests'), Due(i)' # None
        PROVE  /\ Extends(Due(i), b)'
               /\ \A j \in i..Len(requests') : Due(j)' # None => IsPrefix(Due(i)', Due(j)')
               /\ Here' => IsPrefix(Due(i), history)' /\ (Known(x)' => Extends(Due(i), x)')
    <3>1. i \in 0..Len(requests) /\ Due(i)' = Due(i) /\ Due(i) # None
      BY <2>1, <2>4, <2>6
    <3>2. \A j \in i..Len(requests') : j \in i..Len(requests) /\ Due(j)' = Due(j)
      BY <1>c, <2>1, <2>4, <3>1
    <3>3. /\ \A j \in i..Len(requests) : Due(j) # None => IsPrefix(Due(i), Due(j))
          /\ Here => IsPrefix(Due(i), history)
      BY <1>b, <2>1, <3>1 DEF Knows
    <3>4. QED
      BY <2>1, <2>2, <2>3, <2>5, <3>1, <3>2, <3>3 DEF Extends
  <2>7. QED
    BY <2>3, <2>6 DEF Knows
<1>10. CASE Serve
  <2>1. /\ ~blind /\ UNCHANGED <<file, excel, history, panel>>
        /\ writer[Launcher].at = "idle" /\ Len(requests') = Len(requests) - 1
        /\ \A i \in 1..Len(requests') : requests'[i] = requests[i + 1]
        /\ requests # <<>>
    BY <1>10, ServeStep DEF Serve, BeginWrite, fileVars
  <2>2. Len(requests) >= 1
    BY <1>a, <2>1, EmptySeq DEF Pipes
  <2>3. \/ writer' = writer
        \/ writer'[Launcher].image.bundle = requests[1]
    BY <1>10, <1>a, ServeStep, Begins DEF fileVars
  <2>4. Due(0)' # None => Due(0)' = Due(1)
    BY <2>1, <2>3 DEF Due, InFlight, At
  <2>5. \A i \in 1..Len(requests') : Due(i)' = Due(i + 1)
    BY <1>c, <2>1 DEF Due
  <2>6. \A i \in 0..Len(requests') : Due(i)' # None => Due(i)' = Due(i + 1)
    BY <1>c, <2>1, <2>4, <2>5
  <2>7. QED
    BY <1>b, <1>c, <2>1, <2>2, <2>6, LessIsDue DEF Here
<1>11. CASE KillWorker
  <2>1. /\ ~blind /\ UNCHANGED <<file, excel, history, panel>>
        /\ writer'[Launcher].at = "idle" /\ requests' = <<>>
    BY <1>11, <1>a, Dies DEF KillWorker, fileVars, At
  <2>2. Len(<<>>) = 0
    OBVIOUS
  <2>3. \A i \in 0..Len(requests') : Due(i)' = None
    BY <2>1, <2>2 DEF Due, InFlight, At
  <2>4. QED
    BY <1>b, <1>c, <2>1, <2>3 DEF Knows, Known, Extends, Here
<1>12. ASSUME NEW p \in Processes, Progress(p)
       PROVE  Knows'
  <2>1. /\ ~blind
        /\ UNCHANGED <<panel, history, excel, requests>>
        /\ \A q \in Processes : writer'[q].image = writer[q].image
        /\ \A q \in Processes \ {p} : writer'[q].at = writer[q].at
    BY <1>12, <1>a, StepsOfAWrite DEF Progress
  <2>2. \A i \in 1..Len(requests) : Due(i)' = Due(i)
    BY <2>1 DEF Due
  <2>3. CASE file' = file /\ (InFlight(p)' => InFlight(p))
    <3>1. Due(0)' # None => Due(0)' = Due(0)
      BY <1>a, <2>1, <2>3 DEF Due, InFlight, At
    <3>2. \A i \in 0..Len(requests') : Due(i)' # None => Due(i)' = Due(i + 0)
      BY <1>c, <2>1, <2>2, <3>1
    <3>3. QED
      BY <1>b, <1>c, <2>1, <2>3, <3>2, LessIsDue DEF Here
  <2>4. CASE /\ writer[p].at = "closed" /\ writer'[p].at = "replaced"
             /\ file'.image = temp.image
    <3>1. b' = writer[p].image.bundle /\ InFlight(p)
      BY <1>b, <2>4 DEF Temporary, Using, InFlight, At
    <3>2. /\ \A i \in 0..Len(requests') : Due(i)' # None => Due(i)' = Due(i)
          /\ \A i \in 0..Len(requests') : Due(i)' # None => Extends(Due(i)', b')
          /\ Here => Known(b)'
      <4>1. CASE p = Launcher
        <5>1. b' = Due(0) /\ Due(0)' = None /\ Due(0) # None
          BY <2>4, <3>1, <4>1 DEF Due, InFlight, At, Conversation
        <5>2. \A i \in 0..Len(requests) : Due(i) # None => Extends(Due(i), b')
          BY <1>b, <1>c, <2>1, <5>1 DEF Knows, Extends
        <5>3. Here => Known(b)'
          BY <1>b, <1>c, <2>1, <5>1 DEF Knows, Known, Extends
        <5>4. \A i \in 0..Len(requests') : Due(i)' # None => Due(i)' = Due(i)
          BY <1>c, <2>1, <2>2, <5>1
        <5>5. QED
          BY <2>1, <5>2, <5>3, <5>4
      <4>2. CASE p # Launcher
        <5>1. b' = <<>> /\ Due(0)' = Due(0)
          BY <1>a, <2>1, <3>1, <4>2 DEF Conversation, Due, InFlight, At
        <5>2. \A i \in 0..Len(requests') : Due(i)' = Due(i)
          BY <1>c, <2>1, <2>2, <5>1
        <5>3. \A i \in 0..Len(requests') : Due(i)' # None => Extends(Due(i)', b')
          BY <1>c, <2>1, <5>1, <5>2, TrivialPrefixes DEF Extends
        <5>4. Known(b)'
          BY <1>d, <5>1, TrivialPrefixes DEF Known, Extends
        <5>5. QED
          BY <5>2, <5>3, <5>4
      <4>3. QED
        BY <4>1, <4>2
    <3>3. Here' => Known(b)'
      BY <2>1, <3>2 DEF Here
    <3>4. ASSUME NEW i \in 0..Len(requests'), Due(i)' # None
          PROVE  /\ \A j \in i..Len(requests') : Due(j)' # None => IsPrefix(Due(i)', Due(j)')
                 /\ Here' => IsPrefix(Due(i), history)' /\ (Known(x)' => Extends(Due(i), x)')
      <4>1. i \in 0..Len(requests) /\ Due(i)' = Due(i) /\ Due(i) # None
        BY <2>1, <3>2, <3>4
      <4>2. \A j \in i..Len(requests') :
              Due(j)' # None => j \in i..Len(requests) /\ Due(j)' = Due(j)
        BY <1>c, <2>1, <3>2, <4>1
      <4>3. /\ \A j \in i..Len(requests) : Due(j) # None => IsPrefix(Due(i), Due(j))
            /\ Here => IsPrefix(Due(i), history) /\ (Known(x) => Extends(Due(i), x))
        BY <1>b, <2>1, <4>1 DEF Knows
      <4>4. QED
        BY <2>1, <4>1, <4>2, <4>3 DEF Known, Extends, Here
    <3>5. QED
      BY <3>2, <3>3, <3>4 DEF Knows
  <2>5. \/ file' = file /\ (InFlight(p)' => InFlight(p))
        \/ /\ writer[p].at = "closed" /\ writer'[p].at = "replaced"
           /\ file'.image = temp.image
    BY <1>12, <1>a, StepsOfAWrite DEF Progress, InFlight, At
  <2>6. QED
    BY <2>3, <2>4, <2>5
<1>13. ASSUME NEW p \in Processes, KillScript(p) \/ ScriptWrites(p)
       PROVE  Knows'
  <2>1. ~blind /\ UNCHANGED <<panel, history, excel, file, requests>>
    BY <1>13 DEF KillScript, Die, ScriptWrites, BeginWrite, panelVars, callVars
  <2>2. /\ writer'[Launcher].at = writer[Launcher].at
        /\ writer'[Launcher].image = writer[Launcher].image
    BY <1>13, <1>a, Dies, ScriptBegins DEF KillScript
  <2>3. \A i \in 0..Len(requests') : Due(i)' = Due(i + 0)
    BY <1>c, <2>1, <2>2 DEF Due, InFlight, At
  <2>4. QED
    BY <1>b, <1>c, <2>1, <2>3, LessIsDue DEF Here
<1>14. CASE UNCHANGED vars
  BY <1>14, <1>e DEF vars, fileVars, panelVars, callVars, Here
<1>15. QED
  BY <1>1, <1>2, <1>3, <1>4, <1>5, <1>6, <1>7, <1>8, <1>9, <1>10, <1>11, <1>12, <1>13, <1>14
     DEF Next, Quiescent

-----------------------------------------------------------------------------
(* The theorems                                                            *)

\* A closed panel, a workbook without a bundle, and nobody who writes.
LEMMA InitHolds == Init => IInv
<1> SUFFICES ASSUME Init
             PROVE  IInv
  OBVIOUS
<1>1. [cells |-> 0, bundle |-> None] \in Image
  BY DEF Image
<1>2. \A p \in Processes : writer[p] = [at |-> "idle", image |-> [cells |-> 0, bundle |-> None]]
  BY DEF Init, FileInit
<1>3. FileTypes
  <2>1. file \in [image : Image, whole : BOOLEAN]
    BY <1>1 DEF Init, FileInit
  <2>2. writer \in [Processes -> Writers]
    BY <1>1 DEF Init, FileInit, Writers, Steps
  <2>3. temp \in {None} \cup TempFile /\ excel \in {None} \cup Image
    BY DEF Init, FileInit
  <2>4. saved \in 0..MaxCells
    BY DEF Init, FileInit
  <2>5. raced \in BOOLEAN /\ overlap \in BOOLEAN
    BY DEF Init, FileInit
  <2>6. QED
    BY <2>1, <2>2, <2>3, <2>4, <2>5 DEF FileTypes
<1>4. TypeOK
  <2>1. <<>> \in Bundles
    BY EmptySeq
  <2>2. panel = "closed" /\ history \in Bundles /\ kept = None
    BY <2>1 DEF Init
  <2>3. sent \in 0..MaxSends /\ faults \in 0..MaxFaults
    BY DEF Init
  <2>4. others \in BOOLEAN /\ blind \in BOOLEAN
    BY DEF Init
  <2>5. Pipes
    BY EmptySeq DEF Init, Pipes
  <2>6. Types
    BY <1>3, <2>2, <2>3, <2>4, <2>5 DEF Types
  <2>7. QED
    BY <2>6, TypesAreTypeOK
<1>5. Temporary /\ Cells /\ FileWhole
  BY <1>2 DEF Init, FileInit, Temporary, Cells, FileWhole, At, Using, InFlight
<1>6. Conversation /\ Told
  BY <1>2 DEF Init, FileInit, Conversation, Told, SavedStands, At, InFlight
<1>7. Ages
  BY <1>2, EmptySeq DEF Init, FileInit, Ages, Aged
<1>8. Knows
  BY <1>2, EmptySeq DEF Init, FileInit, Knows, Due, Here, At, InFlight
<1>9. QED
  BY <1>4, <1>5, <1>6, <1>7, <1>8 DEF IInv

\* The inductive invariant holds.
LEMMA Inductive == Spec => []IInv
<1>1. IInv /\ [Next]_vars => IInv'
  <2> SUFFICES ASSUME IInv, [Next]_vars
               PROVE  IInv'
    OBVIOUS
  <2>1. Types /\ FileTypes /\ FileNext
    BY TypesAreTypeOK, StepsOfTheFile DEF IInv, Types, Pipes
  <2>2. Types' /\ TypeOK'
    <3>1. Types'
      BY <2>1, TypesStep DEF IInv
    <3>2. Types' => TypeOK'
      BY TypesAreTypeOK, PTL
    <3>3. QED
      BY <3>1, <3>2
  <2>3. Temporary' /\ Cells' /\ FileWhole'
    BY <2>1, TemporaryStep, CellsStep, WholeStep DEF IInv
  <2>4. Conversation' /\ Told' /\ Ages' /\ Knows'
    BY <2>1, <2>2, ConversationStep, ToldStep, AgesStep, KnowsStep DEF IInv
  <2>5. QED
    BY <2>2, <2>3, <2>4 DEF IInv
<1>2. QED
  BY InitHolds, <1>1, PTL DEF Spec

\* Every variable keeps its type.
THEOREM TypeCorrect == Spec => []TypeOK
<1>1. IInv => TypeOK
  BY DEF IInv
<1>2. QED
  BY <1>1, Inductive, PTL

\* The workbook is a whole archive wherever a writer is killed, unless two
\* processes used the temporary file at once.
THEOREM WorkbookStaysWhole == Spec => []FileWhole
<1>1. IInv => FileWhole
  BY DEF IInv
<1>2. QED
  BY <1>1, Inductive, PTL

\* A write of a bundle never takes back the cells, unless Excel saved during it.
THEOREM CellsAreKept == Spec => []CellsKept
<1>1. IInv => CellsKept
  BY DEF IInv, Cells, CellsKept
<1>2. QED
  BY <1>1, Inductive, PTL

\* What the user was told is saved, by the save's own answer, is in the workbook
\* until the next write.
THEOREM SavesStand == Spec => []SavedStands
<1>1. IInv => SavedStands
  BY DEF IInv, Told
<1>2. QED
  BY <1>1, Inductive, PTL

\* A write of a panel that knows the file drops no message from it: one that was
\* given the workbook's conversation when it asked, with no save of its own still
\* to come.
THEOREM NothingIsForgotten == Spec => NothingForgotten
<1>1. IInv /\ [Next]_vars =>
        [file' # file /\ saved' = saved /\ At(Launcher) = "closed" /\ ~overlap /\ ~blind =>
           \/ file.image.bundle = None
           \/ IsPrefix(file.image.bundle, file'.image.bundle)]_vars
  <2> SUFFICES ASSUME IInv, [Next]_vars,
                      file' # file, saved' = saved, At(Launcher) = "closed", ~overlap, ~blind
               PROVE  \/ file.image.bundle = None
                      \/ IsPrefix(file.image.bundle, file'.image.bundle)
    OBVIOUS
  <2>1. FileTypes /\ FileNext /\ saved \in Nat
    BY TypesAreTypeOK, StepsOfTheFile DEF IInv, Types, Pipes, FileTypes
  <2>2. PICK p \in Processes : WriteStep(p)
    BY <2>1 DEF FileNext, fileVars, ExcelOpens, ExcelSaves, ExcelCloses, BeginWrite, Die
  <2>3. writer[p].at = "closed" /\ file'.image = temp.image
    BY <2>1, <2>2, StepsOfAWrite
  <2>4. p = Launcher /\ file'.image = writer[Launcher].image
    BY <2>3 DEF IInv, Temporary, Using, At
  <2>5. Extends(writer[Launcher].image.bundle, file.image.bundle)
    <3>1. Due(0) = writer[Launcher].image.bundle /\ Due(0) # None
      BY DEF Due, InFlight, At, IInv, Conversation
    <3>2. 0 \in 0..Len(requests)
      BY TypesAreTypeOK, WhatIsDue DEF IInv
    <3>3. QED
      BY <3>1, <3>2 DEF IInv, Knows
  <2>6. QED
    BY <2>4, <2>5 DEF Extends
<1>2. QED
  BY <1>1, Inductive, PTL DEF Spec, NothingForgotten
==============================================================================
