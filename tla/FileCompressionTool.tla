------------------------- MODULE FileCompressionTool --------------------------
(***************************************************************************)
(* The page's FileCompressionTool component                                *)
(* (src/frontend/src/components/file-compression-tool.tsx) with the calls  *)
(* of lib/api.ts it makes.                                                 *)
(*                                                                         *)
(* onPickFile() and run() are asynchronous: each runs to its await, and    *)
(* what follows runs when the file has been read or the API has answered,  *)
(* in any order, with whatever the user does in between.  React shows the  *)
(* state one handler leaves before it delivers the next click, so a        *)
(* handler's part up to its await is one step.                             *)
(*                                                                         *)
(* A file stands for its content too.  What the API makes of a content is  *)
(* named by the content and the mode; so is the message of a failed call.  *)
(***************************************************************************)
CONSTANTS
  File,      \* the files that may be picked
  Read,      \* identities of f.arrayBuffer() calls in flight: as many at once
  NoFile,    \* null for file and inputBytes
  NoOutcome  \* null for outputBytes and error

Mode    == {"compress", "decompress"}
Outcome == [mode : Mode, of : File]

ASSUME ToolAssumption ==
  /\ NoFile \notin File
  /\ NoOutcome \notin Outcome

VARIABLES
  mode, file, inputBytes, outputBytes, error, busy,  \* the component's state
  reads,      \* for each read in flight, its file
  flight,     \* the API call in flight: the mode and bytes run() began with
  readAlone,  \* history: the last pick met no read in flight
  runAlone    \* history: nothing was picked or switched during the last run

shown == <<outputBytes, error>>
history == <<readAlone, runAlone>>
vars == <<mode, file, inputBytes, shown, busy, reads, flight, history>>

TypeOK ==
  /\ mode \in Mode
  /\ file \in File \cup {NoFile}
  /\ inputBytes \in File \cup {NoFile}
  /\ outputBytes \in Outcome \cup {NoOutcome}
  /\ error \in Outcome \cup {NoOutcome}
  /\ busy \in BOOLEAN
  /\ reads \in [Read -> File \cup {NoFile}]
  /\ flight \in Outcome \cup {NoOutcome}
  /\ readAlone \in BOOLEAN
  /\ runAlone \in BOOLEAN

Init ==
  /\ mode = "compress"
  /\ file = NoFile
  /\ inputBytes = NoFile
  /\ outputBytes = NoOutcome
  /\ error = NoOutcome
  /\ busy = FALSE
  /\ reads = [r \in Read |-> NoFile]
  /\ flight = NoOutcome
  /\ readAlone = TRUE
  /\ runAlone = TRUE

ShowNothing == outputBytes' = NoOutcome /\ error' = NoOutcome

NoReads == \A r \in Read : reads[r] = NoFile

-----------------------------------------------------------------------------
(***************************************************************************)
(* Faulty variants, each the slip its comment names.  No specification     *)
(* uses them: put in the place of the action they are named after, they    *)
(* show that the properties can fail.                                      *)
(***************************************************************************)

\* The mode buttons leave the old result on the page.
SwitchModeKeepsResult(m) ==
  /\ mode' = m
  /\ runAlone' = ~busy
  /\ UNCHANGED <<file, inputBytes, shown, busy, reads, flight, readAlone>>

\* setBusy(false) at the end of the try block, not in finally.
CallFailsStaysBusy ==
  /\ flight # NoOutcome
  /\ error' = flight
  /\ flight' = NoOutcome
  /\ UNCHANGED <<mode, file, inputBytes, outputBytes, busy, reads, history>>

-----------------------------------------------------------------------------
(* onPickFile()                                                            *)

Pick(f) ==
  /\ ShowNothing
  /\ file' = f
  /\ inputBytes' = NoFile
  /\ \E r \in Read : reads[r] = NoFile /\ reads' = [reads EXCEPT ![r] = f]
  /\ readAlone' = NoReads
  /\ runAlone' = ~busy
  /\ UNCHANGED <<mode, busy, flight>>

\* The file dialog was left without a file.
PickNothing ==
  /\ ShowNothing
  /\ file' = NoFile
  /\ inputBytes' = NoFile
  /\ readAlone' = NoReads
  /\ runAlone' = ~busy
  /\ UNCHANGED <<mode, busy, reads, flight>>

\* await f.arrayBuffer() is over: setInputBytes(), whatever file is by now.
ReadDone(r) ==
  /\ reads[r] # NoFile
  /\ inputBytes' = reads[r]
  /\ reads' = [reads EXCEPT ![r] = NoFile]
  /\ UNCHANGED <<mode, file, shown, busy, flight, history>>

\* It was rejected: nobody catches that, and nothing is shown.
ReadFails(r) ==
  /\ reads[r] # NoFile
  /\ reads' = [reads EXCEPT ![r] = NoFile]
  /\ UNCHANGED <<mode, file, inputBytes, shown, busy, flight, history>>

-----------------------------------------------------------------------------
(* The mode buttons and run().                                             *)

SwitchMode(m) ==
  /\ mode' = m
  /\ ShowNothing
  /\ runAlone' = ~busy
  /\ UNCHANGED <<file, inputBytes, busy, reads, flight, readAlone>>

\* The button is disabled while busy and without inputBytes, so the test of
\* inputBytes in run() never fails.
Run ==
  /\ ~busy /\ inputBytes # NoFile
  /\ ShowNothing
  /\ busy' = TRUE
  /\ flight' = [mode |-> mode, of |-> inputBytes]
  /\ runAlone' = TRUE
  /\ UNCHANGED <<mode, file, inputBytes, reads, readAlone>>

\* postBinary() returned the bytes of a successful response.
CallAnswered ==
  /\ flight # NoOutcome
  /\ outputBytes' = flight
  /\ flight' = NoOutcome
  /\ busy' = FALSE
  /\ UNCHANGED <<mode, file, inputBytes, error, reads, history>>

\* postBinary() threw: no connection, a status that is not ok, a broken body.
CallFails ==
  /\ flight # NoOutcome
  /\ error' = flight
  /\ flight' = NoOutcome
  /\ busy' = FALSE
  /\ UNCHANGED <<mode, file, inputBytes, outputBytes, reads, history>>

-----------------------------------------------------------------------------
Next ==
  \/ \E f \in File : Pick(f)
  \/ PickNothing
  \/ \E r \in Read : ReadDone(r) \/ ReadFails(r)
  \/ \E m \in Mode : SwitchMode(m)
  \/ Run
  \/ CallAnswered
  \/ CallFails

Spec == Init /\ [][Next]_vars

-----------------------------------------------------------------------------
(* Properties.                                                             *)

\* "Working..." is shown and the button disabled exactly while a call is in
\* flight, whatever was picked or switched meanwhile; so there is never more
\* than one call, and none after which the button stays dead.
BusyIsInFlight == busy <=> flight # NoOutcome

\* The page shows a result or an error, never both, and neither of them
\* during a call, where it would be the one of an earlier call.
OneOutcome ==
  /\ outputBytes = NoOutcome \/ error = NoOutcome
  /\ busy => outputBytes = NoOutcome /\ error = NoOutcome

\* The result or error on the page is the one of the file and the mode shown
\* beside it, and the download bears their name - provided that the last
\* file was picked while no read was in flight, and nothing was picked or
\* switched during the last run.  Without either condition it is not so:
\* neither continuation looks whether file or mode have changed.
ShownBelongs ==
  readAlone /\ runAlone =>
    \A s \in {outputBytes, error} : s # NoOutcome => s = [mode |-> mode, of |-> file]

\* What the conditions buy: the reads and the call in flight are those of
\* the file and mode on the page.
InFlightBelongs ==
  /\ readAlone => /\ inputBytes \in {file, NoFile}
                  /\ \A r \in Read : reads[r] \in {file, NoFile}
                  /\ inputBytes # NoFile => NoReads
                  /\ \A q, r \in Read : reads[q] # NoFile /\ reads[r] # NoFile => q = r
  /\ readAlone /\ runAlone /\ busy => /\ flight = [mode |-> mode, of |-> file]
                                      /\ inputBytes = file

\* The conjunction that every step preserves.
ToolInv ==
  /\ TypeOK
  /\ BusyIsInFlight
  /\ OneOutcome
  /\ ShownBelongs
  /\ InFlightBelongs

=============================================================================
