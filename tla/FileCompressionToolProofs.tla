----------------------- MODULE FileCompressionToolProofs -----------------------
(***************************************************************************)
(* What the page guarantees for any number of files and of reads in        *)
(* flight at once.                                                         *)
(***************************************************************************)
EXTENDS FileCompressionTool, TLAPS

LEMMA ToolInit == Init => ToolInv
BY ToolAssumption DEF Init, ToolInv, TypeOK, Mode, BusyIsInFlight, OneOutcome, ShownBelongs,
                      InFlightBelongs, NoReads

LEMMA ToolKept == ToolInv /\ [Next]_vars => ToolInv'
<1>. SUFFICES ASSUME ToolInv, [Next]_vars PROVE ToolInv'
  OBVIOUS
<1>. USE ToolAssumption DEF ToolInv, TypeOK, BusyIsInFlight, OneOutcome, ShownBelongs,
                            InFlightBelongs, NoReads, Outcome
<1>1. ASSUME NEW f \in File, Pick(f) PROVE ToolInv'
  BY <1>1 DEF Pick, ShowNothing
<1>2. CASE PickNothing
  BY <1>2 DEF PickNothing, ShowNothing
<1>3. ASSUME NEW r \in Read, ReadDone(r) PROVE ToolInv'
  BY <1>3 DEF ReadDone, shown, history
<1>4. ASSUME NEW r \in Read, ReadFails(r) PROVE ToolInv'
  BY <1>4 DEF ReadFails, shown, history
<1>5. ASSUME NEW m \in Mode, SwitchMode(m) PROVE ToolInv'
  BY <1>5 DEF SwitchMode, ShowNothing
<1>6. CASE Run
  BY <1>6 DEF Run, ShowNothing
<1>7. CASE CallAnswered
  BY <1>7 DEF CallAnswered, history
<1>8. CASE CallFails
  BY <1>8 DEF CallFails, history
<1>9. CASE UNCHANGED vars
  BY <1>9 DEF vars, shown, history
<1>. QED
  BY <1>1, <1>2, <1>3, <1>4, <1>5, <1>6, <1>7, <1>8, <1>9 DEF Next

\* The invariant of the component, however picks, reads, switches and calls
\* follow each other (onPickFile() and run()).
THEOREM ToolInvariant == Spec => []ToolInv
BY ToolInit, ToolKept, PTL DEF Spec

\* Every state variable keeps to its values (the useState() of the component).
THEOREM TypeCorrect == Spec => []TypeOK
<1>1. ToolInv => TypeOK
  BY DEF ToolInv
<1>. QED
  BY <1>1, ToolInvariant, PTL

\* The button is dead exactly while a call is in flight (setBusy() in run()).
THEOREM BusyButton == Spec => []BusyIsInFlight
<1>1. ToolInv => BusyIsInFlight
  BY DEF ToolInv
<1>. QED
  BY <1>1, ToolInvariant, PTL

\* A result and an error are never shown together (the setters at the
\* beginning of run()).
THEOREM ResultOrError == Spec => []OneOutcome
<1>1. ToolInv => OneOutcome
  BY DEF ToolInv
<1>. QED
  BY <1>1, ToolInvariant, PTL

\* Who waits for reads and runs sees the result of the file and mode shown
\* (the continuations behind the awaits of onPickFile() and run()).
THEOREM ResultBelongs == Spec => []ShownBelongs
<1>1. ToolInv => ShownBelongs
  BY DEF ToolInv
<1>. QED
  BY <1>1, ToolInvariant, PTL
=============================================================================
