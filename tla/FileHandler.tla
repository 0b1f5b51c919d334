------------------------------ MODULE FileHandler -----------------------------
(***************************************************************************)
(* FileHandler::readFile() and writeFile() (src/src/FileHandler.cpp) on    *)
(* one file, called by several threads or processes at a time; a disk that *)
(* fills up or fails at any moment; processes that die in the middle.      *)
(*                                                                         *)
(* libstdc++ puts less than Direct bytes into the stream's buffer, which   *)
(* flush() writes, and writes more at once; a write may come to the disk   *)
(* in pieces.  An exception leaves writeFile() through the destructor of   *)
(* the stream, which tries to write a full buffer again, from its          *)
(* beginning, and ignores what comes of it.                                *)
(*                                                                         *)
(* A call that cannot open the file changes nothing and is left out.       *)
(***************************************************************************)
EXTENDS Naturals, Sequences, FiniteSetsExt

CONSTANTS
  Thread,   \* who calls readFile() and writeFile()
  Byte,     \* the bytes of their data
  Zero,     \* a byte that nobody has given: of a hole, or of a fresh vector
  Content,  \* the arguments of writeFile()
  Direct,   \* 1024: the least number of bytes that is not buffered
  Unknown   \* no expectation

ASSUME FileAssumption ==
  /\ Zero \notin Byte
  /\ Content \subseteq Seq(Byte)
  /\ Direct \in Nat
  /\ Unknown \notin Seq(Byte)

VARIABLES
  exists,      \* the file has been created
  file,        \* its bytes
  pc,          \* where each thread is
  data,        \* writeFile()'s argument, readFile()'s vector as far as it is read
  pos,         \* how much of its data a writer has written
  size,        \* readFile()'s size
  content,     \* history: what the last writeFile() was given, if nothing disturbed it
  alone,       \* history: no other write overlaps a thread's
  expected,    \* history: content, if no write overlaps a thread's read
  overlapped   \* history: two writes have overlapped

disk    == <<exists, file>>
locals  == <<pc, data, pos, size>>
history == <<content, alone, expected, overlapped>>
vars    == <<disk, locals, history>>

Writing == {t \in Thread : pc[t] \in {"write", "flush", "unwind"}}
Reading == {t \in Thread : pc[t] \in {"size", "read", "got"}}

TypeOK ==
  /\ exists \in BOOLEAN
  /\ file \in Seq(Byte \cup {Zero})
  /\ pc \in [Thread -> {"idle", "size", "read", "got", "write", "flush", "unwind"}]
  /\ data \in [Thread -> Seq(Byte \cup {Zero})]
  /\ pos \in [Thread -> Nat] /\ size \in [Thread -> Nat]
  /\ content \in Seq(Byte) \cup {Unknown}
  /\ alone \in [Thread -> BOOLEAN]
  /\ expected \in [Thread -> Seq(Byte) \cup {Unknown}]
  /\ overlapped \in BOOLEAN

Init ==
  /\ exists = FALSE /\ file = <<>>
  /\ pc = [t \in Thread |-> "idle"]
  /\ data = [t \in Thread |-> <<>>]
  /\ pos = [t \in Thread |-> 0] /\ size = [t \in Thread |-> 0]
  /\ content = Unknown
  /\ alone = [t \in Thread |-> FALSE]
  /\ expected = [t \in Thread |-> Unknown]
  /\ overlapped = FALSE

Go(t, label) == pc' = [pc EXCEPT ![t] = label]

\* The call is over, and its variables are gone.
Leave(t) ==
  /\ Go(t, "idle")
  /\ data' = [data EXCEPT ![t] = <<>>]
  /\ pos' = [pos EXCEPT ![t] = 0] /\ size' = [size EXCEPT ![t] = 0]
  /\ alone' = [alone EXCEPT ![t] = FALSE]
  /\ expected' = [expected EXCEPT ![t] = Unknown]

-----------------------------------------------------------------------------
(* readFile()                                                              *)

ReadOpen(t) ==
  /\ pc[t] = "idle" /\ exists
  /\ Go(t, "size")
  /\ expected' = [expected EXCEPT ![t] = content]
  /\ UNCHANGED <<disk, data, pos, size, content, alone, overlapped>>

\* seekg() to the end, and tellg().
ReadSize(t) ==
  /\ pc[t] = "size"
  /\ size' = [size EXCEPT ![t] = Len(file)]
  /\ Go(t, IF file = <<>> THEN "got" ELSE "read")
  /\ UNCHANGED <<disk, data, pos, history>>

\* One call of the system's read() within in.read().
ReadSome(t) ==
  /\ pc[t] = "read"
  /\ \E n \in 1 .. Min({size[t], Len(file)}) - Len(data[t]) :
       /\ data' = [data EXCEPT ![t] = @ \o SubSeq(file, Len(@) + 1, Len(@) + n)]
       /\ Go(t, IF Len(data[t]) + n = size[t] THEN "got" ELSE "read")
  /\ UNCHANGED <<disk, pos, size, history>>

\* The failed stream is not noticed: the rest of the vector is zero.
ReadFailsUnnoticed(t) ==
  /\ pc[t] = "read"
  /\ data' = [data EXCEPT ![t] = @ \o [i \in 1 .. size[t] - Len(@) |-> Zero]]
  /\ Go(t, "got")
  /\ UNCHANGED <<disk, pos, size, history>>

\* The end of the file before size bytes, or an error: an exception.
ReadFails(t) ==
  /\ pc[t] \in {"size", "read"}
  /\ Leave(t)
  /\ UNCHANGED <<disk, content, overlapped>>

ReadReturns(t) ==
  /\ pc[t] = "got"
  /\ Leave(t)
  /\ UNCHANGED <<disk, content, overlapped>>

Read(t) == ReadOpen(t) \/ ReadSize(t) \/ ReadSome(t) \/ ReadFails(t) \/ ReadReturns(t)

-----------------------------------------------------------------------------
(* writeFile()                                                             *)

\* The file without std::ios::trunc.
WriteOpenKeeps(t, d) ==
  /\ pc[t] = "idle"
  /\ exists' = TRUE /\ UNCHANGED file
  /\ Go(t, "write")
  /\ data' = [data EXCEPT ![t] = d]
  /\ pos' = [pos EXCEPT ![t] = 0]
  /\ content' = Unknown
  /\ expected' = [r \in Thread |-> Unknown]
  /\ alone' = [w \in Thread |-> w = t /\ Writing = {}]
  /\ overlapped' = (overlapped \/ Writing # {})
  /\ UNCHANGED size

WriteOpen(t, d) ==
  /\ pc[t] = "idle"
  /\ exists' = TRUE /\ file' = <<>>
  /\ Go(t, "write")
  /\ data' = [data EXCEPT ![t] = d]
  /\ pos' = [pos EXCEPT ![t] = 0]
  /\ content' = Unknown
  /\ expected' = [r \in Thread |-> Unknown]
  /\ alone' = [w \in Thread |-> w = t /\ Writing = {}]
  /\ overlapped' = (overlapped \/ Writing # {})
  /\ UNCHANGED size

\* Few bytes wait for flush().
WriteBuffers(t) ==
  /\ pc[t] = "write" /\ Len(data[t]) < Direct
  /\ Go(t, "flush")
  /\ UNCHANGED <<disk, data, pos, size, history>>

\* The file after bytes were written at a position, which may lie behind its
\* end when another writer has truncated it.
Overwritten(at, bytes) ==
  LET end == at + Len(bytes)
  IN  [i \in 1 .. Max({Len(file), end}) |->
         IF i \in at + 1 .. end THEN bytes[i - at]
         ELSE IF i <= Len(file) THEN file[i] ELSE Zero]

\* One call of the system's write(), of write() or of flush().
WriteSome(t) ==
  /\ \/ pc[t] = "write" /\ Len(data[t]) >= Direct
     \/ pc[t] = "flush"
  /\ \E n \in 1 .. Len(data[t]) - pos[t] :
       /\ file' = Overwritten(pos[t], SubSeq(data[t], pos[t] + 1, pos[t] + n))
       /\ pos' = [pos EXCEPT ![t] = @ + n]
       /\ Go(t, IF pos[t] + n = Len(data[t]) THEN "flush" ELSE pc[t])
  /\ UNCHANGED <<exists, data, size, history>>

\* Nothing is in the buffer when a direct write fails.
WriteFails(t) ==
  /\ pc[t] = "write" /\ Len(data[t]) >= Direct
  /\ Leave(t)
  /\ UNCHANGED <<disk, content, overlapped>>

\* The flush fails only in the destructor, which does not say so.
FlushFailsUnnoticed(t) ==
  /\ pc[t] = "flush" /\ pos[t] < Len(data[t])
  /\ Leave(t)
  /\ content' = IF alone[t] THEN data[t] ELSE Unknown
  /\ UNCHANGED <<disk, overlapped>>

FlushFails(t) ==
  /\ pc[t] = "flush" /\ pos[t] < Len(data[t])
  /\ Go(t, "unwind")
  /\ UNCHANGED <<disk, data, pos, size, history>>

\* The destructor writes the buffer again, behind what it has written of it.
Unwind(t) ==
  /\ pc[t] = "unwind"
  /\ \E n \in 0 .. Len(data[t]) :
       file' = IF n = 0 THEN file ELSE Overwritten(pos[t], SubSeq(data[t], 1, n))
  /\ Leave(t)
  /\ UNCHANGED <<exists, content, overlapped>>

WriteReturns(t) ==
  /\ pc[t] = "flush" /\ pos[t] = Len(data[t])
  /\ Leave(t)
  /\ content' = IF alone[t] THEN data[t] ELSE Unknown
  /\ UNCHANGED <<disk, overlapped>>

Write(t) ==
  \/ \E d \in Content : WriteOpen(t, d)
  \/ WriteBuffers(t) \/ WriteSome(t) \/ WriteFails(t)
  \/ FlushFails(t) \/ Unwind(t) \/ WriteReturns(t)

-----------------------------------------------------------------------------
\* A thread's process is killed; what is in a buffer is lost.
Dies(t) ==
  /\ pc[t] # "idle"
  /\ Leave(t)
  /\ UNCHANGED <<disk, content, overlapped>>

Next == \E t \in Thread : Read(t) \/ Write(t) \/ Dies(t)

Spec == Init /\ [][Next]_vars

-----------------------------------------------------------------------------
(* Properties.                                                             *)

\* When writeFile() has returned, a readFile() that returns gives its data
\* back: through buffering, partial writes and reads, errors at any step and
\* earlier writers that failed or died, as long as no other write comes.
ReadsBack ==
  \A t \in Thread : pc[t] = "got" /\ expected[t] # Unknown => data[t] = expected[t]

\* Even a read that overlaps a write returns no byte that nobody wrote, as
\* long as no two writes overlap: what a shrinking file no longer has is an
\* exception, not zeros.
NothingInvented ==
  ~overlapped => \A t \in Thread : pc[t] = "got" => data[t] \in Seq(Byte)

(***************************************************************************)
(* The inductive invariant.                                                *)
(***************************************************************************)

\* A call begins with nothing, and a writer's data has been given.
OwnData ==
  \A t \in Thread :
    /\ pc[t] \in {"idle", "size"} => data[t] = <<>>
    /\ t \in Writing => data[t] \in Seq(Byte)

\* A settled file is what it was written to be, and an undisturbed writer's
\* is the beginning of it.
FileMatches ==
  /\ content # Unknown => file = content /\ Writing = {}
  /\ \A t \in Writing :
       /\ pos[t] <= Len(data[t])
       /\ alone[t] => Writing = {t} /\ content = Unknown
       /\ alone[t] /\ pc[t] # "unwind" => file = SubSeq(data[t], 1, pos[t])

ReadMatches ==
  \A t \in Reading : expected[t] # Unknown =>
    /\ expected[t] = content
    /\ pc[t] \in {"read", "got"} =>
         /\ size[t] = Len(file) /\ Len(data[t]) <= size[t]
         /\ data[t] = SubSeq(file, 1, Len(data[t]))
    /\ pc[t] = "got" => Len(data[t]) = size[t]

NoHoles ==
  ~overlapped =>
    /\ file \in Seq(Byte)
    /\ \A t \in Thread : data[t] \in Seq(Byte)
    /\ \A t \in Writing : Writing = {t} /\ pos[t] = Len(file)

FileInv == TypeOK /\ OwnData /\ FileMatches /\ ReadMatches /\ NoHoles
=============================================================================
