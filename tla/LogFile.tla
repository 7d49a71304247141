------------------------------ MODULE LogFile -------------------------------
(***************************************************************************)
(* The size-capped --log-file writer (cappedLogFile in logfile.go) over a  *)
(* file system whose calls may fail for a while.  A file is the sequence   *)
(* of the writes it holds, Marker among them; every write has length 1 and *)
(* is numbered.  Nobody else touches the two files.                        *)
(***************************************************************************)
EXTENDS Integers, Sequences

CONSTANTS
  Cap,        \* maxLogFileBytes, in writes
  MaxWrites,  \* bound: calls of Write
  MaxFaults   \* bound: calls of the file system that fail

Marker == 0          \* the line "log rotated at ..."
NoLog == <<-1>>      \* no such file

VARIABLES
  active,   \* the file at path
  old,      \* the file at path.old
  handle,   \* c.f is an open file
  size,     \* c.size
  writing,  \* "idle", or the next call of a Write in progress
  faults,   \* failed calls so far
  calls,    \* calls of Write so far
  written,  \* history: the writes that succeeded
  unlogged  \* history: writes that failed with no fault left to blame

logVars == <<active, old, handle, size, writing, faults, calls, written, unlogged>>

Contents(f) == IF f = NoLog THEN << >> ELSE f

\* openCappedLogFile on an empty or a used file, whose size it may fail to learn.
LogInit ==
  /\ active \in {<< >>, <<Marker>>} /\ old = NoLog
  /\ handle = TRUE
  /\ \/ size = Len(active) /\ faults = 0
     \/ size = 0 /\ faults = 1 /\ MaxFaults > 0
  /\ writing = "idle" /\ calls = 0 /\ written = << >> /\ unlogged = 0

\* Each call of the file system either works or, within the bound, fails.
CallWorks == UNCHANGED faults
CallFails == faults < MaxFaults /\ faults' = faults + 1

\* Write returns an error.
Returns == writing' = "idle"
-----------------------------------------------------------------------------
Write ==
  /\ writing = "idle" /\ calls < MaxWrites
  /\ calls' = calls + 1
  /\ IF size > 0 /\ size + 1 > Cap
     THEN writing' = "close" /\ handle' = FALSE
     ELSE writing' = "append" /\ UNCHANGED handle
  /\ UNCHANGED <<active, old, size, faults, written, unlogged>>

\* rotateLocked closed the file; errors of Close and Remove are ignored.
RemoveOld ==
  /\ writing = "close"
  /\ writing' = "rename"
  /\ \/ CallWorks /\ old' = NoLog
     \/ CallFails /\ UNCHANGED old
  /\ UNCHANGED <<active, handle, size, calls, written, unlogged>>

RenameLog ==
  /\ writing = "rename"
  /\ \/ CallWorks /\ old' = active /\ active' = NoLog /\ size' = 0 /\ writing' = "open"
     \/ CallFails /\ writing' = "reopen" /\ UNCHANGED <<old, active, size>>
  /\ UNCHANGED <<handle, calls, written, unlogged>>

openLockedTruncates ==
  /\ writing \in {"open", "reopen"}
  /\ \/ CallWorks /\ handle' = TRUE /\ active' = << >> /\ size' = 0
        /\ writing' = IF writing = "open" THEN "mark" ELSE "append"
     \/ CallFails /\ Returns /\ UNCHANGED <<handle, active, size>>
  /\ UNCHANGED <<old, calls, written, unlogged>>

\* f.Stat: the size of the file, or the size as it was when Stat fails.
Stats(file) ==
  \/ CallWorks /\ size' = Len(file)
  \/ CallFails /\ UNCHANGED size

\* openLocked, on the fresh file ("open") or back on the existing one ("reopen").
openLocked ==
  /\ writing \in {"open", "reopen"}
  /\ \/ /\ handle' = TRUE /\ active' = Contents(active) /\ Stats(Contents(active))
        /\ writing' = IF writing = "open" THEN "mark" ELSE "append"
     \/ CallFails /\ Returns /\ UNCHANGED <<handle, active, size>>
  /\ UNCHANGED <<old, calls, written, unlogged>>

\* The rotation marker; without it Write gives up, with the file open.
Mark ==
  /\ writing = "mark"
  /\ \/ active' = Append(active, Marker) /\ Stats(Append(active, Marker)) /\ writing' = "append"
     \/ CallFails /\ Returns /\ UNCHANGED <<active, size>>
  /\ UNCHANGED <<old, handle, calls, written, unlogged>>

\* c.f.Write(p), which fails on a closed file.
AppendWrite ==
  /\ writing = "append"
  /\ Returns
  /\ \/ handle /\ CallWorks /\ active' = Append(active, calls) /\ size' = size + 1
        /\ written' = Append(written, calls) /\ UNCHANGED unlogged
     \/ handle /\ CallFails /\ UNCHANGED <<active, size, written, unlogged>>
     \/ ~handle /\ CallWorks /\ unlogged' = unlogged + 1 /\ UNCHANGED <<active, size, written>>
  /\ UNCHANGED <<old, handle, calls>>

LogNext == Write \/ RemoveOld \/ RenameLog \/ openLocked \/ Mark \/ AppendWrite

LogSpec == LogInit /\ [][LogNext]_logVars
-----------------------------------------------------------------------------
\* A file without its marker, which can only come first.
Lines(f) ==
  LET c == Contents(f) IN IF c # << >> /\ Head(c) = Marker THEN Tail(c) ELSE c

Kept == Lines(old) \o Lines(active)
IsTail(q, s) == \E i \in 0 .. Len(s) : q = SubSeq(s, i + 1, Len(s))

\* Rotation keeps the newest of the log and in its order: whatever fails, the
\* backup followed by the file is the tail of the writes that succeeded, never
\* less than a full file of it, and each file is bounded by the cap unless a
\* call failed.
LogKeepsTail ==
  /\ IsTail(Kept, written)
  /\ Len(Kept) < Cap - 1 => Kept = written
  /\ faults = 0 => Len(Contents(active)) <= Cap /\ Len(Contents(old)) <= Cap

\* logfile.go on cappedLogFile: "a failed rotate falls back to continuing the
\* existing file rather than losing writes".
RotateLosesNoWrites == unlogged = 0

-----------------------------------------------------------------------------
(* Why the log keeps its tail.                                             *)

\* What the proofs need of the constants: a file has room for the marker and a write.
CapOK == Cap \in Nat \ {0, 1}

\* The inductive invariant: the size is that of the file, or less once a Stat has failed, a
\* file is full when it is rotated away, and a marker is only written to an empty one.
LogInv ==
  /\ {active, old} \subseteq Seq(Nat) \cup {NoLog} /\ written \in Seq(Nat)
  /\ calls \in Nat /\ faults \in Nat /\ handle \in BOOLEAN
  /\ size \in 0 .. Len(Contents(active)) /\ (faults = 0 => size = Len(Contents(active)))
  /\ writing \in {"idle", "close", "rename", "open", "reopen", "mark", "append"}
  /\ writing # "idle" => calls > 0
  /\ handle => active # NoLog
  /\ writing \in {"close", "rename"} => ~handle /\ size >= Cap
  /\ writing = "open" => ~handle /\ active = NoLog
  /\ writing = "reopen" => ~handle /\ faults > 0
  /\ writing = "mark" => handle /\ active = << >>
  /\ writing = "append" /\ faults = 0 => size < Cap
  /\ LogKeepsTail
=============================================================================
