-------------------------- MODULE SessionRotation ---------------------------
(***************************************************************************)
(* SessionFileSink of sink.rs: the rotation of numbered backups when a     *)
(* program starts.  Slot 0 is the live file, slot i its backup ".i"; a     *)
(* file is the number of the session that wrote it.  Each file operation   *)
(* is a step of its own: it may fail, which aborts the construction, and   *)
(* the program may be killed between any two.  max_backups may differ from *)
(* one start to the next.                                                  *)
(***************************************************************************)
EXTENDS Integers

CONSTANTS
  Counts,   \* values of max_backups
  MaxRuns   \* bound on the sessions opened

\* max_backups is a usize, so there is a largest one.
ASSUME CountsAssumption == Counts \subseteq Nat /\ \E n \in Counts : \A m \in Counts : m <= n
ASSUME MaxRunsAssumption == MaxRuns \in Nat

VARIABLES
  files,        \* slot -> the session whose file it holds, 0 when there is none
  max_backups,  \* of the current or the last start
  pc,           \* down, remove, rename, or live
  index,        \* rename cascade: the slot to fill next
  run,          \* sessions opened so far
  slack         \* auxiliary: per session, the starts aborted since it was opened,
                \* all of them (Most) once max_backups was raised

vars == <<files, max_backups, pc, index, run, slack>>

Slots == UNION {0..n : n \in Counts}
Most == CHOOSE n \in Counts : \A m \in Counts : m <= n

Init ==
  /\ files = [i \in Slots |-> 0]
  /\ max_backups \in Counts
  /\ pc = "down" /\ index = 0 /\ run = 0 /\ slack = [r \in 1..MaxRuns |-> 0]

-----------------------------------------------------------------------------
\* SessionFileSink::try_new(.., n) is called by a starting program.
TryNew(n) ==
  /\ pc = "down" /\ run < MaxRuns
  /\ max_backups' = n
  /\ slack' = IF n > max_backups THEN [r \in 1..MaxRuns |-> IF r <= run THEN Most ELSE 0] ELSE slack
  /\ pc' = "remove"
  /\ UNCHANGED <<files, index, run>>

\* Deleting the live file instead of the oldest backup.
RemovesLive == 0
RemovedSlot == max_backups

\* A range that starts one too high.
FirstTargetPast == max_backups + 1
FirstTarget == max_backups

\* remove_if_present: a missing file is no error.
RemoveOldest ==
  /\ pc = "remove"
  /\ files' = [files EXCEPT ![RemovedSlot] = 0]
  /\ index' = FirstTarget
  /\ pc' = "rename"
  /\ UNCHANGED <<max_backups, run, slack>>

\* Sources counted up while the targets count down.
SourceUpwards == max_backups - index
\* The cascade runs over (1..=max_backups).rev(), each slot filled from below.
Source == index - 1

\* rename_if_present: a missing source skips the step.
RenameNext ==
  /\ pc = "rename" /\ index > 0
  /\ files' = IF files[Source] = 0 THEN files
              ELSE [files EXCEPT ![index] = files[Source], ![Source] = 0]
  /\ index' = index - 1
  /\ UNCHANGED <<max_backups, pc, run, slack>>

CascadeDone == index = 0

\* options.open(path) with append and create: an existing file would be
\* continued, a missing one is this session's.
Open ==
  /\ pc = "rename" /\ CascadeDone
  /\ run' = run + 1
  /\ files' = [files EXCEPT ![0] = IF @ = 0 THEN run' ELSE @]
  /\ pc' = "live"
  /\ UNCHANGED <<max_backups, index, slack>>

\* One of the operations fails and try_new returns the error, or the program
\* dies in the middle of it.
Abort ==
  /\ pc \in {"remove", "rename"}
  /\ pc' = "down" /\ index' = 0
  /\ slack' = [r \in 1..MaxRuns |-> IF r <= run /\ slack[r] < Most THEN slack[r] + 1 ELSE slack[r]]
  /\ UNCHANGED <<files, max_backups, run>>

\* The program ends, in whatever way.
End ==
  /\ pc = "live"
  /\ pc' = "down"
  /\ UNCHANGED <<files, max_backups, index, run, slack>>

-----------------------------------------------------------------------------
Next == (\E n \in Counts : TryNew(n)) \/ RemoveOldest \/ RenameNext \/ Open \/ Abort \/ End

Spec == Init /\ [][Next]_vars

-----------------------------------------------------------------------------
(* Properties                                                              *)

Held(f) == {f[i] : i \in Slots} \ {0}

TypeOK ==
  /\ files \in [Slots -> 0..MaxRuns]
  /\ max_backups \in Counts /\ index \in 0..max_backups
  /\ pc \in {"down", "remove", "rename", "live"}
  /\ run \in 0..MaxRuns /\ slack \in [1..MaxRuns -> 0..Most]

\* "Higher numbers are further in the past", at every moment of a rotation and
\* after any number of aborted ones and changes of max_backups.
Ordered ==
  \A i, j \in Slots : i < j /\ files[i] # 0 /\ files[j] # 0 => files[i] > files[j]

\* The live file (k = 0) holds its own session and nothing of an earlier one.  While
\* max_backups is not raised, the max_backups most recent previous sessions are
\* kept, each at its number; every start aborted since a session was opened pushes
\* that session at most one number up, and so costs at most one of them, the oldest.
KeepsRecent ==
  pc = "live" => \A k \in 0..max_backups :
    k < run /\ k + slack[run - k] <= max_backups =>
      \E j \in k..(k + slack[run - k]) : files[j] = run - k

\* No rename ever overwrites a file: the only session a rotation drops is the
\* oldest of the slots it manages, and what lies above max_backups stays.
OnlyOldestDropped ==
  [][/\ \A r \in Held(files) \ Held(files') : \A i \in 0..max_backups : files[i] # 0 => r <= files[i]
     /\ \A i \in Slots : i > max_backups /\ i > max_backups' => files'[i] = files[i]]_vars
=============================================================================
