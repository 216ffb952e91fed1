------------------------------ MODULE RunStore ------------------------------
(* FileRunStateStore (persistence/run_store.py) and the durable writes under *)
(* it (persistence/durable.py), for one run.                                 *)
(*                                                                           *)
(* A store call is a sequence of system calls; processes interleave between  *)
(* them, and each may fail, be killed or lose power there.  A rename or a    *)
(* new directory is visible at once and survives a power loss for certain    *)
(* only after the directory that holds its name is flushed.  Writing and     *)
(* flushing the temporary file is part of the rename that follows it: until  *)
(* then nothing the store looks for has changed.  So are the reads a call    *)
(* makes before its first effect.                                            *)
EXTENDS Integers, FiniteSets

CONSTANTS
  Writers,     \* processes that may write the run's checkpoints
  MaxSequence  \* bound: the highest sequence a model writes

ASSUME StoreAssumption == MaxSequence \in Nat

VARIABLES
  root,      \* the run's directory as an entry of the root
  identity,  \* its identity file
  files,     \* the checkpoints its listing shows: sequence -> payload
  flushed,   \* the checkpoints a power loss cannot take
  putting,   \* what each process is doing in put
  acked,     \* history: what put has returned for
  raced,     \* history: two processes were in put for one sequence at once
  rootLeft   \* history: a process stopped between making the run's directory
             \* and flushing the root

storeVars == <<root, identity, files, flushed, putting, acked, raced, rootLeft>>

Sequences == 0..MaxSequence
Entry     == {"absent", "visible", "durable"}
NoFile    == [none |-> TRUE]
Idle      == [at |-> "idle"]
NoFiles   == [s \in Sequences |-> NoFile]

StoreInit ==
  /\ root = "absent"
  /\ identity = "absent"
  /\ files = NoFiles
  /\ flushed = NoFiles
  /\ putting = [w \in Writers |-> Idle]
  /\ acked = NoFiles
  /\ raced = FALSE
  /\ rootLeft = FALSE

Stored == {s \in Sequences : files[s] # NoFile}

\* latest: the highest sequence in the listing, -1 standing for None.
latest == IF Stored = {} THEN -1
          ELSE CHOOSE s \in Stored : \A t \in Stored : t <= s

\* list_runs names the run.
Listed == identity # "absent" /\ Stored # {}

-----------------------------------------------------------------------------
(* put(run_id, sequence, payload)                                            *)

At(w, step) == putting[w].at = step

Goto(w, step) == putting' = [putting EXCEPT ![w].at = step]

\* The contract names one writer: two in put for the same sequence race.
Contended(w, sequence) ==
  \E v \in Writers \ {w} : ~At(v, "idle") /\ putting[v].sequence = sequence

\* The duplicate check: a sequence that is stored is refused.  The identity
\* is written first, once.
Check(sequence) ==
  IF files[sequence] # NoFile THEN "idle"
  ELSE IF identity = "absent" THEN "identity" ELSE "state"

BeginPutUnmade(w, sequence, payload) ==
  /\ At(w, "idle")
  /\ LET step == Check(sequence)
     IN  putting' = [putting EXCEPT ![w] =
                       IF step = "idle" THEN Idle
                       ELSE [at |-> step, sequence |-> sequence, payload |-> payload]]
  /\ UNCHANGED root
  /\ raced' = (raced \/ Contended(w, sequence))
  /\ UNCHANGED <<identity, files, flushed, acked, rootLeft>>

\* The call up to its first effect: mkdir when ensure_directory finds no
\* directory, and otherwise, the directory being left as it is, the check.
BeginPut(w, sequence, payload) ==
  /\ At(w, "idle")
  /\ LET step == IF root = "absent" THEN "flush root" ELSE Check(sequence)
     IN  putting' = [putting EXCEPT ![w] =
                       IF step = "idle" THEN Idle
                       ELSE [at |-> step, sequence |-> sequence, payload |-> payload]]
  /\ root' = IF root = "absent" THEN "visible" ELSE root
  /\ raced' = (raced \/ Contended(w, sequence))
  /\ UNCHANGED <<identity, files, flushed, acked, rootLeft>>

FlushRoot(w) ==
  /\ At(w, "flush root")
  /\ root' = "durable"
  /\ IF Check(putting[w].sequence) = "idle"
     THEN putting' = [putting EXCEPT ![w] = Idle]
     ELSE Goto(w, Check(putting[w].sequence))
  /\ UNCHANGED <<identity, files, flushed, acked, raced, rootLeft>>

RenameIdentity(w) ==
  /\ At(w, "identity")
  /\ identity' = IF identity = "durable" THEN "durable" ELSE "visible"
  /\ Goto(w, "flush identity")
  /\ UNCHANGED <<root, files, flushed, acked, raced, rootLeft>>

\* fsync_directory of the run's directory: every entry in it.
FsyncDirectory ==
  /\ flushed' = files
  /\ identity' = IF identity = "visible" THEN "durable" ELSE identity

FlushIdentity(w) ==
  /\ At(w, "flush identity")
  /\ FsyncDirectory
  /\ Goto(w, "state")
  /\ UNCHANGED <<root, files, acked, raced, rootLeft>>

\* os.replace puts the payload at its name, whatever is there by now.
RenameState(w) ==
  /\ At(w, "state")
  /\ files' = [files EXCEPT ![putting[w].sequence] = putting[w].payload]
  /\ Goto(w, "flush state")
  /\ UNCHANGED <<root, identity, flushed, acked, raced, rootLeft>>

FlushStateUnflushed(w) ==
  /\ At(w, "flush state")
  /\ acked' = [acked EXCEPT ![putting[w].sequence] = putting[w].payload]
  /\ putting' = [putting EXCEPT ![w] = Idle]
  /\ UNCHANGED <<root, identity, files, flushed, raced, rootLeft>>

FlushState(w) ==
  /\ At(w, "flush state")
  /\ FsyncDirectory
  /\ acked' = [acked EXCEPT ![putting[w].sequence] = putting[w].payload]
  /\ putting' = [putting EXCEPT ![w] = Idle]
  /\ UNCHANGED <<root, files, raced, rootLeft>>

\* A process in the middle of a put stops.  What it left stays visible; the
\* directory it has just made is found by the next put, which does not flush the
\* root: ensure_directory leaves a directory that exists as it is.
Stops(w) ==
  /\ putting' = [putting EXCEPT ![w] = Idle]
  /\ rootLeft' = (rootLeft \/ At(w, "flush root"))
  /\ UNCHANGED <<root, identity, files, flushed, acked, raced>>

\* A system call raises: put raises StorageError, the temporary file is
\* removed, what was renamed stays.
Fail(w) == ~At(w, "idle") /\ Stops(w)

-----------------------------------------------------------------------------
(* Faults, outside the program.                                              *)

\* A process is killed, in a put or between two.
Kill(w) == Stops(w)

\* The machine loses power.  What was not flushed may be kept or lost.
PowerLoss ==
  /\ root' \in {IF root = "durable" THEN "durable" ELSE "absent",
                IF root = "absent" THEN "absent" ELSE "durable"}
  /\ identity' \in IF root' = "absent" THEN {"absent"}
                   ELSE {IF identity = "durable" THEN "durable" ELSE "absent",
                         IF identity = "absent" THEN "absent" ELSE "durable"}
  /\ \E kept \in SUBSET Sequences :
       files' = IF root' = "absent" THEN NoFiles
                ELSE [s \in Sequences |-> IF s \in kept THEN files[s] ELSE flushed[s]]
  /\ flushed' = files'
  /\ putting' = [w \in Writers |-> Idle]
  /\ UNCHANGED <<acked, raced, rootLeft>>
=============================================================================
