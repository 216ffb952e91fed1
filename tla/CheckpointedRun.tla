-------------------------- MODULE CheckpointedRun --------------------------
(* Processes that advance a run, store its checkpoints and resume it: the    *)
(* run and its checkpoints (Checkpoints) over the file store (RunStore).     *)
EXTENDS Checkpoints, RunStore

CONSTANTS
  Batches,     \* what a process may do between two checkpoints: Seq(Kinds)
  MaxRecords,  \* bound on the records of a run
  MaxFaults    \* bound on failed calls, kills and power losses

ASSUME RunAssumption ==
  /\ \A b \in Batches : b \in Seq(Kinds)
  /\ MaxRecords \in Nat /\ MaxFaults \in Nat

VARIABLES
  run,     \* each process's run, Nothing when it holds none
  mark,    \* each process's mark: the checkpoint its next one builds on
  faults   \* faults so far

vars == <<storeVars, run, mark, faults>>

Init ==
  /\ StoreInit
  /\ run = [w \in Writers |-> Nothing]
  /\ mark = [w \in Writers |-> Nothing]
  /\ faults = 0

Busy(w) == ~At(w, "idle")

\* The payloads a listing shows up to a sequence, in order.
ChainTo(last) ==
  LET shown == {s \in Stored : s <= last}
  IN  [n \in 1..Cardinality(shown) |->
         files[CHOOSE s \in shown : Cardinality({t \in shown : t <= s}) = n].text]

Chain == ChainTo(latest)

\* A process starts the run afresh when the store holds nothing of it.
Initialize(w) ==
  /\ run[w] = Nothing
  /\ latest = -1
  /\ run' = [run EXCEPT ![w] = EmptyRun]
  /\ UNCHANGED <<storeVars, mark, faults>>

\* Otherwise it restores the stored chain, and rebuilds its mark without
\* entries.  A chain that is refused leaves it without a run.
Resume(w) ==
  /\ run[w] = Nothing
  /\ latest # -1
  /\ read_checkpoints(Chain) # Refused
  /\ run' = [run EXCEPT ![w] = read_checkpoints(Chain)]
  /\ mark' = [mark EXCEPT ![w] = MarkOf(files[latest], {})]
  /\ UNCHANGED <<storeVars, faults>>

NextSequence(w) == IF mark[w] = Nothing THEN 0 ELSE mark[w].sequence + 1

\* A driver advances its run over some records, takes a checkpoint and calls
\* put to store it.  Until put the records are the process's own affair.
Checkpoint(w) ==
  /\ run[w] # Nothing /\ NextSequence(w) \in Sequences
  /\ \E batch \in Batches :
       LET advanced == advance_all(run[w], w, batch)
       IN  /\ advanced.seen <= MaxRecords
           /\ mark[w] # Nothing => Covers(mark[w], advanced)
           /\ run' = [run EXCEPT ![w] = advanced]
           /\ BeginPut(w, NextSequence(w), Payload(advanced, mark[w]))
  /\ UNCHANGED <<mark, faults>>

\* put returns, and the caller keeps the mark of what it stored.
Returns(w) ==
  /\ FlushState(w)
  /\ mark' = [mark EXCEPT ![w] = MarkOf(putting[w].payload, {run[w].orders})]
  /\ UNCHANGED <<run, faults>>

PutStep(w) ==
  /\ \/ FlushRoot(w) \/ RenameIdentity(w) \/ FlushIdentity(w) \/ RenameState(w)
  /\ UNCHANGED <<run, mark, faults>>

\* put raises: the caller goes on with the run and the mark it had.
PutFails(w) ==
  /\ faults < MaxFaults
  /\ Fail(w)
  /\ faults' = faults + 1
  /\ UNCHANGED <<run, mark>>

Killed(w) ==
  /\ faults < MaxFaults
  /\ run[w] # Nothing
  /\ Kill(w)
  /\ faults' = faults + 1
  /\ run' = [run EXCEPT ![w] = Nothing]
  /\ mark' = [mark EXCEPT ![w] = Nothing]

Outage ==
  /\ faults < MaxFaults
  /\ PowerLoss
  /\ faults' = faults + 1
  /\ run' = [w \in Writers |-> Nothing]
  /\ mark' = [w \in Writers |-> Nothing]

Next ==
  \/ \E w \in Writers :
       \/ Initialize(w) \/ Resume(w)   \/ Checkpoint(w) \/ PutStep(w)
       \/ Returns(w)    \/ PutFails(w) \/ Killed(w)
  \/ Outage

Spec == Init /\ [][Next]_vars

-----------------------------------------------------------------------------
(* Properties                                                                *)

(* The directory, the files and the calls in progress have their shapes, and *)
(* nothing is durable that is not there: a flushed checkpoint is the one its *)
(* name shows, unless two processes raced for it.                            *)
TypeOK ==
  /\ root \in Entry /\ identity \in Entry
  /\ \A s \in Sequences : flushed[s] # NoFile => files[s] # NoFile
  /\ root = "absent" => Stored = {} /\ identity = "absent"
  /\ \A w \in Writers : Busy(w) => run[w] # Nothing

(* read_checkpoints: whatever the store holds - left by a killed process, a  *)
(* failed call, a power loss or two processes that raced - either is refused *)
(* or restores exactly the run the last checkpoint of the chain was taken    *)
(* of: its logs, what they dropped and its orders, in order.                 *)
ChainIsTrue ==
  LET read == read_checkpoints(Chain)
  IN  read # Refused => read = files[latest].of

(* FileRunStateStore.put: a checkpoint whose put has returned stays in the   *)
(* store as it was written, its run stays listed, and the chain up to it is  *)
(* not refused, through kills, failed calls and power losses - except where  *)
(* two processes wrote the same sequence at once, which the contract leaves  *)
(* out, and where a process stopped between making the run's directory and   *)
(* flushing the root, which it does not (PutSurvives).                       *)
AckedIsKept ==
  ~raced /\ ~rootLeft =>
    /\ acked # NoFiles => Listed
    /\ \A s \in Sequences : acked[s] # NoFile =>
         files[s] = acked[s] /\ read_checkpoints(ChainTo(s)) # Refused

(* _write_atomically: "the directory is flushed after it, so the rename      *)
(* survives a crash".  Does not hold: the next process finds the directory   *)
(* a stopped one made, does not flush the root, and a power loss takes the   *)
(* directory with the checkpoints whose put has returned.                    *)
PutSurvives ==
  ~raced => \A s \in Sequences : acked[s] # NoFile => files[s] = acked[s]

=============================================================================
