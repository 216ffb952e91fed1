----------------------- MODULE CheckpointedRunProofs -----------------------
(***************************************************************************)
(* A stored checkpoint survives, for any number of processes, sequences,   *)
(* records and faults: kills, failed calls and power losses, with the two  *)
(* exceptions AckedIsKept names.                                           *)
(*                                                                         *)
(* What a power loss can take is what is not flushed, so the invariant     *)
(* says that of a checkpoint put has returned for, the directory, the      *)
(* identity and the file are all durable; and, of every put under way, how *)
(* far it has come.  All of it holds until two processes write the same    *)
(* sequence at once, or one stops between making the run's directory and   *)
(* flushing the root, and is lost from then on.                            *)
(*                                                                         *)
(* A chain that is read is the run it was taken of.  Every checkpoint in   *)
(* the store, or on its way there, ends a lineage: the first was taken of  *)
(* a run without a mark, each other on a mark of the one before, of a run  *)
(* that run has become.  A reader that is not refused has read the whole   *)
(* lineage, since every text names the one before it, and reading a        *)
(* lineage gives back the run of its last checkpoint.                      *)
(***************************************************************************)
EXTENDS CheckpointedRun, FiniteSetTheorems, WellFoundedInduction, TLAPS

Steps == {"flush root", "identity", "flush identity", "state", "flush state"}

RunFields == {"logs", "orders", "seen"}

\* The variables are functions of the processes and of the sequences.
Shape ==
  /\ root \in Entry /\ identity \in Entry /\ raced \in BOOLEAN /\ rootLeft \in BOOLEAN
  /\ files = [s \in Sequences |-> files[s]]
  /\ flushed = [s \in Sequences |-> flushed[s]]
  /\ acked = [s \in Sequences |-> acked[s]]
  /\ putting = [w \in Writers |-> putting[w]]
  /\ run = [w \in Writers |-> run[w]]
  /\ mark = [w \in Writers |-> mark[w]]

\* A process in put writes the sequence that follows its mark.
PutOK(w) ==
  Busy(w) =>
    /\ putting[w] = [at |-> putting[w].at, sequence |-> putting[w].sequence,
                     payload |-> putting[w].payload]
    /\ putting[w].at \in Steps /\ putting[w].sequence \in Sequences
    /\ putting[w].payload # NoFile
    /\ run[w] # Nothing
    /\ putting[w].sequence = NextSequence(w)

Sound ==
  /\ \A w \in Writers : PutOK(w) /\ (run[w] # Nothing => DOMAIN run[w] = RunFields)
  /\ \A s \in Sequences : flushed[s] # NoFile => files[s] # NoFile
  /\ root = "absent" => Stored = {} /\ identity = "absent" /\ \A w \in Writers : ~Busy(w)

-----------------------------------------------------------------------------
(* What holds until two processes write the same sequence at once, or one    *)
(* leaves a directory behind whose entry in the root is not flushed.         *)

Apart ==
  \A v, w \in Writers :
    Busy(v) /\ Busy(w) /\ v # w => putting[v].sequence # putting[w].sequence

\* While the run's directory is not durable, nothing is in it, and only the
\* process that made it is in put, about to flush the root.
RootOK ==
  /\ \A w \in Writers : At(w, "flush root") => root = "visible"
  /\ root = "visible" => \E w \in Writers : At(w, "flush root")
  /\ root # "durable" =>
       /\ files = NoFiles /\ acked = NoFiles /\ identity = "absent"
       /\ \A w \in Writers : mark[w] = Nothing

\* How far a put has come: until it renames the file there is none, and none is
\* acknowledged until it returns.
ProgressOK(w) ==
  Busy(w) =>
    /\ acked[putting[w].sequence] = NoFile
    /\ At(w, "flush state") => files[putting[w].sequence] = putting[w].payload
    /\ ~At(w, "flush state") => files[putting[w].sequence] = NoFile
    /\ putting[w].at \in {"flush identity", "state", "flush state"} => identity # "absent"

\* A checkpoint put has returned for is durable, and so is its identity.
AckedOK ==
  \A s \in Sequences : acked[s] # NoFile =>
    files[s] = acked[s] /\ flushed[s] = acked[s] /\ identity = "durable"

Unraced == Apart /\ RootOK /\ (\A w \in Writers : ProgressOK(w)) /\ AckedOK

IInv ==
  /\ Shape
  /\ Sound
  /\ ~rootLeft /\ ~raced => Unraced

-----------------------------------------------------------------------------
(* The run: an advanced run is a run.                                       *)

LEMMA AdvanceFields ==
  ASSUME NEW state, DOMAIN state = RunFields, NEW by, NEW kind
  PROVE  DOMAIN advance(state, by, kind) = RunFields
BY DEF advance, Retained, Log

\* The function that advances over the first n records exists for every n.
LEMMA AdvanceExists ==
  ASSUME NEW state, NEW by, NEW batch, NEW length \in Nat
  PROVE  \E g : g = [n \in 0 .. length |->
                       IF n = 0 THEN state ELSE advance(g[n - 1], by, batch[n])]
<1> DEFINE Is(g, l) == g = [n \in 0 .. l |->
                              IF n = 0 THEN state ELSE advance(g[n - 1], by, batch[n])]
           Missing == {l \in Nat : \A g : ~Is(g, l)}
           Less == OpToRel(<, Nat)
<1>1. SUFFICES ASSUME length \in Missing PROVE FALSE
  OBVIOUS
<1>2. PICK l \in Missing : \A k \in Missing : ~(<<k, l>> \in Less)
  <2>1. IsWellFoundedOn(Less, Nat) /\ Missing \subseteq Nat /\ Missing # {}
    BY <1>1, NatLessThanWellFounded
  <2> HIDE DEF Missing, Less
  <2> QED
    BY <2>1, WFMin
<1>3. l \in Nat /\ \A k \in Nat : k < l => k \notin Missing
  BY <1>2 DEF OpToRel
<1>4. l # 0
  <2>1. Is([n \in 0 .. 0 |-> state], 0)
    OBVIOUS
  <2> QED
    BY <1>2, <2>1
<1>5. l - 1 \in Nat /\ l - 1 < l
  BY <1>3, <1>4
<1>6. PICK g : Is(g, l - 1)
  BY <1>3, <1>5
<1> DEFINE h == [n \in 0 .. l |-> IF n = l THEN advance(g[l - 1], by, batch[l]) ELSE g[n]]
<1>7. \A n \in 0 .. l : h[n] = IF n = 0 THEN state ELSE advance(h[n - 1], by, batch[n])
  <2> SUFFICES ASSUME NEW n \in 0 .. l
               PROVE  h[n] = IF n = 0 THEN state ELSE advance(h[n - 1], by, batch[n])
    OBVIOUS
  <2>1. CASE n = l
    <3>1. h[n] = advance(g[l - 1], by, batch[l]) /\ h[l - 1] = g[l - 1]
      BY <1>3, <1>5, <2>1
    <3> QED
      BY <1>4, <2>1, <3>1
  <2>2. CASE n # l
    <3>1. n \in 0 .. (l - 1) /\ h[n] = g[n]
      BY <1>3, <2>2
    <3>2. g[n] = IF n = 0 THEN state ELSE advance(g[n - 1], by, batch[n])
      BY <1>6, <3>1
    <3>3. n # 0 => h[n - 1] = g[n - 1]
      BY <1>3, <2>2
    <3> QED
      BY <3>1, <3>2, <3>3
  <2> QED
    BY <2>1, <2>2
<1>8. Is(h, l)
  <2>1. h = [n \in 0 .. l |-> h[n]]
    OBVIOUS
  <2> HIDE DEF h
  <2> QED
    BY <1>7, <2>1
<1> QED
  BY <1>2, <1>8

LEMMA AdvancedIsRun ==
  ASSUME NEW state, DOMAIN state = RunFields, NEW by, NEW batch \in Batches
  PROVE  DOMAIN advance_all(state, by, batch) = RunFields
<1> DEFINE length == Len(batch)
           after == CHOOSE g : g = [n \in 0 .. length |->
                       IF n = 0 THEN state ELSE advance(g[n - 1], by, batch[n])]
<1>1. length \in Nat
  BY RunAssumption
<1>2. advance_all(state, by, batch) = after[length]
  BY DEF advance_all
<1>3. after = [n \in 0 .. length |->
                 IF n = 0 THEN state ELSE advance(after[n - 1], by, batch[n])]
  <2> HIDE DEF length
  <2> QED
    BY <1>1, AdvanceExists
<1> HIDE DEF after, length
<1> DEFINE Bad == {n \in 0 .. length : DOMAIN after[n] # RunFields}
           Less == OpToRel(<, Nat)
<1>4. Bad = {}
  <2> SUFFICES ASSUME Bad # {} PROVE FALSE
    OBVIOUS
  <2>1. PICK n \in Bad : \A k \in Bad : ~(<<k, n>> \in Less)
    <3>1. IsWellFoundedOn(Less, Nat)
      BY NatLessThanWellFounded
    <3>2. Bad \subseteq Nat
      BY <1>1
    <3> HIDE DEF Bad, Less
    <3> QED
      BY <3>1, <3>2, WFMin
  <2>2. n \in 0 .. length /\ DOMAIN after[n] # RunFields
    OBVIOUS
  <2>3. n # 0
    BY <1>3, <2>2
  <2>4. n - 1 \in 0 .. length /\ n - 1 < n
    BY <1>1, <2>2, <2>3
  <2>5. DOMAIN after[n - 1] = RunFields
    <3>1. <<n - 1, n>> \in Less
      BY <1>1, <2>2, <2>4 DEF OpToRel
    <3>2. n - 1 \notin Bad
      BY <2>1, <3>1
    <3> QED
      BY <2>4, <3>2
  <2>6. after[n] = advance(after[n - 1], by, batch[n])
    BY <1>3, <2>2, <2>3
  <2> QED
    BY <2>2, <2>5, <2>6, AdvanceFields
<1> QED
  BY <1>1, <1>2, <1>4

-----------------------------------------------------------------------------
(* How a put moves.                                                         *)

LEMMA GotoFacts ==
  ASSUME IInv, NEW w \in Writers, Busy(w), NEW step \in Steps, Goto(w, step)
  PROVE  /\ putting' = [v \in Writers |-> putting'[v]]
         /\ putting'[w] = [at |-> step, sequence |-> putting[w].sequence,
                           payload |-> putting[w].payload]
         /\ \A v \in Writers : v # w => putting'[v] = putting[v]
         /\ Busy(w)'
<1>1. putting = [v \in Writers |-> putting[v]]
      /\ putting[w] = [at |-> putting[w].at, sequence |-> putting[w].sequence,
                       payload |-> putting[w].payload]
  BY DEF IInv, Shape, Sound, PutOK
<1>2. putting' = [v \in Writers |-> IF v = w THEN [putting[w] EXCEPT !.at = step]
                                            ELSE putting[v]]
  BY <1>1 DEF Goto
<1>3. putting'[w] = [at |-> step, sequence |-> putting[w].sequence,
                     payload |-> putting[w].payload]
  BY <1>1, <1>2
<1> QED
  BY <1>2, <1>3 DEF Busy, At, Steps

LEMMA GotoFields ==
  ASSUME IInv, NEW w \in Writers, Busy(w), NEW step \in Steps, Goto(w, step)
  PROVE  /\ putting'[w].at = step /\ putting'[w].sequence = putting[w].sequence
         /\ putting'[w].payload = putting[w].payload
<1>1. putting'[w] = [at |-> step, sequence |-> putting[w].sequence,
                     payload |-> putting[w].payload]
  BY GotoFacts
<1> QED
  BY <1>1

LEMMA IdleFacts ==
  ASSUME IInv, NEW w \in Writers, putting' = [putting EXCEPT ![w] = Idle]
  PROVE  /\ putting' = [v \in Writers |-> putting'[v]]
         /\ ~Busy(w)'
         /\ \A v \in Writers : v # w => putting'[v] = putting[v]
<1>1. putting' = [v \in Writers |-> IF v = w THEN Idle ELSE putting[v]]
  BY DEF IInv, Shape
<1>2. putting'[w].at = "idle"
  BY <1>1 DEF Idle
<1> QED
  BY <1>1, <1>2 DEF Busy, At

\* The file system, and what was acknowledged, are as they were.
SameStore == UNCHANGED <<root, identity, files, flushed, acked, raced>>

\* A process leaves put without an effect: nothing it had is needed.
LEMMA LeavesPut ==
  ASSUME IInv, SameStore, NEW w \in Writers,
         rootLeft' = (rootLeft \/ At(w, "flush root")),
         putting' = [putting EXCEPT ![w] = Idle],
         run' = [v \in Writers |-> run'[v]], mark' = [v \in Writers |-> mark'[v]],
         \A v \in Writers : v # w => run'[v] = run[v] /\ mark'[v] = mark[v],
         run'[w] # Nothing => DOMAIN run'[w] = RunFields,
         mark'[w] \in {mark[w], Nothing}
  PROVE  IInv'
<1>1. /\ putting' = [v \in Writers |-> putting'[v]] /\ ~Busy(w)'
      /\ \A v \in Writers : v # w => putting'[v] = putting[v]
  BY IdleFacts
<1>2. Shape'
  BY <1>1 DEF IInv, Shape, SameStore
<1>3. Sound'
  <2>1. \A v \in Writers : PutOK(v)' /\ (run'[v] # Nothing => DOMAIN run'[v] = RunFields)
    <3> TAKE v \in Writers
    <3>1. CASE v = w
      BY <1>1, <3>1 DEF PutOK
    <3>2. CASE v # w
      <4>1. /\ putting'[v] = putting[v] /\ run'[v] = run[v] /\ mark'[v] = mark[v]
            /\ PutOK(v) /\ (run[v] # Nothing => DOMAIN run[v] = RunFields)
        BY <1>1, <3>2 DEF IInv, Sound
      <4> QED
        BY <4>1 DEF PutOK, Busy, At, NextSequence
    <3> QED
      BY <3>1, <3>2
  <2>2. \A v \in Writers : Busy(v)' => Busy(v)
    BY <1>1 DEF Busy, At
  <2> QED
    BY <2>1, <2>2 DEF IInv, Sound, SameStore, Stored
<1>4. ASSUME ~rootLeft', ~raced' PROVE Unraced'
  <2>1. Unraced /\ ~At(w, "flush root")
    BY <1>4 DEF IInv, SameStore
  <2>2. \A v \in Writers : Busy(v)' => Busy(v) /\ putting'[v] = putting[v]
    BY <1>1 DEF Busy, At
  <2>3. ASSUME NEW u \in Writers, NEW v \in Writers, Busy(u)', Busy(v)', u # v
        PROVE  putting'[u].sequence # putting'[v].sequence
    <3>1. Busy(u) /\ Busy(v) /\ putting'[u] = putting[u] /\ putting'[v] = putting[v]
      BY <2>2, <2>3 DEF Busy, At
    <3>2. putting[u].sequence # putting[v].sequence
      BY <2>1, <2>3, <3>1 DEF Unraced, Apart
    <3> QED
      BY <3>1, <3>2
  <2>4. RootOK'
    <3>1. \A v \in Writers : At(v, "flush root")' <=> At(v, "flush root")
      BY <1>1, <2>1 DEF Busy, At
    <3>2. \A v \in Writers : mark[v] = Nothing => mark'[v] = Nothing
      OBVIOUS
    <3> QED
      BY <2>1, <3>1, <3>2 DEF Unraced, RootOK, SameStore
  <2>5. ASSUME NEW v \in Writers
        PROVE  ProgressOK(v)'
    <3>1. CASE Busy(v)'
      <4>1. Busy(v) /\ putting'[v] = putting[v] /\ ProgressOK(v)
        BY <2>1, <2>2, <3>1 DEF Busy, At, Unraced
      <4> QED
        BY <4>1 DEF ProgressOK, SameStore, Busy, At
    <3>2. CASE ~Busy(v)'
      BY <3>2 DEF ProgressOK
    <3> QED
      BY <3>1, <3>2
  <2>6. AckedOK'
    BY <2>1 DEF Unraced, AckedOK, SameStore
  <2> QED
    BY <2>3, <2>4, <2>5, <2>6 DEF Unraced, Apart
<1> QED
  BY <1>2, <1>3, <1>4 DEF IInv

LEMMA PutFailsInv ==
  ASSUME IInv, NEW w \in Writers, PutFails(w)
  PROVE  IInv'
BY LeavesPut DEF PutFails, Fail, Stops, SameStore, IInv, Shape, Sound

LEMMA KilledInv ==
  ASSUME IInv, NEW w \in Writers, Killed(w)
  PROVE  IInv'
<1>1. /\ SameStore /\ rootLeft' = (rootLeft \/ At(w, "flush root"))
      /\ putting' = [putting EXCEPT ![w] = Idle]
  BY DEF Killed, Kill, Stops, SameStore
<1>2. /\ run' = [v \in Writers |-> IF v = w THEN Nothing ELSE run[v]]
      /\ mark' = [v \in Writers |-> IF v = w THEN Nothing ELSE mark[v]]
  BY DEF Killed, IInv, Shape
<1> QED
  BY <1>1, <1>2, LeavesPut

-----------------------------------------------------------------------------
(* A process that is not in put starts or resumes the run.                  *)

LEMMA HoldsRun ==
  ASSUME IInv, UNCHANGED storeVars, NEW w \in Writers, ~Busy(w),
         run' = [v \in Writers |-> run'[v]], mark' = [v \in Writers |-> mark'[v]],
         \A v \in Writers : v # w => run'[v] = run[v] /\ mark'[v] = mark[v],
         run'[w] # Nothing => DOMAIN run'[w] = RunFields,
         ~rootLeft /\ ~raced /\ root # "durable" => mark'[w] = Nothing
  PROVE  IInv'
<1>1. Shape'
  BY DEF IInv, Shape, storeVars
<1>2. \A v \in Writers : Busy(v)' <=> Busy(v)
  BY DEF Busy, At, storeVars
<1>3. Sound'
  <2>1. \A v \in Writers : PutOK(v)' /\ (run'[v] # Nothing => DOMAIN run'[v] = RunFields)
    <3> TAKE v \in Writers
    <3>1. CASE v = w
      BY <1>2, <3>1 DEF PutOK
    <3>2. CASE v # w
      <4>1. /\ putting' = putting /\ run'[v] = run[v] /\ mark'[v] = mark[v]
            /\ PutOK(v) /\ (run[v] # Nothing => DOMAIN run[v] = RunFields)
        BY <3>2 DEF IInv, Sound, storeVars
      <4> QED
        BY <4>1 DEF PutOK, Busy, At, NextSequence
    <3> QED
      BY <3>1, <3>2
  <2> QED
    BY <1>2, <2>1 DEF IInv, Sound, storeVars, Stored
<1>4. ASSUME ~rootLeft', ~raced' PROVE Unraced'
  <2>1. Unraced /\ ~raced /\ ~rootLeft
    BY <1>4 DEF IInv, storeVars
  <2>2. Apart'
    BY <2>1 DEF Unraced, Apart, Busy, At, storeVars
  <2>3. RootOK'
    <3>1. \A v \in Writers : At(v, "flush root")' <=> At(v, "flush root")
      BY DEF At, storeVars
    <3>2. root # "durable" => \A v \in Writers : mark'[v] = Nothing
      BY <1>4, <2>1 DEF Unraced, RootOK
    <3> QED
      BY <2>1, <3>1, <3>2 DEF Unraced, RootOK, storeVars
  <2>4. \A v \in Writers : ProgressOK(v)'
    BY <2>1 DEF Unraced, ProgressOK, Busy, At, storeVars
  <2>5. AckedOK'
    BY <2>1 DEF Unraced, AckedOK, storeVars
  <2> QED
    BY <2>2, <2>3, <2>4, <2>5 DEF Unraced
<1> QED
  BY <1>1, <1>3, <1>4 DEF IInv

LEMMA InitializeInv ==
  ASSUME IInv, NEW w \in Writers, Initialize(w)
  PROVE  IInv'
<1>1. /\ UNCHANGED storeVars /\ mark' = mark /\ run[w] = Nothing
      /\ run' = [v \in Writers |-> IF v = w THEN EmptyRun ELSE run[v]]
  BY DEF Initialize, IInv, Shape
<1>2. ~Busy(w)
  BY <1>1 DEF IInv, Sound, PutOK
<1>3. DOMAIN EmptyRun = RunFields
  BY DEF EmptyRun, RunFields
<1>4. mark = [v \in Writers |-> mark[v]]
  BY DEF IInv, Shape
<1>5. ~rootLeft /\ ~raced /\ root # "durable" => mark[w] = Nothing
  BY DEF IInv, Unraced, RootOK
<1> QED
  BY <1>1, <1>2, <1>3, <1>4, <1>5, HoldsRun

LEMMA ResumeInv ==
  ASSUME IInv, NEW w \in Writers, Resume(w)
  PROVE  IInv'
<1> DEFINE read == read_checkpoints(Chain)
           held == MarkOf(files[latest], {})
<1>1. /\ UNCHANGED storeVars /\ run[w] = Nothing /\ read # Refused /\ latest # -1
  BY DEF Resume
<1>2. /\ run' = [v \in Writers |-> IF v = w THEN read ELSE run[v]]
      /\ mark' = [v \in Writers |-> IF v = w THEN held ELSE mark[v]]
  BY DEF Resume, IInv, Shape
<1>3. ~Busy(w)
  BY <1>1 DEF IInv, Sound, PutOK
<1>4. DOMAIN read = RunFields
  BY <1>1 DEF read_checkpoints, RunFields
<1>5. ~rootLeft /\ ~raced => root = "durable"
  <2>1. Stored # {}
    BY <1>1 DEF latest
  <2>2. files # NoFiles
    BY <2>1 DEF Stored, NoFiles
  <2> QED
    BY <2>2 DEF IInv, Unraced, RootOK
<1> HIDE DEF read, held
<1> QED
  BY <1>1, <1>2, <1>3, <1>4, <1>5, HoldsRun

-----------------------------------------------------------------------------
(* put, step by step.                                                       *)

\* Only one process makes the directory, and until it is durable no other is
\* in put.
LEMMA RootAlone ==
  ASSUME IInv, ~rootLeft, ~raced, NEW w \in Writers, Busy(w)
  PROVE  /\ ~At(w, "flush root") => root = "durable"
         /\ At(w, "flush root") => \A v \in Writers : Busy(v) => v = w
<1>1. Sound /\ Apart /\ RootOK
  BY DEF IInv, Unraced
<1>2. ASSUME NEW u \in Writers, NEW v \in Writers, At(u, "flush root"), Busy(v)
      PROVE  u = v
  <2>1. root = "visible" /\ Busy(u)
    BY <1>1, <1>2 DEF RootOK, Busy, At
  <2>2. mark[u] = Nothing /\ mark[v] = Nothing
    BY <1>1, <2>1 DEF RootOK
  <2>3. putting[u].sequence = 0 /\ putting[v].sequence = 0
    BY <1>1, <1>2, <2>1, <2>2 DEF Sound, PutOK, NextSequence
  <2> QED
    BY <1>1, <1>2, <2>1, <2>3 DEF Apart
<1>3. ASSUME ~At(w, "flush root") PROVE root = "durable"
  <2>1. root # "absent"
    BY <1>1 DEF Sound
  <2>2. root # "visible"
    BY <1>1, <1>2, <1>3 DEF RootOK
  <2> QED
    BY <2>1, <2>2 DEF IInv, Shape, Entry
<1> QED
  BY <1>2, <1>3

\* A process in put goes on to its next step.
LEMMA SoundAfter ==
  ASSUME IInv, UNCHANGED <<run, mark>>, NEW w \in Writers, Busy(w),
         NEW step \in Steps, Goto(w, step), root' # "absent",
         \A s \in Sequences : flushed'[s] # NoFile => files'[s] # NoFile
  PROVE  Sound'
<1>1. /\ putting'[w] = [at |-> step, sequence |-> putting[w].sequence,
                        payload |-> putting[w].payload]
      /\ \A v \in Writers : v # w => putting'[v] = putting[v]
      /\ PutOK(w)
  BY GotoFacts DEF IInv, Sound
<1>2. ASSUME NEW v \in Writers
      PROVE  PutOK(v)' /\ (run'[v] # Nothing => DOMAIN run'[v] = RunFields)
  <2>1. PutOK(v) /\ (run[v] # Nothing => DOMAIN run[v] = RunFields)
    BY DEF IInv, Sound
  <2>2. CASE v = w
    <3>1. /\ putting'[w].at = step /\ putting'[w].sequence = putting[w].sequence
          /\ putting'[w].payload = putting[w].payload
      BY <1>1
    <3>2. /\ putting[w].sequence \in Sequences /\ putting[w].payload # NoFile
          /\ run[w] # Nothing /\ putting[w].sequence = NextSequence(w)
      BY <1>1 DEF PutOK
    <3> QED
      BY <1>1, <2>1, <2>2, <3>1, <3>2 DEF PutOK, NextSequence
  <2>3. CASE v # w
    BY <1>1, <2>1, <2>3 DEF PutOK, NextSequence, Busy, At
  <2> QED
    BY <2>2, <2>3
<1> QED
  BY <1>2 DEF Sound

\* It stays apart from the others, and the rest of what they rely on is theirs.
LEMMA ApartAfter ==
  ASSUME IInv, Apart, NEW w \in Writers, Busy(w), NEW step \in Steps, Goto(w, step)
  PROVE  Apart'
<1>1. /\ putting'[w].sequence = putting[w].sequence
      /\ \A v \in Writers : v # w => putting'[v] = putting[v]
  BY GotoFacts, GotoFields
<1>2. \A v \in Writers : putting'[v].sequence = putting[v].sequence
                         /\ (Busy(v)' => Busy(v))
  <2> TAKE v \in Writers
  <2>1. CASE v = w
    BY <1>1, <2>1
  <2>2. CASE v # w
    BY <1>1, <2>2 DEF Busy, At
  <2> QED
    BY <2>1, <2>2
<1>3. ASSUME NEW u \in Writers, NEW v \in Writers, Busy(u)', Busy(v)', u # v
      PROVE  putting'[u].sequence # putting'[v].sequence
  <2>1. Busy(u) /\ Busy(v)
    BY <1>2, <1>3
  <2> QED
    BY <1>2, <1>3, <2>1 DEF Apart
<1> QED
  BY <1>3 DEF Apart

\* Once the directory is durable, and no process is about to flush the root.
LEMMA RootAfter ==
  ASSUME root' = "durable", \A v \in Writers : ~At(v, "flush root")'
  PROVE  RootOK'
BY DEF RootOK

\* A step that leaves what another process relies on leaves its progress.
LEMMA ProgressKept ==
  ASSUME NEW v \in Writers, ProgressOK(v), putting'[v] = putting[v],
         Busy(v) => /\ acked'[putting[v].sequence] = acked[putting[v].sequence]
                    /\ files'[putting[v].sequence] = files[putting[v].sequence],
         identity # "absent" => identity' # "absent"
  PROVE  ProgressOK(v)'
BY DEF ProgressOK, Busy, At

\* A step of put that only moves on, or makes the identity more durable.
LEMMA MovesOn ==
  ASSUME IInv, UNCHANGED <<run, mark, files, acked, raced, rootLeft>>,
         NEW w \in Writers, Busy(w), NEW step \in Steps \ {"flush root", "flush state"},
         Goto(w, step), ~At(w, "flush state"),
         root' = IF At(w, "flush root") THEN "durable" ELSE root,
         flushed' \in {flushed, files},
         identity' \in Entry, identity # "absent" => identity' # "absent",
         identity = "durable" => identity' = "durable",
         ~rootLeft /\ ~raced /\ step \in {"flush identity", "state"}
           => identity' # "absent"
  PROVE  IInv'
<1>1. /\ putting' = [v \in Writers |-> putting'[v]]
      /\ putting'[w] = [at |-> step, sequence |-> putting[w].sequence,
                        payload |-> putting[w].payload]
      /\ \A v \in Writers : v # w => putting'[v] = putting[v]
  BY GotoFacts
<1>2. putting'[w].at = step /\ putting'[w].sequence = putting[w].sequence
  BY GotoFields
<1>3. root' # "absent" /\ root' \in Entry
  BY DEF IInv, Shape, Sound, Entry
<1>4. Shape'
  <2>1. flushed' = [s \in Sequences |-> flushed'[s]]
    BY DEF IInv, Shape
  <2> QED
    BY <1>1, <1>3, <2>1 DEF IInv, Shape
<1>5. Sound'
  <2>1. \A s \in Sequences : flushed'[s] # NoFile => files'[s] # NoFile
    BY DEF IInv, Sound
  <2> QED
    BY <1>3, <2>1, SoundAfter
<1>6. ASSUME ~rootLeft', ~raced' PROVE Unraced'
  <2>1. Unraced /\ ~raced
    BY <1>6 DEF IInv
  <2>2. root' = "durable" /\ (At(w, "flush root") => \A v \in Writers : Busy(v) => v = w)
    BY <1>6, <2>1, RootAlone
  <2>3. \A v \in Writers : ~At(v, "flush root")'
    <3> SUFFICES ASSUME NEW v \in Writers PROVE ~At(v, "flush root")'
      OBVIOUS
    <3>1. CASE v = w
      BY <1>2, <3>1 DEF At
    <3>2. CASE v # w
      <4>1. ~At(v, "flush root")
        <5>1. At(v, "flush root") => Busy(v) /\ root = "visible"
          BY <2>1 DEF Unraced, RootOK, Busy, At
        <5> QED
          BY <2>2, <3>2, <5>1
      <4> QED
        BY <1>1, <3>2, <4>1 DEF At
    <3> QED
      BY <3>1, <3>2
  <2>4. Apart'
    BY <2>1, ApartAfter DEF Unraced
  <2>5. RootOK'
    BY <2>2, <2>3, RootAfter
  <2>6. ASSUME NEW v \in Writers PROVE ProgressOK(v)'
    <3>1. ProgressOK(v)
      BY <2>1 DEF Unraced
    <3>2. CASE v = w
      <4>1. /\ files[putting[w].sequence] = NoFile /\ acked[putting[w].sequence] = NoFile
            /\ step # "flush state"
        BY <3>1, <3>2 DEF ProgressOK
      <4>2. step \in {"flush identity", "state", "flush state"} => identity' # "absent"
        BY <1>6, <2>1
      <4> QED
        BY <1>2, <3>2, <4>1, <4>2 DEF ProgressOK, At
    <3>3. CASE v # w
      BY <1>1, <3>1, <3>3, ProgressKept
    <3> QED
      BY <3>2, <3>3
  <2>7. AckedOK'
    BY <2>1 DEF Unraced, AckedOK
  <2> QED
    BY <2>4, <2>5, <2>6, <2>7 DEF Unraced
<1> QED
  BY <1>4, <1>5, <1>6 DEF IInv

LEMMA FlushRootInv ==
  ASSUME IInv, NEW w \in Writers, FlushRoot(w), UNCHANGED <<run, mark, faults>>
  PROVE  IInv'
<1>1. /\ At(w, "flush root") /\ Busy(w) /\ PutOK(w) /\ root' = "durable"
      /\ UNCHANGED <<identity, files, flushed, acked, raced, rootLeft>>
  BY DEF FlushRoot, Busy, At, IInv, Sound
<1>2. CASE files[putting[w].sequence] # NoFile
  <2>1. /\ putting' = [putting EXCEPT ![w] = Idle]
        /\ (~rootLeft => raced)
    <3>1. Check(putting[w].sequence) = "idle"
      BY <1>2 DEF Check
    <3>2. ~rootLeft /\ ~raced => ProgressOK(w)
      BY DEF IInv, Unraced
    <3> QED
      BY <1>1, <1>2, <3>1, <3>2 DEF FlushRoot, ProgressOK, At
  <2>2. /\ putting' = [v \in Writers |-> putting'[v]] /\ ~Busy(w)'
        /\ \A v \in Writers : v # w => putting'[v] = putting[v]
    BY <2>1, IdleFacts
  <2>3. Shape'
    BY <1>1, <2>2 DEF IInv, Shape, Entry
  <2>4. Sound'
    <3>1. ASSUME NEW v \in Writers
          PROVE  PutOK(v)' /\ (run'[v] # Nothing => DOMAIN run'[v] = RunFields)
      <4>1. PutOK(v) /\ (run[v] # Nothing => DOMAIN run[v] = RunFields)
        BY DEF IInv, Sound
      <4>2. CASE v = w
        BY <2>2, <4>1, <4>2 DEF PutOK
      <4>3. CASE v # w
        BY <2>2, <4>1, <4>3 DEF PutOK, NextSequence, Busy, At
      <4> QED
        BY <4>2, <4>3
    <3> QED
      BY <1>1, <3>1 DEF IInv, Sound
  <2> QED
    BY <1>1, <2>1, <2>3, <2>4 DEF IInv
<1>3. CASE files[putting[w].sequence] = NoFile
  <2>1. /\ Check(putting[w].sequence) \in {"identity", "state"}
        /\ Goto(w, Check(putting[w].sequence))
        /\ Check(putting[w].sequence) = "state" => identity # "absent"
    BY <1>3 DEF Check, FlushRoot
  <2>2. identity \in Entry
    BY DEF IInv, Shape
  <2>3. ~At(w, "flush state")
    BY <1>1 DEF At
  <2> DEFINE step == Check(putting[w].sequence)
  <2>4. step \in Steps \ {"flush root", "flush state"}
    BY <2>1 DEF Steps
  <2> HIDE DEF step
  <2>5. step \in {"flush identity", "state"} => identity' # "absent"
    BY <1>1, <2>1 DEF step
  <2>6. Goto(w, step)
    BY <2>1 DEF step
  <2> QED
    BY <1>1, <2>2, <2>3, <2>4, <2>5, <2>6, MovesOn
<1> QED
  BY <1>2, <1>3

LEMMA RenameIdentityInv ==
  ASSUME IInv, NEW w \in Writers, RenameIdentity(w), UNCHANGED <<run, mark, faults>>
  PROVE  IInv'
<1>1. /\ Busy(w) /\ ~At(w, "flush root") /\ ~At(w, "flush state")
      /\ Goto(w, "flush identity") /\ root' = root /\ flushed' = flushed
      /\ identity' \in Entry \ {"absent"} /\ (identity = "durable" => identity' = "durable")
      /\ UNCHANGED <<run, mark, files, acked, raced, rootLeft>>
  BY DEF RenameIdentity, Busy, At, Entry
<1>2. "flush identity" \in Steps \ {"flush root", "flush state"}
  BY DEF Steps
<1> QED
  BY <1>1, <1>2, MovesOn

LEMMA FlushIdentityInv ==
  ASSUME IInv, NEW w \in Writers, FlushIdentity(w), UNCHANGED <<run, mark, faults>>
  PROVE  IInv'
<1>1. /\ Busy(w) /\ ~At(w, "flush root") /\ ~At(w, "flush state")
      /\ Goto(w, "state") /\ root' = root /\ flushed' = files
      /\ identity' = (IF identity = "visible" THEN "durable" ELSE identity)
      /\ UNCHANGED <<run, mark, files, acked, raced, rootLeft>>
  BY DEF FlushIdentity, FsyncDirectory, Busy, At
<1>2. identity \in Entry
  BY DEF IInv, Shape
<1>3. ~rootLeft /\ ~raced => identity' # "absent"
  <2>1. putting[w].at = "flush identity"
    BY DEF FlushIdentity, At
  <2>2. ~rootLeft /\ ~raced => ProgressOK(w)
    BY DEF IInv, Unraced
  <2> QED
    BY <1>1, <2>1, <2>2 DEF ProgressOK
<1>4. "state" \in Steps \ {"flush root", "flush state"} /\ identity' \in Entry
  BY <1>1, <1>2 DEF Steps, Entry
<1> QED
  BY <1>1, <1>2, <1>3, <1>4, MovesOn

LEMMA RenameStateInv ==
  ASSUME IInv, NEW w \in Writers, RenameState(w), UNCHANGED <<run, mark, faults>>
  PROVE  IInv'
<1> DEFINE s == putting[w].sequence
<1>1. /\ Busy(w) /\ ~At(w, "flush root") /\ ~At(w, "flush state")
      /\ Goto(w, "flush state") /\ PutOK(w)
      /\ UNCHANGED <<root, identity, flushed, acked, raced, rootLeft, run, mark>>
  BY DEF RenameState, Busy, At, IInv, Sound
<1>2. "flush state" \in Steps
  BY DEF Steps
<1>3. /\ putting' = [v \in Writers |-> putting'[v]]
      /\ putting'[w] = [at |-> "flush state", sequence |-> s, payload |-> putting[w].payload]
      /\ \A v \in Writers : v # w => putting'[v] = putting[v]
  BY <1>1, <1>2, GotoFacts
<1>4. putting'[w].sequence = s /\ putting'[w].payload = putting[w].payload
      /\ putting'[w].at = "flush state"
  BY <1>1, <1>2, GotoFields
<1>5. /\ s \in Sequences /\ putting[w].payload # NoFile
      /\ files' = [t \in Sequences |-> IF t = s THEN putting[w].payload ELSE files[t]]
  BY <1>1 DEF RenameState, PutOK, IInv, Shape
<1> HIDE DEF s
<1>6. Shape'
  BY <1>1, <1>3, <1>5 DEF IInv, Shape
<1>7. Sound'
  <2>1. root' # "absent"
    BY <1>1 DEF IInv, Sound
  <2>2. \A t \in Sequences : flushed'[t] # NoFile => files'[t] # NoFile
    BY <1>1, <1>5 DEF IInv, Sound
  <2> QED
    BY <1>1, <1>2, <2>1, <2>2, SoundAfter
<1>8. ASSUME ~rootLeft', ~raced' PROVE Unraced'
  <2>1. Unraced /\ ~raced
    BY <1>1, <1>8 DEF IInv
  <2>2. root' = "durable"
    BY <1>1, <1>8, <2>1, RootAlone
  <2>3. \A v \in Writers : ~At(v, "flush root")'
    <3> TAKE v \in Writers
    <3>1. CASE v = w
      BY <1>4, <3>1 DEF At
    <3>2. CASE v # w
      BY <1>1, <1>3, <2>1, <2>2, <3>2 DEF At, Unraced, RootOK
    <3> QED
      BY <3>1, <3>2
  <2>4. Apart'
    BY <1>1, <1>2, <2>1, ApartAfter DEF Unraced
  <2>5. RootOK'
    BY <2>2, <2>3, RootAfter
  <2>6. ProgressOK(w) /\ acked[s] = NoFile /\ identity # "absent"
    <3>1. ProgressOK(w)
      BY <2>1 DEF Unraced
    <3>2. putting[w].at = "state"
      BY DEF RenameState, At
    <3> QED
      BY <1>1, <3>1, <3>2 DEF ProgressOK, s
  <2>7. ASSUME NEW v \in Writers PROVE ProgressOK(v)'
    <3>1. ProgressOK(v)
      BY <2>1 DEF Unraced
    <3>2. CASE v = w
      BY <1>1, <1>4, <1>5, <2>6, <3>2 DEF ProgressOK, At
    <3>3. CASE v # w
      <4>1. Busy(v) => putting[v].sequence # s /\ putting[v].sequence \in Sequences
        BY <1>1, <2>1, <3>3 DEF Unraced, Apart, s, IInv, Sound, PutOK
      <4>2. Busy(v) => files'[putting[v].sequence] = files[putting[v].sequence]
        BY <1>5, <4>1
      <4> QED
        BY <1>1, <1>3, <3>1, <3>3, <4>2, ProgressKept
    <3> QED
      BY <3>2, <3>3
  <2>8. AckedOK'
    <3> SUFFICES ASSUME NEW t \in Sequences, acked'[t] # NoFile
                 PROVE  files'[t] = acked'[t] /\ flushed'[t] = acked'[t]
                        /\ identity' = "durable"
      BY DEF AckedOK
    <3>1. t # s /\ acked[t] # NoFile
      BY <1>1, <2>6
    <3> QED
      BY <1>1, <1>5, <2>1, <3>1 DEF Unraced, AckedOK
  <2> QED
    BY <2>4, <2>5, <2>7, <2>8 DEF Unraced
<1> QED
  BY <1>6, <1>7, <1>8 DEF IInv

LEMMA ReturnsInv ==
  ASSUME IInv, NEW w \in Writers, Returns(w)
  PROVE  IInv'
<1> DEFINE s == putting[w].sequence
           stored == putting[w].payload
           held == MarkOf(stored, {run[w].orders})
<1>1. /\ Busy(w) /\ At(w, "flush state") /\ ~At(w, "flush root") /\ PutOK(w)
      /\ putting' = [putting EXCEPT ![w] = Idle]
      /\ flushed' = files /\ UNCHANGED <<root, files, raced, rootLeft, run>>
      /\ identity' = (IF identity = "visible" THEN "durable" ELSE identity)
  BY DEF Returns, FlushState, FsyncDirectory, Busy, At, IInv, Sound
<1>2. /\ s \in Sequences
      /\ acked' = [t \in Sequences |-> IF t = s THEN stored ELSE acked[t]]
      /\ mark' = [v \in Writers |-> IF v = w THEN held ELSE mark[v]]
  BY <1>1 DEF Returns, FlushState, PutOK, IInv, Shape
<1>3. /\ putting' = [v \in Writers |-> putting'[v]] /\ ~Busy(w)'
      /\ \A v \in Writers : v # w => putting'[v] = putting[v]
  BY <1>1, IdleFacts
<1>4. identity \in Entry /\ root \in Entry
  BY DEF IInv, Shape
<1> HIDE DEF held, stored, s
<1>5. Shape'
  <2>1. identity' \in Entry
    BY <1>1, <1>4 DEF Entry
  <2> QED
    BY <1>1, <1>2, <1>3, <2>1 DEF IInv, Shape
<1>6. Sound'
  <2>1. ASSUME NEW v \in Writers
        PROVE  PutOK(v)' /\ (run'[v] # Nothing => DOMAIN run'[v] = RunFields)
    <3>1. PutOK(v) /\ (run[v] # Nothing => DOMAIN run[v] = RunFields)
      BY DEF IInv, Sound
    <3>2. CASE v = w
      BY <1>1, <1>3, <3>1, <3>2 DEF PutOK
    <3>3. CASE v # w
      <4>1. mark'[v] = mark[v] /\ putting'[v] = putting[v] /\ run'[v] = run[v]
        BY <1>1, <1>2, <1>3, <3>3
      <4> QED
        BY <3>1, <4>1 DEF PutOK, NextSequence, Busy, At
    <3> QED
      BY <3>2, <3>3
  <2>2. root' # "absent"
    BY <1>1 DEF IInv, Sound
  <2> QED
    BY <1>1, <2>1, <2>2 DEF Sound
<1>7. ASSUME ~rootLeft', ~raced' PROVE Unraced'
  <2>1. Unraced /\ ~raced
    BY <1>1, <1>7 DEF IInv
  <2>2. root' = "durable"
    BY <1>1, <1>7, <2>1, RootAlone
  <2>3. \A v \in Writers : Busy(v)' => Busy(v) /\ v # w /\ putting'[v] = putting[v]
    BY <1>3 DEF Busy, At
  <2>4. \A v \in Writers : ~At(v, "flush root")'
    <3>1. \A v \in Writers : ~At(v, "flush root")
      BY <1>1, <2>1, <2>2 DEF Unraced, RootOK
    <3> QED
      BY <2>3, <3>1 DEF Busy, At
  <2>5. RootOK'
    BY <2>2, <2>4, RootAfter
  <2>6. Apart'
    <3> SUFFICES ASSUME NEW u \in Writers, NEW v \in Writers, Busy(u)', Busy(v)', u # v
                 PROVE  putting'[u].sequence # putting'[v].sequence
      BY DEF Apart
    <3>1. Busy(u) /\ Busy(v) /\ putting'[u] = putting[u] /\ putting'[v] = putting[v]
      BY <2>3
    <3> QED
      BY <2>1, <3>1 DEF Unraced, Apart
  <2>7. ProgressOK(w) /\ files[s] = stored /\ identity # "absent"
    <3>1. ProgressOK(w)
      BY <2>1 DEF Unraced
    <3>2. putting[w].at = "flush state"
      BY <1>1 DEF At
    <3> QED
      BY <1>1, <3>1, <3>2 DEF ProgressOK, s, stored
  <2>8. identity' = "durable"
    BY <1>1, <1>4, <2>7 DEF Entry
  <2>9. ASSUME NEW v \in Writers PROVE ProgressOK(v)'
    <3>1. ProgressOK(v)
      BY <2>1 DEF Unraced
    <3>2. CASE v = w
      BY <1>3, <3>2 DEF ProgressOK
    <3>3. CASE v # w
      <4>1. Busy(v) => putting[v].sequence # s /\ putting[v].sequence \in Sequences
        BY <1>1, <2>1, <3>3 DEF Unraced, Apart, s, IInv, Sound, PutOK
      <4>2. Busy(v) => acked'[putting[v].sequence] = acked[putting[v].sequence]
        BY <1>2, <4>1
      <4> QED
        BY <1>1, <1>3, <2>8, <3>1, <3>3, <4>2, ProgressKept
    <3> QED
      BY <3>2, <3>3
  <2>10. AckedOK'
    <3> SUFFICES ASSUME NEW t \in Sequences, acked'[t] # NoFile
                 PROVE  files'[t] = acked'[t] /\ flushed'[t] = acked'[t]
                        /\ identity' = "durable"
      BY DEF AckedOK
    <3>1. CASE t = s
      BY <1>1, <1>2, <2>7, <2>8, <3>1
    <3>2. CASE t # s
      BY <1>1, <1>2, <2>1, <2>8, <3>2 DEF Unraced, AckedOK
    <3> QED
      BY <3>1, <3>2
  <2> QED
    BY <2>5, <2>6, <2>9, <2>10 DEF Unraced
<1> QED
  BY <1>5, <1>6, <1>7 DEF IInv

-----------------------------------------------------------------------------
(* A checkpoint is taken, and put is called.                                *)

\* What a process that enters put must know for the invariant to hold of it.
LEMMA Enters ==
  ASSUME IInv, NEW w \in Writers, ~Busy(w), mark' = mark,
         NEW advanced, advanced # Nothing, DOMAIN advanced = RunFields,
         run' = [v \in Writers |-> IF v = w THEN advanced ELSE run[v]],
         NEW step \in Steps \cup {"idle"}, NEW sequence \in Sequences,
         sequence = NextSequence(w), NEW payload, payload # NoFile,
         putting' = [v \in Writers |->
                       IF v # w THEN putting[v]
                       ELSE IF step = "idle" THEN Idle
                       ELSE [at |-> step, sequence |-> sequence, payload |-> payload]],
         root' = IF root = "absent" THEN "visible" ELSE root,
         UNCHANGED <<identity, files, flushed, acked, rootLeft>>,
         raced' \in BOOLEAN
  PROVE  /\ Shape' /\ Sound'
         /\ \A v \in Writers : v # w => putting'[v] = putting[v]
         /\ putting'[w].at = step
         /\ step # "idle" => putting'[w].sequence = sequence
<1>1. \A v \in Writers : v # w => putting'[v] = putting[v] /\ run'[v] = run[v]
  OBVIOUS
<1>2. putting'[w] = (IF step = "idle" THEN Idle
                     ELSE [at |-> step, sequence |-> sequence, payload |-> payload])
  OBVIOUS
<1>3. /\ putting'[w].at = step
      /\ step # "idle" =>
           /\ putting'[w].sequence = sequence /\ putting'[w].payload = payload
           /\ putting'[w] = [at |-> putting'[w].at, sequence |-> putting'[w].sequence,
                             payload |-> putting'[w].payload]
  BY <1>2 DEF Idle
<1>4. root' # "absent" /\ root' \in Entry
  BY DEF IInv, Shape, Entry
<1>5. Shape'
  <2>1. /\ run' = [v \in Writers |-> run'[v]]
        /\ putting' = [v \in Writers |-> putting'[v]]
    OBVIOUS
  <2> QED
    BY <1>4, <2>1 DEF IInv, Shape
<1>6. ASSUME NEW v \in Writers
      PROVE  PutOK(v)' /\ (run'[v] # Nothing => DOMAIN run'[v] = RunFields)
  <2>1. PutOK(v) /\ (run[v] # Nothing => DOMAIN run[v] = RunFields)
    BY DEF IInv, Sound
  <2>2. CASE v = w
    <3>1. run'[v] = advanced
      BY <2>2
    <3>2. NextSequence(w)' = sequence
      BY DEF NextSequence
    <3> QED
      BY <1>3, <2>2, <3>1, <3>2 DEF PutOK, Busy, At
  <2>3. CASE v # w
    BY <1>1, <2>1, <2>3 DEF PutOK, NextSequence, Busy, At
  <2> QED
    BY <2>2, <2>3
<1>7. Sound'
  BY <1>4, <1>6 DEF IInv, Sound
<1> QED
  BY <1>1, <1>3, <1>5, <1>7

LEMMA CheckpointInv ==
  ASSUME IInv, NEW w \in Writers, Checkpoint(w)
  PROVE  IInv'
<1>1. /\ run[w] # Nothing /\ NextSequence(w) \in Sequences /\ UNCHANGED <<mark, faults>>
  BY DEF Checkpoint
<1>2. PICK batch \in Batches :
        LET advanced == advance_all(run[w], w, batch)
        IN  /\ run' = [run EXCEPT ![w] = advanced]
            /\ BeginPut(w, NextSequence(w), Payload(advanced, mark[w]))
  BY DEF Checkpoint
<1> DEFINE advanced == advance_all(run[w], w, batch)
           sequence == NextSequence(w)
           payload == Payload(advanced, mark[w])
           step == IF root = "absent" THEN "flush root" ELSE Check(sequence)
<1>3. DOMAIN advanced = RunFields
  BY <1>1, AdvancedIsRun DEF IInv, Sound
<1>4. advanced # Nothing /\ payload # NoFile
  <2>1. DOMAIN Nothing = {"none"} /\ "none" \notin RunFields
    BY DEF Nothing, RunFields
  <2>2. DOMAIN payload = {"text", "of"} /\ DOMAIN NoFile = {"none"}
    BY DEF Payload, NoFile
  <2>3. payload # NoFile
    <3> HIDE DEF payload
    <3> QED
      BY <2>2
  <2> HIDE DEF advanced
  <2> QED
    BY <1>3, <2>1, <2>3
<1> HIDE DEF payload
<1>5. /\ ~Busy(w)
      /\ run' = [v \in Writers |-> IF v = w THEN advanced ELSE run[v]]
      /\ root' = (IF root = "absent" THEN "visible" ELSE root)
      /\ raced' = (raced \/ Contended(w, sequence))
      /\ UNCHANGED <<identity, files, flushed, acked, rootLeft>>
  BY <1>2 DEF BeginPut, Busy, IInv, Shape
<1>6. putting' = [v \in Writers |->
                    IF v # w THEN putting[v]
                    ELSE IF step = "idle" THEN Idle
                    ELSE [at |-> step, sequence |-> sequence, payload |-> payload]]
  BY <1>2 DEF BeginPut, IInv, Shape, payload
<1>7. step \in {"flush root", "identity", "state", "idle"}
  BY DEF Check
<1>8. raced' \in BOOLEAN /\ step \in Steps \cup {"idle"}
  BY <1>5, <1>7 DEF IInv, Shape, Steps, Contended
<1>9. step # "flush root" => (step # "idle" => files[sequence] = NoFile)
                             /\ (step = "state" => identity # "absent")
  BY DEF Check
<1>10. step = "flush root" <=> root = "absent"
  BY DEF Check
<1> HIDE DEF advanced, sequence, step
<1>11. /\ Shape' /\ Sound'
       /\ \A v \in Writers : v # w => putting'[v] = putting[v]
       /\ putting'[w].at = step
       /\ step # "idle" => putting'[w].sequence = sequence
  <2>1. sequence = NextSequence(w) /\ sequence \in Sequences
    BY <1>1 DEF sequence
  <2> QED
    BY <1>1, <1>3, <1>4, <1>5, <1>6, <1>8, <2>1, Enters
<1>12. ASSUME ~rootLeft', ~raced' PROVE Unraced'
  <2>1. Unraced /\ ~raced /\ ~Contended(w, sequence)
    BY <1>5, <1>12 DEF IInv
  <2>2. \A v \in Writers : v # w => (Busy(v)' <=> Busy(v))
    BY <1>11 DEF Busy, At
  <2>3. Apart'
    <3> SUFFICES ASSUME NEW u \in Writers, NEW v \in Writers, Busy(u)', Busy(v)', u # v
                 PROVE  putting'[u].sequence # putting'[v].sequence
      BY DEF Apart
    <3>1. ASSUME NEW x \in Writers, x # w, Busy(x)'
          PROVE  putting'[x].sequence = putting[x].sequence
                 /\ putting[x].sequence # sequence /\ Busy(x)
      BY <1>11, <2>1, <2>2, <3>1 DEF Contended, Busy, At
    <3>2. Busy(w)' => putting'[w].sequence = sequence
      BY <1>11 DEF Busy, At
    <3>3. CASE u = w
      BY <3>1, <3>2, <3>3
    <3>4. CASE v = w
      BY <3>1, <3>2, <3>4
    <3>5. CASE u # w /\ v # w
      BY <2>1, <3>1, <3>5 DEF Unraced, Apart
    <3> QED
      BY <3>3, <3>4, <3>5
  <2>4. root # "visible"
    <3> SUFFICES ASSUME root = "visible" PROVE FALSE
      OBVIOUS
    <3>1. PICK v \in Writers : At(v, "flush root")
      BY <2>1 DEF Unraced, RootOK
    <3>2. Busy(v) /\ v # w
      BY <1>5, <3>1 DEF Busy, At
    <3>3. mark[v] = Nothing /\ mark[w] = Nothing
      BY <2>1 DEF Unraced, RootOK
    <3>4. putting[v].sequence = 0 /\ sequence = 0
      BY <3>2, <3>3 DEF IInv, Sound, PutOK, NextSequence, sequence
    <3> QED
      BY <2>1, <3>2, <3>4 DEF Contended, Busy, At
  <2>5. CASE root = "absent"
    <3>1. /\ step = "flush root" /\ root' = "visible"
          /\ files = NoFiles /\ acked = NoFiles /\ identity = "absent"
          /\ \A v \in Writers : mark[v] = Nothing /\ ~Busy(v)
      BY <1>5, <1>10, <2>1, <2>5 DEF Unraced, RootOK, IInv, Sound
    <3>2. RootOK'
      <4>1. At(w, "flush root")'
        BY <1>11, <3>1 DEF At
      <4>2. files' = NoFiles /\ acked' = NoFiles /\ identity' = "absent" /\ mark' = mark
        BY <1>1, <1>5, <3>1
      <4> QED
        BY <3>1, <4>1, <4>2 DEF RootOK
    <3>3. ASSUME NEW v \in Writers PROVE ProgressOK(v)'
      <4>1. CASE v = w
        <5>1. files'[sequence] = NoFile /\ acked'[sequence] = NoFile
          BY <1>1, <1>5, <3>1 DEF NoFiles, sequence
        <5> QED
          BY <1>11, <3>1, <4>1, <5>1 DEF ProgressOK, At
      <4>2. CASE v # w
        BY <2>2, <3>1, <4>2 DEF ProgressOK
      <4> QED
        BY <4>1, <4>2
    <3>4. AckedOK'
      BY <1>5, <2>1 DEF Unraced, AckedOK
    <3> QED
      BY <2>3, <3>2, <3>3, <3>4 DEF Unraced
  <2>6. CASE root = "durable"
    <3>1. step # "flush root" /\ root' = "durable"
      BY <1>5, <1>10, <2>6
    <3>2. RootOK'
      <4>1. \A v \in Writers : ~At(v, "flush root")
        BY <2>1, <2>6 DEF Unraced, RootOK
      <4>2. \A v \in Writers : ~At(v, "flush root")'
        BY <1>11, <3>1, <4>1 DEF At
      <4> QED
        BY <3>1, <4>2, RootAfter
    <3>3. ASSUME NEW v \in Writers PROVE ProgressOK(v)'
      <4>1. CASE v = w
        <5>1. step # "idle" => files[sequence] = NoFile /\ acked[sequence] = NoFile
          BY <1>1, <1>9, <2>1, <3>1 DEF Unraced, AckedOK, sequence
        <5>2. step # "flush identity" /\ step # "flush state"
          BY <1>7
        <5> QED
          BY <1>5, <1>9, <1>11, <3>1, <4>1, <5>1, <5>2 DEF ProgressOK, Busy, At
      <4>2. CASE v # w
        <5>1. ProgressOK(v) /\ putting'[v] = putting[v]
          BY <1>11, <2>1, <4>2 DEF Unraced
        <5> QED
          BY <1>5, <5>1, ProgressKept
      <4> QED
        BY <4>1, <4>2
    <3>4. AckedOK'
      BY <1>5, <2>1 DEF Unraced, AckedOK
    <3> QED
      BY <2>3, <3>2, <3>3, <3>4 DEF Unraced
  <2> QED
    BY <2>4, <2>5, <2>6 DEF IInv, Shape, Entry
<1> QED
  BY <1>11, <1>12 DEF IInv

-----------------------------------------------------------------------------
(* A power loss takes no more than what is not durable.                     *)

LEMMA OutageInv ==
  ASSUME IInv, Outage
  PROVE  IInv'
<1>1. /\ putting' = [w \in Writers |-> Idle] /\ flushed' = files'
      /\ run' = [w \in Writers |-> Nothing] /\ mark' = [w \in Writers |-> Nothing]
      /\ UNCHANGED <<acked, raced, rootLeft>>
      /\ root' \in {"absent", "durable"} /\ identity' \in {"absent", "durable"}
  BY DEF Outage, PowerLoss
<1>2. /\ root = "durable" => root' = "durable"
      /\ root' = "absent" => identity' = "absent" /\ files' = NoFiles
      /\ root' = "durable" /\ identity = "durable" => identity' = "durable"
  BY DEF Outage, PowerLoss
<1>3. \A s \in Sequences :
        root' = "durable" => files'[s] \in {files[s], flushed[s]}
  BY <1>1 DEF Outage, PowerLoss
<1>4. files' = [s \in Sequences |-> files'[s]]
  <2>1. CASE root' = "absent"
    BY <1>2, <2>1 DEF NoFiles
  <2>2. CASE root' = "durable"
    BY <2>2 DEF Outage, PowerLoss
  <2> QED
    BY <1>1, <2>1, <2>2
<1>5. \A w \in Writers : ~Busy(w)' /\ run'[w] = Nothing /\ mark'[w] = Nothing
  <2>1. \A w \in Writers : putting'[w] = Idle
    BY <1>1
  <2> QED
    BY <1>1, <2>1 DEF Busy, At, Idle
<1>6. Shape'
  BY <1>1, <1>4 DEF IInv, Shape, Entry
<1>7. Sound'
  BY <1>1, <1>2, <1>5 DEF Sound, PutOK, Stored, NoFiles
<1>8. ASSUME ~rootLeft', ~raced' PROVE Unraced'
  <2>1. Unraced
    BY <1>1, <1>8 DEF IInv
  <2>2. Apart' /\ \A w \in Writers : ProgressOK(w)'
    BY <1>5 DEF Apart, ProgressOK
  <2>3. RootOK'
    <3>1. \A w \in Writers : ~At(w, "flush root")'
      BY <1>5 DEF Busy, At
    <3>2. root' # "durable" => acked' = NoFiles
      BY <1>1, <1>2, <2>1 DEF Unraced, RootOK
    <3> QED
      BY <1>1, <1>2, <1>5, <3>1, <3>2 DEF RootOK
  <2>4. AckedOK'
    <3> SUFFICES ASSUME NEW s \in Sequences, acked'[s] # NoFile
                 PROVE  files'[s] = acked'[s] /\ flushed'[s] = acked'[s]
                        /\ identity' = "durable"
      BY DEF AckedOK
    <3>1. files[s] = acked[s] /\ flushed[s] = acked[s] /\ identity = "durable"
      BY <1>1, <2>1 DEF Unraced, AckedOK
    <3>2. root' = "durable"
      BY <1>1, <1>2, <2>1 DEF Unraced, RootOK, NoFiles
    <3> QED
      BY <1>1, <1>2, <1>3, <3>1, <3>2
  <2> QED
    BY <2>2, <2>3, <2>4 DEF Unraced
<1> QED
  BY <1>6, <1>7, <1>8 DEF IInv

-----------------------------------------------------------------------------
(* The invariant and what follows from it.                                  *)

LEMMA InitInv == Init => IInv
<1> SUFFICES ASSUME Init PROVE IInv
  OBVIOUS
<1>1. \A w \in Writers : ~Busy(w) /\ run[w] = Nothing /\ mark[w] = Nothing
  BY DEF Init, StoreInit, Busy, At, Idle
<1>2. Shape
  BY DEF Init, StoreInit, Shape, NoFiles, Entry
<1>3. Sound
  BY <1>1 DEF Init, StoreInit, Sound, PutOK, Stored, NoFiles
<1>4. Unraced
  BY <1>1 DEF Init, StoreInit, Unraced, Apart, RootOK, ProgressOK, AckedOK,
              NoFiles, Busy, At
<1> QED
  BY <1>2, <1>3, <1>4 DEF IInv

LEMMA Invariant == Spec => []IInv
<1>1. ASSUME IInv, [Next]_vars PROVE IInv'
  <2>1. ASSUME NEW w \in Writers,
               \/ Initialize(w) \/ Resume(w)   \/ Checkpoint(w) \/ PutStep(w)
               \/ Returns(w)    \/ PutFails(w) \/ Killed(w)
        PROVE  IInv'
    <3>1. CASE Initialize(w)
      BY <1>1, <3>1, InitializeInv
    <3>2. CASE Resume(w)
      BY <1>1, <3>2, ResumeInv
    <3>3. CASE Checkpoint(w)
      BY <1>1, <3>3, CheckpointInv
    <3>4. CASE PutStep(w)
      <4>1. UNCHANGED <<run, mark, faults>>
        BY <3>4 DEF PutStep
      <4>2. CASE FlushRoot(w)
        BY <1>1, <4>1, <4>2, FlushRootInv
      <4>3. CASE RenameIdentity(w)
        BY <1>1, <4>1, <4>3, RenameIdentityInv
      <4>4. CASE FlushIdentity(w)
        BY <1>1, <4>1, <4>4, FlushIdentityInv
      <4>5. CASE RenameState(w)
        BY <1>1, <4>1, <4>5, RenameStateInv
      <4> QED
        BY <3>4, <4>2, <4>3, <4>4, <4>5 DEF PutStep
    <3>5. CASE Returns(w)
      BY <1>1, <3>5, ReturnsInv
    <3>6. CASE PutFails(w)
      BY <1>1, <3>6, PutFailsInv
    <3>7. CASE Killed(w)
      BY <1>1, <3>7, KilledInv
    <3> QED
      BY <2>1, <3>1, <3>2, <3>3, <3>4, <3>5, <3>6, <3>7
  <2>2. CASE Outage
    BY <1>1, <2>2, OutageInv
  <2>3. CASE UNCHANGED vars
    <3>1. Shape'
      BY <1>1, <2>3 DEF vars, storeVars, IInv, Shape
    <3>2. Sound'
      BY <1>1, <2>3 DEF vars, storeVars, IInv, Sound, PutOK, Busy, At, NextSequence, Stored
    <3>3. ASSUME ~rootLeft', ~raced' PROVE Unraced'
      BY <1>1, <2>3, <3>3 DEF vars, storeVars, IInv, Unraced, Apart, RootOK, ProgressOK,
                              AckedOK, Busy, At
    <3> QED
      BY <3>1, <3>2, <3>3 DEF IInv
  <2> QED
    BY <1>1, <2>1, <2>2, <2>3 DEF Next
<1> QED
  BY <1>1, InitInv, PTL DEF Spec

(* Nothing is durable that is not there, and a process in put has a run,    *)
(* whatever the processes do and whatever fails (FileRunStateStore.put).    *)
THEOREM TypesTheorem == Spec => []TypeOK
<1>1. IInv => TypeOK
  BY DEF IInv, Shape, Sound, PutOK, TypeOK
<1> QED
  BY <1>1, Invariant, PTL

-----------------------------------------------------------------------------
(* Numbers.                                                                 *)

\* A set of numbers that is not empty has a least one.
LEMMA Least ==
  ASSUME NEW S \in SUBSET Nat, S # {}
  PROVE  \E n \in S : \A m \in S : n <= m
<1> DEFINE Less == OpToRel(<, Nat)
<1>1. PICK n \in S : \A m \in S : ~(<<m, n>> \in Less)
  <2>1. IsWellFoundedOn(Less, Nat)
    BY NatLessThanWellFounded
  <2> HIDE DEF Less
  <2> QED
    BY <2>1, WFMin
<1>2. \A m \in S : ~(m < n)
  BY <1>1 DEF OpToRel
<1> QED
  BY <1>2

-----------------------------------------------------------------------------
(* A run: its records, and the runs it may become.                          *)

Record == Writers \X Nat

LogState == [kept : Seq(Record), dropped : Nat]

RunState == [logs : [Logs -> LogState], orders : Seq(Nat \X Record), seen : Nat]

\* The order of a number is in its place.
RunOK(s) == s \in RunState /\ \A i \in DOMAIN s.orders : s.orders[i][1] = i

\* y is x after some more entries, its oldest possibly dropped.
LogGrows(x, y) ==
  /\ x.dropped <= y.dropped /\ End(x) <= End(y)
  /\ \A p \in Nat : y.dropped <= p /\ p < End(x) =>
       y.kept[p - y.dropped + 1] = x.kept[p - x.dropped + 1]

\* b is a run that a has become.
Grows(a, b) ==
  /\ RunOK(a) /\ RunOK(b)
  /\ Len(a.orders) <= Len(b.orders)
  /\ \A l \in Logs : LogGrows(a.logs[l], b.logs[l])

LEMMA LogIs ==
  ASSUME NEW x \in LogState
  PROVE  /\ x.kept \in Seq(Record) /\ x.dropped \in Nat /\ Len(x.kept) \in Nat
         /\ End(x) \in Nat /\ x.dropped <= End(x)
         /\ x = [kept |-> x.kept, dropped |-> x.dropped]
<1>1. /\ x.kept \in Seq(Record) /\ x.dropped \in Nat
      /\ x = [kept |-> x.kept, dropped |-> x.dropped]
  BY DEF LogState
<1>2. Len(x.kept) \in Nat
  BY <1>1
<1> QED
  BY <1>1, <1>2 DEF End

LEMMA LogGrowsSelf ==
  ASSUME NEW x \in LogState
  PROVE  LogGrows(x, x)
BY LogIs DEF LogGrows

LEMMA LogGrowsOn ==
  ASSUME NEW x \in LogState, NEW y \in LogState, NEW z \in LogState,
         LogGrows(x, y), LogGrows(y, z)
  PROVE  LogGrows(x, z)
<1>1. /\ x.dropped \in Nat /\ y.dropped \in Nat /\ z.dropped \in Nat
      /\ End(x) \in Nat /\ End(y) \in Nat /\ End(z) \in Nat
  BY LogIs
<1>2. x.dropped <= z.dropped /\ End(x) <= End(z)
  BY <1>1 DEF LogGrows
<1>3. ASSUME NEW p \in Nat, z.dropped <= p, p < End(x)
      PROVE  z.kept[p - z.dropped + 1] = x.kept[p - x.dropped + 1]
  <2>1. y.dropped <= p /\ p < End(y)
    BY <1>1, <1>3 DEF LogGrows
  <2>2. z.kept[p - z.dropped + 1] = y.kept[p - y.dropped + 1]
    BY <1>3, <2>1 DEF LogGrows
  <2>3. y.kept[p - y.dropped + 1] = x.kept[p - x.dropped + 1]
    BY <1>3, <2>1 DEF LogGrows
  <2> QED
    BY <2>2, <2>3
<1> QED
  BY <1>2, <1>3 DEF LogGrows

LEMMA GrowsSelf ==
  ASSUME NEW a, RunOK(a)
  PROVE  Grows(a, a)
<1>1. a.logs \in [Logs -> LogState] /\ a.orders \in Seq(Nat \X Record)
  BY DEF RunOK, RunState
<1>2. Len(a.orders) \in Nat
  BY <1>1
<1> QED
  BY <1>1, <1>2, LogGrowsSelf DEF Grows

LEMMA GrowsOn ==
  ASSUME NEW a, NEW b, NEW c, Grows(a, b), Grows(b, c)
  PROVE  Grows(a, c)
<1>1. /\ a.logs \in [Logs -> LogState] /\ a.orders \in Seq(Nat \X Record)
      /\ b.logs \in [Logs -> LogState] /\ b.orders \in Seq(Nat \X Record)
      /\ c.logs \in [Logs -> LogState] /\ c.orders \in Seq(Nat \X Record)
  BY DEF Grows, RunOK, RunState
<1>2. Len(a.orders) \in Nat /\ Len(b.orders) \in Nat /\ Len(c.orders) \in Nat
  BY <1>1
<1>3. Len(a.orders) <= Len(c.orders)
  BY <1>2 DEF Grows
<1>4. \A l \in Logs : LogGrows(a.logs[l], c.logs[l])
  BY <1>1, LogGrowsOn DEF Grows
<1> QED
  BY <1>3, <1>4 DEF Grows

\* Appending to a log.
LEMMA AppendGrows ==
  ASSUME NEW x \in LogState, NEW item \in Record
  PROVE  append(x, item) \in LogState /\ LogGrows(x, append(x, item))
<1> DEFINE y == [kept |-> Append(x.kept, item), dropped |-> x.dropped]
<1>1. /\ x.kept \in Seq(Record) /\ x.dropped \in Nat /\ Len(x.kept) \in Nat
      /\ x = [kept |-> x.kept, dropped |-> x.dropped]
  BY LogIs
<1>2. append(x, item) = y
  BY <1>1, SMTT(20) DEF append
<1>3. /\ y.kept = Append(x.kept, item) /\ y.dropped = x.dropped
      /\ Append(x.kept, item) \in Seq(Record)
      /\ Len(Append(x.kept, item)) = Len(x.kept) + 1
      /\ \A i \in 1 .. Len(x.kept) : Append(x.kept, item)[i] = x.kept[i]
  BY <1>1
<1>4. y \in LogState
  BY <1>1, <1>3 DEF LogState
<1> HIDE DEF y
<1>5. LogGrows(x, y)
  BY <1>1, <1>3 DEF LogGrows, End
<1> QED
  BY <1>2, <1>4, <1>5

\* Dropping its oldest entries.
LEMMA TrimmedGrows ==
  ASSUME NEW x \in LogState
  PROVE  trimmed(x) \in LogState /\ LogGrows(x, trimmed(x))
<1>1. /\ x.kept \in Seq(Record) /\ x.dropped \in Nat /\ Len(x.kept) \in Nat
      /\ x = [kept |-> x.kept, dropped |-> x.dropped]
  BY LogIs
<1>2. CASE trimmed(x) = x
  BY <1>2, LogGrowsSelf
<1>3. CASE trimmed(x) # x
  <2> DEFINE excess == Len(x.kept) - Bound
             rest == SubSeq(x.kept, excess + 1, Len(x.kept))
             y == [kept |-> rest, dropped |-> x.dropped + excess]
  <2>1. trimmed(x) = y /\ excess > 0
    BY <1>1, <1>3, BoundAssumption DEF trimmed, retain_last
  <2>2. excess \in Nat /\ excess < Len(x.kept)
    BY <1>1, <2>1, BoundAssumption
  <2> HIDE DEF excess
  <2>3. /\ rest \in Seq(Record) /\ Len(rest) = Len(x.kept) - excess
        /\ \A i \in 1 .. Len(x.kept) - excess : rest[i] = x.kept[i + excess]
    BY <1>1, <2>2
  <2> HIDE DEF rest
  <2>4. y.kept = rest /\ y.dropped = x.dropped + excess /\ y \in LogState
    BY <1>1, <2>2, <2>3 DEF LogState
  <2> HIDE DEF y
  <2>5. End(y) = End(x) /\ x.dropped <= y.dropped
    BY <1>1, <2>2, <2>3, <2>4 DEF End
  <2>6. ASSUME NEW p \in Nat, y.dropped <= p, p < End(x)
        PROVE  y.kept[p - y.dropped + 1] = x.kept[p - x.dropped + 1]
    <3> DEFINE i == p - y.dropped + 1
    <3>1. i \in 1 .. Len(x.kept) - excess /\ i + excess = p - x.dropped + 1
      BY <1>1, <2>2, <2>4, <2>6 DEF End
    <3> QED
      BY <2>3, <2>4, <3>1
  <2>7. LogGrows(x, y)
    BY <1>1, <2>5, <2>6 DEF LogGrows, End
  <2> QED
    BY <2>1, <2>4, <2>7
<1> QED
  BY <1>2, <1>3

\* The orders of a run, in their places.
Book == Seq(Nat \X Record)

InPlace(o) == \A i \in DOMAIN o : o[i][1] = i

LEMMA PutIs ==
  ASSUME NEW o \in Book, InPlace(o), NEW e \in Nat \X Record, e[1] \in 1 .. Len(o) + 1
  PROVE  /\ Put(o, e) \in Book /\ InPlace(Put(o, e))
         /\ Len(Put(o, e)) = IF e[1] > Len(o) THEN Len(o) + 1 ELSE Len(o)
         /\ \A i \in DOMAIN Put(o, e) : Put(o, e)[i] = IF i = e[1] THEN e ELSE o[i]
<1> DEFINE p == Put(o, e)
           m == Len(o)
<1>1. m \in Nat /\ DOMAIN o = 1 .. m /\ \A i \in 1 .. m : o[i] \in Nat \X Record
  BY DEF Book
<1>2. Keys(o) = 1 .. m
  BY <1>1 DEF Keys, InPlace
<1>3. CASE e[1] \in 1 .. m
  <2>1. p = [i \in 1 .. m |-> IF o[i][1] = e[1] THEN e ELSE o[i]]
    BY <1>1, <1>2, <1>3 DEF Put
  <2> HIDE DEF p
  <2>2. p = [i \in 1 .. m |-> IF i = e[1] THEN e ELSE o[i]]
    BY <1>1, <2>1 DEF InPlace
  <2>3. \A i \in 1 .. m : p[i] \in Nat \X Record /\ p[i] = (IF i = e[1] THEN e ELSE o[i])
    BY <1>1, <2>2
  <2>4. p \in Book /\ DOMAIN p = 1 .. m /\ Len(p) = m
    <3>1. p \in [1 .. m -> Nat \X Record]
      BY <2>2, <2>3
    <3> HIDE DEF m
    <3> QED
      BY <1>1, <3>1 DEF Book
  <2>5. InPlace(p)
    BY <1>1, <2>3, <2>4 DEF InPlace
  <2>6. ~(e[1] > m)
    BY <1>1, <1>3
  <2>7. p = Put(o, e)
    BY DEF p
  <2> HIDE DEF m
  <2> QED
    BY <2>3, <2>4, <2>5, <2>6, <2>7 DEF m
<1>4. CASE e[1] = m + 1
  <2>1. p = Append(o, e)
    <3>1. e[1] \notin Keys(o)
      <4> HIDE DEF m
      <4> QED
        BY <1>1, <1>2, <1>4
    <3> QED
      BY <3>1 DEF Put
  <2>2. /\ Append(o, e) \in Book /\ Len(Append(o, e)) = m + 1
        /\ DOMAIN Append(o, e) = 1 .. m + 1
        /\ \A i \in 1 .. m + 1 : Append(o, e)[i] = IF i = m + 1 THEN e ELSE o[i]
    BY <1>1 DEF Book
  <2>3. InPlace(Append(o, e))
    BY <1>1, <1>4, <2>2 DEF InPlace
  <2> QED
    BY <1>1, <1>4, <2>1, <2>2, <2>3
<1> QED
  BY <1>1, <1>3, <1>4

\* A record of one log, in a state of three fields.
LEMMA Logged ==
  ASSUME NEW state, NEW logs, NEW orders, NEW seen,
         state = [logs |-> logs, orders |-> orders, seen |-> seen],
         logs = [k \in Logs |-> logs[k]], NEW l \in Logs, NEW record
  PROVE  Log(state, l, record)
           = [logs |-> [k \in Logs |-> IF k = l THEN append(logs[k], record) ELSE logs[k]],
              orders |-> orders, seen |-> seen]
<1> DEFINE item == append(logs[l], record)
<1>1. state.logs = logs
  OBVIOUS
<1>2. Log(state, l, record) = [state EXCEPT !.logs = [logs EXCEPT ![l] = item]]
  BY <1>1 DEF Log
<1>3. [logs EXCEPT ![l] = item]
        = [k \in Logs |-> IF k = l THEN append(logs[k], record) ELSE logs[k]]
  <2>1. item = append(logs[l], record)
    OBVIOUS
  <2> HIDE DEF item
  <2>2. [logs EXCEPT ![l] = item] = [k \in Logs |-> IF k = l THEN item ELSE logs[k]]
    OBVIOUS
  <2> QED
    BY <2>1, <2>2
<1> HIDE DEF item
<1> QED
  BY <1>2, <1>3

\* One record makes the run grow.
LEMMA AdvanceGrows ==
  ASSUME NEW state, RunOK(state), NEW by \in Writers, NEW kind \in Kinds
  PROVE  Grows(state, advance(state, by, kind))
<1> DEFINE record == <<by, state.seen + 1>>
           l == IF kind = "skip" THEN "skipped" ELSE "steps"
           e == <<OrderOf(state, kind), record>>
           orders == IF kind = "skip" THEN state.orders ELSE Put(state.orders, e)
           grown == [k \in Logs |-> IF k = l THEN append(state.logs[k], record)
                                    ELSE state.logs[k]]
           after == [logs |-> [k \in Logs |-> trimmed(grown[k])], orders |-> orders,
                     seen |-> state.seen + 1]
<1>1. /\ state.logs \in [Logs -> LogState] /\ state.orders \in Book /\ state.seen \in Nat
      /\ InPlace(state.orders)
      /\ state = [logs |-> state.logs, orders |-> state.orders, seen |-> state.seen]
  BY DEF RunOK, RunState, Book, InPlace
<1>2. record \in Record /\ l \in Logs
  BY <1>1 DEF Record, Logs
<1> DEFINE counted == [state EXCEPT !.seen = @ + 1]
           noted == [logs |-> grown, orders |-> state.orders, seen |-> state.seen + 1]
<1>3. advance(state, by, kind) = after
  <2>1. state.logs = [k \in Logs |-> state.logs[k]]
    BY <1>1
  <2>2. counted = [logs |-> state.logs, orders |-> state.orders, seen |-> state.seen + 1]
    BY <1>1
  <2> HIDE DEF counted
  <2>3. Log(counted, l, record) = noted
    BY <1>2, <2>1, <2>2, Logged
  <2>4. advance(state, by, kind) = Retained(IF kind = "skip" THEN noted
                                            ELSE [noted EXCEPT !.orders = Put(@, e)])
    <3>1. advance(state, by, kind)
            = Retained(IF kind = "skip" THEN Log(counted, "skipped", record)
                       ELSE [Log(counted, "steps", record) EXCEPT !.orders = Put(@, e)])
      BY DEF advance, counted
    <3>2. CASE kind = "skip"
      BY <2>3, <3>1, <3>2
    <3>3. CASE kind # "skip"
      <4>1. Log(counted, "steps", record) = noted
        BY <2>3, <3>3
      <4> QED
        BY <3>1, <3>3, <4>1
    <3> QED
      BY <3>2, <3>3
  <2> DEFINE kept == [logs |-> grown, orders |-> orders, seen |-> state.seen + 1]
  <2>5. (IF kind = "skip" THEN noted ELSE [noted EXCEPT !.orders = Put(@, e)]) = kept
    <3> HIDE DEF grown, e
    <3> QED
      OBVIOUS
  <2>6. Retained(kept) = after
    <3> HIDE DEF grown, orders
    <3> QED
      BY DEF Retained
  <2> HIDE DEF noted, kept, after, e
  <2> QED
    BY <2>4, <2>5, <2>6
<1>4. /\ orders \in Book /\ InPlace(orders)
      /\ Len(state.orders) \in Nat /\ Len(state.orders) <= Len(orders)
  <2> DEFINE m == Len(state.orders)
  <2>1. m \in Nat
    BY <1>1 DEF Book
  <2>2. CASE kind = "skip"
    BY <1>1, <2>1, <2>2
  <2>3. CASE kind # "skip"
    <3>1. OrderOf(state, kind) \in 1 .. m + 1
      BY <2>1 DEF OrderOf
    <3>2. e \in Nat \X Record /\ e[1] \in 1 .. m + 1
      <4> HIDE DEF record
      <4> QED
        BY <1>2, <2>1, <3>1
    <3> HIDE DEF e
    <3>3. /\ Put(state.orders, e) \in Book /\ InPlace(Put(state.orders, e))
          /\ Len(Put(state.orders, e)) = IF e[1] > m THEN m + 1 ELSE m
      BY <1>1, <3>2, PutIs
    <3> QED
      BY <2>1, <2>3, <3>3
  <2> QED
    BY <2>2, <2>3
<1> HIDE DEF record, l, orders
<1>5. \A k \in Logs : grown[k] \in LogState /\ LogGrows(state.logs[k], grown[k])
  BY <1>1, <1>2, AppendGrows, LogGrowsSelf
<1> HIDE DEF grown
<1>6. ASSUME NEW k \in Logs
      PROVE  trimmed(grown[k]) \in LogState /\ LogGrows(state.logs[k], trimmed(grown[k]))
  <2>1. state.logs[k] \in LogState /\ grown[k] \in LogState
    BY <1>1, <1>5
  <2>2. trimmed(grown[k]) \in LogState /\ LogGrows(grown[k], trimmed(grown[k]))
    BY <2>1, TrimmedGrows
  <2> QED
    BY <1>5, <2>1, <2>2, LogGrowsOn
<1>7. /\ after.orders = orders /\ after.seen = state.seen + 1
      /\ after.logs \in [Logs -> LogState]
      /\ \A k \in Logs : after.logs[k] = trimmed(grown[k])
  BY <1>6
<1>8. after \in RunState
  BY <1>1, <1>4, <1>6 DEF RunState, Book
<1> HIDE DEF after
<1>9. RunOK(after)
  BY <1>4, <1>7, <1>8 DEF RunOK, InPlace
<1> QED
  BY <1>3, <1>4, <1>6, <1>7, <1>9 DEF Grows

\* A batch makes the run grow.
LEMMA AdvanceAllGrows ==
  ASSUME NEW state, RunOK(state), NEW by \in Writers, NEW batch \in Batches
  PROVE  Grows(state, advance_all(state, by, batch))
<1> DEFINE length == Len(batch)
           after == CHOOSE g : g = [n \in 0 .. length |->
                       IF n = 0 THEN state ELSE advance(g[n - 1], by, batch[n])]
<1>1. length \in Nat /\ \A n \in 1 .. length : batch[n] \in Kinds
  BY RunAssumption
<1>2. advance_all(state, by, batch) = after[length]
  BY DEF advance_all
<1>3. after = [n \in 0 .. length |->
                 IF n = 0 THEN state ELSE advance(after[n - 1], by, batch[n])]
  <2> HIDE DEF length
  <2>1. length \in Nat
    BY <1>1
  <2> QED
    BY <2>1, AdvanceExists, SMTT(20)
<1> HIDE DEF after, length
<1> DEFINE Bad == {n \in 0 .. length : ~Grows(state, after[n])}
<1>4. Bad = {}
  <2> SUFFICES ASSUME Bad # {} PROVE FALSE
    OBVIOUS
  <2>1. PICK n \in Bad : \A k \in Bad : n <= k
    <3>1. Bad \in SUBSET Nat
      BY <1>1
    <3> HIDE DEF Bad
    <3> QED
      BY <3>1, Least
  <2>2. n \in 0 .. length /\ ~Grows(state, after[n])
    OBVIOUS
  <2>3. n # 0
    BY <1>3, <2>2, GrowsSelf
  <2>4. n - 1 \in 0 .. length /\ n - 1 \notin Bad /\ n \in 1 .. length
    BY <1>1, <2>1, <2>2, <2>3
  <2>5. Grows(state, after[n - 1])
    BY <2>4
  <2>6. after[n] = advance(after[n - 1], by, batch[n])
    BY <1>3, <2>2, <2>3
  <2>7. Grows(after[n - 1], after[n])
    <3>1. RunOK(after[n - 1]) /\ batch[n] \in Kinds
      BY <1>1, <2>4, <2>5 DEF Grows
    <3> QED
      BY <2>6, <3>1, AdvanceGrows
  <2> QED
    BY <2>2, <2>5, <2>7, GrowsOn
<1> QED
  BY <1>1, <1>2, <1>4

-----------------------------------------------------------------------------
(* A map written as its changes is the map.                                 *)

PutsOne(g, o, changed, m) ==
  g = [n \in 0 .. m |-> IF n = 0 THEN o ELSE Put(g[n - 1], changed[n])]

\* What has changed, gone through one entry further.
Picked(before, held, current, n) ==
  IF n > Len(held) \/ current[n] # held[n] THEN Append(before, current[n]) ELSE before

PicksOne(g, held, current, m) ==
  g = [n \in 0 .. m |-> IF n = 0 THEN <<>> ELSE Picked(g[n - 1], held, current, n)]

\* The function that puts the first n entries exists for every n.
LEMMA PutsExists ==
  ASSUME NEW o, NEW changed, NEW m \in Nat
  PROVE  \E g : PutsOne(g, o, changed, m)
<1> DEFINE Missing == {l \in Nat : \A g : ~PutsOne(g, o, changed, l)}
<1> SUFFICES ASSUME Missing # {} PROVE FALSE
  OBVIOUS
<1>1. PICK l \in Missing : \A k \in Missing : l <= k
  <2>1. Missing \in SUBSET Nat
    OBVIOUS
  <2> HIDE DEF Missing
  <2> QED
    BY <2>1, Least
<1>2. l \in Nat /\ ~\E g : PutsOne(g, o, changed, l)
  OBVIOUS
<1>3. l # 0
  <2>1. PutsOne([n \in 0 .. 0 |-> o], o, changed, 0)
    BY DEF PutsOne
  <2> QED
    BY <1>2, <2>1
<1>4. l - 1 \in Nat /\ l - 1 \notin Missing
  BY <1>1, <1>2, <1>3
<1>5. PICK g : PutsOne(g, o, changed, l - 1)
  BY <1>4
<1> DEFINE h == [n \in 0 .. l |-> IF n = l THEN Put(g[l - 1], changed[l]) ELSE g[n]]
<1>6. \A n \in 0 .. l : h[n] = IF n = 0 THEN o ELSE Put(h[n - 1], changed[n])
  <2> SUFFICES ASSUME NEW n \in 0 .. l
               PROVE  h[n] = IF n = 0 THEN o ELSE Put(h[n - 1], changed[n])
    OBVIOUS
  <2>1. CASE n = l
    <3>1. h[n] = (Put(g[l - 1], changed[l])) /\ h[l - 1] = g[l - 1]
      BY <1>2, <1>4, <2>1
    <3> QED
      BY <1>3, <2>1, <3>1
  <2>2. CASE n # l
    <3>1. n \in 0 .. (l - 1) /\ h[n] = g[n]
      BY <1>2, <2>2
    <3>2. g[n] = IF n = 0 THEN o ELSE Put(g[n - 1], changed[n])
      BY <1>5, <3>1 DEF PutsOne
    <3>3. n # 0 => h[n - 1] = g[n - 1]
      BY <1>2, <2>2
    <3> QED
      BY <3>1, <3>2, <3>3
  <2> QED
    BY <2>1, <2>2
<1>7. PutsOne(h, o, changed, l)
  <2>1. h = [n \in 0 .. l |-> h[n]]
    OBVIOUS
  <2> HIDE DEF h
  <2> QED
    BY <1>6, <2>1 DEF PutsOne
<1> QED
  BY <1>2, <1>7

\* So does the one that picks what changed among them.
LEMMA PicksExists ==
  ASSUME NEW held, NEW current, NEW m \in Nat
  PROVE  \E g : PicksOne(g, held, current, m)
<1> DEFINE Missing == {l \in Nat : \A g : ~PicksOne(g, held, current, l)}
<1> SUFFICES ASSUME Missing # {} PROVE FALSE
  OBVIOUS
<1>1. PICK l \in Missing : \A k \in Missing : l <= k
  <2>1. Missing \in SUBSET Nat
    OBVIOUS
  <2> HIDE DEF Missing
  <2> QED
    BY <2>1, Least
<1>2. l \in Nat /\ ~\E g : PicksOne(g, held, current, l)
  OBVIOUS
<1>3. l # 0
  <2>1. PicksOne([n \in 0 .. 0 |-> <<>>], held, current, 0)
    BY DEF PicksOne
  <2> QED
    BY <1>2, <2>1
<1>4. l - 1 \in Nat /\ l - 1 \notin Missing
  BY <1>1, <1>2, <1>3
<1>5. PICK g : PicksOne(g, held, current, l - 1)
  BY <1>4
<1> DEFINE h == [n \in 0 .. l |-> IF n = l THEN Picked(g[l - 1], held, current, l) ELSE g[n]]
<1>6. \A n \in 0 .. l : h[n] = IF n = 0 THEN <<>> ELSE Picked(h[n - 1], held, current, n)
  <2> SUFFICES ASSUME NEW n \in 0 .. l
               PROVE  h[n] = IF n = 0 THEN <<>> ELSE Picked(h[n - 1], held, current, n)
    OBVIOUS
  <2>1. CASE n = l
    <3>1. h[n] = (Picked(g[l - 1], held, current, l)) /\ h[l - 1] = g[l - 1]
      BY <1>2, <1>4, <2>1
    <3> QED
      BY <1>3, <2>1, <3>1
  <2>2. CASE n # l
    <3>1. n \in 0 .. (l - 1) /\ h[n] = g[n]
      BY <1>2, <2>2
    <3>2. g[n] = IF n = 0 THEN <<>> ELSE Picked(g[n - 1], held, current, n)
      BY <1>5, <3>1 DEF PicksOne
    <3>3. n # 0 => h[n - 1] = g[n - 1]
      BY <1>2, <2>2
    <3> QED
      BY <3>1, <3>2, <3>3
  <2> QED
    BY <2>1, <2>2
<1>7. PicksOne(h, held, current, l)
  <2>1. h = [n \in 0 .. l |-> h[n]]
    OBVIOUS
  <2> HIDE DEF h
  <2> QED
    BY <1>6, <2>1 DEF PicksOne
<1> QED
  BY <1>2, <1>7

\* One entry more is put last.
LEMMA PutAllAppend ==
  ASSUME NEW o, NEW xs \in Book, NEW e \in Nat \X Record
  PROVE  PutAll(o, Append(xs, e)) = Put(PutAll(o, xs), e)
<1> DEFINE m == Len(xs)
           ys == Append(xs, e)
           g == CHOOSE f : PutsOne(f, o, xs, m)
           h == CHOOSE f : PutsOne(f, o, ys, m + 1)
<1>1. /\ m \in Nat /\ Len(ys) = m + 1 /\ ys[m + 1] = e
      /\ \A n \in 1 .. m : ys[n] = xs[n]
  BY DEF Book
<1>2. PutAll(o, xs) = g[m]
  BY DEF PutAll, PutsOne
<1>3. PutAll(o, ys) = h[m + 1]
  <2> HIDE DEF ys
  <2>1. PutAll(o, ys) = (CHOOSE f : PutsOne(f, o, ys, Len(ys)))[Len(ys)]
    BY DEF PutAll, PutsOne
  <2> QED
    BY <1>1, <2>1
<1> HIDE DEF ys, m
<1>4. PutsOne(g, o, xs, m)
  BY <1>1, PutsExists
<1>5. PutsOne(h, o, ys, m + 1)
  <2>1. m + 1 \in Nat
    BY <1>1
  <2> QED
    BY <2>1, PutsExists
<1> HIDE DEF g, h
<1> DEFINE Bad == {n \in 0 .. m : g[n] # h[n]}
<1>6. Bad = {}
  <2> SUFFICES ASSUME Bad # {} PROVE FALSE
    OBVIOUS
  <2>1. PICK n \in Bad : \A k \in Bad : n <= k
    <3>1. Bad \in SUBSET Nat
      BY <1>1
    <3> HIDE DEF Bad
    <3> QED
      BY <3>1, Least
  <2>2. n \in 0 .. m /\ g[n] # h[n]
    OBVIOUS
  <2>3. n # 0
    BY <1>1, <1>4, <1>5, <2>2 DEF PutsOne
  <2>4. n - 1 \in 0 .. m /\ n - 1 \notin Bad /\ n \in 1 .. m
    BY <1>1, <2>1, <2>2, <2>3
  <2>5. g[n - 1] = h[n - 1]
    BY <2>4
  <2>6. g[n] = Put(g[n - 1], xs[n]) /\ h[n] = Put(h[n - 1], ys[n])
    BY <1>1, <1>4, <1>5, <2>4 DEF PutsOne
  <2> QED
    BY <1>1, <2>2, <2>4, <2>5, <2>6
<1>7. h[m + 1] = Put(h[m], e)
  BY <1>1, <1>5 DEF PutsOne
<1> QED
  BY <1>1, <1>2, <1>3, <1>6, <1>7 DEF ys

LEMMA PutAllNone ==
  ASSUME NEW o
  PROVE  PutAll(o, <<>>) = o
<1> DEFINE g == CHOOSE f : PutsOne(f, o, <<>>, 0)
<1>1. PutAll(o, <<>>) = g[0]
  BY DEF PutAll, PutsOne
<1>2. PutsOne(g, o, <<>>, 0)
  BY PutsExists
<1> HIDE DEF g
<1> QED
  BY <1>1, <1>2 DEF PutsOne

\* What changed of a map whose entries are still in their places, put over
\* the map as it was, gives the map as it is.
LEMMA ChangedIsEnough ==
  ASSUME NEW held \in Book, InPlace(held), NEW current \in Book, InPlace(current),
         Len(held) <= Len(current)
  PROVE  PutAll(held, Changed(held, current)) = current
<1> DEFINE r == Len(held)
           m == Len(current)
           g == CHOOSE f : PicksOne(f, held, current, m)
           top(n) == IF n > r THEN n ELSE r
<1>1. /\ r \in Nat /\ m \in Nat /\ r <= m
      /\ DOMAIN held = 1 .. r /\ \A i \in 1 .. r : held[i] \in Nat \X Record
      /\ DOMAIN current = 1 .. m /\ \A i \in 1 .. m : current[i] \in Nat \X Record
  BY DEF Book
<1>2. Changed(held, current) = g[m]
  BY DEF Changed, PicksOne, Picked
<1>3. PicksOne(g, held, current, m)
  BY <1>1, PicksExists
<1> HIDE DEF g, m, r
\* The first n changes, over the map as it was.
<1> DEFINE Half(n) == /\ g[n] \in Book
                      /\ PutAll(held, g[n]) \in Book /\ InPlace(PutAll(held, g[n]))
                      /\ Len(PutAll(held, g[n])) = top(n)
                      /\ \A i \in 1 .. top(n) :
                           PutAll(held, g[n])[i] = IF i <= n THEN current[i] ELSE held[i]
           Bad == {n \in 0 .. m : ~Half(n)}
<1>4. Half(0)
  <2>1. g[0] = <<>> /\ <<>> \in Book
    BY <1>1, <1>3 DEF PicksOne, Book
  <2>2. PutAll(held, g[0]) = held
    BY <2>1, PutAllNone
  <2>3. top(0) = r
    BY <1>1
  <2>4. \A i \in 1 .. r : held[i] = IF i <= 0 THEN current[i] ELSE held[i]
    BY <1>1
  <2>5. Len(held) = r
    BY DEF r
  <2> HIDE DEF top
  <2> QED
    BY <2>1, <2>2, <2>3, <2>4, <2>5
<1>5. ASSUME NEW n \in 1 .. m, Half(n - 1) PROVE Half(n)
  <2> DEFINE p == PutAll(held, g[n - 1])
             e == current[n]
  <2>1. g[n] = Picked(g[n - 1], held, current, n)
    <3>1. n \in 0 .. m /\ n # 0
      OBVIOUS
    <3> QED
      BY <1>3, <3>1 DEF PicksOne
  <2>2. /\ g[n - 1] \in Book /\ p \in Book /\ InPlace(p) /\ Len(p) = top(n - 1)
        /\ \A i \in 1 .. top(n - 1) : p[i] = IF i <= n - 1 THEN current[i] ELSE held[i]
    BY <1>5
  <2>3. e \in Nat \X Record /\ e[1] = n
    BY <1>1 DEF InPlace
  <2> HIDE DEF p
  <2>4. CASE n > r \/ e # held[n]
    <3>1. g[n] = Append(g[n - 1], e)
      BY <2>1, <2>4 DEF Picked, r
    <3>2. g[n] \in Book
      BY <2>2, <2>3, <3>1 DEF Book
    <3>3. PutAll(held, g[n]) = Put(p, e)
      BY <2>2, <2>3, <3>1, PutAllAppend DEF p
    <3>4. e[1] \in 1 .. Len(p) + 1
      BY <1>1, <2>2, <2>3
    <3>5. /\ Put(p, e) \in Book /\ InPlace(Put(p, e))
          /\ Len(Put(p, e)) = (IF e[1] > Len(p) THEN Len(p) + 1 ELSE Len(p))
          /\ \A i \in DOMAIN Put(p, e) : Put(p, e)[i] = IF i = e[1] THEN e ELSE p[i]
      BY <2>2, <2>3, <3>4, PutIs
    <3>6. Len(Put(p, e)) = top(n)
      BY <1>1, <2>2, <2>3, <3>5
    <3>7. DOMAIN Put(p, e) = 1 .. top(n)
      BY <3>5, <3>6 DEF Book
    <3>8. ASSUME NEW i \in 1 .. top(n)
          PROVE  Put(p, e)[i] = IF i <= n THEN current[i] ELSE held[i]
      <4>1. Put(p, e)[i] = IF i = n THEN e ELSE p[i]
        BY <2>3, <3>5, <3>7
      <4>2. i # n => i \in 1 .. top(n - 1)
        BY <1>1
      <4>3. i # n => (i <= n <=> i <= n - 1)
        BY <1>1
      <4> QED
        BY <1>1, <2>2, <4>1, <4>2, <4>3
    <3> HIDE DEF top
    <3> QED
      BY <3>2, <3>3, <3>5, <3>6, <3>8
  <2>5. CASE ~(n > r \/ e # held[n])
    <3>1. g[n] = g[n - 1]
      BY <2>1, <2>5 DEF Picked, r
    <3>2. top(n) = r /\ top(n - 1) = r
      BY <1>1, <2>5
    <3>3. ASSUME NEW i \in 1 .. r
          PROVE  p[i] = IF i <= n THEN current[i] ELSE held[i]
      BY <1>1, <2>2, <2>5, <3>2
    <3>4. PutAll(held, g[n]) = p
      BY <3>1 DEF p
    <3> HIDE DEF top
    <3> QED
      BY <2>2, <3>1, <3>2, <3>3, <3>4
  <2> QED
    BY <2>4, <2>5
<1> HIDE DEF Half
<1>6. Bad = {}
  <2> SUFFICES ASSUME Bad # {} PROVE FALSE
    OBVIOUS
  <2>1. PICK n \in Bad : \A k \in Bad : n <= k
    <3>1. Bad \in SUBSET Nat
      BY <1>1
    <3> HIDE DEF Bad
    <3> QED
      BY <3>1, Least
  <2>2. n \in 0 .. m /\ ~Half(n)
    OBVIOUS
  <2>3. n # 0
    BY <1>4, <2>2
  <2>4. n - 1 \in 0 .. m /\ n - 1 \notin Bad /\ n \in 1 .. m
    BY <1>1, <2>1, <2>2, <2>3
  <2> QED
    BY <1>5, <2>2, <2>4
<1>7. Half(m)
  BY <1>1, <1>6
<1> DEFINE q == PutAll(held, g[m])
<1>8. q \in Book /\ Len(q) = m /\ \A i \in 1 .. m : q[i] = current[i]
  <2>1. top(m) = m
    BY <1>1
  <2> QED
    BY <1>1, <1>7, <2>1 DEF Half
<1> HIDE DEF q
<1>9. DOMAIN q = 1 .. m /\ q = [i \in 1 .. m |-> q[i]]
  BY <1>1, <1>8 DEF Book
<1>10. current = [i \in 1 .. m |-> current[i]]
  BY <1>1 DEF Book
<1>11. q = current
  BY <1>8, <1>9, <1>10
<1> QED
  BY <1>2, <1>11 DEF q

-----------------------------------------------------------------------------
(* A log cut at an earlier end, behind what a reader kept of it, is the log. *)

LEMMA CutIs ==
  ASSUME NEW y \in LogState, NEW start \in Nat, y.dropped <= start, start <= End(y)
  PROVE  /\ Cut(y, start) \in Seq(Record) /\ Len(Cut(y, start)) = End(y) - start
         /\ \A i \in 1 .. End(y) - start : Cut(y, start)[i] = y.kept[i + (start - y.dropped)]
<1> DEFINE off == start - y.dropped
<1>1. /\ y.kept \in Seq(Record) /\ y.dropped \in Nat /\ Len(y.kept) \in Nat
      /\ End(y) = y.dropped + Len(y.kept)
  BY LogIs DEF End
<1>2. off \in Nat /\ off <= Len(y.kept) /\ Len(y.kept) - off = End(y) - start
  BY <1>1
<1>3. Cut(y, start) = SubSeq(y.kept, off + 1, Len(y.kept))
  BY DEF Cut
<1> HIDE DEF off
<1>4. /\ SubSeq(y.kept, off + 1, Len(y.kept)) \in Seq(Record)
      /\ Len(SubSeq(y.kept, off + 1, Len(y.kept))) = Len(y.kept) - off
      /\ \A i \in 1 .. Len(y.kept) - off :
           SubSeq(y.kept, off + 1, Len(y.kept))[i] = y.kept[i + off]
  BY <1>1, <1>2
<1> QED
  BY <1>2, <1>3, <1>4 DEF off

LEMMA CutWhole ==
  ASSUME NEW y \in LogState
  PROVE  Cut(y, y.dropped) = y.kept /\ Len(y.kept) = End(y) - y.dropped
<1>1. /\ y.kept \in Seq(Record) /\ y.dropped \in Nat /\ Len(y.kept) \in Nat
      /\ End(y) = y.dropped + Len(y.kept) /\ End(y) \in Nat
  BY LogIs DEF End
<1> DEFINE c == Cut(y, y.dropped)
<1>2. /\ c \in Seq(Record) /\ Len(c) = Len(y.kept)
      /\ \A i \in 1 .. Len(y.kept) : c[i] = y.kept[i]
  <2>1. y.dropped <= End(y) /\ y.dropped - y.dropped = 0 /\ End(y) - y.dropped = Len(y.kept)
    BY <1>1
  <2>2. \A i \in 1 .. Len(y.kept) : i + 0 = i
    BY <1>1
  <2> HIDE DEF c
  <2> QED
    BY <1>1, <2>1, <2>2, CutIs DEF c
<1> HIDE DEF c
<1>3. c = [i \in 1 .. Len(y.kept) |-> c[i]]
  BY <1>2
<1>4. y.kept = [i \in 1 .. Len(y.kept) |-> y.kept[i]]
  BY <1>1
<1>5. c = y.kept
  BY <1>2, <1>3, <1>4
<1> QED
  BY <1>1, <1>5 DEF c

\* A log without its oldest entries.
LEMMA TailIs ==
  ASSUME NEW entries \in Seq(Record), NEW off \in Nat, off <= Len(entries)
  PROVE  /\ SubSeq(entries, off + 1, Len(entries)) \in Seq(Record)
         /\ Len(SubSeq(entries, off + 1, Len(entries))) = Len(entries) - off
         /\ \A i \in 1 .. Len(entries) - off :
              SubSeq(entries, off + 1, Len(entries))[i] = entries[i + off]
OBVIOUS

LEMMA StitchedIs ==
  ASSUME NEW x \in LogState, NEW y \in LogState, LogGrows(x, y), NEW start,
         start = IF End(x) < y.dropped THEN y.dropped ELSE End(x)
  PROVE  /\ Len(Cut(y, start)) = End(y) - start
         /\ start = IF End(x) > y.dropped THEN End(x) ELSE y.dropped
         /\ SubSeq(x.kept, y.dropped - x.dropped + 1, Len(x.kept)) \o Cut(y, start) = y.kept
<1>1. /\ x.kept \in Seq(Record) /\ x.dropped \in Nat /\ Len(x.kept) \in Nat
      /\ End(x) = x.dropped + Len(x.kept) /\ End(x) \in Nat
      /\ y.kept \in Seq(Record) /\ y.dropped \in Nat /\ Len(y.kept) \in Nat
      /\ End(y) = y.dropped + Len(y.kept) /\ End(y) \in Nat
  BY LogIs DEF End
<1>2. start \in Nat /\ y.dropped <= start /\ start <= End(y)
      /\ start = (IF End(x) > y.dropped THEN End(x) ELSE y.dropped)
  BY <1>1 DEF LogGrows
<1> DEFINE c == Cut(y, start)
           off == y.dropped - x.dropped
           h == SubSeq(x.kept, off + 1, Len(x.kept))
           k == start - y.dropped
<1>3. /\ c \in Seq(Record) /\ Len(c) = End(y) - start
      /\ \A i \in 1 .. End(y) - start : c[i] = y.kept[i + k]
  BY <1>2, CutIs
<1>4. off \in Nat /\ k \in Nat /\ k <= Len(y.kept) /\ End(y) - start = Len(y.kept) - k
  <2>1. x.dropped <= y.dropped
    BY DEF LogGrows
  <2>2. off \in Nat
    BY <1>1, <2>1
  <2>3. k \in Nat
    BY <1>1, <1>2
  <2>4. k <= Len(y.kept) /\ End(y) - start = Len(y.kept) - k
    <3> DEFINE length == Len(y.kept)
    <3>1. /\ y.dropped \in Nat /\ length \in Nat /\ End(y) = y.dropped + length
          /\ start \in Nat /\ start <= End(y)
      BY <1>1, <1>2
    <3> HIDE DEF length
    <3>2. k <= length /\ End(y) - start = length - k
      BY <3>1
    <3> QED
      BY <3>2 DEF length
  <2> QED
    BY <2>2, <2>3, <2>4
<1> HIDE DEF c
<1>5. /\ h \in Seq(Record) /\ Len(h) = k
      /\ \A i \in 1 .. k : h[i] = y.kept[i]
  <2>1. CASE End(x) < y.dropped
    <3>1. k = 0 /\ off + 1 > Len(x.kept)
      BY <1>1, <2>1
    <3>2. h = <<>>
      BY <1>1, <1>4, <3>1
    <3> HIDE DEF h
    <3> QED
      BY <3>1, <3>2
  <2>2. CASE End(x) >= y.dropped
    <3>1. k = Len(x.kept) - off /\ off <= Len(x.kept) /\ start = End(x)
      BY <1>1, <2>2
    <3> HIDE DEF k
    <3>2. off \in Nat
      BY <1>4
    <3> HIDE DEF off
    <3>3. h \in Seq(Record) /\ Len(h) = Len(x.kept) - off
          /\ \A i \in 1 .. Len(x.kept) - off : h[i] = x.kept[i + off]
      BY <1>1, <3>1, <3>2, TailIs
    <3> HIDE DEF h
    <3>4. ASSUME NEW i \in 1 .. k PROVE h[i] = y.kept[i]
      <4> DEFINE p == y.dropped + i - 1
      <4>1. p \in Nat /\ y.dropped <= p /\ p < End(x)
            /\ p - y.dropped + 1 = i /\ p - x.dropped + 1 = i + off
        <5>1. x.dropped \in Nat /\ y.dropped \in Nat /\ End(x) \in Nat /\ i \in Nat /\ i # 0
          BY <1>1, <3>1
        <5>2. i <= End(x) - y.dropped
          BY <1>1, <3>1 DEF k
        <5> QED
          BY <5>1, <5>2 DEF off
      <4> HIDE DEF p
      <4>2. y.kept[p - y.dropped + 1] = x.kept[p - x.dropped + 1]
        BY <4>1 DEF LogGrows
      <4> QED
        BY <3>1, <3>3, <4>1, <4>2
    <3> QED
      BY <3>1, <3>3, <3>4
  <2>3. End(x) < y.dropped \/ End(x) >= y.dropped
    BY <1>1
  <2> HIDE DEF h, k
  <2> QED
    BY <2>1, <2>2, <2>3
<1> HIDE DEF h, k
<1>6. /\ h \o c \in Seq(Record) /\ Len(h \o c) = Len(y.kept)
      /\ \A i \in 1 .. Len(y.kept) : (h \o c)[i] = IF i <= k THEN h[i] ELSE c[i - k]
  <2>1. h \in Seq(Record) /\ c \in Seq(Record)
    BY <1>3, <1>5
  <2>2. /\ h \o c \in Seq(Record) /\ Len(h \o c) = Len(h) + Len(c)
        /\ \A i \in 1 .. Len(h) + Len(c) :
             (h \o c)[i] = IF i <= Len(h) THEN h[i] ELSE c[i - Len(h)]
    BY <2>1
  <2>3. Len(h) = k /\ Len(h) + Len(c) = Len(y.kept)
    BY <1>1, <1>3, <1>4, <1>5
  <2> QED
    BY <2>2, <2>3
<1>7. ASSUME NEW i \in 1 .. Len(y.kept) PROVE (h \o c)[i] = y.kept[i]
  <2>1. CASE i <= k
    BY <1>4, <1>5, <1>6, <2>1
  <2>2. CASE ~(i <= k)
    <3>1. i - k \in 1 .. End(y) - start /\ (i - k) + k = i
      BY <1>1, <1>4, <2>2
    <3> QED
      BY <1>3, <1>6, <2>2, <3>1
  <2> QED
    BY <2>1, <2>2
<1> DEFINE z == h \o c
<1>8. z \in Seq(Record) /\ Len(z) = Len(y.kept) /\ \A i \in 1 .. Len(y.kept) : z[i] = y.kept[i]
  BY <1>6, <1>7
<1> HIDE DEF z
<1>9. z = y.kept
  <2>1. DOMAIN z = 1 .. Len(y.kept) /\ DOMAIN y.kept = 1 .. Len(y.kept)
    BY <1>1, <1>8
  <2>2. z = [i \in 1 .. Len(y.kept) |-> z[i]]
    BY <1>8, <2>1
  <2>3. y.kept = [i \in 1 .. Len(y.kept) |-> y.kept[i]]
    BY <1>1, <2>1
  <2> QED
    BY <1>8, <2>2, <2>3
<1> QED
  BY <1>2, <1>3, <1>9 DEF z, h, c, off

-----------------------------------------------------------------------------
(* What a payload says of the run it was taken of.                          *)

\* Taken of a run without a mark.
First(p) == RunOK(p.of) /\ p = Payload(p.of, Nothing)

\* m is a mark of p: the one its writer kept, or one rebuilt after a restart.
MarkFor(m, p) == m = MarkOf(p, {}) \/ m = MarkOf(p, {p.of.orders})

\* q was taken of a run that the run p was taken of has become, on a mark of p.
Builds(p, q) ==
  /\ Grows(p.of, q.of)
  /\ \E m : MarkFor(m, p) /\ q = Payload(q.of, m)

\* The text says where every log ends.
EndsAreTold(p) == \A l \in Logs : p.text.logs[l].end = End(p.of.logs[l])

LEMMA RunFacts ==
  ASSUME NEW s, RunOK(s)
  PROVE  /\ \A l \in Logs : s.logs[l] \in LogState
         /\ s.orders \in Book /\ InPlace(s.orders) /\ Len(s.orders) \in Nat
         /\ s = [logs   |-> [l \in Logs |-> [kept    |-> s.logs[l].kept,
                                             dropped |-> s.logs[l].dropped]],
                 orders |-> s.orders, seen |-> s.seen]
<1>1. /\ s.logs \in [Logs -> LogState] /\ s.orders \in Book /\ InPlace(s.orders)
      /\ s = [logs |-> s.logs, orders |-> s.orders, seen |-> s.seen]
  BY DEF RunOK, RunState, Book, InPlace
<1>2. \A l \in Logs : s.logs[l] \in LogState
  BY <1>1
<1>3. s.logs = [l \in Logs |-> [kept |-> s.logs[l].kept, dropped |-> s.logs[l].dropped]]
  <2>1. s.logs = [l \in Logs |-> s.logs[l]]
    BY <1>1
  <2>2. \A l \in Logs : s.logs[l] = [kept |-> s.logs[l].kept, dropped |-> s.logs[l].dropped]
    BY <1>2, LogIs
  <2> QED
    BY <2>1, <2>2
<1>4. Len(s.orders) \in Nat
  BY <1>1 DEF Book
<1> QED
  BY <1>1, <1>2, <1>3, <1>4

\* The text of a checkpoint, field by field.
TextOK(q, s, m) ==
  /\ q.text.sequence = (IF m = Nothing THEN 0 ELSE m.sequence + 1)
  /\ q.text.previous = (IF m = Nothing THEN Nothing ELSE m.digest)
  /\ \A l \in Logs :
       /\ q.text.logs[l].start = Start(s, m, l)
       /\ q.text.logs[l].end = End(s.logs[l])
       /\ q.text.logs[l].dropped = s.logs[l].dropped
       /\ q.text.logs[l].entries = Cut(s.logs[l], Start(s, m, l))
  /\ q.text.size = Len(s.orders)
  /\ q.text.whole = MustWriteWhole(RecordedBy(m), s.orders)
  /\ q.text.orders = IF MustWriteWhole(RecordedBy(m), s.orders) THEN s.orders
                     ELSE Changed(CHOOSE e \in m.entries : TRUE, s.orders)
  /\ q.text.seen = s.seen

LEMMA TextIs ==
  ASSUME NEW s, NEW m, NEW q, q = Payload(s, m)
  PROVE  q.of = s /\ TextOK(q, s, m)
<1>1. q.of = s /\ q.text = checkpoint(s, m)
  BY DEF Payload
<1> DEFINE whole == MustWriteWhole(RecordedBy(m), s.orders)
           orders == IF whole THEN s.orders
                     ELSE Changed(CHOOSE e \in m.entries : TRUE, s.orders)
           logs == [l \in Logs |->
                       [start   |-> Start(s, m, l),
                        end     |-> End(s.logs[l]),
                        dropped |-> s.logs[l].dropped,
                        entries |-> Cut(s.logs[l], Start(s, m, l))]]
           sequence == IF m = Nothing THEN 0 ELSE m.sequence + 1
           previous == IF m = Nothing THEN Nothing ELSE m.digest
           size == Len(s.orders)
<1>2. q.text = [sequence |-> sequence, previous |-> previous, logs |-> logs, size |-> size,
                whole |-> whole, orders |-> orders, seen |-> s.seen]
  BY <1>1 DEF checkpoint
<1>3. \A l \in Logs : /\ logs[l].start = Start(s, m, l)
                      /\ logs[l].end = End(s.logs[l])
                      /\ logs[l].dropped = s.logs[l].dropped
                      /\ logs[l].entries = Cut(s.logs[l], Start(s, m, l))
  OBVIOUS
<1> HIDE DEF whole, orders, logs, sequence, previous, size
<1>4. /\ q.text.sequence = sequence /\ q.text.previous = previous /\ q.text.logs = logs
      /\ q.text.size = size /\ q.text.whole = whole /\ q.text.orders = orders
      /\ q.text.seen = s.seen
  BY <1>2
<1> QED
  BY <1>1, <1>3, <1>4 DEF whole, orders, sequence, previous, size, TextOK

LEMMA FirstText ==
  ASSUME NEW p, First(p)
  PROVE  /\ p.text.sequence = 0 /\ p.text.previous = Nothing
         /\ p.text.whole = TRUE /\ p.text.orders = p.of.orders
         /\ p.text.size = Len(p.of.orders) /\ p.text.seen = p.of.seen
         /\ \A l \in Logs :
              /\ p.text.logs[l].start = p.of.logs[l].dropped
              /\ p.text.logs[l].end = End(p.of.logs[l])
              /\ p.text.logs[l].dropped = p.of.logs[l].dropped
              /\ p.text.logs[l].entries = p.of.logs[l].kept
<1>1. p = Payload(p.of, Nothing) /\ RunOK(p.of)
  BY DEF First
<1>0. TextOK(p, p.of, Nothing)
  BY <1>1, TextIs
<1>2. MustWriteWhole(RecordedBy(Nothing), p.of.orders) = TRUE
  BY DEF MustWriteWhole, RecordedBy
<1>3. \A l \in Logs : Start(p.of, Nothing, l) = p.of.logs[l].dropped
  BY DEF Start
<1>4. \A l \in Logs : Cut(p.of.logs[l], p.of.logs[l].dropped) = p.of.logs[l].kept
  BY <1>1, RunFacts, CutWhole
<1>5. /\ p.text.sequence = 0 /\ p.text.previous = Nothing
      /\ p.text.size = Len(p.of.orders) /\ p.text.seen = p.of.seen
      /\ p.text.whole = MustWriteWhole(RecordedBy(Nothing), p.of.orders)
      /\ p.text.orders = IF MustWriteWhole(RecordedBy(Nothing), p.of.orders) THEN p.of.orders
                         ELSE Changed(CHOOSE e \in Nothing.entries : TRUE, p.of.orders)
  BY <1>0 DEF TextOK
<1>6. \A l \in Logs :
        /\ p.text.logs[l].start = Start(p.of, Nothing, l)
        /\ p.text.logs[l].end = End(p.of.logs[l])
        /\ p.text.logs[l].dropped = p.of.logs[l].dropped
        /\ p.text.logs[l].entries = Cut(p.of.logs[l], Start(p.of, Nothing, l))
  BY <1>0 DEF TextOK
<1> QED
  BY <1>2, <1>3, <1>4, <1>5, <1>6

LEMMA MarkIs ==
  ASSUME NEW p, NEW m, MarkFor(m, p)
  PROVE  /\ m # Nothing /\ m.sequence = p.text.sequence /\ m.digest = p.text
         /\ \A l \in Logs : m.ends[l] = p.text.logs[l].end
         /\ m.entries = {} \/ m.entries = {p.of.orders}
<1>1. PICK e : (e = {} \/ e = {p.of.orders}) /\ m = MarkOf(p, e)
  BY DEF MarkFor
<1> DEFINE ends == [l \in Logs |-> p.text.logs[l].end]
<1>2. m = [sequence |-> p.text.sequence, digest |-> p.text, entries |-> e, ends |-> ends]
  BY <1>1 DEF MarkOf
<1>3. \A l \in Logs : ends[l] = p.text.logs[l].end
  OBVIOUS
<1> HIDE DEF ends
<1>4. m.sequence = p.text.sequence /\ m.digest = p.text /\ m.entries = e /\ m.ends = ends
  BY <1>2
<1>5. m # Nothing
  <2>1. DOMAIN m = {"sequence", "digest", "entries", "ends"} /\ DOMAIN Nothing = {"none"}
    BY <1>2 DEF Nothing
  <2> QED
    BY <2>1
<1> QED
  BY <1>1, <1>3, <1>4, <1>5

LEMMA BuiltText ==
  ASSUME NEW p, NEW q, EndsAreTold(p), Builds(p, q)
  PROVE  /\ q.text.sequence = p.text.sequence + 1 /\ q.text.previous = p.text
         /\ \/ q.text.whole = TRUE /\ q.text.orders = q.of.orders
            \/ q.text.whole = FALSE /\ q.text.orders = Changed(p.of.orders, q.of.orders)
         /\ q.text.size = Len(q.of.orders) /\ q.text.seen = q.of.seen
         /\ \A l \in Logs :
              /\ q.text.logs[l].start = IF End(p.of.logs[l]) < q.of.logs[l].dropped
                                        THEN q.of.logs[l].dropped ELSE End(p.of.logs[l])
              /\ q.text.logs[l].end = End(q.of.logs[l])
              /\ q.text.logs[l].dropped = q.of.logs[l].dropped
              /\ q.text.logs[l].entries = Cut(q.of.logs[l], q.text.logs[l].start)
<1>1. PICK m : MarkFor(m, p) /\ q = Payload(q.of, m)
  BY DEF Builds
<1>0. TextOK(q, q.of, m)
  BY <1>1, TextIs
<1>2. /\ m # Nothing /\ m.sequence = p.text.sequence /\ m.digest = p.text
      /\ \A l \in Logs : m.ends[l] = p.text.logs[l].end
      /\ m.entries = {} \/ m.entries = {p.of.orders}
  BY <1>1, MarkIs
<1>3. \A l \in Logs : Start(q.of, m, l) = IF End(p.of.logs[l]) < q.of.logs[l].dropped
                                        THEN q.of.logs[l].dropped ELSE End(p.of.logs[l])
  BY <1>2 DEF Start, EndsAreTold
<1> DEFINE whole == MustWriteWhole(RecordedBy(m), q.of.orders)
<1>4. /\ q.text.sequence = p.text.sequence + 1 /\ q.text.previous = p.text
      /\ q.text.size = Len(q.of.orders) /\ q.text.seen = q.of.seen
      /\ q.text.whole = whole
      /\ q.text.orders = IF whole THEN q.of.orders
                         ELSE Changed(CHOOSE e \in m.entries : TRUE, q.of.orders)
  <2>1. /\ q.text.sequence = (IF m = Nothing THEN 0 ELSE m.sequence + 1)
        /\ q.text.previous = (IF m = Nothing THEN Nothing ELSE m.digest)
        /\ q.text.size = Len(q.of.orders) /\ q.text.seen = q.of.seen
        /\ q.text.whole = whole
        /\ q.text.orders = IF whole THEN q.of.orders
                           ELSE Changed(CHOOSE e \in m.entries : TRUE, q.of.orders)
    BY <1>0 DEF TextOK
  <2> HIDE DEF whole
  <2> QED
    BY <1>2, <2>1
<1>5. \A l \in Logs :
        /\ q.text.logs[l].start = Start(q.of, m, l)
        /\ q.text.logs[l].end = End(q.of.logs[l])
        /\ q.text.logs[l].dropped = q.of.logs[l].dropped
        /\ q.text.logs[l].entries = Cut(q.of.logs[l], Start(q.of, m, l))
  BY <1>0 DEF TextOK
<1>6. \/ q.text.whole = TRUE /\ q.text.orders = q.of.orders
      \/ q.text.whole = FALSE /\ q.text.orders = Changed(p.of.orders, q.of.orders)
  <2>1. whole \in BOOLEAN
    BY DEF MustWriteWhole
  <2>2. CASE m.entries = {}
    <3>1. whole = TRUE
      BY <1>2, <2>2 DEF MustWriteWhole, RecordedBy
    <3> HIDE DEF whole
    <3> QED
      BY <1>4, <3>1
  <2>3. CASE m.entries = {p.of.orders}
    <3>1. (CHOOSE e \in m.entries : TRUE) = p.of.orders
      BY <2>3
    <3> HIDE DEF whole
    <3>2. CASE whole = TRUE
      BY <1>4, <3>2
    <3>3. CASE whole = FALSE
      BY <1>4, <3>1, <3>3
    <3> QED
      BY <2>1, <3>2, <3>3
  <2> QED
    BY <1>2, <2>2, <2>3
<1> QED
  BY <1>3, <1>4, <1>5, <1>6

-----------------------------------------------------------------------------
(* Reading one payload more.                                                *)

\* What a reader holds once it has read the chain up to p.
ReadOf(p) ==
  [sequence |-> p.text.sequence + 1,
   previous |-> p.text,
   logs     |-> [l \in Logs |-> [kept    |-> p.of.logs[l].kept,
                                 dropped |-> p.of.logs[l].dropped,
                                 end     |-> End(p.of.logs[l])]],
   orders   |-> p.of.orders,
   seen     |-> p.of.seen]

LEMMA NotRefused ==
  ASSUME NEW a, NEW b, NEW c, NEW d, NEW e
  PROVE  [sequence |-> a, previous |-> b, logs |-> c, orders |-> d, seen |-> e] # Refused
<1> DEFINE r == [sequence |-> a, previous |-> b, logs |-> c, orders |-> d, seen |-> e]
<1>1. DOMAIN r = {"sequence", "previous", "logs", "orders", "seen"}
      /\ DOMAIN Refused = {"refused"}
  BY DEF Refused
<1> HIDE DEF r
<1>2. r # Refused
  BY <1>1
<1> QED
  BY <1>2 DEF r

\* A payload that fits what was read is taken in.
LEMMA ReadsOn ==
  ASSUME NEW read, read # Refused, NEW t, Links(read, t),
         \A l \in Logs : RangeContinues(read, t, l),
         ~(read.sequence = 0 /\ ~t.whole), Len(MergedOrders(read, t)) = t.size
  PROVE  ReadNext(read, t)
           = [sequence |-> read.sequence + 1, previous |-> t,
              logs |-> [l \in Logs |-> StitchedLog(read, t, l)],
              orders |-> MergedOrders(read, t), seen |-> t.seen]
BY DEF ReadNext

LEMMA ReadsFirst ==
  ASSUME NEW p, First(p)
  PROVE  ReadNext(NothingRead, p.text) = ReadOf(p)
<1> DEFINE t == p.text
<1>1. RunOK(p.of)
  BY DEF First
<1>2. /\ t.sequence = 0 /\ t.previous = Nothing
      /\ t.whole = TRUE /\ t.orders = p.of.orders
      /\ t.size = Len(p.of.orders) /\ t.seen = p.of.seen
      /\ \A l \in Logs :
           /\ t.logs[l].start = p.of.logs[l].dropped
           /\ t.logs[l].end = End(p.of.logs[l])
           /\ t.logs[l].dropped = p.of.logs[l].dropped
           /\ t.logs[l].entries = p.of.logs[l].kept
  BY FirstText
<1> HIDE DEF t
<1>3. NothingRead # Refused /\ NothingRead.sequence = 0 /\ NothingRead.previous = Nothing
  BY NotRefused DEF NothingRead
<1>4. Links(NothingRead, t)
  BY <1>2, <1>3 DEF Links
<1>5. \A l \in Logs : Len(p.of.logs[l].kept) = End(p.of.logs[l]) - p.of.logs[l].dropped
                      /\ p.of.logs[l].kept \in Seq(Record)
  BY <1>1, RunFacts, CutWhole, LogIs
<1>6. \A l \in Logs : RangeContinues(NothingRead, t, l)
  BY <1>2, <1>3, <1>5 DEF RangeContinues
<1>7. MergedOrders(NothingRead, t) = p.of.orders
  BY <1>2 DEF MergedOrders
<1>8. ASSUME NEW l \in Logs
      PROVE  StitchedLog(NothingRead, t, l)
               = [kept |-> p.of.logs[l].kept, dropped |-> p.of.logs[l].dropped,
                  end |-> End(p.of.logs[l])]
  <2>1. <<>> \o p.of.logs[l].kept = p.of.logs[l].kept
    BY <1>5
  <2> QED
    BY <1>2, <1>3, <2>1 DEF StitchedLog
<1>9. ReadNext(NothingRead, t)
        = [sequence |-> NothingRead.sequence + 1, previous |-> t,
           logs |-> [l \in Logs |-> StitchedLog(NothingRead, t, l)],
           orders |-> MergedOrders(NothingRead, t), seen |-> t.seen]
  BY <1>2, <1>3, <1>4, <1>6, <1>7, ReadsOn
<1>10. [l \in Logs |-> StitchedLog(NothingRead, t, l)]
         = [l \in Logs |-> [kept |-> p.of.logs[l].kept, dropped |-> p.of.logs[l].dropped,
                            end |-> End(p.of.logs[l])]]
  BY <1>8
<1>11. NothingRead.sequence + 1 = t.sequence + 1
  BY <1>2, <1>3
<1> QED
  BY <1>2, <1>7, <1>9, <1>10, <1>11 DEF ReadOf, t

LEMMA ReadsBuilt ==
  ASSUME NEW p, NEW q, EndsAreTold(p), p.text.sequence \in Nat, Builds(p, q)
  PROVE  ReadNext(ReadOf(p), q.text) = ReadOf(q)
<1> DEFINE t == q.text
           read == ReadOf(p)
           held == [l \in Logs |-> [kept |-> p.of.logs[l].kept, dropped |-> p.of.logs[l].dropped,
                                    end |-> End(p.of.logs[l])]]
<1>1. RunOK(p.of) /\ RunOK(q.of) /\ Grows(p.of, q.of)
  BY DEF Builds, Grows
<1>2. /\ t.sequence = p.text.sequence + 1 /\ t.previous = p.text
      /\ \/ t.whole = TRUE /\ t.orders = q.of.orders
         \/ t.whole = FALSE /\ t.orders = Changed(p.of.orders, q.of.orders)
      /\ t.size = Len(q.of.orders) /\ t.seen = q.of.seen
      /\ \A l \in Logs :
           /\ t.logs[l].start = IF End(p.of.logs[l]) < q.of.logs[l].dropped
                                THEN q.of.logs[l].dropped ELSE End(p.of.logs[l])
           /\ t.logs[l].end = End(q.of.logs[l])
           /\ t.logs[l].dropped = q.of.logs[l].dropped
           /\ t.logs[l].entries = Cut(q.of.logs[l], t.logs[l].start)
  BY BuiltText
<1>3. /\ read # Refused /\ read.sequence = p.text.sequence + 1 /\ read.previous = p.text
      /\ read.logs = held /\ read.orders = p.of.orders
  BY NotRefused DEF ReadOf
<1>4. \A l \in Logs : /\ held[l].kept = p.of.logs[l].kept
                      /\ held[l].dropped = p.of.logs[l].dropped
                      /\ held[l].end = End(p.of.logs[l])
  OBVIOUS
<1> HIDE DEF t, read, held
<1>5. Links(read, t)
  BY <1>2, <1>3 DEF Links
<1>6. read.sequence # 0
  BY <1>3
<1>7. ASSUME NEW l \in Logs
      PROVE  /\ RangeContinues(read, t, l)
             /\ StitchedLog(read, t, l)
                  = [kept |-> q.of.logs[l].kept, dropped |-> q.of.logs[l].dropped,
                     end |-> End(q.of.logs[l])]
  <2> DEFINE x == p.of.logs[l]
             y == q.of.logs[l]
             start == t.logs[l].start
  <2>1. x \in LogState /\ y \in LogState /\ LogGrows(x, y)
    BY <1>1, RunFacts DEF Grows
  <2>2. start = IF End(x) < y.dropped THEN y.dropped ELSE End(x)
    BY <1>2
  <2>3. /\ t.logs[l].end = End(y) /\ t.logs[l].dropped = y.dropped
        /\ t.logs[l].entries = Cut(y, start)
    BY <1>2
  <2>4. /\ read.logs[l].kept = x.kept /\ read.logs[l].dropped = x.dropped
        /\ read.logs[l].end = End(x)
    BY <1>3, <1>4
  <2> HIDE DEF x, y, start
  <2>5. /\ Len(Cut(y, start)) = End(y) - start
        /\ start = (IF End(x) > y.dropped THEN End(x) ELSE y.dropped)
        /\ SubSeq(x.kept, y.dropped - x.dropped + 1, Len(x.kept)) \o Cut(y, start) = y.kept
    BY <2>1, <2>2, StitchedIs
  <2>6. y.dropped >= x.dropped
    BY <2>1, LogIs DEF LogGrows
  <2>7. RangeContinues(read, t, l)
    BY <1>6, <2>3, <2>4, <2>5, <2>6 DEF RangeContinues, start
  <2>8. StitchedLog(read, t, l) = [kept |-> y.kept, dropped |-> y.dropped, end |-> End(y)]
    BY <1>6, <2>3, <2>4, <2>5 DEF StitchedLog
  <2> QED
    BY <2>7, <2>8 DEF y
<1>8. MergedOrders(read, t) = q.of.orders
  <2>1. CASE t.whole = TRUE
    BY <1>2, <2>1 DEF MergedOrders
  <2>2. CASE t.whole = FALSE
    <3>1. t.orders = Changed(p.of.orders, q.of.orders)
      BY <1>2, <2>2
    <3>2. PutAll(p.of.orders, Changed(p.of.orders, q.of.orders)) = q.of.orders
      BY <1>1, RunFacts, ChangedIsEnough DEF Grows
    <3> QED
      BY <1>3, <2>2, <3>1, <3>2 DEF MergedOrders
  <2> QED
    BY <1>2, <2>1, <2>2
<1>9. ReadNext(read, t)
        = [sequence |-> read.sequence + 1, previous |-> t,
           logs |-> [l \in Logs |-> StitchedLog(read, t, l)],
           orders |-> MergedOrders(read, t), seen |-> t.seen]
  BY <1>2, <1>3, <1>5, <1>6, <1>7, <1>8, ReadsOn
<1>10. [l \in Logs |-> StitchedLog(read, t, l)]
         = [l \in Logs |-> [kept |-> q.of.logs[l].kept, dropped |-> q.of.logs[l].dropped,
                            end |-> End(q.of.logs[l])]]
  BY <1>7
<1>11. read.sequence + 1 = t.sequence + 1
  BY <1>2, <1>3
<1> QED
  BY <1>2, <1>8, <1>9, <1>10, <1>11 DEF ReadOf, t, read

-----------------------------------------------------------------------------
(* Checkpoints that were each taken of what the run before it became.       *)

\* Induction up to a number.
LEMMA Upto ==
  ASSUME NEW k \in Nat, NEW S, 0 \in S, \A i \in 1 .. k : i - 1 \in S => i \in S
  PROVE  \A i \in 0 .. k : i \in S
<1> DEFINE Bad == {i \in 0 .. k : i \notin S}
<1> SUFFICES ASSUME Bad # {} PROVE FALSE
  OBVIOUS
<1>1. PICK n \in Bad : \A m \in Bad : n <= m
  <2>1. Bad \in SUBSET Nat
    OBVIOUS
  <2> HIDE DEF Bad
  <2> QED
    BY <2>1, Least
<1>2. n \in 0 .. k /\ n \notin S
  OBVIOUS
<1>3. n \in 1 .. k /\ n - 1 \in 0 .. k
  BY <1>2
<1>4. n - 1 \notin Bad
  BY <1>1, <1>3
<1> QED
  BY <1>2, <1>3, <1>4

Lineage(c, k) ==
  /\ k \in Nat /\ c = [i \in 0 .. k |-> c[i]]
  /\ First(c[0]) /\ \A i \in 1 .. k : Builds(c[i - 1], c[i])

\* A checkpoint some process made.
Made(p) == \E k \in Nat : \E c : Lineage(c, k) /\ c[k] = p

LEMMA LineageFacts ==
  ASSUME NEW c, NEW k, Lineage(c, k)
  PROVE  \A i \in 0 .. k :
           /\ RunOK(c[i].of) /\ EndsAreTold(c[i]) /\ c[i].text.sequence = i
           /\ i # 0 => c[i].text.previous = c[i - 1].text
<1> DEFINE Good(i) == /\ RunOK(c[i].of) /\ EndsAreTold(c[i]) /\ c[i].text.sequence = i
                      /\ i # 0 => c[i].text.previous = c[i - 1].text
           S == {i \in 0 .. k : Good(i)}
<1>1. k \in Nat /\ First(c[0]) /\ \A i \in 1 .. k : Builds(c[i - 1], c[i])
  BY DEF Lineage
<1>2. Good(0)
  BY <1>1, FirstText DEF First, EndsAreTold
<1>3. ASSUME NEW i \in 1 .. k, Good(i - 1)
      PROVE  Good(i)
  <2>1. Builds(c[i - 1], c[i]) /\ EndsAreTold(c[i - 1]) /\ c[i - 1].text.sequence = i - 1
    BY <1>1, <1>3
  <2>2. /\ c[i].text.sequence = c[i - 1].text.sequence + 1
        /\ c[i].text.previous = c[i - 1].text
        /\ \A l \in Logs : c[i].text.logs[l].end = End(c[i].of.logs[l])
    <3> DEFINE p == c[i - 1]
               q == c[i]
    <3>1. Builds(p, q) /\ EndsAreTold(p)
      BY <2>1
    <3> HIDE DEF p, q
    <3>2. /\ q.text.sequence = p.text.sequence + 1 /\ q.text.previous = p.text
          /\ \A l \in Logs : q.text.logs[l].end = End(q.of.logs[l])
      BY <3>1, BuiltText, ZenonT(30)
    <3> QED
      BY <3>2 DEF p, q
  <2>3. RunOK(c[i].of)
    BY <2>1 DEF Builds, Grows
  <2> QED
    BY <1>3, <2>1, <2>2, <2>3 DEF EndsAreTold
<1> HIDE DEF Good
<1>4. \A i \in 0 .. k : i \in S
  <2>1. 0 \in S
    BY <1>1, <1>2
  <2>2. \A i \in 1 .. k : i - 1 \in S => i \in S
    BY <1>1, <1>3
  <2> HIDE DEF S
  <2> QED
    BY <1>1, <2>1, <2>2, Upto
<1>5. \A i \in 0 .. k : Good(i)
  BY <1>4
<1> QED
  BY <1>5 DEF Good

LEMMA MadeFacts ==
  ASSUME NEW p, Made(p)
  PROVE  RunOK(p.of) /\ EndsAreTold(p) /\ p.text.sequence \in Nat
<1>1. PICK k \in Nat : \E c : Lineage(c, k) /\ c[k] = p
  BY DEF Made
<1>2. PICK c : Lineage(c, k) /\ c[k] = p
  BY <1>1
<1>3. k \in 0 .. k
  OBVIOUS
<1> QED
  BY <1>2, <1>3, LineageFacts

LEMMA MadeFirst ==
  ASSUME NEW p, First(p)
  PROVE  Made(p)
<1> DEFINE c == [i \in 0 .. 0 |-> p]
<1>1. c[0] = p /\ c = [i \in 0 .. 0 |-> c[i]]
  OBVIOUS
<1> HIDE DEF c
<1>2. Lineage(c, 0)
  BY <1>1 DEF Lineage
<1> QED
  BY <1>1, <1>2 DEF Made

LEMMA MadeNext ==
  ASSUME NEW p, NEW q, Made(p), Builds(p, q)
  PROVE  Made(q)
<1>1. PICK k \in Nat : \E c : Lineage(c, k) /\ c[k] = p
  BY DEF Made
<1>2. PICK c : Lineage(c, k) /\ c[k] = p
  BY <1>1
<1> DEFINE d == [i \in 0 .. k + 1 |-> IF i = k + 1 THEN q ELSE c[i]]
<1>3. d[k + 1] = q /\ d = [i \in 0 .. k + 1 |-> d[i]] /\ \A i \in 0 .. k : d[i] = c[i]
  OBVIOUS
<1> HIDE DEF d
<1>4. \A i \in 1 .. k + 1 : Builds(d[i - 1], d[i])
  <2> TAKE i \in 1 .. k + 1
  <2>1. CASE i = k + 1
    <3>1. i - 1 = k /\ k \in 0 .. k
      BY <2>1
    <3> QED
      BY <1>2, <1>3, <2>1, <3>1
  <2>2. CASE i # k + 1
    <3>1. i \in 1 .. k /\ i \in 0 .. k /\ i - 1 \in 0 .. k
      BY <2>2
    <3>2. d[i - 1] = c[i - 1] /\ d[i] = c[i]
      BY <1>3, <3>1
    <3> QED
      BY <1>2, <3>1, <3>2 DEF Lineage
  <2> QED
    BY <2>1, <2>2
<1>5. First(d[0])
  BY <1>2, <1>3, SMTT(20) DEF Lineage
<1>6. Lineage(d, k + 1) /\ k + 1 \in Nat
  BY <1>3, <1>4, <1>5 DEF Lineage
<1> QED
  BY <1>3, <1>6 DEF Made

-----------------------------------------------------------------------------
(* Reading a chain.                                                         *)

ReadsOne(g, payloads, m) ==
  g = [n \in 0 .. m |-> IF n = 0 THEN NothingRead ELSE ReadNext(g[n - 1], payloads[n])]

\* The function that reads the first n payloads exists for every n.
LEMMA ReadsExists ==
  ASSUME NEW payloads, NEW m \in Nat
  PROVE  \E g : ReadsOne(g, payloads, m)
<1> DEFINE Missing == {l \in Nat : \A g : ~ReadsOne(g, payloads, l)}
<1> SUFFICES ASSUME Missing # {} PROVE FALSE
  OBVIOUS
<1>1. PICK l \in Missing : \A k \in Missing : l <= k
  <2>1. Missing \in SUBSET Nat
    OBVIOUS
  <2> HIDE DEF Missing
  <2> QED
    BY <2>1, Least
<1>2. l \in Nat /\ ~\E g : ReadsOne(g, payloads, l)
  OBVIOUS
<1>3. l # 0
  <2>1. ReadsOne([n \in 0 .. 0 |-> NothingRead], payloads, 0)
    BY DEF ReadsOne
  <2> QED
    BY <1>2, <2>1
<1>4. l - 1 \in Nat /\ l - 1 \notin Missing
  BY <1>1, <1>2, <1>3
<1>5. PICK g : ReadsOne(g, payloads, l - 1)
  BY <1>4
<1> DEFINE h == [n \in 0 .. l |-> IF n = l THEN ReadNext(g[l - 1], payloads[l]) ELSE g[n]]
<1>6. \A n \in 0 .. l : h[n] = IF n = 0 THEN NothingRead ELSE ReadNext(h[n - 1], payloads[n])
  <2> SUFFICES ASSUME NEW n \in 0 .. l
               PROVE  h[n] = IF n = 0 THEN NothingRead ELSE ReadNext(h[n - 1], payloads[n])
    OBVIOUS
  <2>1. CASE n = l
    <3>1. h[n] = (ReadNext(g[l - 1], payloads[l])) /\ h[l - 1] = g[l - 1]
      BY <1>2, <1>4, <2>1
    <3> QED
      BY <1>3, <2>1, <3>1
  <2>2. CASE n # l
    <3>1. n \in 0 .. (l - 1) /\ h[n] = g[n]
      BY <1>2, <2>2
    <3>2. g[n] = IF n = 0 THEN NothingRead ELSE ReadNext(g[n - 1], payloads[n])
      BY <1>5, <3>1 DEF ReadsOne
    <3>3. n # 0 => h[n - 1] = g[n - 1]
      BY <1>2, <2>2
    <3> QED
      BY <3>1, <3>2, <3>3
  <2> QED
    BY <2>1, <2>2
<1>7. ReadsOne(h, payloads, l)
  <2>1. h = [n \in 0 .. l |-> h[n]]
    OBVIOUS
  <2> HIDE DEF h
  <2> QED
    BY <1>6, <2>1 DEF ReadsOne
<1> QED
  BY <1>2, <1>7

LEMMA ReadIs ==
  ASSUME NEW payloads, NEW m \in Nat, Len(payloads) = m
  PROVE  \E g : /\ ReadsOne(g, payloads, m)
                /\ read_checkpoints(payloads)
                     = IF payloads = <<>> \/ g[m] = Refused THEN Refused
                       ELSE [logs   |-> [l \in Logs |-> [kept    |-> g[m].logs[l].kept,
                                                         dropped |-> g[m].logs[l].dropped]],
                             orders |-> g[m].orders, seen |-> g[m].seen]
<1> DEFINE g == CHOOSE f : ReadsOne(f, payloads, m)
<1>1. ReadsOne(g, payloads, m)
  BY ReadsExists
<1>2. g = CHOOSE f : f = [n \in 0 .. Len(payloads) |->
                            IF n = 0 THEN NothingRead ELSE ReadNext(f[n - 1], payloads[n])]
  BY DEF ReadsOne
<1> HIDE DEF g
<1>3. read_checkpoints(payloads)
        = IF payloads = <<>> \/ g[Len(payloads)] = Refused THEN Refused
          ELSE [logs   |-> [l \in Logs |-> [kept    |-> g[Len(payloads)].logs[l].kept,
                                            dropped |-> g[Len(payloads)].logs[l].dropped]],
                orders |-> g[Len(payloads)].orders, seen |-> g[Len(payloads)].seen]
  BY <1>2 DEF read_checkpoints
<1> QED
  BY <1>1, <1>3

\* A chain that holds a lineage restores the run its last checkpoint was taken of.
LEMMA ChainReads ==
  ASSUME NEW c, NEW k, Lineage(c, k), NEW payloads, payloads # <<>>, Len(payloads) = k + 1,
         \A n \in 1 .. k + 1 : payloads[n] = c[n - 1].text
  PROVE  /\ read_checkpoints(payloads) = c[k].of
         /\ read_checkpoints(payloads) # Refused
<1>1. k \in Nat /\ First(c[0]) /\ \A i \in 1 .. k : Builds(c[i - 1], c[i])
  BY DEF Lineage
<1>2. PICK g : /\ ReadsOne(g, payloads, k + 1)
               /\ read_checkpoints(payloads)
                    = IF payloads = <<>> \/ g[k + 1] = Refused THEN Refused
                      ELSE [logs   |-> [l \in Logs |-> [kept    |-> g[k + 1].logs[l].kept,
                                                        dropped |-> g[k + 1].logs[l].dropped]],
                            orders |-> g[k + 1].orders, seen |-> g[k + 1].seen]
  <2>1. k + 1 \in Nat
    BY <1>1
  <2> QED
    BY <2>1, ReadIs
<1>3. g[0] = NothingRead
      /\ \A n \in 1 .. k + 1 : g[n] = ReadNext(g[n - 1], c[n - 1].text)
  <2>1. \A n \in 0 .. k + 1 : g[n] = IF n = 0 THEN NothingRead
                                     ELSE ReadNext(g[n - 1], payloads[n])
    BY <1>2 DEF ReadsOne
  <2>2. 0 \in 0 .. k + 1 /\ \A n \in 1 .. k + 1 : n \in 0 .. k + 1 /\ n # 0
    BY <1>1
  <2> QED
    BY <2>1, <2>2
<1> DEFINE S == {i \in 0 .. k : g[i + 1] = ReadOf(c[i])}
<1>4. 0 \in S
  <2>1. g[1] = ReadNext(g[0], c[0].text)
    BY <1>1, <1>3
  <2>2. g[1] = ReadOf(c[0])
    BY <1>1, <1>3, <2>1, ReadsFirst
  <2> QED
    BY <1>1, <2>2
<1>5. ASSUME NEW i \in 1 .. k, i - 1 \in S
      PROVE  i \in S
  <2> DEFINE p == c[i - 1]
             q == c[i]
  <2>1. i - 1 \in 0 .. k /\ i \in 0 .. k /\ i + 1 \in 1 .. k + 1 /\ (i - 1) + 1 = i
        /\ (i + 1) - 1 = i
    BY <1>1, <1>5
  <2>2. g[i] = ReadOf(p)
    BY <1>5, <2>1
  <2>3. g[i + 1] = ReadNext(g[i], q.text)
    BY <1>3, <2>1
  <2>4. EndsAreTold(p) /\ p.text.sequence \in Nat /\ Builds(p, q)
    BY <1>1, <2>1, LineageFacts
  <2> HIDE DEF p, q
  <2>5. g[i + 1] = ReadOf(q)
    BY <2>2, <2>3, <2>4, ReadsBuilt
  <2> QED
    BY <2>1, <2>5 DEF q
<1>6. k \in S
  <2>1. k \in 0 .. k
    BY <1>1
  <2> HIDE DEF S
  <2> QED
    BY <1>1, <1>4, <1>5, <2>1, Upto
<1> DEFINE s == c[k].of
           held == [l \in Logs |-> [kept |-> s.logs[l].kept, dropped |-> s.logs[l].dropped,
                                    end |-> End(s.logs[l])]]
<1>7. g[k + 1] = ReadOf(c[k])
  BY <1>6
<1>8. g[k + 1] # Refused
  BY <1>7, NotRefused DEF ReadOf
<1>9. g[k + 1].logs = held /\ g[k + 1].orders = s.orders /\ g[k + 1].seen = s.seen
  <2>1. ReadOf(c[k]) = [sequence |-> c[k].text.sequence + 1, previous |-> c[k].text,
                        logs |-> held, orders |-> s.orders, seen |-> s.seen]
    BY DEF ReadOf
  <2> HIDE DEF held, s
  <2> QED
    BY <1>7, <2>1
<1>10. \A l \in Logs : held[l].kept = s.logs[l].kept /\ held[l].dropped = s.logs[l].dropped
  OBVIOUS
<1>11. RunOK(s)
  <2>1. k \in 0 .. k
    BY <1>1
  <2> QED
    BY <2>1, LineageFacts
<1> HIDE DEF held, s
<1>12. read_checkpoints(payloads)
         = [logs |-> [l \in Logs |-> [kept |-> s.logs[l].kept, dropped |-> s.logs[l].dropped]],
            orders |-> s.orders, seen |-> s.seen]
  <2>1. [l \in Logs |-> [kept |-> g[k + 1].logs[l].kept, dropped |-> g[k + 1].logs[l].dropped]]
          = [l \in Logs |-> [kept |-> s.logs[l].kept, dropped |-> s.logs[l].dropped]]
    BY <1>9, <1>10
  <2> QED
    BY <1>2, <1>8, <1>9, <2>1
<1>13. read_checkpoints(payloads) = s
  BY <1>11, <1>12, RunFacts
<1>14. s # Refused
  <2>1. DOMAIN s = {"logs", "orders", "seen"}
    BY <1>12, <1>13
  <2>2. DOMAIN Refused = {"refused"}
    BY DEF Refused
  <2> QED
    BY <2>1, <2>2
<1> QED
  BY <1>13, <1>14 DEF s

\* A payload that is read follows the one read before it.
LEMMA ReadLinks ==
  ASSUME NEW read, NEW t, ReadNext(read, t) # Refused
  PROVE  /\ read # Refused /\ t.sequence = read.sequence /\ t.previous = read.previous
         /\ ReadNext(read, t).sequence = read.sequence + 1 /\ ReadNext(read, t).previous = t
<1> DEFINE held == [l \in Logs |-> StitchedLog(read, t, l)]
           orders == MergedOrders(read, t)
<1>1. /\ read # Refused /\ Links(read, t)
      /\ ReadNext(read, t) = [sequence |-> read.sequence + 1, previous |-> t,
                              logs |-> held, orders |-> orders, seen |-> t.seen]
  BY DEF ReadNext
<1> HIDE DEF held, orders
<1>2. ReadNext(read, t).sequence = read.sequence + 1 /\ ReadNext(read, t).previous = t
  BY <1>1
<1> QED
  BY <1>1, <1>2 DEF Links

\* A chain that is read holds the whole lineage of its last checkpoint.
LEMMA ChainOnly ==
  ASSUME NEW c, NEW k, Lineage(c, k), NEW payloads, NEW m \in Nat, m # 0, Len(payloads) = m,
         read_checkpoints(payloads) # Refused, payloads[m] = c[k].text
  PROVE  m = k + 1 /\ \A n \in 1 .. m : payloads[n] = c[n - 1].text
<1>1. k \in Nat
  BY DEF Lineage
<1>2. PICK g : ReadsOne(g, payloads, m) /\ g[m] # Refused
  BY ReadIs
<1>3. /\ g[0] = NothingRead
      /\ \A n \in 1 .. m : g[n] = ReadNext(g[n - 1], payloads[n])
  <2>1. \A n \in 0 .. m : g[n] = IF n = 0 THEN NothingRead
                                 ELSE ReadNext(g[n - 1], payloads[n])
    BY <1>2 DEF ReadsOne
  <2>2. 0 \in 0 .. m /\ \A n \in 1 .. m : n \in 0 .. m /\ n # 0
    OBVIOUS
  <2> QED
    BY <2>1, <2>2
\* Downwards: nothing on the way was refused.
<1>4. \A n \in 0 .. m : g[n] # Refused
  <2> DEFINE S == {i \in 0 .. m : g[m - i] # Refused}
  <2>1. 0 \in S
    BY <1>2
  <2>2. ASSUME NEW i \in 1 .. m, i - 1 \in S
        PROVE  i \in S
    <3>1. m - (i - 1) \in 1 .. m /\ (m - (i - 1)) - 1 = m - i /\ i \in 0 .. m
      BY <2>2
    <3>2. g[m - (i - 1)] = ReadNext(g[m - i], payloads[m - (i - 1)])
      BY <1>3, <3>1
    <3>3. g[m - i] # Refused
      BY <2>2, <3>2, ReadLinks
    <3> QED
      BY <3>1, <3>3
  <2>3. \A i \in 0 .. m : i \in S
    <3> HIDE DEF S
    <3> QED
      BY <2>1, <2>2, Upto
  <2> TAKE n \in 0 .. m
  <2>4. m - n \in 0 .. m /\ m - (m - n) = n
    OBVIOUS
  <2>5. m - n \in S
    BY <2>3, <2>4
  <2> QED
    BY <2>4, <2>5
<1>5. \A n \in 1 .. m : /\ payloads[n].sequence = g[n - 1].sequence
                        /\ payloads[n].previous = g[n - 1].previous
                        /\ g[n].sequence = g[n - 1].sequence + 1
                        /\ g[n].previous = payloads[n]
  <2> TAKE n \in 1 .. m
  <2>1. n \in 0 .. m /\ g[n] # Refused /\ g[n] = ReadNext(g[n - 1], payloads[n])
    BY <1>3, <1>4
  <2> QED
    BY <2>1, ReadLinks
<1>6. \A n \in 0 .. m : g[n].sequence = n
  <2> DEFINE S == {i \in 0 .. m : g[i].sequence = i}
  <2>1. 0 \in S
    BY <1>3 DEF NothingRead
  <2>2. ASSUME NEW i \in 1 .. m, i - 1 \in S
        PROVE  i \in S
    BY <1>5, <2>2
  <2>3. \A i \in 0 .. m : i \in S
    <3> HIDE DEF S
    <3> QED
      BY <2>1, <2>2, Upto
  <2> QED
    BY <2>3
<1>7. m = k + 1
  <2>1. k \in 0 .. k /\ m \in 1 .. m /\ m - 1 \in 0 .. m
    BY <1>1
  <2>2. c[k].text.sequence = k
    BY <2>1, LineageFacts
  <2>3. payloads[m].sequence = m - 1
    BY <1>5, <1>6, <2>1
  <2> QED
    BY <1>1, <2>2, <2>3
<1>8. \A n \in 2 .. m : payloads[n].previous = payloads[n - 1]
  <2> TAKE n \in 2 .. m
  <2>1. n \in 1 .. m /\ n - 1 \in 1 .. m
    OBVIOUS
  <2> QED
    BY <1>5, <2>1
\* Downwards: every payload is the one the next was taken on.
<1>9. \A n \in 1 .. m : payloads[n] = c[n - 1].text
  <2> DEFINE S == {i \in 0 .. k : payloads[m - i] = c[k - i].text}
  <2>1. 0 \in S
    BY <1>1
  <2>2. ASSUME NEW i \in 1 .. k, i - 1 \in S
        PROVE  i \in S
    <3> DEFINE n == m - (i - 1)
               j == k - (i - 1)
    <3>1. /\ n \in 2 .. m /\ n - 1 = m - i /\ j \in 0 .. k /\ j # 0 /\ j - 1 = k - i
          /\ i \in 0 .. k
      BY <1>1, <1>7
    <3>2. payloads[n] = c[j].text
      BY <2>2
    <3> HIDE DEF n, j
    <3>3. payloads[n - 1] = c[j - 1].text
      BY <1>8, <3>1, <3>2, LineageFacts
    <3> QED
      BY <3>1, <3>3
  <2>3. \A i \in 0 .. k : i \in S
    <3> HIDE DEF S
    <3> QED
      BY <1>1, <2>1, <2>2, Upto
  <2> TAKE n \in 1 .. m
  <2>4. m - n \in 0 .. k /\ m - (m - n) = n /\ k - (m - n) = n - 1
    BY <1>1, <1>7
  <2>5. m - n \in S
    BY <2>3, <2>4
  <2> QED
    BY <2>4, <2>5
<1> QED
  BY <1>7, <1>9

-----------------------------------------------------------------------------
(* The chain a listing shows.                                               *)

Shown(last) == {s \in Stored : s <= last}

Rank(last, s) == Cardinality({t \in Shown(last) : t <= s})

LEMMA ShownFinite ==
  ASSUME NEW last
  PROVE  /\ Shown(last) \subseteq Sequences /\ Sequences \subseteq Nat
         /\ \A S \in SUBSET Shown(last) : IsFiniteSet(S) /\ Cardinality(S) \in Nat
<1>1. IsFiniteSet(Sequences) /\ Sequences \subseteq Nat
  BY StoreAssumption, FS_Interval DEF Sequences
<1>2. Shown(last) \subseteq Sequences
  BY DEF Shown, Stored
<1>3. \A S \in SUBSET Shown(last) : IsFiniteSet(S)
  BY <1>1, <1>2, FS_Subset
<1> QED
  BY <1>1, <1>2, <1>3, FS_CardinalityType

LEMMA LatestIs ==
  ASSUME Stored # {}
  PROVE  latest \in Stored /\ latest # -1
<1>1. Stored \subseteq 0 .. MaxSequence /\ MaxSequence \in Nat
  BY StoreAssumption DEF Stored, Sequences
<1> DEFINE Below == {MaxSequence - s : s \in Stored}
<1>2. PICK b \in Below : \A a \in Below : b <= a
  <2>1. \A s \in Stored : MaxSequence - s \in Nat
    BY <1>1
  <2>2. Below \in SUBSET Nat /\ Below # {}
    BY <2>1
  <2> HIDE DEF Below
  <2> QED
    BY <2>2, Least
<1>3. PICK s \in Stored : b = MaxSequence - s
  BY <1>2
<1>4. \A t \in Stored : t <= s
  <2> TAKE t \in Stored
  <2>1. MaxSequence - t \in Below
    OBVIOUS
  <2>2. MaxSequence - s <= MaxSequence - t
    BY <1>2, <1>3, <2>1
  <2>3. s \in Nat /\ t \in Nat /\ MaxSequence \in Nat
    BY <1>1
  <2> HIDE DEF Below
  <2> QED
    BY <2>2, <2>3
<1>5. latest \in Stored
  BY <1>4 DEF latest
<1>6. latest \in Nat
  BY <1>1, <1>5
<1> QED
  BY <1>5, <1>6

\* It ends with the checkpoint it goes up to.
LEMMA ChainEnds ==
  ASSUME NEW last \in Stored
  PROVE  \E m \in Nat : /\ m # 0 /\ m = Cardinality(Shown(last)) /\ Len(ChainTo(last)) = m
                        /\ ChainTo(last)[m] = files[last].text
<1> DEFINE shown == Shown(last)
           m == Cardinality(shown)
           text(n) == files[CHOOSE s \in shown : Rank(last, s) = n].text
<1>1. /\ shown \subseteq Sequences /\ Sequences \subseteq Nat
      /\ \A S \in SUBSET shown : IsFiniteSet(S) /\ Cardinality(S) \in Nat
  BY ShownFinite
<1>2. last \in shown
  <2>1. last \in Nat
    BY <1>1 DEF Stored
  <2> QED
    BY <2>1 DEF Shown
<1>3. IsFiniteSet(shown) /\ m \in Nat
  BY <1>1
<1>4. m # 0
  BY <1>2, <1>3, FS_EmptySet
<1>5. ChainTo(last) = [n \in 1 .. m |-> text(n)]
  BY DEF ChainTo, Shown, Rank
<1>6. Rank(last, last) = m
  <2>1. {t \in shown : t <= last} = shown
    BY DEF Shown
  <2> QED
    BY <2>1 DEF Rank
<1>7. ASSUME NEW s \in shown, Rank(last, s) = m
      PROVE  s = last
  <2> DEFINE upto == {t \in shown : t <= s}
  <2>1. upto \in SUBSET shown /\ Cardinality(upto) = m
    BY <1>7 DEF Rank
  <2>2. upto = shown
    BY <1>3, <2>1, FS_Subset
  <2>3. last <= s
    BY <1>2, <2>2
  <2>4. s <= last /\ s \in Nat /\ last \in Nat
    BY <1>1, <1>2 DEF Shown
  <2> QED
    BY <2>3, <2>4
<1>8. (CHOOSE s \in shown : Rank(last, s) = m) = last
  BY <1>2, <1>6, <1>7
<1>9. text(m) = files[last].text
  BY <1>8
<1> DEFINE seq == [n \in 1 .. m |-> text(n)]
           T == {text(n) : n \in 1 .. m}
<1>10. Len(seq) = m /\ seq[m] = text(m)
  <2>1. seq \in [1 .. m -> T]
    OBVIOUS
  <2>2. m \in 1 .. m
    <3> HIDE DEF m
    <3> QED
      BY <1>3, <1>4
  <2>3. DOMAIN seq = 1 .. m
    OBVIOUS
  <2>4. seq[m] = text(m)
    BY <2>2
  <2> HIDE DEF seq, T, m, text
  <2>5. seq \in Seq(T)
    BY <1>3, <2>1
  <2> QED
    BY <1>3, <2>3, <2>4, <2>5
<1> QED
  BY <1>3, <1>4, <1>5, <1>9, <1>10

\* Where every sequence up to one is stored, the chain is all of them.
LEMMA ChainWhole ==
  ASSUME NEW last \in Sequences, Shown(last) = 0 .. last
  PROVE  \A n \in 1 .. last + 1 : ChainTo(last)[n] = files[n - 1].text
<1>1. last \in Nat
  BY StoreAssumption DEF Sequences
<1> DEFINE shown == Shown(last)
           text(n) == files[CHOOSE s \in shown : Rank(last, s) = n].text
<1>2. \A s \in shown : Rank(last, s) = s + 1
  <2> TAKE s \in shown
  <2>1. s \in Nat /\ {t \in shown : t <= s} = 0 .. s
    BY <1>1
  <2>2. Cardinality(0 .. s) = s + 1
    <3>1. 0 \in Int /\ s \in Int /\ ~(0 > s) /\ s - 0 + 1 = s + 1
      BY <2>1
    <3> QED
      BY <3>1, FS_Interval
  <2> QED
    BY <2>1, <2>2 DEF Rank
<1>3. Cardinality(shown) = last + 1
  <2>1. 0 \in Int /\ last \in Int /\ ~(0 > last) /\ last - 0 + 1 = last + 1
    BY <1>1
  <2> QED
    BY <2>1, FS_Interval
<1>4. ChainTo(last) = [n \in 1 .. last + 1 |-> text(n)]
  BY <1>3 DEF ChainTo, Shown, Rank
<1> TAKE n \in 1 .. last + 1
<1>5. n - 1 \in shown /\ \A s \in shown : Rank(last, s) = n <=> s = n - 1
  BY <1>1, <1>2
<1>6. (CHOOSE s \in shown : Rank(last, s) = n) = n - 1
  BY <1>5
<1> QED
  BY <1>4, <1>6

-----------------------------------------------------------------------------
(* The checkpoints that are there, and those that are being made.           *)

FileOK(f, s) == f[s] # NoFile => Made(f[s]) /\ f[s].text.sequence = s

\* A process goes on from a checkpoint that was made, and puts one it made.
HeldOK(w) ==
  /\ run[w] # Nothing => RunOK(run[w])
  /\ mark[w] # Nothing =>
       /\ run[w] # Nothing
       /\ \E p : Made(p) /\ MarkFor(mark[w], p) /\ Grows(p.of, run[w])
  /\ Busy(w) => putting[w].payload = Payload(run[w], mark[w])

\* Every sequence up to n is there, each taken on the one before it.
Linked(f, n) ==
  \A i \in 0 .. n : f[i] # NoFile /\ (i # 0 => f[i].text.previous = f[i - 1].text)

FlushedOK == \A s \in Sequences : flushed[s] # NoFile => files[s] = flushed[s]

MarkLinked(w) ==
  mark[w] # Nothing =>
    /\ mark[w].sequence \in Sequences /\ Linked(files, mark[w].sequence)
    /\ files[mark[w].sequence].text = mark[w].digest

\* What holds until then of the chain.
LinksOK ==
  /\ FlushedOK
  /\ \A s \in Sequences : acked[s] # NoFile => Linked(flushed, s)
  /\ \A w \in Writers : MarkLinked(w)

FilesOK == \A s \in Sequences : FileOK(files, s) /\ FileOK(flushed, s)

ChainInv ==
  /\ FilesOK
  /\ \A w \in Writers : HeldOK(w)
  /\ ~rootLeft /\ ~raced => LinksOK

LEMMA LastOfChain ==
  ASSUME NEW p, Made(p)
  PROVE  \E c : Lineage(c, p.text.sequence) /\ c[p.text.sequence] = p
<1>1. PICK k \in Nat : \E c : Lineage(c, k) /\ c[k] = p
  BY DEF Made
<1>2. PICK c : Lineage(c, k) /\ c[k] = p
  BY <1>1
<1>3. p.text.sequence = k
  <2>1. k \in 0 .. k
    OBVIOUS
  <2>2. c[k].text.sequence = k
    BY <1>2, <2>1, LineageFacts
  <2> QED
    BY <1>2, <2>2
<1> QED
  BY <1>2, <1>3

\* A chain that is not refused restores the run of its last checkpoint, and
\* then nothing of it is missing.
LEMMA ReadsTrue ==
  ASSUME FilesOK, NEW last \in Stored, read_checkpoints(ChainTo(last)) # Refused
  PROVE  read_checkpoints(ChainTo(last)) = files[last].of /\ Linked(files, last)
<1>1. last \in Sequences /\ last \in Nat /\ files[last] # NoFile
  BY StoreAssumption DEF Stored, Sequences
<1>2. PICK m \in Nat : /\ m # 0 /\ m = Cardinality(Shown(last)) /\ Len(ChainTo(last)) = m
                       /\ ChainTo(last)[m] = files[last].text
  BY ChainEnds
<1>3. PICK c : Lineage(c, last) /\ c[last] = files[last]
  <2>1. Made(files[last]) /\ files[last].text.sequence = last
    BY <1>1 DEF FilesOK, FileOK
  <2> QED
    BY <2>1, LastOfChain
<1> DEFINE chain == ChainTo(last)
<1>4. m = last + 1 /\ \A n \in 1 .. m : chain[n] = c[n - 1].text
  <2>1. chain[m] = c[last].text /\ Len(chain) = m /\ read_checkpoints(chain) # Refused
    BY <1>2, <1>3
  <2> HIDE DEF chain
  <2> QED
    BY <1>2, <1>3, <2>1, ChainOnly
<1>5. chain # <<>>
  <2>1. Len(chain) = m
    BY <1>2
  <2> HIDE DEF chain
  <2> QED
    BY <1>2, <2>1
<1>6. read_checkpoints(chain) = c[last].of
  <2>1. Len(chain) = last + 1 /\ \A n \in 1 .. last + 1 : chain[n] = c[n - 1].text
    BY <1>2, <1>4
  <2> HIDE DEF chain
  <2> QED
    BY <1>3, <1>5, <2>1, ChainReads
<1>7. Shown(last) = 0 .. last
  <2>1. Shown(last) \subseteq 0 .. last
    <3>1. \A s \in Shown(last) : s \in Nat /\ s <= last
      BY ShownFinite DEF Shown
    <3> QED
      BY <1>1, <3>1
  <2>2. IsFiniteSet(0 .. last) /\ Cardinality(0 .. last) = last + 1
    <3>1. 0 \in Int /\ last \in Int /\ ~(0 > last) /\ last - 0 + 1 = last + 1
      BY <1>1
    <3> QED
      BY <3>1, FS_Interval
  <2> QED
    BY <1>2, <1>4, <2>1, <2>2, FS_Subset
<1>8. \A n \in 1 .. last + 1 : chain[n] = files[n - 1].text
  BY <1>1, <1>7, ChainWhole
<1>9. \A i \in 0 .. last : files[i] # NoFile /\ files[i].text = c[i].text
  <2> TAKE i \in 0 .. last
  <2>1. i \in Shown(last)
    BY <1>7
  <2>2. i + 1 \in 1 .. last + 1 /\ (i + 1) - 1 = i
    BY <1>1
  <2>3. chain[i + 1] = files[i].text /\ chain[i + 1] = c[i].text
    BY <1>4, <1>8, <2>2
  <2> QED
    BY <2>1, <2>3 DEF Shown, Stored
<1>10. Linked(files, last)
  <2>1. ASSUME NEW i \in 0 .. last, i # 0
        PROVE  files[i].text.previous = files[i - 1].text
    <3>1. i - 1 \in 0 .. last
      BY <1>1, <2>1
    <3>2. c[i].text.previous = c[i - 1].text
      BY <1>3, <2>1, LineageFacts
    <3> QED
      BY <1>9, <2>1, <3>1, <3>2
  <2> QED
    BY <1>9, <2>1 DEF Linked
<1> QED
  BY <1>3, <1>6, <1>10

\* A chain of which nothing is missing is not refused.
LEMMA LinkedReads ==
  ASSUME FilesOK, NEW last \in Sequences, Linked(files, last)
  PROVE  read_checkpoints(ChainTo(last)) # Refused
<1>1. last \in Nat /\ 0 .. last \subseteq Sequences /\ MaxSequence \in Nat
  BY StoreAssumption DEF Sequences
<1>2. \A i \in 0 .. last : i \in Stored /\ files[i] # NoFile
  BY <1>1 DEF Linked, Stored
<1>3. last \in 0 .. last /\ last \in Stored
  BY <1>1, <1>2
<1>4. PICK m \in Nat : /\ m # 0 /\ m = Cardinality(Shown(last)) /\ Len(ChainTo(last)) = m
                       /\ ChainTo(last)[m] = files[last].text
  BY <1>3, ChainEnds
<1>5. Shown(last) = 0 .. last
  <2>1. \A s \in Shown(last) : s \in Nat /\ s <= last
    BY ShownFinite DEF Shown
  <2>2. \A s \in 0 .. last : s \in Shown(last)
    BY <1>2 DEF Shown
  <2>3. \A s \in Shown(last) : s \in 0 .. last
    BY <1>1, <2>1
  <2> QED
    BY <2>2, <2>3
<1>6. m = last + 1
  <2>1. 0 \in Int /\ last \in Int /\ ~(0 > last) /\ last - 0 + 1 = last + 1
    BY <1>1
  <2> QED
    BY <1>4, <1>5, <2>1, FS_Interval
<1>7. PICK c : Lineage(c, last) /\ c[last] = files[last]
  <2>1. Made(files[last]) /\ files[last].text.sequence = last
    BY <1>1, <1>2, <1>3 DEF FilesOK, FileOK
  <2> QED
    BY <2>1, LastOfChain
<1> DEFINE S == {i \in 0 .. last : files[last - i].text = c[last - i].text}
<1>8. \A i \in 0 .. last : i \in S
  <2>1. 0 \in S
    BY <1>1, <1>7
  <2>2. ASSUME NEW i \in 1 .. last, i - 1 \in S
        PROVE  i \in S
    <3> DEFINE j == last - (i - 1)
    <3>1. j \in 0 .. last /\ j # 0 /\ j - 1 = last - i /\ i \in 0 .. last
      BY <1>1
    <3>2. files[j].text = c[j].text
      BY <2>2
    <3> HIDE DEF j
    <3>3. files[j].text.previous = files[j - 1].text
      BY <3>1 DEF Linked
    <3>4. c[j].text.previous = c[j - 1].text
      BY <1>7, <3>1, LineageFacts
    <3> QED
      BY <3>1, <3>2, <3>3, <3>4
  <2> HIDE DEF S
  <2> QED
    BY <1>1, <2>1, <2>2, Upto
<1> DEFINE chain == ChainTo(last)
<1>9. \A n \in 1 .. last + 1 : chain[n] = c[n - 1].text
  <2>0. \A n \in 1 .. last + 1 : chain[n] = files[n - 1].text
    BY <1>5, ChainWhole
  <2> TAKE n \in 1 .. last + 1
  <2>1. last - (n - 1) \in 0 .. last /\ last - (last - (n - 1)) = n - 1
    BY <1>1
  <2>2. last - (n - 1) \in S
    BY <1>8, <2>1
  <2>3. files[n - 1].text = c[n - 1].text
    BY <2>1, <2>2
  <2> QED
    BY <2>0, <2>3
<1>10. chain # <<>> /\ Len(chain) = last + 1
  <2>1. Len(chain) = m
    BY <1>4
  <2> HIDE DEF chain
  <2> QED
    BY <1>4, <1>6, <2>1
<1> HIDE DEF chain
<1>11. read_checkpoints(chain) # Refused
  BY <1>7, <1>9, <1>10, ChainReads
<1> QED
  BY <1>11 DEF chain

LEMMA LinkedKept ==
  ASSUME NEW f, NEW g, NEW n \in Sequences, Linked(f, n),
         \A s \in Sequences : f[s] # NoFile => g[s] = f[s]
  PROVE  Linked(g, n)
<1>1. n \in Nat /\ 0 .. n \subseteq Sequences
  BY StoreAssumption DEF Sequences
<1>2. \A i \in 0 .. n : f[i] # NoFile /\ g[i] = f[i]
  BY <1>1 DEF Linked
<1>3. \A i \in 0 .. n : i # 0 => i - 1 \in 0 .. n
  BY <1>1
<1> QED
  BY <1>2, <1>3 DEF Linked

\* What a process puts is a checkpoint it made on its mark.
LEMMA PayloadMade ==
  ASSUME NEW w \in Writers, HeldOK(w), run[w] # Nothing
  PROVE  /\ Made(Payload(run[w], mark[w])) /\ Payload(run[w], mark[w]).of = run[w]
         /\ Payload(run[w], mark[w]).text.sequence = NextSequence(w)
         /\ mark[w] # Nothing => Payload(run[w], mark[w]).text.previous = mark[w].digest
<1> DEFINE q == Payload(run[w], mark[w])
<1>1. q.of = run[w] /\ TextOK(q, run[w], mark[w])
  BY TextIs
<1>2. /\ q.text.sequence = NextSequence(w)
      /\ mark[w] # Nothing => q.text.previous = mark[w].digest
  <2> HIDE DEF q
  <2> QED
    BY <1>1 DEF TextOK, NextSequence
<1>3. RunOK(run[w])
  BY DEF HeldOK
<1>4. CASE mark[w] = Nothing
  <2>1. q = Payload(q.of, Nothing)
    BY <1>1, <1>4
  <2> HIDE DEF q
  <2>2. Made(q)
    BY <1>1, <1>3, <2>1, MadeFirst DEF First
  <2> QED
    BY <1>1, <1>2, <2>2 DEF q
<1>5. CASE mark[w] # Nothing
  <2>1. PICK p : Made(p) /\ MarkFor(mark[w], p) /\ Grows(p.of, run[w])
    BY <1>5 DEF HeldOK
  <2>2. q = Payload(q.of, mark[w])
    BY <1>1
  <2> HIDE DEF q
  <2>3. Builds(p, q)
    BY <1>1, <2>1, <2>2 DEF Builds
  <2>4. Made(q)
    BY <2>1, <2>3, MadeNext
  <2> QED
    BY <1>1, <1>2, <2>4 DEF q
<1> QED
  BY <1>4, <1>5

LEMMA HeldSame ==
  ASSUME NEW v \in Writers, HeldOK(v), run'[v] = run[v], mark'[v] = mark[v],
         Busy(v)' => Busy(v) /\ putting'[v].payload = putting[v].payload
  PROVE  HeldOK(v)'
BY DEF HeldOK

LEMMA HeldMoves ==
  ASSUME IInv, \A v \in Writers : HeldOK(v), UNCHANGED <<run, mark>>,
         NEW w \in Writers, Busy(w), NEW step \in Steps, Goto(w, step)
  PROVE  \A v \in Writers : HeldOK(v)'
<1> TAKE v \in Writers
<1>1. Busy(v)' => Busy(v) /\ putting'[v].payload = putting[v].payload
  <2>1. CASE v = w
    BY <2>1, GotoFields
  <2>2. CASE v # w
    <3>1. putting'[v] = putting[v]
      BY <2>2, GotoFacts
    <3> QED
      BY <3>1 DEF Busy, At
  <2> QED
    BY <2>1, <2>2
<1> QED
  BY <1>1, HeldSame

\* A process leaves put, and keeps, drops or renews its mark and its run.
LEMMA HeldIdle ==
  ASSUME IInv, \A v \in Writers : HeldOK(v), NEW w \in Writers,
         putting' = [putting EXCEPT ![w] = Idle],
         \A v \in Writers : v # w => run'[v] = run[v] /\ mark'[v] = mark[v],
         run'[w] # Nothing => RunOK(run'[w]),
         mark'[w] # Nothing =>
           /\ run'[w] # Nothing
           /\ \E p : Made(p) /\ MarkFor(mark'[w], p) /\ Grows(p.of, run'[w])
  PROVE  \A v \in Writers : HeldOK(v)'
<1>1. ~Busy(w)' /\ \A v \in Writers : v # w => putting'[v] = putting[v]
  BY IdleFacts
<1> TAKE v \in Writers
<1>2. CASE v = w
  BY <1>1, <1>2 DEF HeldOK
<1>3. CASE v # w
  <2>1. putting'[v] = putting[v] /\ run'[v] = run[v] /\ mark'[v] = mark[v] /\ HeldOK(v)
    BY <1>1, <1>3
  <2>2. Busy(v)' => Busy(v)
    BY <2>1 DEF Busy, At
  <2> QED
    BY <2>1, <2>2, HeldSame
<1> QED
  BY <1>2, <1>3

LEMMA LinksKept ==
  ASSUME LinksOK, UNCHANGED <<files, flushed, acked>>,
         \A v \in Writers : mark'[v] = mark[v] \/ mark'[v] = Nothing
  PROVE  LinksOK'
<1>1. ASSUME NEW v \in Writers PROVE MarkLinked(v)'
  <2>1. MarkLinked(v)
    BY DEF LinksOK
  <2> QED
    BY <2>1 DEF MarkLinked
<1> QED
  BY <1>1 DEF LinksOK, FlushedOK

LEMMA FilesKept ==
  ASSUME FilesOK, UNCHANGED files, flushed' \in {flushed, files}
  PROVE  FilesOK'
BY DEF FilesOK, FileOK

\* A flush of the directory.
LEMMA LinksFlushed ==
  ASSUME LinksOK, UNCHANGED <<files, acked, mark>>, flushed' = files
  PROVE  LinksOK'
<1>1. \A v \in Writers : MarkLinked(v)'
  BY DEF LinksOK, MarkLinked
<1>2. ASSUME NEW s \in Sequences, acked'[s] # NoFile PROVE Linked(flushed', s)
  <2>1. Linked(flushed, s) /\ \A t \in Sequences : flushed[t] # NoFile => files[t] = flushed[t]
    BY <1>2 DEF LinksOK, FlushedOK
  <2> QED
    BY <2>1, LinkedKept
<1>3. FlushedOK'
  BY DEF FlushedOK
<1> QED
  BY <1>1, <1>2, <1>3 DEF LinksOK

LEMMA EmptyIsRun == RunOK(EmptyRun) /\ EmptyRun # Nothing
<1> DEFINE logs == [l \in Logs |-> [kept |-> <<>>, dropped |-> 0]]
<1>1. EmptyRun = [logs |-> logs, orders |-> <<>>, seen |-> 0]
  BY DEF EmptyRun
<1>2. logs \in [Logs -> LogState]
  <2>1. [kept |-> <<>>, dropped |-> 0] \in LogState
    BY DEF LogState
  <2> QED
    BY <2>1
<1> HIDE DEF logs
<1>3. EmptyRun \in RunState /\ EmptyRun.orders = <<>>
  BY <1>1, <1>2 DEF RunState
<1>4. DOMAIN EmptyRun = {"logs", "orders", "seen"} /\ DOMAIN Nothing = {"none"}
  BY <1>1 DEF Nothing
<1>5. EmptyRun # Nothing
  BY <1>4
<1> QED
  BY <1>3, <1>5 DEF RunOK

-----------------------------------------------------------------------------
(* The steps.                                                               *)

LEMMA FlushRootChain ==
  ASSUME IInv, ChainInv, NEW w \in Writers, FlushRoot(w), UNCHANGED <<run, mark, faults>>
  PROVE  ChainInv'
<1>1. Busy(w) /\ UNCHANGED <<files, flushed, acked, raced, rootLeft>>
  BY DEF FlushRoot, Busy, At
<1>2. \A v \in Writers : HeldOK(v)'
  <2>1. CASE Check(putting[w].sequence) = "idle"
    <3>1. putting' = [putting EXCEPT ![w] = Idle]
      BY <2>1 DEF FlushRoot
    <3>2. HeldOK(w)
      BY DEF ChainInv
    <3>3. /\ run[w] # Nothing => RunOK(run[w])
          /\ mark[w] # Nothing =>
               /\ run[w] # Nothing
               /\ \E p : Made(p) /\ MarkFor(mark[w], p) /\ Grows(p.of, run[w])
      BY <3>2 DEF HeldOK
    <3> QED
      BY <3>1, <3>3, HeldIdle DEF ChainInv
  <2>2. CASE Check(putting[w].sequence) # "idle"
    <3>1. /\ Goto(w, Check(putting[w].sequence))
          /\ Check(putting[w].sequence) \in Steps
      BY <2>2 DEF FlushRoot, Check, Steps
    <3> QED
      BY <1>1, <3>1, HeldMoves DEF ChainInv
  <2> QED
    BY <2>1, <2>2
<1>3. FilesOK'
  BY <1>1, FilesKept DEF ChainInv
<1>4. ASSUME ~rootLeft', ~raced' PROVE LinksOK'
  BY <1>1, <1>4, LinksKept DEF ChainInv
<1> QED
  BY <1>2, <1>3, <1>4 DEF ChainInv

LEMMA RenameIdentityChain ==
  ASSUME IInv, ChainInv, NEW w \in Writers, RenameIdentity(w), UNCHANGED <<run, mark, faults>>
  PROVE  ChainInv'
<1>1. Busy(w) /\ UNCHANGED <<files, flushed, acked, raced, rootLeft>> /\ Goto(w, "flush identity")
      /\ "flush identity" \in Steps
  BY DEF RenameIdentity, Busy, At, Steps
<1>2. \A v \in Writers : HeldOK(v)'
  BY <1>1, HeldMoves DEF ChainInv
<1>3. FilesOK'
  BY <1>1, FilesKept DEF ChainInv
<1>4. ASSUME ~rootLeft', ~raced' PROVE LinksOK'
  BY <1>1, <1>4, LinksKept DEF ChainInv
<1> QED
  BY <1>2, <1>3, <1>4 DEF ChainInv

LEMMA FlushIdentityChain ==
  ASSUME IInv, ChainInv, NEW w \in Writers, FlushIdentity(w), UNCHANGED <<run, mark, faults>>
  PROVE  ChainInv'
<1>1. Busy(w) /\ UNCHANGED <<files, acked, raced, rootLeft>> /\ Goto(w, "state")
      /\ "state" \in Steps /\ flushed' = files
  BY DEF FlushIdentity, FsyncDirectory, Busy, At, Steps
<1>2. \A v \in Writers : HeldOK(v)'
  BY <1>1, HeldMoves DEF ChainInv
<1>3. FilesOK'
  BY <1>1, FilesKept DEF ChainInv
<1>4. ASSUME ~rootLeft', ~raced' PROVE LinksOK'
  BY <1>1, <1>4, LinksFlushed DEF ChainInv
<1> QED
  BY <1>2, <1>3, <1>4 DEF ChainInv

LEMMA PutFailsChain ==
  ASSUME IInv, ChainInv, NEW w \in Writers, PutFails(w)
  PROVE  ChainInv'
<1>1. /\ putting' = [putting EXCEPT ![w] = Idle]
      /\ rootLeft' = (rootLeft \/ At(w, "flush root"))
      /\ UNCHANGED <<files, flushed, acked, raced, run, mark>>
  BY DEF PutFails, Fail, Stops
<1>2. HeldOK(w)
  BY DEF ChainInv
<1>3. /\ run[w] # Nothing => RunOK(run[w])
      /\ mark[w] # Nothing =>
           /\ run[w] # Nothing
           /\ \E p : Made(p) /\ MarkFor(mark[w], p) /\ Grows(p.of, run[w])
  BY <1>2 DEF HeldOK
<1>4. \A v \in Writers : HeldOK(v)'
  BY <1>1, <1>3, HeldIdle DEF ChainInv
<1>5. FilesOK'
  BY <1>1, FilesKept DEF ChainInv
<1>6. ASSUME ~rootLeft', ~raced' PROVE LinksOK'
  BY <1>1, <1>6, LinksKept DEF ChainInv
<1> QED
  BY <1>4, <1>5, <1>6 DEF ChainInv

LEMMA KilledChain ==
  ASSUME IInv, ChainInv, NEW w \in Writers, Killed(w)
  PROVE  ChainInv'
<1>1. /\ putting' = [putting EXCEPT ![w] = Idle]
      /\ rootLeft' = (rootLeft \/ At(w, "flush root"))
      /\ UNCHANGED <<files, flushed, acked, raced>>
  BY DEF Killed, Kill, Stops
<1>2. /\ run' = [v \in Writers |-> IF v = w THEN Nothing ELSE run[v]]
      /\ mark' = [v \in Writers |-> IF v = w THEN Nothing ELSE mark[v]]
  BY DEF Killed, IInv, Shape
<1>3. run'[w] = Nothing /\ mark'[w] = Nothing
      /\ \A v \in Writers : v # w => run'[v] = run[v] /\ mark'[v] = mark[v]
  BY <1>2
<1>4. \A v \in Writers : HeldOK(v)'
  BY <1>1, <1>3, HeldIdle DEF ChainInv
<1>5. FilesOK'
  BY <1>1, FilesKept DEF ChainInv
<1>6. ASSUME ~rootLeft', ~raced' PROVE LinksOK'
  BY <1>1, <1>3, <1>6, LinksKept DEF ChainInv
<1> QED
  BY <1>4, <1>5, <1>6 DEF ChainInv

LEMMA RenameStateChain ==
  ASSUME IInv, ChainInv, NEW w \in Writers, RenameState(w), UNCHANGED <<run, mark, faults>>
  PROVE  ChainInv'
<1> DEFINE s == putting[w].sequence
           stored == putting[w].payload
<1>1. /\ Busy(w) /\ UNCHANGED <<flushed, acked, raced, rootLeft>> /\ Goto(w, "flush state")
      /\ "flush state" \in Steps /\ ~At(w, "flush state")
  BY DEF RenameState, Busy, At, Steps
<1>2. s \in Sequences /\ run[w] # Nothing /\ s = NextSequence(w)
  BY <1>1 DEF IInv, Sound, PutOK
<1>3. files' = [t \in Sequences |-> IF t = s THEN stored ELSE files[t]]
  BY <1>2 DEF RenameState, IInv, Shape
<1>4. Made(stored) /\ stored.text.sequence = s
  <2>1. HeldOK(w) /\ stored = Payload(run[w], mark[w])
    BY <1>1 DEF ChainInv, HeldOK
  <2> QED
    BY <1>2, <2>1, PayloadMade
<1>5. \A v \in Writers : HeldOK(v)'
  BY <1>1, HeldMoves DEF ChainInv
<1> HIDE DEF s, stored
<1>6. FilesOK'
  BY <1>1, <1>3, <1>4 DEF ChainInv, FilesOK, FileOK
<1>7. ASSUME ~rootLeft', ~raced' PROVE LinksOK'
  <2>1. LinksOK /\ files[s] = NoFile /\ flushed[s] = NoFile
    <3>2. LinksOK /\ ProgressOK(w)
      BY <1>1, <1>7 DEF ChainInv, IInv, Unraced
    <3>3. files[s] = NoFile
      BY <1>1, <3>2 DEF ProgressOK, s
    <3>4. flushed[s] = NoFile
      BY <1>2, <3>3 DEF IInv, Sound
    <3> QED
      BY <3>2, <3>3, <3>4
  <2>2. \A t \in Sequences : files[t] # NoFile => files'[t] = files[t]
    BY <1>3, <2>1
  <2>3. FlushedOK'
    BY <1>1, <2>1, <2>2 DEF LinksOK, FlushedOK
  <2>4. \A t \in Sequences : acked'[t] # NoFile => Linked(flushed', t)
    BY <1>1, <2>1 DEF LinksOK
  <2>5. ASSUME NEW v \in Writers PROVE MarkLinked(v)'
    <3> SUFFICES ASSUME mark[v] # Nothing
                 PROVE  /\ mark[v].sequence \in Sequences /\ Linked(files', mark[v].sequence)
                        /\ files'[mark[v].sequence].text = mark[v].digest
      BY DEF MarkLinked
    <3> DEFINE n == mark[v].sequence
    <3>1. /\ n \in Sequences /\ Linked(files, n) /\ files[n].text = mark[v].digest
      BY <2>1 DEF LinksOK, MarkLinked
    <3> HIDE DEF n
    <3>2. files[n] # NoFile
      <4>1. n \in 0 .. n
        BY <3>1, StoreAssumption DEF Sequences
      <4> QED
        BY <3>1, <4>1 DEF Linked
    <3>3. Linked(files', n)
      BY <2>2, <3>1, LinkedKept
    <3>4. files'[n].text = mark[v].digest
      BY <2>2, <3>1, <3>2
    <3> QED
      BY <3>1, <3>3, <3>4 DEF n
  <2> QED
    BY <2>3, <2>4, <2>5 DEF LinksOK
<1> QED
  BY <1>5, <1>6, <1>7 DEF ChainInv

\* A process that is not in put starts or resumes the run.
LEMMA HeldTaken ==
  ASSUME IInv, \A v \in Writers : HeldOK(v), NEW w \in Writers, ~Busy(w), putting' = putting,
         \A v \in Writers : v # w => run'[v] = run[v] /\ mark'[v] = mark[v],
         run'[w] # Nothing => RunOK(run'[w]),
         mark'[w] # Nothing =>
           /\ run'[w] # Nothing
           /\ \E p : Made(p) /\ MarkFor(mark'[w], p) /\ Grows(p.of, run'[w])
  PROVE  \A v \in Writers : HeldOK(v)'
<1>1. \A v \in Writers : Busy(v)' <=> Busy(v)
  BY DEF Busy, At
<1> TAKE v \in Writers
<1>2. CASE v = w
  BY <1>1, <1>2 DEF HeldOK
<1>3. CASE v # w
  <2>1. putting'[v] = putting[v] /\ run'[v] = run[v] /\ mark'[v] = mark[v] /\ HeldOK(v)
    BY <1>3
  <2> QED
    BY <1>1, <2>1, HeldSame
<1> QED
  BY <1>2, <1>3

LEMMA InitializeChain ==
  ASSUME IInv, ChainInv, NEW w \in Writers, Initialize(w)
  PROVE  ChainInv'
<1>1. /\ putting' = putting /\ UNCHANGED <<files, flushed, acked, raced, rootLeft, mark>>
      /\ run[w] = Nothing /\ ~Busy(w)
      /\ run' = [v \in Writers |-> IF v = w THEN EmptyRun ELSE run[v]]
  BY DEF Initialize, storeVars, IInv, Shape, Sound, PutOK
<1>2. mark'[w] = Nothing
  BY <1>1 DEF ChainInv, HeldOK
<1>3. run'[w] = EmptyRun /\ \A v \in Writers : v # w => run'[v] = run[v]
  BY <1>1
<1>4. \A v \in Writers : HeldOK(v)'
  BY <1>1, <1>2, <1>3, EmptyIsRun, HeldTaken DEF ChainInv
<1>5. FilesOK'
  BY <1>1, FilesKept DEF ChainInv
<1>6. ASSUME ~rootLeft', ~raced' PROVE LinksOK'
  BY <1>1, <1>6, LinksKept DEF ChainInv
<1> QED
  BY <1>4, <1>5, <1>6 DEF ChainInv

\* What is restored is the run the last checkpoint was taken of.
LEMMA ResumeChain ==
  ASSUME IInv, ChainInv, NEW w \in Writers, Resume(w)
  PROVE  ChainInv'
<1> DEFINE p == files[latest]
           held == MarkOf(p, {})
           read == read_checkpoints(Chain)
<1>1. /\ putting' = putting /\ UNCHANGED <<files, flushed, acked, raced, rootLeft>>
      /\ run[w] = Nothing /\ ~Busy(w) /\ latest # -1 /\ read # Refused
      /\ run' = [v \in Writers |-> IF v = w THEN read ELSE run[v]]
      /\ mark' = [v \in Writers |-> IF v = w THEN held ELSE mark[v]]
  BY DEF Resume, storeVars, IInv, Shape, Sound, PutOK
<1>2. latest \in Stored
  BY <1>1, LatestIs DEF latest
<1>3. read = p.of /\ Linked(files, latest)
  BY <1>1, <1>2, ReadsTrue DEF ChainInv, Chain
<1>4. latest \in Sequences /\ Made(p) /\ p.text.sequence = latest
  BY <1>2 DEF ChainInv, FilesOK, FileOK, Stored
<1>5. RunOK(p.of) /\ Grows(p.of, p.of) /\ MarkFor(held, p)
  BY <1>4, MadeFacts, GrowsSelf DEF MarkFor
<1>6. held # Nothing /\ held.sequence = latest /\ held.digest = p.text
  BY <1>4, <1>5, MarkIs
<1>7. read # Nothing
  <2>1. DOMAIN p.of = {"logs", "orders", "seen"} /\ DOMAIN Nothing = {"none"}
    BY <1>5 DEF RunOK, RunState, Nothing
  <2> HIDE DEF p
  <2> QED
    BY <1>3, <2>1
<1> HIDE DEF held, read, p
<1>8. /\ run'[w] = p.of /\ run'[w] # Nothing /\ mark'[w] = held
      /\ \A v \in Writers : v # w => run'[v] = run[v] /\ mark'[v] = mark[v]
  BY <1>1, <1>3, <1>7
<1>9. \A v \in Writers : HeldOK(v)'
  BY <1>1, <1>4, <1>5, <1>8, HeldTaken DEF ChainInv
<1>10. FilesOK'
  BY <1>1, FilesKept DEF ChainInv
<1>11. ASSUME ~rootLeft', ~raced' PROVE LinksOK'
  <2>1. LinksOK
    BY <1>1, <1>11 DEF ChainInv
  <2>2. ASSUME NEW v \in Writers PROVE MarkLinked(v)'
    <3>1. CASE v = w
      <4>1. mark'[v] = held
        BY <1>8, <3>1
      <4>2. /\ held.sequence \in Sequences /\ Linked(files', held.sequence)
            /\ files'[held.sequence].text = held.digest
        BY <1>1, <1>3, <1>4, <1>6 DEF p
      <4> QED
        BY <4>1, <4>2 DEF MarkLinked
    <3>2. CASE v # w
      <4>1. mark'[v] = mark[v] /\ MarkLinked(v)
        BY <1>8, <2>1, <3>2 DEF LinksOK
      <4> QED
        BY <1>1, <4>1 DEF MarkLinked
    <3> QED
      BY <3>1, <3>2
  <2> QED
    BY <1>1, <2>1, <2>2 DEF LinksOK, FlushedOK
<1> QED
  BY <1>9, <1>10, <1>11 DEF ChainInv

LEMMA CheckpointChain ==
  ASSUME IInv, ChainInv, NEW w \in Writers, Checkpoint(w)
  PROVE  ChainInv'
<1>1. run[w] # Nothing /\ UNCHANGED <<mark, faults>>
  BY DEF Checkpoint
<1>2. PICK batch \in Batches :
        LET advanced == advance_all(run[w], w, batch)
        IN  /\ run' = [run EXCEPT ![w] = advanced]
            /\ BeginPut(w, NextSequence(w), Payload(advanced, mark[w]))
  BY DEF Checkpoint
<1> DEFINE advanced == advance_all(run[w], w, batch)
           payload == Payload(advanced, mark[w])
           sequence == NextSequence(w)
           step == IF root = "absent" THEN "flush root" ELSE Check(sequence)
<1>3. HeldOK(w) /\ RunOK(run[w])
  BY <1>1 DEF ChainInv, HeldOK
<1>4. Grows(run[w], advanced)
  BY <1>3, AdvanceAllGrows
<1>5. RunOK(advanced) /\ advanced # Nothing
  <2> HIDE DEF advanced
  <2>1. RunOK(advanced)
    BY <1>4 DEF Grows
  <2>2. DOMAIN advanced = {"logs", "orders", "seen"} /\ DOMAIN Nothing = {"none"}
    BY <2>1 DEF RunOK, RunState, Nothing
  <2> QED
    BY <2>1, <2>2
<1>6. /\ run' = [v \in Writers |-> IF v = w THEN advanced ELSE run[v]]
      /\ raced' = (raced \/ Contended(w, sequence))
      /\ UNCHANGED <<files, flushed, acked, rootLeft>>
  BY <1>2 DEF BeginPut, IInv, Shape
<1>7. putting' = [v \in Writers |->
                    IF v # w THEN putting[v]
                    ELSE IF step = "idle" THEN Idle
                    ELSE [at |-> step, sequence |-> sequence, payload |-> payload]]
  BY <1>2 DEF BeginPut, IInv, Shape
<1>8. mark[w] # Nothing => \E p : Made(p) /\ MarkFor(mark[w], p) /\ Grows(p.of, advanced)
  <2> HAVE mark[w] # Nothing
  <2>1. PICK p : Made(p) /\ MarkFor(mark[w], p) /\ Grows(p.of, run[w])
    BY <1>3 DEF HeldOK
  <2> HIDE DEF advanced
  <2> QED
    BY <1>4, <2>1, GrowsOn
<1> HIDE DEF step, sequence, payload
<1>9. /\ Busy(w)' => putting'[w].payload = payload
      /\ \A v \in Writers : v # w => putting'[v] = putting[v]
  BY <1>7 DEF Busy, At, Idle
<1>10. run'[w] = advanced /\ mark' = mark /\ \A v \in Writers : v # w => run'[v] = run[v]
  BY <1>1, <1>6
<1> HIDE DEF advanced
<1>11. ASSUME NEW v \in Writers PROVE HeldOK(v)'
  <2>1. CASE v = w
    <3>1. payload = Payload(run'[v], mark'[v])
      BY <1>10, <2>1 DEF payload
    <3> QED
      BY <1>5, <1>8, <1>9, <1>10, <2>1, <3>1 DEF HeldOK
  <2>2. CASE v # w
    <3>1. putting'[v] = putting[v] /\ run'[v] = run[v] /\ mark'[v] = mark[v] /\ HeldOK(v)
      BY <1>9, <1>10, <2>2 DEF ChainInv
    <3>2. Busy(v)' => Busy(v)
      BY <3>1 DEF Busy, At
    <3> QED
      BY <3>1, <3>2, HeldSame
  <2> QED
    BY <2>1, <2>2
<1>12. FilesOK'
  BY <1>6, FilesKept DEF ChainInv
<1>13. ASSUME ~rootLeft', ~raced' PROVE LinksOK'
  BY <1>6, <1>10, <1>13, LinksKept DEF ChainInv
<1> QED
  BY <1>11, <1>12, <1>13 DEF ChainInv

LEMMA ReturnsChain ==
  ASSUME IInv, ChainInv, NEW w \in Writers, Returns(w)
  PROVE  ChainInv'
<1> DEFINE s == putting[w].sequence
           stored == putting[w].payload
           held == MarkOf(stored, {run[w].orders})
<1>1. /\ Busy(w) /\ At(w, "flush state") /\ putting' = [putting EXCEPT ![w] = Idle]
      /\ flushed' = files /\ UNCHANGED <<files, raced, rootLeft, run>>
  BY DEF Returns, FlushState, FsyncDirectory, Busy, At
<1>2. s \in Sequences /\ run[w] # Nothing /\ s = NextSequence(w)
  BY <1>1 DEF IInv, Sound, PutOK
<1>3. /\ acked' = [t \in Sequences |-> IF t = s THEN stored ELSE acked[t]]
      /\ mark' = [v \in Writers |-> IF v = w THEN held ELSE mark[v]]
  BY DEF Returns, FlushState, IInv, Shape
<1>4. /\ HeldOK(w) /\ RunOK(run[w]) /\ stored = Payload(run[w], mark[w])
  BY <1>1, <1>2 DEF ChainInv, HeldOK
<1>5. /\ Made(stored) /\ stored.of = run[w] /\ stored.text.sequence = s
      /\ mark[w] # Nothing => stored.text.previous = mark[w].digest
  BY <1>2, <1>4, PayloadMade
<1> HIDE DEF stored
<1>6. MarkFor(held, stored) /\ Grows(stored.of, run[w])
  BY <1>4, <1>5, GrowsSelf DEF MarkFor
<1>7. held # Nothing /\ held.sequence = s /\ held.digest = stored.text
  BY <1>5, <1>6, MarkIs
<1> HIDE DEF held
<1>8. mark'[w] = held /\ run' = run /\ \A v \in Writers : v # w => mark'[v] = mark[v]
  BY <1>1, <1>3
<1>9. \A v \in Writers : HeldOK(v)'
  BY <1>1, <1>2, <1>4, <1>5, <1>6, <1>8, HeldIdle DEF ChainInv
<1>10. FilesOK'
  BY <1>1, FilesKept DEF ChainInv
<1>11. ASSUME ~rootLeft', ~raced' PROVE LinksOK'
  <2>1. LinksOK /\ ProgressOK(w) /\ MarkLinked(w)
    BY <1>1, <1>11 DEF ChainInv, LinksOK, IInv, Unraced
  <2>2. files[s] = stored
    BY <1>1, <2>1 DEF ProgressOK, s, stored
  <2>3. files[s] # NoFile
    BY <1>1, <2>2 DEF IInv, Sound, PutOK, stored
  <2> HIDE DEF s
  <2>4. Linked(files, s)
    <3>1. CASE mark[w] = Nothing
      <4>1. s = 0
        BY <1>2, <3>1 DEF NextSequence
      <4> QED
        BY <2>3, <4>1 DEF Linked
    <3>2. CASE mark[w] # Nothing
      <4> DEFINE n == mark[w].sequence
      <4>1. /\ n \in Sequences /\ Linked(files, n) /\ files[n].text = mark[w].digest
            /\ s = n + 1
        BY <1>2, <2>1, <3>2 DEF MarkLinked, NextSequence
      <4>2. stored.text.previous = files[n].text
        BY <1>5, <3>2, <4>1
      <4> HIDE DEF n
      <4>3. n \in Nat /\ s - 1 = n
        BY <4>1, StoreAssumption DEF Sequences
      <4>4. \A i \in 0 .. s : i = s \/ i \in 0 .. n
        BY <4>1, <4>3
      <4> QED
        BY <2>2, <2>3, <4>1, <4>2, <4>3, <4>4 DEF Linked
    <3> QED
      BY <3>1, <3>2
  <2>5. ASSUME NEW t \in Sequences, acked'[t] # NoFile PROVE Linked(flushed', t)
    <3>1. CASE t = s
      BY <1>1, <2>4, <3>1
    <3>2. CASE t # s
      <4>1. acked[t] # NoFile
        BY <1>3, <2>5, <3>2
      <4>2. Linked(flushed, t) /\ \A u \in Sequences : flushed[u] # NoFile => files[u] = flushed[u]
        BY <2>1, <4>1 DEF LinksOK, FlushedOK
      <4> QED
        BY <1>1, <4>2, LinkedKept
    <3> QED
      BY <3>1, <3>2
  <2>6. ASSUME NEW v \in Writers PROVE MarkLinked(v)'
    <3>1. CASE v = w
      <4>1. mark'[v] = held
        BY <1>8, <3>1
      <4>2. /\ held.sequence \in Sequences /\ Linked(files', held.sequence)
            /\ files'[held.sequence].text = held.digest
        BY <1>1, <1>2, <1>7, <2>2, <2>4
      <4> QED
        BY <4>1, <4>2 DEF MarkLinked
    <3>2. CASE v # w
      <4>1. mark'[v] = mark[v] /\ MarkLinked(v)
        BY <1>8, <2>1, <3>2 DEF LinksOK
      <4> QED
        BY <1>1, <4>1 DEF MarkLinked
    <3> QED
      BY <3>1, <3>2
  <2>7. FlushedOK'
    BY <1>1 DEF FlushedOK
  <2> QED
    BY <2>5, <2>6, <2>7 DEF LinksOK
<1> QED
  BY <1>9, <1>10, <1>11 DEF ChainInv

LEMMA OutageChain ==
  ASSUME IInv, ChainInv, Outage
  PROVE  ChainInv'
<1>1. /\ putting' = [w \in Writers |-> Idle] /\ flushed' = files'
      /\ run' = [w \in Writers |-> Nothing] /\ mark' = [w \in Writers |-> Nothing]
      /\ UNCHANGED <<acked, raced, rootLeft>> /\ (root = "durable" => root' = "durable")
  BY DEF Outage, PowerLoss
<1>2. \A s \in Sequences : files'[s] \in {files[s], flushed[s], NoFile}
  BY DEF Outage, PowerLoss, NoFiles
<1>3. \A s \in Sequences : root' = "durable" => files'[s] \in {files[s], flushed[s]}
  BY <1>1 DEF Outage, PowerLoss
<1>4. \A w \in Writers : ~Busy(w)' /\ run'[w] = Nothing /\ mark'[w] = Nothing
  <2>1. \A w \in Writers : putting'[w] = Idle
    BY <1>1
  <2> QED
    BY <1>1, <2>1 DEF Busy, At, Idle
<1>5. \A w \in Writers : HeldOK(w)'
  BY <1>4 DEF HeldOK
<1>6. FilesOK'
  BY <1>1, <1>2 DEF ChainInv, FilesOK, FileOK
<1>7. ASSUME ~rootLeft', ~raced' PROVE LinksOK'
  <2>1. LinksOK /\ RootOK
    BY <1>1, <1>7 DEF ChainInv, IInv, Unraced
  <2>2. ASSUME NEW s \in Sequences, acked'[s] # NoFile PROVE Linked(flushed', s)
    <3>1. acked[s] # NoFile /\ Linked(flushed, s)
      BY <1>1, <2>1, <2>2 DEF LinksOK
    <3>2. root = "durable"
      BY <2>1, <3>1 DEF RootOK, NoFiles
    <3>3. \A t \in Sequences : flushed[t] # NoFile => flushed'[t] = flushed[t]
      BY <1>1, <1>3, <2>1, <3>2 DEF LinksOK, FlushedOK
    <3> QED
      BY <3>1, <3>3, LinkedKept
  <2>3. \A w \in Writers : MarkLinked(w)'
    BY <1>4 DEF MarkLinked
  <2>4. FlushedOK'
    BY <1>1 DEF FlushedOK
  <2> QED
    BY <2>2, <2>3, <2>4 DEF LinksOK
<1> QED
  BY <1>5, <1>6, <1>7 DEF ChainInv

LEMMA InitChain == Init => ChainInv
<1> SUFFICES ASSUME Init PROVE ChainInv
  OBVIOUS
<1>1. /\ \A w \in Writers : ~Busy(w) /\ run[w] = Nothing /\ mark[w] = Nothing
      /\ \A s \in Sequences : files[s] = NoFile /\ flushed[s] = NoFile /\ acked[s] = NoFile
  BY DEF Init, StoreInit, Busy, At, Idle, NoFiles
<1> QED
  BY <1>1 DEF ChainInv, FilesOK, FileOK, HeldOK, LinksOK, FlushedOK, MarkLinked

LEMMA ChainInvariant == Spec => []ChainInv
<1>1. ASSUME IInv, ChainInv, [Next]_vars PROVE ChainInv'
  <2>1. ASSUME NEW w \in Writers,
               \/ Initialize(w) \/ Resume(w)   \/ Checkpoint(w) \/ PutStep(w)
               \/ Returns(w)    \/ PutFails(w) \/ Killed(w)
        PROVE  ChainInv'
    <3>1. CASE Initialize(w)
      BY <1>1, <3>1, InitializeChain
    <3>2. CASE Resume(w)
      BY <1>1, <3>2, ResumeChain
    <3>3. CASE Checkpoint(w)
      BY <1>1, <3>3, CheckpointChain
    <3>4. CASE PutStep(w)
      <4>1. UNCHANGED <<run, mark, faults>>
        BY <3>4 DEF PutStep
      <4>2. CASE FlushRoot(w)
        BY <1>1, <4>1, <4>2, FlushRootChain
      <4>3. CASE RenameIdentity(w)
        BY <1>1, <4>1, <4>3, RenameIdentityChain
      <4>4. CASE FlushIdentity(w)
        BY <1>1, <4>1, <4>4, FlushIdentityChain
      <4>5. CASE RenameState(w)
        BY <1>1, <4>1, <4>5, RenameStateChain
      <4> QED
        BY <3>4, <4>2, <4>3, <4>4, <4>5 DEF PutStep
    <3>5. CASE Returns(w)
      BY <1>1, <3>5, ReturnsChain
    <3>6. CASE PutFails(w)
      BY <1>1, <3>6, PutFailsChain
    <3>7. CASE Killed(w)
      BY <1>1, <3>7, KilledChain
    <3> QED
      BY <2>1, <3>1, <3>2, <3>3, <3>4, <3>5, <3>6, <3>7
  <2>2. CASE Outage
    BY <1>1, <2>2, OutageChain
  <2>3. CASE UNCHANGED vars
    BY <1>1, <2>3 DEF vars, storeVars, ChainInv, FilesOK, FileOK, HeldOK, Busy, At,
                      LinksOK, FlushedOK, MarkLinked
  <2> QED
    BY <1>1, <2>1, <2>2, <2>3 DEF Next
<1>2. Spec => []IInv
  BY Invariant
<1> QED
  BY <1>1, <1>2, InitChain, PTL DEF Spec

\* A chain that is not refused is read to its last checkpoint.
LEMMA Restores ==
  Spec => [](read_checkpoints(Chain) # Refused
               => latest \in Stored /\ read_checkpoints(Chain) = files[latest].of)
<1>1. ASSUME ChainInv, read_checkpoints(Chain) # Refused
      PROVE  latest \in Stored /\ read_checkpoints(Chain) = files[latest].of
  <2>1. Stored # {}
    <3> SUFFICES ASSUME Stored = {} PROVE FALSE
      OBVIOUS
    <3>1. Chain = <<>>
      <4>1. latest = -1 /\ Cardinality({s \in Stored : s <= -1}) = 0
        BY FS_EmptySet DEF latest
      <4>2. Chain = [n \in 1 .. 0 |->
                       files[CHOOSE s \in {t \in Stored : t <= -1} :
                               Cardinality({t \in {u \in Stored : u <= -1} : t <= s}) = n].text]
        BY <4>1 DEF Chain, ChainTo
      <4> QED
        BY <4>2
    <3> QED
      BY <1>1, <3>1 DEF read_checkpoints
  <2>2. latest \in Stored
    BY <2>1, LatestIs
  <2> QED
    BY <1>1, <2>2, ReadsTrue DEF ChainInv, Chain
<1> QED
  BY <1>1, ChainInvariant, PTL

(* Whatever the store holds - left by kills, failed calls, power losses and *)
(* processes that raced - a chain that is not refused restores exactly the  *)
(* run its last checkpoint was taken of, and so does every resume           *)
(* (read_checkpoints over FileRunStateStore).                               *)
THEOREM ChainIsTrueTheorem == Spec => []ChainIsTrue
<1>1. (read_checkpoints(Chain) # Refused
         => latest \in Stored /\ read_checkpoints(Chain) = files[latest].of)
      => ChainIsTrue
  BY DEF ChainIsTrue
<1> QED
  BY <1>1, Restores, PTL

(* A checkpoint put has returned for stays in the store as it was written,  *)
(* its run stays listed, and the chain up to it is never refused: nothing   *)
(* put returned for is missing from the middle of it, and each text names   *)
(* the one before.  So through kills, failed calls and power losses, as     *)
(* long as no two processes were in put for one sequence at once and none   *)
(* stopped between making the run's directory and flushing the root: from   *)
(* either on, nothing is claimed (FileRunStateStore.put, ensure_directory). *)
THEOREM AckedIsKeptTheorem == Spec => []AckedIsKept
<1>1. ASSUME IInv, ChainInv PROVE AckedIsKept
  <2> SUFFICES ASSUME ~raced, ~rootLeft
               PROVE  /\ acked # NoFiles => Listed
                      /\ \A s \in Sequences : acked[s] # NoFile =>
                           files[s] = acked[s] /\ read_checkpoints(ChainTo(s)) # Refused
    BY DEF AckedIsKept
  <2>1. AckedOK /\ LinksOK
    BY <1>1 DEF IInv, Unraced, ChainInv
  <2>2. ASSUME acked # NoFiles PROVE Listed
    <3>1. PICK s \in Sequences : acked[s] # NoFile
      BY <1>1, <2>2 DEF IInv, Shape, NoFiles
    <3>2. files[s] # NoFile /\ identity = "durable"
      BY <2>1, <3>1 DEF AckedOK
    <3> QED
      BY <3>2 DEF Listed, Stored
  <2>3. ASSUME NEW s \in Sequences, acked[s] # NoFile
        PROVE  read_checkpoints(ChainTo(s)) # Refused
    <3>1. Linked(flushed, s) /\ \A t \in Sequences : flushed[t] # NoFile => files[t] = flushed[t]
      BY <2>1, <2>3 DEF LinksOK, FlushedOK
    <3>2. Linked(files, s)
      BY <3>1, LinkedKept
    <3> QED
      BY <1>1, <3>2, LinkedReads DEF ChainInv
  <2> QED
    BY <2>1, <2>2, <2>3 DEF AckedOK
<1> QED
  BY <1>1, Invariant, ChainInvariant, PTL
=============================================================================
