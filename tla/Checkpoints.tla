---------------------------- MODULE Checkpoints ----------------------------
(* A run, its retention and its incremental checkpoints: runtime/run.py      *)
(* (RunEngine.advance), runtime/retention.py and runtime/checkpoint.py.      *)
(*                                                                           *)
(* A run state is its logs, its per-order map and the rest, which a          *)
(* checkpoint always writes whole.  A log holds the entries it kept after    *)
(* the number it dropped.  The eighteen logs and the three maps are handled  *)
(* alike and separately: two logs and one map stand for them.  A digest is   *)
(* taken to be injective, so a payload stands for its own digest.            *)
EXTENDS Integers, Sequences

CONSTANT Bound    \* RetentionPolicy.steps, the entries a log keeps

ASSUME BoundAssumption == Bound \in Nat \ {0}

Logs == {"steps", "skipped"}

Nothing == [none |-> TRUE]

-----------------------------------------------------------------------------
(* common/append_log.py and runtime/retention.py                             *)

append(log, item) == [log EXCEPT !.kept = Append(@, item)]

retain_last(log, count) ==
  LET excess == Len(log.kept) - count
  IN  IF excess <= 0 THEN log
      ELSE [kept    |-> SubSeq(log.kept, excess + 1, Len(log.kept)),
            dropped |-> log.dropped + excess]

slack == IF Bound \div 8 > 1 THEN Bound \div 8 ELSE 1

trimmed(log) ==
  IF Len(log.kept) <= Bound + slack THEN log ELSE retain_last(log, Bound)

EmptyRun == [logs   |-> [l \in Logs |-> [kept |-> <<>>, dropped |-> 0]],
             orders |-> <<>>, seen |-> 0]

-----------------------------------------------------------------------------
(* An ordered map as the entries a reader iterates: a key keeps the place it *)
(* was first given (OrderBook.add, dict.update).                             *)

Keys(entries) == {entries[i][1] : i \in DOMAIN entries}

Put(entries, e) ==
  IF e[1] \in Keys(entries)
  THEN [i \in DOMAIN entries |-> IF entries[i][1] = e[1] THEN e ELSE entries[i]]
  ELSE Append(entries, e)

PutAll(entries, changed) ==
  LET after[n \in 0..Len(changed)] ==
        IF n = 0 THEN entries ELSE Put(after[n - 1], changed[n])
  IN  after[Len(changed)]

-----------------------------------------------------------------------------
(* RunEngine.advance.  A record that is stale, regresses in time or has a    *)
(* price its instrument cannot take is recorded as skipped; any other is     *)
(* recorded as a step, which may add an order or change one.  A record is    *)
(* told apart by its number and by the process that took it; the retention   *)
(* follows the record.                                                       *)

Kinds == {"skip", "add", "change"}

Retained(state) == [state EXCEPT !.logs = [l \in Logs |-> trimmed(@[l])]]

Log(state, l, record) == [state EXCEPT !.logs[l] = append(@, record)]

OrderOf(state, kind) == IF kind = "add" THEN Len(state.orders) + 1 ELSE 1

advance(state, by, kind) ==
  LET record == <<by, state.seen + 1>>
      seen   == [state EXCEPT !.seen = @ + 1]
  IN  Retained(IF kind = "skip" THEN Log(seen, "skipped", record)
               ELSE [Log(seen, "steps", record) EXCEPT
                       !.orders = Put(@, <<OrderOf(state, kind), record>>)])

\* What a driver does between two checkpoints: the records of a batch, in order.
advance_all(state, by, batch) ==
  LET after[n \in 0..Len(batch)] ==
        IF n = 0 THEN state ELSE advance(after[n - 1], by, batch[n])
  IN  after[Len(batch)]

-----------------------------------------------------------------------------
(* checkpoint(state, previous)                                               *)

End(log) == log.dropped + Len(log.kept)

Ends(state) == [l \in Logs |-> End(state.logs[l])]

\* A segment is taken from a mark no later than the state.
Covers(mark, state) == \A l \in Logs : mark.ends[l] <= Ends(state)[l]

Start(state, mark, l) ==
  IF mark = Nothing \/ mark.ends[l] < state.logs[l].dropped
  THEN state.logs[l].dropped ELSE mark.ends[l]

\* _cut: the entries of a log from a position of its whole history on.
Cut(log, start) ==
  SubSeq(log.kept, start - log.dropped + 1, Len(log.kept))

\* _changed gives up when nothing is recorded to compare with, or an entry is
\* gone or has moved.
MustWriteWhole(recorded, current) ==
  \A held \in recorded :
    \/ Len(current) < Len(held)
    \/ \E i \in DOMAIN held : current[i][1] # held[i][1]

Changed(held, current) ==
  LET changed[n \in 0..Len(current)] ==
        IF n = 0 THEN <<>>
        ELSE IF n > Len(held) \/ current[n] # held[n]
             THEN Append(changed[n - 1], current[n])
             ELSE changed[n - 1]
  IN  changed[Len(current)]

\* The entries the mark recorded: the empty set in a mark that was rebuilt.
RecordedBy(mark) == IF mark = Nothing THEN {} ELSE mark.entries

checkpoint(state, mark) ==
  LET whole == MustWriteWhole(RecordedBy(mark), state.orders)
  IN  [sequence |-> IF mark = Nothing THEN 0 ELSE mark.sequence + 1,
       previous |-> IF mark = Nothing THEN Nothing ELSE mark.digest,
       logs     |-> [l \in Logs |->
                       [start   |-> Start(state, mark, l),
                        end     |-> End(state.logs[l]),
                        dropped |-> state.logs[l].dropped,
                        entries |-> Cut(state.logs[l], Start(state, mark, l))]],
       size     |-> Len(state.orders),
       whole    |-> whole,
       orders   |-> IF whole THEN state.orders
                    ELSE Changed(CHOOSE e \in mark.entries : TRUE, state.orders),
       seen     |-> state.seen]

\* What is stored: the text, and for the properties the state it was taken of.
Payload(state, mark) == [text |-> checkpoint(state, mark), of |-> state]

\* The mark the next checkpoint builds on; rebuilt from a stored payload after
\* a restart, it has no entries.
MarkOf(payload, entries) ==
  [sequence |-> payload.text.sequence, digest |-> payload.text,
   entries |-> entries, ends |-> [l \in Logs |-> payload.text.logs[l].end]]

-----------------------------------------------------------------------------
(* read_checkpoints(payloads): the run a chain records, or a refusal.        *)

Refused == [refused |-> TRUE]

LinksBySequenceOnly(read, payload) == payload.sequence = read.sequence

Links(read, payload) ==
  /\ payload.sequence = read.sequence
  /\ payload.previous = read.previous

RangeContinues(read, payload, l) ==
  LET r == payload.logs[l]
  IN  /\ Len(r.entries) = r.end - r.start
      /\ IF read.sequence = 0 THEN r.start = r.dropped
         ELSE /\ r.dropped >= read.logs[l].dropped
              /\ r.start = IF read.logs[l].end > r.dropped
                           THEN read.logs[l].end ELSE r.dropped

StitchedLog(read, payload, l) ==
  LET r    == payload.logs[l]
      held == read.logs[l]
  IN  [kept    |-> (IF read.sequence = 0 THEN <<>>
                    ELSE SubSeq(held.kept, r.dropped - held.dropped + 1,
                                Len(held.kept))) \o r.entries,
       dropped |-> r.dropped,
       end     |-> r.end]

MergedOrders(read, payload) ==
  IF payload.whole THEN payload.orders ELSE PutAll(read.orders, payload.orders)

ReadNext(read, payload) ==
  IF \/ read = Refused
     \/ ~Links(read, payload)
     \/ \E l \in Logs : ~RangeContinues(read, payload, l)
     \/ read.sequence = 0 /\ ~payload.whole
     \/ Len(MergedOrders(read, payload)) # payload.size
  THEN Refused
  ELSE [sequence |-> read.sequence + 1,
        previous |-> payload,
        logs     |-> [l \in Logs |-> StitchedLog(read, payload, l)],
        orders   |-> MergedOrders(read, payload),
        seen     |-> payload.seen]

NothingRead ==
  [sequence |-> 0, previous |-> Nothing, orders |-> <<>>, seen |-> 0,
   logs |-> [l \in Logs |-> [kept |-> <<>>, dropped |-> 0, end |-> 0]]]

\* An empty chain is refused.
read_checkpoints(payloads) ==
  LET read[n \in 0..Len(payloads)] ==
        IF n = 0 THEN NothingRead ELSE ReadNext(read[n - 1], payloads[n])
      last == read[Len(payloads)]
  IN  IF payloads = <<>> \/ last = Refused THEN Refused
      ELSE [logs   |-> [l \in Logs |-> [kept    |-> last.logs[l].kept,
                                        dropped |-> last.logs[l].dropped]],
            orders |-> last.orders, seen |-> last.seen]
=============================================================================
