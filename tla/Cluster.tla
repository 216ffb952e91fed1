------------------------------- MODULE Cluster -------------------------------
(* The distributed research cluster: the job queue, the worker registry, the *)
(* three schedulers and the coordinator (alphalab/distributed and            *)
(* alphalab/cluster_scheduler).  Every operation is a pure function of the   *)
(* state; callers, the scheduler's driver and the workers' reports           *)
(* interleave.  A job's priority, creation time and tags never change, so    *)
(* they are constants, and the jobs submitted are pending ones.              *)
EXTENDS Integers, Sequences, SequencesExt

CONSTANTS
  Jobs, Workers,     \* Workers is a set of numbers: the order of their ids
  Priority, Created, \* of each job
  Requires, Offers,  \* the tags a job requires and a worker offers
  Capacity,          \* of each worker
  Clocks, Rates,     \* the instants and rates an aging assignment may use
  MaxPops            \* bound: jobs a caller takes with pop_next

ASSUME ClusterAssumption ==
  /\ Workers \subseteq Nat /\ MaxPops \in Nat
  /\ Clocks \subseteq Int /\ Rates \subseteq Int
  /\ \A j \in Jobs : Priority[j] \in Int /\ Created[j] \in Int
  /\ \A w \in Workers : Capacity[w] \in Nat \ {0}

VARIABLES
  workers,     \* registered nodes: what each runs, has completed, its status
  queued_jobs, queued_ids,
  running_jobs,\* assigned and running jobs: their status and their worker
  completed_jobs, failed_jobs, cancelled_jobs,
  statistics,
  popped,      \* history: calls of pop_next that took a job
  orphaned,    \* history: running jobs whose worker was removed since
  aged         \* history: the queue was last rebuilt by an aging assignment

queueVars == <<queued_jobs, queued_ids>>
endVars   == <<completed_jobs, failed_jobs, cancelled_jobs>>
history   == <<popped, orphaned, aged>>
vars      == <<workers, queueVars, running_jobs, endVars, statistics, history>>

Statuses == {"IDLE", "OFFLINE"}

Counted == {"submitted", "completed", "failed", "cancelled"}

Init ==
  /\ workers = <<>> /\ running_jobs = <<>>
  /\ queued_jobs = <<>> /\ queued_ids = {}
  /\ completed_jobs = {} /\ failed_jobs = {} /\ cancelled_jobs = {}
  /\ statistics = [c \in Counted |-> 0]
  /\ popped = 0 /\ orphaned = {} /\ aged = FALSE

Registered == DOMAIN workers
Running    == DOMAIN running_jobs
Finished   == completed_jobs \union failed_jobs \union cancelled_jobs

With(f, k, v)   == [x \in DOMAIN f \union {k} |-> IF x = k THEN v ELSE f[x]]
Without(f, k)   == [x \in DOMAIN f \ {k} |-> f[x]]
Count(c)        == statistics' = [statistics EXCEPT ![c] = @ + 1]

\* A list of jobs without one of them.
Dropping(s, j) ==
  LET kept[n \in 0..Len(s)] ==
        IF n = 0 THEN <<>>
        ELSE IF s[n] = j THEN kept[n - 1] ELSE Append(kept[n - 1], s[n])
  IN  kept[Len(s)]

-----------------------------------------------------------------------------
(* WorkerRegistry                                                            *)

\* A node arrives as the caller made it: idle, running nothing.
register(w) ==
  /\ w \notin Registered
  /\ workers' = With(workers, w, [running |-> <<>>, completed |-> 0, status |-> "IDLE"])
  /\ UNCHANGED <<queueVars, running_jobs, endVars, statistics, history>>

\* Its jobs stay where they are.
remove(w) ==
  /\ w \in Registered
  /\ workers' = Without(workers, w)
  /\ orphaned' = orphaned \union {j \in Running : running_jobs[j].worker = w}
  /\ UNCHANGED <<queueVars, running_jobs, endVars, statistics, popped, aged>>

update_status(w, status) ==
  /\ w \in Registered /\ workers[w].status # status
  /\ workers' = [workers EXCEPT ![w].status = status]
  /\ UNCHANGED <<queueVars, running_jobs, endVars, statistics, history>>

-----------------------------------------------------------------------------
(* JobQueue                                                                  *)

\* queue_key orders by descending priority, then by creation.
KeyAtMost(i, j) ==
  \/ Priority[i] > Priority[j]
  \/ Priority[i] = Priority[j] /\ Created[i] <= Created[j]

\* An order gives the jobs that may follow each job.
QueueOrder == [i \in Jobs |-> {j \in Jobs : KeyAtMost(i, j)}]

\* sorted(): stable.  The element of rank n has n - 1 elements before it.
Before(s, order, a, b) ==
  s[b] \in order[s[a]] /\ (s[a] \notin order[s[b]] \/ a < b)

Rank(s, order, a) ==
  Cardinality({b \in DOMAIN s : b # a /\ Before(s, order, b, a)}) + 1

Sorted(s, order) ==
  [n \in DOMAIN s |-> s[CHOOSE a \in DOMAIN s : Rank(s, order, a) = n]]

knownUnlessCancelled(j) ==
  j \in queued_ids \/ j \in Running \/ j \in completed_jobs \union failed_jobs

known(j) == j \in queued_ids \/ j \in Running \/ j \in Finished

EnqueuedAtTail(j) == Append(queued_jobs, j)

\* A job that sorts at or after the tail is appended without sorting.
Enqueued(j) ==
  IF queued_jobs = <<>> \/ KeyAtMost(Last(queued_jobs), j)
  THEN Append(queued_jobs, j)
  ELSE Sorted(Append(queued_jobs, j), QueueOrder)

submit(j) ==
  /\ ~known(j)
  /\ queued_jobs' = Enqueued(j)
  /\ queued_ids' = queued_ids \union {j}
  /\ Count("submitted")
  /\ aged' = (aged /\ queued_jobs # <<>> /\ KeyAtMost(Last(queued_jobs), j))
  /\ UNCHANGED <<workers, running_jobs, endVars, popped, orphaned>>

FreedNever(j) == workers

\* The worker that runs a job, if it is still registered, without the job.
Freed(j) ==
  LET w == running_jobs[j].worker
  IN  IF w \in Registered
      THEN [workers EXCEPT ![w].running = Dropping(@, j)] ELSE workers

\* A queued job leaves the queue; an assigned one frees its worker.  A
\* running one is refused, any other is left as it is.
cancel(j) ==
  /\ \/ /\ j \in queued_ids
        /\ queued_jobs' = Dropping(queued_jobs, j)
        /\ queued_ids' = queued_ids \ {j}
        /\ UNCHANGED <<workers, running_jobs>>
     \/ /\ j \notin queued_ids /\ j \in Running
        /\ running_jobs[j].status = "ASSIGNED"
        /\ workers' = Freed(j)
        /\ running_jobs' = Without(running_jobs, j)
        /\ UNCHANGED queueVars
  /\ cancelled_jobs' = cancelled_jobs \union {j}
  /\ orphaned' = orphaned \ {j}
  /\ Count("cancelled")
  /\ UNCHANGED <<completed_jobs, failed_jobs, popped, aged>>

\* The caller takes the first job: the state forgets it.
pop_next ==
  /\ queued_jobs # <<>>
  /\ popped < MaxPops
  /\ queued_jobs' = Tail(queued_jobs)
  /\ queued_ids' = queued_ids \ {Head(queued_jobs)}
  /\ popped' = popped + 1
  /\ UNCHANGED <<workers, running_jobs, endVars, statistics, orphaned, aged>>

-----------------------------------------------------------------------------
(* The schedulers.  Each goes through a queue in order and gives a job to    *)
(* the free worker with most room, the first by id among equals; a job that  *)
(* finds none stays.  A worker's status is not asked.                        *)

Room(ws, w) == Capacity[w] - Len(ws[w].running)

Best(ws, candidates) ==
  CHOOSE w \in candidates : \A v \in candidates :
    Room(ws, w) > Room(ws, v) \/ (Room(ws, w) = Room(ws, v) /\ w <= v)

Free(ws) == {w \in DOMAIN ws : Room(ws, w) > 0}

\* The free workers that offer what is asked for a job.
Candidates(ws, j, asked) == {w \in Free(ws) : asked[j] \subseteq Offers[w]}

Place(acc, j, candidates) ==
  IF candidates = {} THEN [acc EXCEPT !.queue = Append(@, j)]
  ELSE LET w == Best(acc.workers, candidates)
       IN  [queue   |-> acc.queue,
            workers |-> [acc.workers EXCEPT ![w].running = Append(@, j)],
            running |-> With(acc.running, j, [status |-> "ASSIGNED", worker |-> w])]

Assignment(queue, asked) ==
  LET after[n \in 0..Len(queue)] ==
        IF n = 0 THEN [queue |-> <<>>, workers |-> workers, running |-> running_jobs]
        ELSE Place(after[n - 1], queue[n],
                   Candidates(after[n - 1].workers, queue[n], asked))
  IN  after[Len(queue)]

NoTags == [j \in Jobs |-> {}]

\* Nothing is replaced unless some job was assigned.
Assign(queue, asked) ==
  LET done == Assignment(queue, asked)
  IN  /\ done.running # running_jobs
      /\ queued_jobs' = done.queue
      /\ queued_ids' = {done.queue[n] : n \in DOMAIN done.queue}
      /\ workers' = done.workers
      /\ running_jobs' = done.running
      /\ UNCHANGED <<endVars, statistics, popped, orphaned>>

assign_jobs == Assign(queued_jobs, NoTags) /\ UNCHANGED aged

assign_jobs_with_affinityInTurn ==
  /\ queued_jobs # <<>> /\ Candidates(workers, Head(queued_jobs), Requires) # {}
  /\ Assign(queued_jobs, Requires) /\ UNCHANGED aged

assign_jobs_with_affinity == Assign(queued_jobs, Requires) /\ UNCHANGED aged

effective_priority(j, now, rate) ==
  Priority[j] + rate * (IF now > Created[j] THEN now - Created[j] ELSE 0)

AgedOrder(now, rate) ==
  [i \in Jobs |-> {j \in Jobs : effective_priority(i, now, rate)
                                  >= effective_priority(j, now, rate)}]

\* The queue is sorted by effective priority, and what is left stays so.
assign_jobs_with_aging(now, rate) ==
  /\ Assign(Sorted(queued_jobs, AgedOrder(now, rate)), NoTags)
  /\ aged' = TRUE

-----------------------------------------------------------------------------
(* JobCoordinator                                                            *)

start_job(j) ==
  /\ j \in Running /\ running_jobs[j].status = "ASSIGNED"
  /\ running_jobs' = [running_jobs EXCEPT ![j].status = "RUNNING"]
  /\ UNCHANGED <<workers, queueVars, endVars, statistics, history>>

complete_job(j) ==
  /\ j \in Running /\ running_jobs[j].status = "RUNNING"
  /\ LET w == running_jobs[j].worker
     IN  workers' = IF w \in Registered
                    THEN [Freed(j) EXCEPT ![w].completed = @ + 1] ELSE workers
  /\ running_jobs' = Without(running_jobs, j)
  /\ completed_jobs' = completed_jobs \union {j}
  /\ orphaned' = orphaned \ {j}
  /\ Count("completed")
  /\ UNCHANGED <<queueVars, failed_jobs, cancelled_jobs, popped, aged>>

\* An assigned job may fail too: one whose worker is gone, for example.
fail_job(j) ==
  /\ j \in Running
  /\ workers' = Freed(j)
  /\ running_jobs' = Without(running_jobs, j)
  /\ failed_jobs' = failed_jobs \union {j}
  /\ orphaned' = orphaned \ {j}
  /\ Count("failed")
  /\ UNCHANGED <<queueVars, completed_jobs, cancelled_jobs, popped, aged>>

-----------------------------------------------------------------------------
Next ==
  \/ \E w \in Workers : \/ register(w) \/ remove(w)
                        \/ \E s \in Statuses : update_status(w, s)
  \/ \E j \in Jobs : \/ submit(j)    \/ cancel(j)
                     \/ start_job(j) \/ complete_job(j) \/ fail_job(j)
  \/ pop_next
  \/ assign_jobs
  \/ assign_jobs_with_affinity
  \/ \E now \in Clocks, rate \in Rates : assign_jobs_with_aging(now, rate)

Spec == Init /\ [][Next]_vars

\* The driver keeps assigning, and a worker reports on each job it was given.
Fairness ==
  /\ WF_vars(assign_jobs_with_affinity)
  /\ \A j \in Jobs : WF_vars(start_job(j)) /\ WF_vars(complete_job(j) \/ fail_job(j))

FairSpec == Spec /\ Fairness

-----------------------------------------------------------------------------
(* Properties                                                                *)

(* Every container of the state has its shape and a worker never runs more   *)
(* than its capacity.                                                        *)
TypeOK ==
  /\ Registered \subseteq Workers
  /\ \A w \in Registered :
       /\ workers[w].running \in Seq(Jobs) /\ Len(workers[w].running) <= Capacity[w]
       /\ workers[w].completed \in Nat /\ workers[w].status \in Statuses
  /\ queued_jobs \in Seq(Jobs)
  /\ \A j \in Running : running_jobs[j] \in
       [status : {"ASSIGNED", "RUNNING"}, worker : Workers]

(* DistributedState: a job is in one place at a time, queued_ids is exactly  *)
(* the ids of queued_jobs, and the statistics count what the containers      *)
(* hold; a job that a caller popped is in none of them.                      *)
JobsConserved ==
  /\ queued_ids = {queued_jobs[n] : n \in DOMAIN queued_jobs}
  /\ Len(queued_jobs) = Cardinality(queued_ids)
  /\ Cardinality(queued_ids \union Running \union Finished)
       = Len(queued_jobs) + Cardinality(Running) + Cardinality(completed_jobs)
         + Cardinality(failed_jobs) + Cardinality(cancelled_jobs)
  /\ statistics.completed = Cardinality(completed_jobs)
  /\ statistics.failed = Cardinality(failed_jobs)
  /\ statistics.cancelled = Cardinality(cancelled_jobs)
  /\ statistics.submitted
       = Cardinality(queued_ids \union Running \union Finished) + popped

(* The queue's own state is well formed and accounts for every job.          *)
ClusterInv == TypeOK /\ JobsConserved

(* WorkerNode.running_jobs and DistributedState.running_jobs are two records *)
(* of one fact, kept by four operations: a registered worker lists exactly   *)
(* the jobs assigned to it, once each, except those it was given before it   *)
(* was removed and registered again.                                         *)
WorkersAgree ==
  /\ orphaned \subseteq Running
  /\ \A w \in Registered :
       LET mine == {j \in Running \ orphaned : running_jobs[j].worker = w}
       IN  /\ mine = {workers[w].running[n] : n \in DOMAIN workers[w].running}
           /\ Len(workers[w].running) = Cardinality(mine)
  /\ \A j \in Running \ orphaned : running_jobs[j].worker \in Registered

InPriorityOrder ==
  \A m, n \in DOMAIN queued_jobs : m < n => KeyAtMost(queued_jobs[m], queued_jobs[n])

(* distributed/queue.py: the queue is in priority order, although submit     *)
(* sorts only when a job does not belong at the tail and every other         *)
(* operation rebuilds it, from the last time an aging assignment left it in  *)
(* another order to the next.                                                *)
OrderedUnlessAged == ~aged => InPriorityOrder

(* distributed/queue.py:3-6, "The queue is kept in priority order at all     *)
(* times ... queue_position relies on it".                                   *)
QueueInPriorityOrder == InPriorityOrder

(* affinity_scheduler.py: "one job requiring a capability no current worker  *)
(* has should not stall unrelated jobs".  A queued job does not wait for     *)
(* ever while a worker that can run it is registered, whatever waits ahead   *)
(* of it and whatever fails or is removed meanwhile.                         *)
MatchedIsServed ==
  \A j \in Jobs :
    ~<>[](j \in queued_ids /\ \E w \in Registered : Requires[j] \subseteq Offers[w])
=============================================================================
