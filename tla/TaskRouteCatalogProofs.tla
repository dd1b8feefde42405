---- MODULE TaskRouteCatalogProofs ----
(***************************************************************************)
(* TaskRouteCatalog keeps the route of a task that was sent, for any       *)
(* number of requests, attempts, faults and restarts.                      *)
(*                                                                         *)
(* DispatchedHasRoute is not inductive: the last attempt of a group takes  *)
(* the record back when its own start failed before anything was sent, and *)
(* only the group tells that no other attempt has sent it.  CatalogInv     *)
(* adds what the reservation protocol promises: a group that may still be  *)
(* released (Loose) holds every attempt that tried the task (LooseKeeps),  *)
(* an attempt about to start is in such a group or needs none              *)
(* (ReservedHeld), one about to release has tried nothing                  *)
(* (ReleasedUntried), and no two operations of the chain are one           *)
(* attempt's (QueueOK), so that no release is run by an attempt that has   *)
(* gone on.                                                                *)
(***************************************************************************)
EXTENDS TaskRouteCatalog, TLAPS

Phases == {"idle", "refused", "prevalidating", "answering", "authorizing", "reserving", "reserved",
           "accepting", "calling", "marking", "retaining", "failing", "releasing", "settling",
           "settlingMark", "abandoning", "answered", "failed", "unreconciled", "interrupted"}

Ops == [kind : {"reserve", "release", "retain", "mark"}, by : Attempts \cup {Nobody},
        task : Tasks, state : TaskStates \cup {Absent}]

\* The task has not ended; it may not exist yet.
NonTerminal(t) == tasks[t].state \notin Terminal

\* What an attempt remembers, and that what it saw of its task is true.
AttemptsOK ==
  /\ attempts \in [Attempts -> [phase : Phases, request : Requests \cup {NoRequest},
                                route : Routes \cup {NoRoute}, attempted : BOOLEAN,
                                seen : TaskStates \cup {Absent}]]
  /\ \A a \in Attempts : /\ IF Phase(a) = "idle" THEN Request(a) = NoRequest ELSE Request(a) \in Requests
                         /\ attempts[a].attempted => Request(a) \in Requests
                         /\ attempts[a].seen # Absent => Request(a) \in Requests /\ Exists(Task(a))
                         /\ attempts[a].seen \in Terminal => ~NonTerminal(Task(a))

TasksOK ==
  /\ tasks \in [Tasks -> [request : Requests \cup {NoRequest}, state : TaskStates \cup {Absent}]]
  /\ \A t \in Tasks : IF Exists(t) THEN tasks[t].request \in Requests /\ TaskOf[tasks[t].request] = t
                                   ELSE tasks[t].request = NoRequest

\* A record is terminal only when its task is.
StoredOK ==
  /\ stored \subseteq Routes
  /\ \A x \in stored : x.state \in Terminal => ~NonTerminal(TaskOf[x.request])

RoutesOK ==
  /\ routes \in [Tasks -> Routes \cup {NoRoute}]
  /\ \A t \in Tasks : routes[t] # NoRoute => TaskOf[routes[t].request] = t

GroupsOK ==
  /\ groups \in [Tasks -> Groups \cup {NoGroup}]
  /\ \A t \in Tasks : groups[t] # NoGroup => TaskOf[groups[t].route.request] = t

\* The phases that wait for an operation of this kind.
Serves(kind) == CASE kind = "reserve" -> {"reserving"}
                  [] kind = "release" -> {"releasing"}
                  [] kind = "retain" -> {"retaining", "settling", "abandoning"}
                  [] OTHER -> {"answering", "accepting", "marking", "settlingMark"}

\* An operation is waited for by an attempt in the phase it serves, and an
\* attempt waits for one operation at most.
Fits(m) ==
  \A i \in DOMAIN m : m[i].by # Nobody =>
    /\ Phase(m[i].by) \in Serves(m[i].kind)
    /\ m[i].task = Task(m[i].by)
    /\ \A j \in DOMAIN m : m[j].by = m[i].by => i = j

\* A mark tells the state of a task that exists, and of an ended one only when
\* it has ended.
TrueMark(o) == o.kind = "mark" => /\ o.state \in TaskStates
                                  /\ Exists(o.task)
                                  /\ o.state \in Terminal => ~NonTerminal(o.task)

QueueOK == mutation \in Seq(Ops) /\ Fits(mutation) /\ \A i \in DOMAIN mutation : TrueMark(mutation[i])

\* A task has one record on disk.
OneRecord == \A x, y \in stored : TaskOf[x.request] = TaskOf[y.request] => x = y

\* An attempt that takes its reservation back has sent nothing.
ReleasedUntried == \A a \in Attempts : Phase(a) = "releasing" => ~attempts[a].attempted

\* A local start that was tried is the task of the store, and the peer knows
\* only tasks that some attempt sent.
AttemptedKnown ==
  /\ \A a \in Attempts : attempts[a].attempted /\ Request(a) \notin Remote
                         => tasks[Task(a)].request = Request(a)
  /\ \A t \in Tasks : Exists(t) /\ tasks[t].request \in Remote
                      => \E a \in Attempts : attempts[a].attempted /\ Request(a) = tasks[t].request

\* The route of r is on disk and in memory.
Held(r) == /\ \E x \in stored : x.request = r
           /\ routes[TaskOf[r]] # NoRoute
           /\ routes[TaskOf[r]].request = r

\* The route of a task that goes on, of an attempt that was sent, and of one
\* that may be sent next, is held.
TasksHeld == \A t \in Tasks : Exists(t) /\ NonTerminal(t) => Held(tasks[t].request)
AttemptsHeld == \A a \in Attempts : attempts[a].attempted /\ NonTerminal(Task(a)) => Held(Request(a))

\* The group of the task may still give the record back.
Loose(t) == groups[t] # NoGroup /\ groups[t].releasable /\ ~groups[t].protected

ReservedHeld ==
  \A a \in Attempts : Phase(a) = "reserved" /\ NonTerminal(Task(a))
                      => Held(Request(a)) /\ (InGroup(a) \/ ~Loose(Task(a)))

\* Such a group holds an attempt of the running local task that does not
\* release, and every attempt that was sent to a peer.
LooseKeeps ==
  \A t \in Tasks : Loose(t) /\ NonTerminal(t) =>
    /\ Exists(t) /\ tasks[t].request \notin Remote
       => \E a \in groups[t].attempts : Request(a) = tasks[t].request /\ Phase(a) # "releasing"
    /\ \A a \in Attempts : attempts[a].attempted /\ Request(a) \in Remote /\ Task(a) = t
                           => a \in groups[t].attempts

Data == AttemptsOK /\ TasksOK /\ StoredOK /\ RoutesOK /\ GroupsOK

Promises == /\ OneRecord /\ ReleasedUntried /\ AttemptedKnown
            /\ TasksHeld /\ AttemptsHeld /\ ReservedHeld /\ LooseKeeps

CatalogInv == Data /\ QueueOK /\ Promises

----------------------------------------------------------------------------

\* Tasks only come to be and end.
Onward == \A t \in Tasks : /\ Exists(t) => tasks'[t].state # Absent
                           /\ tasks[t].state \in Terminal => tasks'[t].state \in Terminal

\* Only the phase of attempt a changes, to p.
Turns(a, p) ==
  /\ \A b \in Attempts : b # a => attempts'[b] = attempts[b]
  /\ a \in Attempts => attempts'[a].phase = p /\ attempts'[a].request \in Requests

\* The operations m remain, none of them of attempt a, and at most one joins.
Joins(m, a, p) ==
  \/ mutation' = m
  \/ \E o \in Ops :
       /\ mutation' = m \o <<o>>
       /\ o.by = Nobody \/ (o.by = a /\ o.task = Task(a)' /\ p \in Serves(o.kind))
       /\ TrueMark(o)'

LEMMA QueueMoves ==
  ASSUME NEW m \in Seq(Ops), Fits(m), \A i \in DOMAIN m : TrueMark(m[i]),
         NEW a \in Attempts \cup {Nobody}, NEW p, a # Nobody => \A i \in DOMAIN m : m[i].by # a,
         Onward, Turns(a, p), Joins(m, a, p)
  PROVE  QueueOK'
<1> USE SentinelsAssumption
<1>1. \A i \in DOMAIN m : m[i] \in Ops
  OBVIOUS
<1>2. \A i \in DOMAIN m : TrueMark(m[i])'
  BY <1>1 DEF Ops, TrueMark, Onward, Exists, NonTerminal, Terminal
<1>3. \A i \in DOMAIN m : m[i].by # Nobody =>
        /\ m[i].by \in Attempts /\ m[i].by # a
        /\ Phase(m[i].by)' = Phase(m[i].by)
        /\ Task(m[i].by)' = Task(m[i].by)
  BY <1>1 DEF Ops, Turns, Phase, Task, Request
<1>4. CASE mutation' = m
  BY <1>2, <1>3, <1>4 DEF QueueOK, Fits
<1>5. CASE mutation' # m
  <2>1. PICK o \in Ops : /\ mutation' = m \o <<o>>
                         /\ o.by = Nobody \/ (o.by = a /\ o.task = Task(a)' /\ p \in Serves(o.kind))
                         /\ TrueMark(o)'
    BY <1>5 DEF Joins
  <2>2. /\ mutation' \in Seq(Ops)
        /\ Len(mutation') = Len(m) + 1
        /\ mutation'[Len(m) + 1] = o
        /\ \A i \in DOMAIN m : mutation'[i] = m[i]
        /\ DOMAIN mutation' = DOMAIN m \cup {Len(m) + 1}
    BY <2>1
  <2>3. o.by # Nobody => o.by \in Attempts /\ Phase(o.by)' = p
    BY <2>1 DEF Ops, Turns, Phase
  <2>4. Fits(mutation)'
    <3> SUFFICES ASSUME NEW i \in DOMAIN mutation', mutation'[i].by # Nobody
                 PROVE  /\ (Phase(mutation[i].by) \in Serves(mutation[i].kind))'
                        /\ mutation'[i].task = Task(mutation[i].by)'
                        /\ \A j \in DOMAIN mutation' : mutation'[j].by = mutation'[i].by => i = j
      BY DEF Fits
    <3>1. CASE i \in DOMAIN m
      BY <3>1, <1>3, <2>1, <2>2 DEF Fits
    <3>2. CASE i = Len(m) + 1
      BY <3>2, <1>3, <2>1, <2>2, <2>3
    <3> QED BY <3>1, <3>2, <2>2
  <2> QED BY <1>2, <2>1, <2>2, <2>4 DEF QueueOK
<1> QED BY <1>4, <1>5

LEMMA HeadLeaves ==
  ASSUME QueueOK, mutation # <<>>
  PROVE  /\ Head(mutation) \in Ops
         /\ TrueMark(Head(mutation))
         /\ Head(mutation).by # Nobody =>
              /\ Phase(Head(mutation).by) \in Serves(Head(mutation).kind)
              /\ Head(mutation).task = Task(Head(mutation).by)
              /\ \A i \in DOMAIN Tail(mutation) : Tail(mutation)[i].by # Head(mutation).by
         /\ Tail(mutation) \in Seq(Ops)
         /\ Fits(Tail(mutation))
         /\ \A i \in DOMAIN Tail(mutation) : TrueMark(Tail(mutation)[i])
<1>1. /\ mutation \in Seq(Ops) /\ Len(mutation) > 0
      /\ Head(mutation) = mutation[1]
      /\ 1 \in DOMAIN mutation
      /\ Tail(mutation) \in Seq(Ops)
      /\ \A i \in DOMAIN Tail(mutation) : /\ i + 1 \in DOMAIN mutation
                                          /\ i + 1 # 1
                                          /\ Tail(mutation)[i] = mutation[i + 1]
  BY DEF QueueOK
<1>2. \A i, j \in DOMAIN Tail(mutation) : i + 1 = j + 1 => i = j
  BY <1>1
<1>3. Fits(mutation) /\ \A i \in DOMAIN mutation : TrueMark(mutation[i])
  BY DEF QueueOK
<1>4. Fits(Tail(mutation))
  <2> SUFFICES ASSUME NEW i \in DOMAIN Tail(mutation), Tail(mutation)[i].by # Nobody
               PROVE  /\ Phase(Tail(mutation)[i].by) \in Serves(Tail(mutation)[i].kind)
                      /\ Tail(mutation)[i].task = Task(Tail(mutation)[i].by)
                      /\ \A j \in DOMAIN Tail(mutation) : Tail(mutation)[j].by = Tail(mutation)[i].by => i = j
    BY DEF Fits
  <2> QED BY <1>1, <1>2, <1>3 DEF Fits
<1> QED BY <1>1, <1>3, <1>4 DEF Fits

----------------------------------------------------------------------------
\* A step that leaves the tasks alone keeps the promises when it keeps the
\* routes of the requests that were sent or are about to be, and a group only
\* loses an attempt that is being released or becomes one that keeps its
\* route.  The attempt that takes the step turns to a phase that is "reserved"
\* for none and "releasing" only for one that has tried nothing.

Matters(r, a) ==
  /\ NonTerminal(TaskOf[r])
  /\ \/ \E t \in Tasks : Exists(t) /\ tasks[t].request = r
     \/ \E b \in Attempts : attempts[b].attempted /\ Request(b) = r
     \/ \E b \in Attempts : b # a /\ Phase(b) = "reserved" /\ Request(b) = r

GroupKept(t, a) ==
  \/ groups'[t] = groups[t]
  \/ ~Loose(t)'
  \/ /\ a \in Attempts /\ Phase(a) = "releasing" /\ groups[t] # NoGroup
     /\ groups'[t] = [groups[t] EXCEPT !.attempts = @ \ {a}]

LEMMA PromisesKept ==
  ASSUME Data, Promises, UNCHANGED tasks, OneRecord', NEW a \in Attempts \cup {Nobody},
         \A r \in Requests : Matters(r, a) /\ Held(r) => Held(r)',
         \A t \in Tasks : GroupKept(t, a),
         \A b \in Attempts : b # a => attempts'[b] = attempts[b],
         a \in Attempts => /\ attempts'[a].attempted = attempts[a].attempted
                           /\ attempts'[a].request = attempts[a].request
                           /\ attempts'[a].phase # "reserved"
                           /\ attempts'[a].phase = "releasing" => NotDispatched(a)
  PROVE  Promises'
<1> USE DEF Phase, Request, Task, Exists, NonTerminal
<1>1. \A b \in Attempts : Request(b)' = Request(b) /\ attempts'[b].attempted = attempts[b].attempted
  OBVIOUS
<1>2. ReleasedUntried'
  BY <1>1 DEF Promises, ReleasedUntried, NotDispatched
<1>3. AttemptedKnown'
  BY <1>1 DEF Promises, AttemptedKnown
<1>4. TasksHeld'
  BY <1>1 DEF Promises, TasksHeld, Data, TasksOK, Matters
<1>5. AttemptsHeld'
  BY <1>1 DEF Promises, AttemptsHeld, Data, AttemptsOK, Matters
<1>6. ReservedHeld'
  <2> SUFFICES ASSUME NEW b \in Attempts, attempts'[b].phase = "reserved", NonTerminal(Task(b))'
               PROVE  Held(Request(b))' /\ (InGroup(b)' \/ ~Loose(Task(b))')
    BY DEF ReservedHeld
  <2>1. b # a /\ attempts'[b] = attempts[b] /\ Phase(b) = "reserved" /\ NonTerminal(Task(b))
    OBVIOUS
  <2>2. b # a /\ attempts'[b] = attempts[b] /\ Phase(b) = "reserved" /\ NonTerminal(Task(b))
          /\ Request(b) \in Requests /\ Task(b) \in Tasks
    BY <2>1, RequestsAssumption DEF Data, AttemptsOK
  <2>3. Held(Request(b)) /\ (InGroup(b) \/ ~Loose(Task(b)))
    BY <2>2 DEF Promises, ReservedHeld
  <2>4. Held(Request(b))'
    BY <2>2, <2>3 DEF Matters
  <2>5. GroupKept(Task(b), a)
    BY <2>2
  <2>6. CASE groups'[Task(b)] = groups[Task(b)]
    BY <2>2, <2>3, <2>4, <2>6 DEF InGroup, Loose
  <2>7. CASE ~(Loose(Task(b))')
    BY <2>2, <2>4, <2>7
  <2>8. CASE /\ groups[Task(b)] # NoGroup
             /\ groups'[Task(b)] = [groups[Task(b)] EXCEPT !.attempts = @ \ {a}]
    BY <2>2, <2>3, <2>4, <2>8 DEF InGroup, Loose, Data, GroupsOK, Groups
  <2> QED
    BY <2>2, <2>5, <2>6, <2>7, <2>8 DEF GroupKept
<1>7. LooseKeeps'
  <2> SUFFICES ASSUME NEW t \in Tasks, Loose(t)', NonTerminal(t)
               PROVE  /\ Exists(t) /\ tasks[t].request \notin Remote
                         => \E b \in groups'[t].attempts : Request(b)' = tasks[t].request /\ attempts'[b].phase # "releasing"
                      /\ \A b \in Attempts : attempts'[b].attempted /\ Request(b)' \in Remote /\ Task(b)' = t
                                             => b \in groups'[t].attempts
    BY DEF LooseKeeps
  <2>1. groups[t] # NoGroup => groups[t] \in Groups
    BY DEF Data, GroupsOK
  <2>2. CASE groups'[t] = groups[t]
    <3>1. Loose(t)
      BY <2>2 DEF Loose
    <3>2. LooseKeeps
      BY DEF Promises
    <3>3. ASSUME Exists(t), tasks[t].request \notin Remote
          PROVE  \E b \in groups'[t].attempts : Request(b)' = tasks[t].request /\ attempts'[b].phase # "releasing"
      <4>1. PICK b \in groups[t].attempts : Request(b) = tasks[t].request /\ Phase(b) # "releasing"
        BY <3>1, <3>2, <3>3 DEF LooseKeeps
      <4>2. b \in Attempts
        BY <2>1, <3>1 DEF Groups, Loose
      <4>3. attempts'[b].phase # "releasing"
        BY <3>3, <4>1, <4>2 DEF NotDispatched, Data, TasksOK
      <4> QED
        BY <1>1, <2>2, <4>1, <4>2, <4>3
    <3> QED
      BY <1>1, <2>2, <3>1, <3>2, <3>3 DEF LooseKeeps
  <2>3. CASE /\ a \in Attempts /\ Phase(a) = "releasing" /\ groups[t] # NoGroup
             /\ groups'[t] = [groups[t] EXCEPT !.attempts = @ \ {a}]
    <3>1. Loose(t) /\ groups'[t].attempts = groups[t].attempts \ {a}
      BY <2>1, <2>3 DEF Loose, Groups
    <3>2. LooseKeeps /\ ReleasedUntried
      BY DEF Promises
    <3>3. ASSUME Exists(t), tasks[t].request \notin Remote
          PROVE  \E b \in groups'[t].attempts : Request(b)' = tasks[t].request /\ attempts'[b].phase # "releasing"
      <4>1. PICK b \in groups[t].attempts : Request(b) = tasks[t].request /\ Phase(b) # "releasing"
        BY <3>1, <3>2, <3>3 DEF LooseKeeps
      <4>2. b \in Attempts /\ b # a
        BY <2>1, <2>3, <3>1, <4>1 DEF Groups, Loose
      <4> QED
        BY <1>1, <3>1, <4>1, <4>2
    <3>4. ~attempts[a].attempted
      BY <2>3, <3>2 DEF ReleasedUntried
    <3> QED
      BY <1>1, <3>1, <3>2, <3>3, <3>4 DEF LooseKeeps
  <2> QED
    BY <2>2, <2>3 DEF GroupKept
<1> QED
  BY <1>2, <1>3, <1>4, <1>5, <1>6, <1>7 DEF Promises

LEMMA QuietPromises ==
  ASSUME Data, Promises, UNCHANGED <<catalogVars, tasks>>, NEW a \in Attempts,
         \A b \in Attempts : b # a => attempts'[b] = attempts[b],
         attempts'[a].attempted = attempts[a].attempted,
         attempts'[a].request = attempts[a].request,
         attempts'[a].phase # "reserved",
         attempts'[a].phase = "releasing" => NotDispatched(a)
  PROVE  Promises'
<1>1. OneRecord'
  BY DEF Promises, OneRecord, catalogVars
<1>2. \A r \in Requests : Held(r) => Held(r)'
  BY DEF Held, catalogVars
<1>3. \A t \in Tasks : GroupKept(t, a)
  BY DEF GroupKept, catalogVars
<1> QED
  BY <1>1, <1>2, <1>3, PromisesKept DEF catalogVars

LEMMA PhaseTyped ==
  ASSUME AttemptsOK, UNCHANGED tasks, NEW a \in Attempts, Request(a) \in Requests,
         NEW p \in Phases \ {"idle"}, attempts' = [attempts EXCEPT ![a].phase = p]
  PROVE  AttemptsOK'
BY DEF AttemptsOK, Task, Request, Phase, Exists, NonTerminal

LEMMA QuietData ==
  ASSUME Data, UNCHANGED <<catalogVars, tasks>>, NEW a \in Attempts, AttemptsOK'
  PROVE  Data'
BY DEF Data, catalogVars, TasksOK, StoredOK, RoutesOK, GroupsOK, Exists, NonTerminal

\* The operations an attempt queues, if any, as it turns to phase p.
Queues(a, p, ops) ==
  \/ ops = <<>>
  \/ \E o \in Ops : /\ ops = <<o>>
                    /\ o.by = a /\ o.task = Task(a) /\ p \in Serves(o.kind)
                    /\ TrueMark(o)

Idling == {"idle", "prevalidating", "authorizing", "reserved", "calling", "failing"} \cup Ended

LEMMA OpQueues ==
  ASSUME NEW a \in Attempts, Request(a) \in Requests, NEW p,
         NEW kind \in {"reserve", "release", "retain"}, p \in Serves(kind)
  PROVE  Queues(a, p, Op(kind, a))
<1> DEFINE o == [kind |-> kind, by |-> a, task |-> Task(a), state |-> Absent]
<1>1. o \in Ops
  BY RequestsAssumption DEF Ops, Task
<1>2. TrueMark(o)
  BY DEF TrueMark
<1> QED
  BY <1>1, <1>2 DEF Queues, Op

LEMMA MarkQueues ==
  ASSUME NEW a \in Attempts, Request(a) \in Requests, NEW p \in Serves("mark"),
         NEW s \in TaskStates, Exists(Task(a)), s \in Terminal => ~NonTerminal(Task(a))
  PROVE  Queues(a, p, Mark(a, Task(a), s))
<1> DEFINE o == [kind |-> "mark", by |-> a, task |-> Task(a), state |-> s]
<1>1. o \in Ops
  BY RequestsAssumption DEF Ops, Task
<1>2. TrueMark(o)
  BY DEF TrueMark
<1> QED
  BY <1>1, <1>2 DEF Queues, Mark

LEMMA EmptyQueues ==
  ASSUME NEW m \in Seq(Ops) PROVE m \o <<>> = m
OBVIOUS

LEMMA QueuesJoin ==
  ASSUME NEW m \in Seq(Ops), NEW a \in Attempts, NEW p, NEW ops, Queues(a, p, ops),
         mutation' = m \o ops, Task(a)' = Task(a), Onward
  PROVE  Joins(m, a, p)
<1>1. CASE ops = <<>>
  BY <1>1, EmptyQueues DEF Joins
<1>2. CASE ops # <<>>
  <2>1. PICK o \in Ops : /\ ops = <<o>>
                         /\ o.by = a /\ o.task = Task(a) /\ p \in Serves(o.kind)
                         /\ TrueMark(o)
    BY <1>2 DEF Queues
  <2>2. TrueMark(o)'
    BY <2>1 DEF TrueMark, Onward, Exists, NonTerminal, Ops, Terminal
  <2> QED
    BY <2>1, <2>2 DEF Joins
<1> QED
  BY <1>1, <1>2

LEMMA IdlingWaits ==
  ASSUME QueueOK, NEW a \in Attempts, Phase(a) \in Idling
  PROVE  /\ mutation \in Seq(Ops) /\ Fits(mutation)
         /\ \A i \in DOMAIN mutation : TrueMark(mutation[i])
         /\ \A i \in DOMAIN mutation : mutation[i].by # a
BY SentinelsAssumption DEF QueueOK, Fits, Idling, Ended, Serves

\* An attempt that waits for no operation goes on, or resumes from the one it
\* waited for, and nothing else happens.
LEMMA QuietStep ==
  ASSUME CatalogInv, UNCHANGED <<catalogVars, tasks>>,
         NEW a \in Attempts, Request(a) \in Requests, NEW p \in Phases \ {"idle", "reserved"},
         NEW ops, Queues(a, p, ops),
         p = "releasing" => NotDispatched(a),
         \/ Phase(a) \in Idling /\ Goes(a, p, ops)
         \/ mutation # <<>> /\ Head(mutation).by = a /\ Resumes(a, p, ops)
  PROVE  CatalogInv'
<1>1. /\ attempts' = [attempts EXCEPT ![a].phase = p]
      /\ attempts'[a] = [attempts[a] EXCEPT !.phase = p]
      /\ \A b \in Attempts : b # a => attempts'[b] = attempts[b]
  BY DEF Goes, Resumes, CatalogInv, Data, AttemptsOK
<1>2. Task(a)' = Task(a) /\ Onward
  BY <1>1 DEF CatalogInv, Data, AttemptsOK, Task, Request, Onward, Exists
<1>3. AttemptsOK'
  BY <1>1, PhaseTyped DEF CatalogInv, Data
<1>4. Promises'
  BY <1>1, QuietPromises DEF CatalogInv, Data, AttemptsOK
<1>5. Turns(a, p)
  BY <1>1 DEF Turns, CatalogInv, Data, AttemptsOK, Request
<1>6. CASE Phase(a) \in Idling /\ Goes(a, p, ops)
  <2>1. QueueOK'
    BY <1>2, <1>5, <1>6, IdlingWaits, QueuesJoin, QueueMoves DEF Goes, CatalogInv
  <2> QED
    BY <2>1, <1>3, <1>4, QuietData DEF CatalogInv
<1>7. CASE mutation # <<>> /\ Head(mutation).by = a /\ Resumes(a, p, ops)
  <2>1. QueueOK'
    BY <1>2, <1>5, <1>7, HeadLeaves, SentinelsAssumption, QueuesJoin, QueueMoves DEF Resumes, CatalogInv
  <2> QED
    BY <2>1, <1>3, <1>4, QuietData DEF CatalogInv
<1> QED
  BY <1>6, <1>7

----------------------------------------------------------------------------
(* The steps of an attempt that touch neither the catalog nor the tasks *)

LEMMA RequestKnown ==
  ASSUME CatalogInv, NEW a \in Attempts, Phase(a) # "idle"
  PROVE  Request(a) \in Requests /\ Task(a) \in Tasks
BY RequestsAssumption DEF CatalogInv, Data, AttemptsOK, Task

LEMMA TaskMark ==
  ASSUME CatalogInv, NEW a \in Attempts, Request(a) \in Requests, Exists(Task(a)),
         NEW p \in Serves("mark")
  PROVE  Queues(a, p, Mark(a, Task(a), tasks[Task(a)].state))
<1>1. Task(a) \in Tasks
  BY RequestsAssumption DEF Task
<1>2. tasks[Task(a)].state \in TaskStates
  BY <1>1 DEF CatalogInv, Data, TasksOK, Exists
<1> QED
  BY <1>2, MarkQueues DEF NonTerminal

LEMMA SameRequest ==
  ASSUME CatalogInv, NEW a \in Attempts, Request(a) \in Requests, tasks[Task(a)].request = Request(a)
  PROVE  Exists(Task(a))
BY RequestsAssumption, SentinelsAssumption DEF CatalogInv, Data, TasksOK, Task

LEMMA StartQuiet ==
  ASSUME CatalogInv, NEW a \in Attempts,
         \/ AnswerExisting(a) \/ LookUp(a) \/ Prevalidate(a) \/ PrevalidateRefuses(a)
         \/ StartFinds(a) \/ PeerReplies(a) \/ PeerFails(a) \/ ReconcileThrows(a)
  PROVE  CatalogInv'
<1> USE DEF Idling, Phases, Ended
<1>1. Request(a) \in Requests /\ Task(a) \in Tasks
  BY RequestKnown DEF AnswerExisting, LookUp, Prevalidate, PrevalidateRefuses, StartFinds, MayStart,
                      PeerReplies, PeerFails, ReconcileThrows
<1>2. \A p : Queues(a, p, <<>>)
  BY DEF Queues
<1>3. CASE AnswerExisting(a)
  <2>1. Queues(a, "answering", Mark(a, Task(a), tasks[Task(a)].state))
    BY <1>1, <1>3, TaskMark DEF AnswerExisting, Serves
  <2> QED
    BY <1>1, <1>3, <2>1, QuietStep DEF AnswerExisting, catalogVars
<1>4. CASE LookUp(a)
  BY <1>1, <1>2, <1>4, QuietStep DEF LookUp, catalogVars
<1>5. CASE Prevalidate(a)
  <2>1. Queues(a, "reserving", Op("reserve", a))
    BY <1>1, OpQueues DEF Serves
  <2> QED
    BY <1>1, <1>5, <2>1, QuietStep DEF Prevalidate, catalogVars
<1>6. CASE PrevalidateRefuses(a)
  BY <1>1, <1>2, <1>6, QuietStep DEF PrevalidateRefuses, catalogVars
<1>7. CASE StartFinds(a)
  <2>1. Queues(a, "marking", Mark(a, Task(a), tasks[Task(a)].state))
    BY <1>1, <1>7, TaskMark, SameRequest DEF StartFinds, Serves
  <2> QED
    BY <1>1, <1>7, <2>1, QuietStep DEF StartFinds, MayStart, catalogVars
<1>8. CASE PeerReplies(a)
  <2>1. Queues(a, "marking", Mark(a, Task(a), tasks[Task(a)].state))
    BY <1>1, <1>8, TaskMark, SameRequest DEF PeerReplies, Serves
  <2> QED
    BY <1>1, <1>8, <2>1, QuietStep DEF PeerReplies, catalogVars
<1>9. CASE PeerFails(a)
  BY <1>1, <1>2, <1>9, QuietStep DEF PeerFails, catalogVars
<1>10. CASE ReconcileThrows(a)
  <2>1. Queues(a, "abandoning", Op("retain", a))
    BY <1>1, OpQueues DEF Serves
  <2> QED
    BY <1>1, <1>10, <2>1, QuietStep DEF ReconcileThrows, catalogVars
<1> QED
  BY <1>3, <1>4, <1>5, <1>6, <1>7, <1>8, <1>9, <1>10

\* The attempt that waits for the head of the chain.
LEMMA Runner ==
  ASSUME CatalogInv, NEW a \in Attempts, NEW kind \in {"reserve", "release", "retain"}, Runs(kind, a)
  PROVE  /\ mutation # <<>> /\ Head(mutation).by = a
         /\ Phase(a) \in Serves(kind)
         /\ Request(a) \in Requests /\ Task(a) \in Tasks
<1>1. mutation # <<>> /\ Head(mutation).by = a /\ a # Nobody /\ Phase(a) \in Serves(kind)
  BY HeadLeaves, SentinelsAssumption DEF Runs, CatalogInv
<1>2. Phase(a) # "idle"
  BY <1>1 DEF Serves
<1> QED
  BY <1>1, <1>2, RequestKnown

LEMMA CatalogQuiet ==
  ASSUME CatalogInv, NEW a \in Attempts, ReserveConflicts(a) \/ ReserveFull(a) \/ GroupGone(a)
  PROVE  CatalogInv'
<1> USE DEF Phases
<1>1. \A p : Queues(a, p, <<>>)
  BY DEF Queues
<1>2. CASE ReserveConflicts(a) \/ ReserveFull(a)
  BY <1>1, <1>2, Runner, QuietStep DEF ReserveConflicts, ReserveFull, catalogVars
<1>3. CASE GroupGone(a)
  <2>1. /\ mutation # <<>> /\ Head(mutation).by = a
        /\ Request(a) \in Requests
    BY <1>3, Runner DEF GroupGone
  <2>2. Queues(a, "abandoning", Op("retain", a))
    BY <2>1, OpQueues DEF Serves
  <2>3. \/ Resumes(a, "failing", <<>>)
        \/ Resumes(a, "abandoning", Op("retain", a))
        \/ Resumes(a, "unreconciled", <<>>)
    BY <1>3 DEF GroupGone
  <2> QED
    BY <1>1, <1>3, <2>1, <2>2, <2>3, QuietStep DEF GroupGone, catalogVars
<1> QED
  BY <1>2, <1>3

LEMMA SubmitKeeps ==
  ASSUME CatalogInv, NEW a \in Attempts, Submit(a)
  PROVE  CatalogInv'
<1> USE DEF Data
<1>1. PICK r \in Requests, p \in {"prevalidating", "refused"} :
        attempts' = [attempts EXCEPT ![a].request = r, ![a].phase = p]
  BY DEF Submit
<1>2. /\ attempts'[a] = [attempts[a] EXCEPT !.request = r, !.phase = p]
      /\ \A b \in Attempts : b # a => attempts'[b] = attempts[b]
      /\ attempts[a].phase = "idle"
  BY <1>1 DEF Submit, CatalogInv, AttemptsOK, Phase
<1>3. Request(a) = NoRequest /\ ~(attempts[a].attempted) /\ attempts[a].seen = Absent
  BY <1>2, SentinelsAssumption DEF CatalogInv, AttemptsOK, Request, Phase
<1>4. AttemptsOK'
  BY <1>1, <1>2, <1>3 DEF CatalogInv, AttemptsOK, Phases, Request, Phase, Task, Exists, NonTerminal, Submit
<1>5. QueueOK'
  <2>1. Turns(a, p) /\ Onward /\ Joins(mutation, a, p)
    BY <1>2, <1>1 DEF Submit, Turns, Onward, Exists, Joins, CatalogInv, AttemptsOK
  <2> QED
    BY <1>2, <2>1, IdlingWaits, QueueMoves DEF Phase, Idling, CatalogInv
<1>6. /\ \A b \in Attempts : b # a => Request(b)' = Request(b) /\ Phase(b)' = Phase(b)
      /\ Phase(a)' \notin {"reserved", "releasing"}
      /\ \A b \in Attempts : attempts'[b].attempted = attempts[b].attempted
  BY <1>1, <1>2, <1>3 DEF Request, Phase, CatalogInv, AttemptsOK
<1>7. stored' = stored /\ routes' = routes /\ groups' = groups /\ tasks' = tasks
  BY DEF Submit, catalogVars
<1>8. Promises'
  <2> USE <1>7 DEF Promises, Request, Phase, Task, Exists, NonTerminal, Held
  <2>1. OneRecord' /\ ReleasedUntried'
    BY <1>2, <1>6 DEF CatalogInv, OneRecord, ReleasedUntried
  <2>2. AttemptedKnown'
    BY <1>2, <1>3, <1>6 DEF CatalogInv, AttemptedKnown
  <2>3. TasksHeld' /\ AttemptsHeld'
    BY <1>2, <1>3, <1>6 DEF CatalogInv, TasksHeld, AttemptsHeld
  <2>4. ReservedHeld'
    <3>1. \A b \in Attempts : Phase(b)' = "reserved" => b # a /\ attempts'[b] = attempts[b] /\ Phase(b) = "reserved"
      BY <1>2, <1>6
    <3>2. \A b \in Attempts : attempts'[b] = attempts[b] => (InGroup(b)' <=> InGroup(b))
      BY <1>7 DEF InGroup
    <3> QED
      BY <3>1, <3>2, <1>7 DEF CatalogInv, ReservedHeld, Loose
  <2>5. LooseKeeps'
    BY <1>2, <1>3, <1>6, SentinelsAssumption DEF CatalogInv, LooseKeeps, Loose, TasksOK, GroupsOK, Groups
  <2> QED
    BY <2>1, <2>2, <2>3, <2>4, <2>5
<1> QED
  BY <1>4, <1>5, <1>8, QuietData DEF CatalogInv, Submit

\* The reservation that read a record keeps its route.
LEMMA ReconcileKeeps ==
  ASSUME CatalogInv, NEW a \in Attempts, Reconcile(a)
  PROVE  CatalogInv'
<1>1. Request(a) \in Requests /\ Task(a) \in Tasks /\ Phase(a) = "failing"
  BY RequestKnown DEF Reconcile
<1>2. CASE NotDispatched(a) /\ Goes(a, "releasing", Op("release", a))
  <2>1. Queues(a, "releasing", Op("release", a))
    BY <1>1, OpQueues DEF Serves
  <2> QED
    BY <1>1, <1>2, <2>1, QuietStep DEF Reconcile, Idling, Phases, catalogVars
<1>3. CASE /\ attempts' = [attempts EXCEPT
                            ![a].phase = "settling",
                            ![a].seen = IF Request(a) \in Remote THEN Absent ELSE tasks[Task(a)].state]
           /\ mutation' = mutation \o Op("retain", a)
  <2> DEFINE s == IF Request(a) \in Remote THEN Absent ELSE tasks[Task(a)].state
  <2>1. /\ s \in TaskStates \cup {Absent}
        /\ s # Absent => Exists(Task(a))
        /\ s \in Terminal => ~NonTerminal(Task(a))
    BY <1>1 DEF CatalogInv, Data, TasksOK, Exists, NonTerminal, Terminal, Absent
  <2>2. /\ attempts'[a] = [attempts[a] EXCEPT !.phase = "settling", !.seen = s]
        /\ \A b \in Attempts : b # a => attempts'[b] = attempts[b]
    BY <1>3 DEF CatalogInv, Data, AttemptsOK
  <2>3. UNCHANGED <<catalogVars, tasks>>
    BY DEF Reconcile
  <2> HIDE DEF s
  <2>4. AttemptsOK'
    <3>1. \A b \in Attempts : Request(b)' = Request(b)
      BY <2>2 DEF CatalogInv, Data, AttemptsOK, Request
    <3>2. attempts' = [attempts EXCEPT ![a] = attempts'[a]]
      BY <1>3, <2>2 DEF CatalogInv, Data, AttemptsOK
    <3>3. attempts'[a] \in [phase : Phases, request : Requests \cup {NoRequest},
                            route : Routes \cup {NoRoute}, attempted : BOOLEAN,
                            seen : TaskStates \cup {Absent}]
      BY <2>1, <2>2 DEF CatalogInv, Data, AttemptsOK, Phases
    <3>4. /\ attempts'[a].seen = s /\ attempts'[a].phase = "settling"
      BY <2>2 DEF CatalogInv, Data, AttemptsOK
    <3>5. attempts' \in [Attempts -> [phase : Phases, request : Requests \cup {NoRequest},
                                      route : Routes \cup {NoRoute}, attempted : BOOLEAN,
                                      seen : TaskStates \cup {Absent}]]
      BY <3>2, <3>3 DEF CatalogInv, Data, AttemptsOK
    <3>6. tasks' = tasks
      BY <2>3
    <3>7. \A b \in Attempts : /\ (Exists(Task(b)) <=> Exists(Task(b))')
                              /\ (NonTerminal(Task(b)) <=> NonTerminal(Task(b))')
      BY <3>1, <3>6 DEF Exists, NonTerminal, Task
    <3> QED
      BY <1>1, <2>1, <2>2, <3>1, <3>4, <3>5, <3>7 DEF CatalogInv, Data, AttemptsOK, Phase
  <2>5. QueueOK'
    <3>1. Turns(a, "settling") /\ Onward
      BY <1>1, <2>2 DEF Reconcile, Turns, Onward, Exists, CatalogInv, Data, AttemptsOK, Request
    <3>2. Queues(a, "settling", Op("retain", a))
      BY <1>1, OpQueues DEF Serves
    <3>3. Phase(a) \in Idling /\ Task(a)' = Task(a)
      BY <1>1, <2>2 DEF Idling, Task, Request, CatalogInv, Data, AttemptsOK
    <3> QED
      BY <1>3, <3>1, <3>2, <3>3, IdlingWaits, QueuesJoin, QueueMoves DEF CatalogInv
  <2>6. Promises'
    <3>1. /\ attempts'[a].attempted = attempts[a].attempted
          /\ attempts'[a].request = attempts[a].request
          /\ attempts'[a].phase = "settling"
      BY <2>2 DEF CatalogInv, Data, AttemptsOK
    <3> QED
      BY <2>2, <2>3, <3>1, QuietPromises DEF CatalogInv
  <2> QED
    BY <2>4, <2>5, <2>6, QuietData DEF CatalogInv, Reconcile
<1> QED
  BY <1>2, <1>3 DEF Reconcile

----------------------------------------------------------------------------
(* The steps that start a task *)

LEMMA SameCatalog ==
  ASSUME UNCHANGED catalogVars
  PROVE  /\ \A r \in Requests : Held(r)' <=> Held(r)
         /\ \A t \in Tasks : Loose(t)' <=> Loose(t)
BY DEF catalogVars, Held, Loose

LEMMA SameTasks ==
  ASSUME UNCHANGED tasks
  PROVE  \A t \in Tasks : (Exists(t)' <=> Exists(t)) /\ (NonTerminal(t)' <=> NonTerminal(t))
BY DEF Exists, NonTerminal

\* An attempt tries, with a reservation that is held, and turns to phase p.
LEMMA TryPromises ==
  ASSUME CatalogInv, UNCHANGED <<catalogVars, tasks>>, NEW a \in Attempts, Phase(a) = "reserved",
         Request(a) \in Remote, Request(a) \in Requests,
         NEW p \in Phases \ {"idle", "reserved", "releasing"},
         attempts' = [attempts EXCEPT ![a].phase = p, ![a].attempted = TRUE]
  PROVE  Promises' /\ AttemptsOK'
<1>1. /\ attempts'[a] = [attempts[a] EXCEPT !.phase = p, !.attempted = TRUE]
      /\ \A b \in Attempts : b # a => attempts'[b] = attempts[b]
  BY DEF CatalogInv, Data, AttemptsOK
<1>2. /\ \A b \in Attempts : Request(b)' = Request(b)
      /\ Phase(a)' = p
      /\ \A b \in Attempts : b # a => attempts'[b].attempted = attempts[b].attempted
  BY <1>1 DEF CatalogInv, Data, AttemptsOK, Request, Phase
<1>3. stored' = stored /\ routes' = routes /\ groups' = groups /\ tasks' = tasks
  BY DEF catalogVars
<1>4. NonTerminal(Task(a)) => Held(Request(a)) /\ (a \in groups[Task(a)].attempts \/ ~Loose(Task(a)))
  BY DEF CatalogInv, Promises, ReservedHeld, InGroup
<1>5. /\ \A r \in Requests : Held(r)' <=> Held(r)
      /\ \A t \in Tasks : /\ Loose(t)' <=> Loose(t)
                          /\ Exists(t)' <=> Exists(t)
                          /\ NonTerminal(t)' <=> NonTerminal(t)
  BY SameCatalog, SameTasks
<1>6. \A b \in Attempts : Request(b) \in Requests => Task(b) \in Tasks
  BY RequestsAssumption DEF Task
<1>7. \A b \in Attempts : attempts[b].attempted => Request(b) \in Requests /\ Task(b) \in Tasks
  BY RequestsAssumption DEF CatalogInv, Data, AttemptsOK, Task
<1> USE DEF Phase, Request, Task
<1>8. AttemptsOK'
  <2>1. attempts' \in [Attempts -> [phase : Phases, request : Requests \cup {NoRequest},
                                    route : Routes \cup {NoRoute}, attempted : BOOLEAN,
                                    seen : TaskStates \cup {Absent}]]
    BY DEF CatalogInv, Data, AttemptsOK
  <2> SUFFICES ASSUME NEW b \in Attempts
               PROVE  (/\ IF Phase(b) = "idle" THEN Request(b) = NoRequest ELSE Request(b) \in Requests
                       /\ attempts[b].attempted => Request(b) \in Requests
                       /\ attempts[b].seen # Absent => Request(b) \in Requests /\ Exists(Task(b))
                       /\ attempts[b].seen \in Terminal => ~NonTerminal(Task(b)))'
    BY <2>1 DEF AttemptsOK
  <2> QED
    BY <1>1, <1>5, <1>6 DEF CatalogInv, Data, AttemptsOK, Exists, NonTerminal
<1>9. OneRecord' /\ ReleasedUntried'
  BY <1>1, <1>2, <1>3 DEF CatalogInv, Promises, OneRecord, ReleasedUntried
<1>10. AttemptedKnown'
  <2>1. \A b \in Attempts : attempts[b].attempted => attempts'[b].attempted
    BY <1>1 DEF CatalogInv, Data, AttemptsOK
  <2>2. \A b \in Attempts : attempts'[b].attempted /\ Request(b) \notin Remote => attempts[b].attempted
    BY <1>1
  <2>3. AttemptedKnown
    BY DEF CatalogInv, Promises
  <2>4. \A b \in Attempts : attempts'[b].attempted /\ attempts'[b].request \notin Remote
                           => tasks'[TaskOf[attempts'[b].request]].request = attempts'[b].request
    BY <1>2, <1>3, <2>2, <2>3 DEF AttemptedKnown
  <2>5. ASSUME NEW t \in Tasks, Exists(t), tasks[t].request \in Remote
        PROVE  \E b \in Attempts : attempts'[b].attempted /\ attempts'[b].request = tasks[t].request
    BY <1>2, <2>1, <2>3, <2>5 DEF AttemptedKnown
  <2> QED
    BY <1>3, <1>5, <2>4, <2>5 DEF AttemptedKnown
<1>11. TasksHeld'
  BY <1>3, <1>5 DEF CatalogInv, Promises, TasksHeld, Data, TasksOK
<1>12. AttemptsHeld'
  <2> SUFFICES ASSUME NEW b \in Attempts, attempts'[b].attempted, NonTerminal(Task(b))'
               PROVE  Held(Request(b))'
    BY DEF AttemptsHeld
  <2> QED
    BY <1>1, <1>2, <1>3, <1>4, <1>5, <1>7 DEF CatalogInv, Promises, AttemptsHeld, NonTerminal
<1>13. ReservedHeld'
  <2> SUFFICES ASSUME NEW b \in Attempts, attempts'[b].phase = "reserved", NonTerminal(Task(b))'
               PROVE  Held(Request(b))' /\ (InGroup(b)' \/ ~Loose(Task(b))')
    BY DEF ReservedHeld
  <2>1. b # a /\ attempts'[b] = attempts[b] /\ Phase(b) = "reserved"
    BY <1>1, <1>2
  <2>2. Request(b) \in Requests /\ Task(b) \in Tasks
    BY <2>1, RequestKnown
  <2> QED
    BY <1>3, <1>5, <2>1, <2>2 DEF CatalogInv, Promises, ReservedHeld, InGroup, NonTerminal, Loose
<1>14. LooseKeeps'
  <2>1. \A b \in Attempts : Phase(b) # "releasing" => Phase(b)' # "releasing"
    BY <1>1, <1>2 DEF Phase
  <2>2. \A t \in Tasks : Loose(t) => groups[t].attempts \subseteq Attempts
    BY DEF CatalogInv, Data, GroupsOK, Groups, Loose
  <2>3. LooseKeeps
    BY DEF CatalogInv, Promises
  <2> SUFFICES ASSUME NEW t \in Tasks, Loose(t), NonTerminal(t)
               PROVE  /\ Exists(t) /\ tasks[t].request \notin Remote
                         => \E b \in groups[t].attempts : Request(b)' = tasks[t].request /\ attempts'[b].phase # "releasing"
                      /\ \A b \in Attempts : attempts'[b].attempted /\ Request(b)' \in Remote /\ Task(b)' = t
                                             => b \in groups[t].attempts
    BY <1>3, <1>5 DEF LooseKeeps
  <2>4. Exists(t) /\ tasks[t].request \notin Remote
        => \E b \in groups[t].attempts : Request(b)' = tasks[t].request /\ attempts'[b].phase # "releasing"
    BY <1>2, <2>1, <2>2, <2>3 DEF LooseKeeps
  <2>5. \A b \in Attempts : attempts'[b].attempted /\ Request(b)' \in Remote /\ Task(b)' = t
                            => b \in groups[t].attempts
    <3>1. ASSUME NEW b \in Attempts, b # a, attempts'[b].attempted, Request(b)' \in Remote, Task(b)' = t
          PROVE  b \in groups[t].attempts
      BY <1>1, <2>3, <3>1 DEF LooseKeeps
    <3>2. Task(a)' = t => a \in groups[t].attempts
      BY <1>2, <1>4
    <3> QED
      BY <3>1, <3>2
  <2> QED
    BY <2>4, <2>5
<1> QED
  BY <1>8, <1>9, <1>10, <1>11, <1>13, <1>14, <1>12 DEF Promises

LEMMA CallPeerKeeps ==
  ASSUME CatalogInv, NEW a \in Attempts, CallPeer(a)
  PROVE  CatalogInv'
<1>1. Request(a) \in Requests /\ Task(a) \in Tasks /\ Phase(a) = "reserved"
  BY RequestKnown DEF CallPeer
<1>2. CASE Goes(a, "failing", <<>>)
  <2>1. Queues(a, "failing", <<>>)
    BY DEF Queues
  <2> QED
    BY <1>1, <1>2, <2>1, QuietStep DEF CallPeer, Idling, Phases, catalogVars
<1>3. CASE /\ attempts' = [attempts EXCEPT ![a].phase = "calling", ![a].attempted = TRUE]
           /\ UNCHANGED mutation
  <2>1. Promises' /\ AttemptsOK'
    BY <1>1, <1>3, TryPromises DEF CallPeer, Phases
  <2>2. Turns(a, "calling") /\ Onward /\ Joins(mutation, a, "calling")
    BY <1>1, <1>3 DEF CallPeer, Turns, Onward, Exists, Joins, CatalogInv, Data, AttemptsOK, Request
  <2>3. QueueOK'
    BY <1>1, <2>2, IdlingWaits, QueueMoves DEF Idling, CatalogInv
  <2> QED
    BY <2>1, <2>3, QuietData DEF CatalogInv, CallPeer
<1> QED
  BY <1>2, <1>3 DEF CallPeer

\* A task comes to be for a request whose route is held, sent by an attempt
\* of the group that holds it.
LEMMA AcceptPromises ==
  ASSUME CatalogInv, UNCHANGED catalogVars, NEW a \in Attempts, Request(a) \in Requests,
         ~Exists(Task(a)), Accepted(a),
         \A b \in Attempts : b # a => attempts'[b] = attempts[b],
         AttemptsOK',
         Request(a)' = Request(a),
         Held(Request(a)),
         \/ /\ Request(a) \notin Remote
            /\ a \in groups[Task(a)].attempts \/ ~Loose(Task(a))
            /\ Phase(a)' \notin {"reserved", "releasing"}
         \/ Request(a) \in Remote /\ attempts[a].attempted /\ attempts' = attempts
  PROVE  Data' /\ Promises'
<1>1. /\ Task(a) \in Tasks
      /\ tasks'[Task(a)] = [request |-> Request(a), state |-> "startingAgent"]
      /\ \A t \in Tasks : t # Task(a) => tasks'[t] = tasks[t]
      /\ tasks' \in [Tasks -> [request : Requests \cup {NoRequest}, state : TaskStates \cup {Absent}]]
      /\ tasks[Task(a)].request = NoRequest
      /\ TaskOf[Request(a)] = Task(a)
  BY RequestsAssumption DEF Accepted, Task, CatalogInv, Data, TasksOK, TaskStates
<1>2. \A t \in Tasks : NonTerminal(t)' <=> NonTerminal(t)
  BY <1>1 DEF NonTerminal, Exists, Terminal, Absent
<1>3. \A b \in Attempts : Request(b)' = Request(b) /\ Task(b)' = Task(b)
  BY DEF Request, Task
<1>4. stored' = stored /\ routes' = routes /\ groups' = groups
  BY DEF catalogVars
<1>5. TasksOK'
  BY <1>1 DEF CatalogInv, Data, TasksOK, Exists, Absent
<1>6. StoredOK' /\ RoutesOK' /\ GroupsOK'
  BY <1>1, <1>2, <1>4, RequestsAssumption DEF CatalogInv, Data, StoredOK, RoutesOK, GroupsOK, Routes
<1>7. OneRecord' /\ ReleasedUntried'
  BY <1>3, <1>4 DEF CatalogInv, Promises, OneRecord, ReleasedUntried, Phase
<1>8. /\ \A r \in Requests : Held(r)' <=> Held(r)
      /\ \A t \in Tasks : Loose(t)' <=> Loose(t)
  BY SameCatalog
<1>9. \A b \in Attempts : attempts[b].attempted \/ Phase(b) = "reserved"
                           => Request(b) \in Requests /\ Task(b) \in Tasks
  BY RequestKnown, RequestsAssumption DEF CatalogInv, Data, AttemptsOK, Task
<1>10. AttemptedKnown /\ TasksHeld /\ AttemptsHeld /\ ReservedHeld /\ LooseKeeps
  BY DEF CatalogInv, Promises
<1>11. /\ Exists(Task(a))'
       /\ \A t \in Tasks : t # Task(a) => (Exists(t)' <=> Exists(t))
       /\ \A t \in Tasks : Exists(t) => t # Task(a) /\ tasks[t].request \in Requests
                                         /\ TaskOf[tasks[t].request] = t
  BY <1>1, <1>3 DEF Exists, Absent, CatalogInv, Data, TasksOK
<1>12. \A b \in Attempts : Request(b) \in Remote \/ b # a => attempts'[b] = attempts[b]
  OBVIOUS
<1> USE DEF Request, Task, Phase
<1>13. AttemptedKnown'
  <2>1. ASSUME NEW b \in Attempts, attempts'[b].attempted, Request(b) \notin Remote
        PROVE  tasks'[Task(b)].request = Request(b)
    <3>1. CASE b = a
      BY <1>1, <3>1
    <3>2. CASE b # a
      <4>1. tasks[Task(b)].request = Request(b)
        BY <1>10, <2>1, <3>2 DEF AttemptedKnown
      <4>2. Request(b) \in Requests /\ Task(b) \in Tasks
        BY <1>9, <2>1, <3>2
      <4> QED
        BY <1>1, <4>1, <4>2, SentinelsAssumption
    <3> QED
      BY <3>1, <3>2
  <2>2. ASSUME NEW t \in Tasks, Exists(t)', tasks'[t].request \in Remote
        PROVE  \E b \in Attempts : attempts'[b].attempted /\ Request(b)' = tasks'[t].request
    <3>1. CASE t = Task(a)
      BY <1>1, <2>2, <3>1
    <3>2. CASE t # Task(a)
      <4>1. PICK b \in Attempts : attempts[b].attempted /\ Request(b) = tasks[t].request
        BY <1>1, <1>10, <1>11, <2>2, <3>2 DEF AttemptedKnown
      <4> QED
        BY <1>1, <1>12, <2>2, <3>2, <4>1
    <3> QED
      BY <3>1, <3>2
  <2> QED
    BY <1>3, <2>1, <2>2 DEF AttemptedKnown
<1>14. TasksHeld' /\ AttemptsHeld'
  <2>1. ASSUME NEW t \in Tasks, Exists(t)', NonTerminal(t)'
        PROVE  Held(tasks[t].request)'
    <3>1. CASE t = Task(a)
      BY <1>1, <1>4, <3>1 DEF Held
    <3>2. CASE t # Task(a)
      BY <1>1, <1>2, <1>4, <1>10, <1>11, <2>1, <3>2 DEF Held, TasksHeld
    <3> QED
      BY <3>1, <3>2
  <2>2. ASSUME NEW b \in Attempts, attempts'[b].attempted, NonTerminal(Task(b))'
        PROVE  Held(Request(b))'
    <3>1. CASE b = a
      BY <1>3, <1>4, <3>1 DEF Held
    <3>2. CASE b # a
      <4>1. attempts[b].attempted /\ Request(b) \in Requests /\ Task(b) \in Tasks
        BY <1>9, <2>2, <3>2
      <4> QED
        BY <1>2, <1>3, <1>4, <1>10, <2>2, <3>2, <4>1 DEF Held, AttemptsHeld
    <3> QED
      BY <3>1, <3>2
  <2> QED
    BY <2>1, <2>2 DEF TasksHeld, AttemptsHeld
<1>15. ReservedHeld'
  <2> SUFFICES ASSUME NEW b \in Attempts, attempts'[b].phase = "reserved", NonTerminal(Task(b))'
               PROVE  Held(Request(b))' /\ (InGroup(b)' \/ ~Loose(Task(b))')
    BY DEF ReservedHeld
  <2>1. attempts'[b] = attempts[b] /\ Phase(b) = "reserved"
    BY <1>12
  <2>2. Request(b) \in Requests /\ Task(b) \in Tasks
    BY <2>1, <1>9
  <2> QED
    BY <1>2, <1>4, <1>8, <1>10, <2>1, <2>2 DEF ReservedHeld, InGroup, Loose
<1>16. LooseKeeps'
  <2> SUFFICES ASSUME NEW t \in Tasks, Loose(t), NonTerminal(t)
               PROVE  /\ Exists(t)' /\ tasks'[t].request \notin Remote
                         => \E b \in groups[t].attempts : Request(b)' = tasks'[t].request /\ attempts'[b].phase # "releasing"
                      /\ \A b \in Attempts : attempts'[b].attempted /\ Request(b)' \in Remote /\ Task(b)' = t
                                             => b \in groups[t].attempts
    BY <1>2, <1>4, <1>8 DEF LooseKeeps
  <2>1. groups[t].attempts \subseteq Attempts
    BY DEF CatalogInv, Data, GroupsOK, Groups, Loose
  <2>2. ASSUME Exists(t)', tasks'[t].request \notin Remote
        PROVE  \E b \in groups[t].attempts : Request(b)' = tasks'[t].request /\ attempts'[b].phase # "releasing"
    <3>1. CASE t = Task(a)
      BY <1>1, <2>2, <3>1
    <3>2. CASE t # Task(a)
      <4>1. PICK b \in groups[t].attempts : Request(b) = tasks[t].request /\ Phase(b) # "releasing"
        BY <1>1, <1>10, <1>11, <2>2, <3>2 DEF LooseKeeps
      <4>2. b # a /\ b \in Attempts
        BY <1>1, <1>11, <2>1, <2>2, <3>2, <4>1
      <4> QED
        BY <1>1, <3>2, <4>1, <4>2
    <3> QED
      BY <3>1, <3>2
  <2>3. ASSUME NEW b \in Attempts, attempts'[b].attempted, Request(b)' \in Remote, Task(b)' = t
        PROVE  b \in groups[t].attempts
    BY <1>3, <1>10, <1>12, <2>3 DEF LooseKeeps
  <2> QED
    BY <2>2, <2>3
<1> QED
  BY <1>5, <1>6, <1>7, <1>13, <1>14, <1>15, <1>16 DEF Data, Promises

\* A local start that is accepted turns to phase p.
LEMMA LocalAccepts ==
  ASSUME CatalogInv, NEW a \in Attempts, MayStart(a), ~Exists(Task(a)), Accepted(a),
         UNCHANGED catalogVars, NEW p \in Phases \ {"idle", "reserved", "releasing"}, NEW tried \in BOOLEAN,
         attempts' = [attempts EXCEPT ![a].phase = p, ![a].attempted = tried],
         attempts[a].attempted => tried,
         NEW ops, Queues(a, p, ops)', mutation' = mutation \o ops
  PROVE  CatalogInv'
<1>1. Request(a) \in Requests /\ Task(a) \in Tasks /\ Phase(a) = "reserved"
  BY RequestKnown DEF MayStart
<1>2. /\ attempts'[a] = [attempts[a] EXCEPT !.phase = p, !.attempted = tried]
      /\ \A b \in Attempts : b # a => attempts'[b] = attempts[b]
  BY DEF CatalogInv, Data, AttemptsOK
<1>3. \A t \in Tasks : /\ Exists(t) => Exists(t)'
                       /\ NonTerminal(t)' <=> NonTerminal(t)
  BY DEF Accepted, CatalogInv, Data, TasksOK, Exists, NonTerminal, Absent, Terminal
<1>4. Onward
  BY <1>3 DEF Onward, Exists, NonTerminal
<1>5. \A b \in Attempts : Request(b)' = Request(b)
  BY <1>2 DEF CatalogInv, Data, AttemptsOK, Request
<1>6. AttemptsOK'
  <2>1. attempts' \in [Attempts -> [phase : Phases, request : Requests \cup {NoRequest},
                                    route : Routes \cup {NoRoute}, attempted : BOOLEAN,
                                    seen : TaskStates \cup {Absent}]]
    BY DEF CatalogInv, Data, AttemptsOK
  <2> USE DEF Phase, Request, Task
  <2>2. \A b \in Attempts : Request(b) \in Requests => Task(b) \in Tasks
    BY RequestsAssumption
  <2> SUFFICES ASSUME NEW b \in Attempts
               PROVE  (/\ IF Phase(b) = "idle" THEN Request(b) = NoRequest ELSE Request(b) \in Requests
                       /\ attempts[b].attempted => Request(b) \in Requests
                       /\ attempts[b].seen # Absent => Request(b) \in Requests /\ Exists(Task(b))
                       /\ attempts[b].seen \in Terminal => ~NonTerminal(Task(b)))'
    BY <2>1 DEF AttemptsOK
  <2>3. /\ attempts[b].seen # Absent => Request(b) \in Requests /\ Exists(Task(b))
        /\ attempts[b].seen \in Terminal => ~NonTerminal(Task(b)) /\ attempts[b].seen # Absent
        /\ attempts[b].attempted => Request(b) \in Requests
        /\ b # a => IF Phase(b) = "idle" THEN Request(b) = NoRequest ELSE Request(b) \in Requests
    BY DEF CatalogInv, Data, AttemptsOK, Terminal, Absent
  <2>4. /\ attempts'[b].seen = attempts[b].seen /\ attempts'[b].request = attempts[b].request
        /\ b = a => attempts'[b].phase = p
    BY <1>2 DEF CatalogInv, Data, AttemptsOK
  <2> QED
    BY <1>1, <1>2, <1>3, <2>2, <2>3, <2>4 DEF Exists, NonTerminal
<1>7. Data' /\ Promises'
  <2>1. Held(Request(a)) /\ (InGroup(a) \/ ~Loose(Task(a)))
    BY <1>1 DEF CatalogInv, Promises, ReservedHeld, NonTerminal, Exists, Absent, Terminal
  <2>2. /\ Request(a) \notin Remote
        /\ a \in groups[Task(a)].attempts \/ ~Loose(Task(a))
        /\ Phase(a)' \notin {"reserved", "releasing"}
    BY <1>2, <2>1 DEF MayStart, InGroup, Phase, CatalogInv, Data, AttemptsOK
  <2> QED
    BY <1>1, <1>2, <1>5, <1>6, <2>1, <2>2, AcceptPromises
<1>8. QueueOK'
  <2>1. Turns(a, p)
    BY <1>1, <1>2 DEF Turns, CatalogInv, Data, AttemptsOK, Request
  <2>2. Joins(mutation, a, p)
    <3>1. CASE ops = <<>>
      BY <3>1, EmptyQueues DEF Joins, CatalogInv, QueueOK
    <3>2. CASE ops # <<>>
      BY <3>2 DEF Queues, Joins
    <3> QED
      BY <3>1, <3>2
  <2> QED
    BY <1>1, <1>4, <2>1, <2>2, IdlingWaits, QueueMoves DEF Idling, CatalogInv
<1> QED
  BY <1>7, <1>8 DEF CatalogInv

LEMMA StartAcceptsKeeps ==
  ASSUME CatalogInv, NEW a \in Attempts, StartAccepts(a)
  PROVE  CatalogInv'
<1>1. Request(a) \in Requests /\ Task(a) \in Tasks /\ Phase(a) = "reserved"
  BY RequestKnown DEF StartAccepts, MayStart
<1> DEFINE o == [kind |-> "mark", by |-> a, task |-> Task(a), state |-> "startingAgent"]
<1>2. o \in Ops
  BY <1>1 DEF Ops, TaskStates
<1>3. Task(a)' = Task(a)
  BY DEF StartAccepts, CatalogInv, Data, AttemptsOK, Task, Request
<1>4. tasks'[Task(a)].state = "startingAgent"
  BY <1>1 DEF StartAccepts, Accepted, CatalogInv, Data, TasksOK
<1>5. TrueMark(o)'
  BY <1>3, <1>4 DEF TrueMark, Exists, NonTerminal, TaskStates, Terminal, Absent
<1>6. Queues(a, "accepting", Mark(a, Task(a), "startingAgent"))'
  BY <1>2, <1>3, <1>5 DEF Queues, Mark, Serves
<1> QED
  BY <1>3, <1>6, LocalAccepts DEF StartAccepts, Phases, Mark

LEMMA StartThrowsKeeps ==
  ASSUME CatalogInv, NEW a \in Attempts, StartThrows(a)
  PROVE  CatalogInv'
<1>1. Request(a) \in Requests /\ Phase(a) = "reserved"
  BY RequestKnown DEF StartThrows, MayStart
<1>2. Queues(a, "failing", <<>>) /\ Queues(a, "failing", <<>>)'
  BY DEF Queues
<1>3. CASE UNCHANGED tasks
  BY <1>1, <1>2, <1>3, QuietStep DEF StartThrows, Idling, Phases, catalogVars
<1>4. CASE ~Exists(Task(a)) /\ Accepted(a)
  <2>1. attempts' = [attempts EXCEPT ![a].phase = "failing", ![a].attempted = attempts[a].attempted]
    BY DEF StartThrows, Goes, CatalogInv, Data, AttemptsOK
  <2> QED
    BY <1>2, <1>4, <2>1, LocalAccepts DEF StartThrows, Goes, Phases, CatalogInv, Data, AttemptsOK
<1> QED
  BY <1>3, <1>4 DEF StartThrows

LEMMA PeerAcceptsKeeps ==
  ASSUME CatalogInv, NEW a \in Attempts, PeerAccepts(a)
  PROVE  CatalogInv'
<1>1. Request(a) \in Requests /\ Task(a) \in Tasks
  BY RequestsAssumption DEF PeerAccepts, CatalogInv, Data, AttemptsOK, Task
<1>2. \A t \in Tasks : /\ Exists(t) => Exists(t)'
                       /\ NonTerminal(t)' <=> NonTerminal(t)
  BY DEF PeerAccepts, Accepted, CatalogInv, Data, TasksOK, Exists, NonTerminal, Absent, Terminal
<1>3. Held(Request(a))
  BY <1>1 DEF PeerAccepts, CatalogInv, Promises, AttemptsHeld, NonTerminal, Exists, Absent, Terminal
<1>4. AttemptsOK'
  <2>1. \A b \in Attempts : Request(b) \in Requests => Task(b) \in Tasks
    BY RequestsAssumption DEF Task
  <2>2. \A b \in Attempts : attempts[b].seen \in Terminal => attempts[b].seen # Absent
    BY DEF Terminal, Absent
  <2> QED
    BY <1>2, <2>1, <2>2 DEF PeerAccepts, CatalogInv, Data, AttemptsOK, Exists, NonTerminal, Task, Request, Phase
<1>5. Data' /\ Promises'
  BY <1>1, <1>3, <1>4, AcceptPromises DEF PeerAccepts, Request
<1>6. QueueOK'
  <2>1. Onward /\ Turns(Nobody, "idle") /\ Joins(mutation, Nobody, "idle")
    BY <1>2, SentinelsAssumption DEF PeerAccepts, Onward, Exists, NonTerminal, Turns, Joins
  <2> QED
    BY <2>1, QueueMoves DEF CatalogInv, QueueOK
<1> QED
  BY <1>5, <1>6 DEF CatalogInv

----------------------------------------------------------------------------
(* The operations that touch the catalog *)

LEMMA RetainKeeps ==
  ASSUME CatalogInv, NEW a \in Attempts, Retain(a)
  PROVE  CatalogInv'
<1>1. /\ mutation # <<>> /\ Head(mutation).by = a /\ Phase(a) \in Serves("retain")
      /\ Request(a) \in Requests /\ Task(a) \in Tasks
  BY Runner DEF Retain
<1> DEFINE Nexts == {"answered", "unreconciled", "failed", "settlingMark"}
<1>2. \E p \in Nexts : \E ops : Resumes(a, p, ops) /\ Queues(a, p, ops)
  <2>1. \A p : Queues(a, p, <<>>)
    BY DEF Queues
  <2>2. CASE Phase(a) \in {"retaining", "abandoning"} \/ attempts[a].seen = Absent
    BY <1>1, <2>1, <2>2 DEF Retain, AfterRetain, Serves
  <2>3. CASE Phase(a) = "settling" /\ attempts[a].seen # Absent
    <3>1. /\ attempts[a].seen \in TaskStates /\ Exists(Task(a))
          /\ attempts[a].seen \in Terminal => ~NonTerminal(Task(a))
      BY <2>3 DEF CatalogInv, Data, AttemptsOK
    <3>2. Queues(a, "settlingMark", Mark(a, Task(a), attempts[a].seen))
      BY <1>1, <3>1, MarkQueues DEF Serves
    <3> QED
      BY <2>3, <3>2 DEF Retain, AfterRetain
  <2> QED
    BY <1>1, <2>2, <2>3 DEF Serves
<1>3. PICK p \in Nexts : \E ops : Resumes(a, p, ops) /\ Queues(a, p, ops)
  BY <1>2
<1>4. PICK ops : Resumes(a, p, ops) /\ Queues(a, p, ops)
  BY <1>3
<1>5. /\ attempts'[a] = [attempts[a] EXCEPT !.phase = p]
      /\ \A b \in Attempts : b # a => attempts'[b] = attempts[b]
      /\ attempts' = [attempts EXCEPT ![a].phase = p]
      /\ mutation' = Tail(mutation) \o ops
  BY <1>4 DEF Resumes, CatalogInv, Data, AttemptsOK
<1>6. stored' = stored /\ routes' = routes /\ tasks' = tasks
  BY DEF Retain
<1>7. /\ groups[Task(a)] \in Groups
      /\ groups'[Task(a)] \in Groups \cup {NoGroup}
      /\ groups'[Task(a)] # NoGroup => /\ groups'[Task(a)].protected
                                       /\ groups'[Task(a)].route = groups[Task(a)].route
  BY <1>1 DEF Retain, InGroup, Left, CatalogInv, Data, GroupsOK, Groups
<1>8. \A t \in Tasks : t # Task(a) => groups'[t] = groups[t]
  BY DEF Retain
<1>9. groups' \in [Tasks -> Groups \cup {NoGroup}]
  <2>1. groups' = [groups EXCEPT ![Task(a)] = groups'[Task(a)]]
    BY <1>1 DEF Retain, CatalogInv, Data, GroupsOK
  <2> QED
    BY <1>7, <2>1 DEF CatalogInv, Data, GroupsOK
<1>10. Data'
  <2>1. AttemptsOK'
    BY <1>1, <1>5, <1>6, PhaseTyped DEF CatalogInv, Data, Phases
  <2>2. GroupsOK'
    BY <1>7, <1>8, <1>9, <1>1, SentinelsAssumption DEF CatalogInv, Data, GroupsOK
  <2> QED
    BY <1>6, <2>1, <2>2 DEF CatalogInv, Data, TasksOK, StoredOK, RoutesOK, Exists, NonTerminal
<1>11. QueueOK'
  <2>1. Turns(a, p) /\ Onward /\ Task(a)' = Task(a)
    BY <1>1, <1>5, <1>6 DEF Turns, Onward, Exists, CatalogInv, Data, AttemptsOK, Request, Task
  <2> QED
    BY <1>1, <1>4, <1>5, <2>1, HeadLeaves, SentinelsAssumption, QueuesJoin, QueueMoves DEF CatalogInv
<1>12. Promises'
  <2>1. \A t \in Tasks : GroupKept(t, a)
    BY <1>7, <1>8 DEF GroupKept, Loose
  <2>2. OneRecord' /\ \A r \in Requests : Held(r) => Held(r)'
    BY <1>6 DEF CatalogInv, Promises, OneRecord, Held
  <2>3. /\ attempts'[a].attempted = attempts[a].attempted
        /\ attempts'[a].request = attempts[a].request
        /\ attempts'[a].phase = p
    BY <1>5 DEF CatalogInv, Data, AttemptsOK
  <2> QED
    BY <1>4, <1>5, <1>6, <2>1, <2>2, <2>3, PromisesKept DEF CatalogInv
<1> QED
  BY <1>10, <1>11, <1>12 DEF CatalogInv

LEMMA ResumeQueue ==
  ASSUME CatalogInv, UNCHANGED tasks, NEW a \in Attempts, mutation # <<>>, Head(mutation).by = a,
         NEW p, Turns(a, p), Task(a)' = Task(a), NEW ops, Queues(a, p, ops),
         mutation' = Tail(mutation) \o ops
  PROVE  QueueOK'
<1>1. Onward
  BY DEF Onward, Exists
<1> QED
  BY <1>1, HeadLeaves, SentinelsAssumption, QueuesJoin, QueueMoves DEF CatalogInv

\* Whoever waits for a markSnapshot goes on, and is neither about to start a
\* task nor to release its reservation.
LEMMA AfterMarkGoes ==
  ASSUME CatalogInv, mutation # <<>>, Head(mutation).kind = "mark", NEW ok \in BOOLEAN,
         AfterMark(Head(mutation).by, Head(mutation).task, ok)
  PROVE  \/ Head(mutation).by = Nobody /\ mutation' = Tail(mutation) /\ attempts' = attempts
         \/ /\ Head(mutation).by \in Attempts
            /\ \E p \in Phases \ {"idle", "reserved", "releasing"} : \E ops :
                 Resumes(Head(mutation).by, p, ops) /\ Queues(Head(mutation).by, p, ops)
<1> DEFINE a == Head(mutation).by
<1>1. CASE a = Nobody
  BY <1>1 DEF AfterMark
<1>2. CASE a # Nobody
  <2>1. /\ a \in Attempts /\ Phase(a) \in Serves("mark")
        /\ Head(mutation).task = Task(a)
        /\ Exists(Task(a))
    BY <1>2, HeadLeaves DEF CatalogInv, Ops, TrueMark
  <2>2. Request(a) \in Requests
    BY <2>1, RequestKnown DEF Serves
  <2>3. \A p : Queues(a, p, <<>>)
    BY DEF Queues
  <2>4. Queues(a, "marking", Mark(a, Task(a), "startingAgent"))
    BY <2>1, <2>2, MarkQueues DEF Serves, TaskStates, Terminal
  <2>5. Queues(a, "retaining", Op("retain", a)) /\ Queues(a, "abandoning", Op("retain", a))
    BY <2>1, <2>2, OpQueues DEF Serves
  <2>6. CASE Phase(a) = "accepting"
    BY <1>2, <2>1, <2>4, <2>6 DEF AfterMark, Phases
  <2>7. CASE Phase(a) = "marking"
    BY <1>2, <2>1, <2>3, <2>5, <2>7 DEF AfterMark, Phases
  <2>8. CASE Phase(a) = "settlingMark"
    BY <1>2, <2>1, <2>3, <2>5, <2>8 DEF AfterMark, Phases
  <2>9. CASE Phase(a) = "answering"
    BY <1>2, <2>1, <2>3, <2>9 DEF AfterMark, Phases
  <2> QED
    BY <2>1, <2>6, <2>7, <2>8, <2>9 DEF Serves
<1> QED
  BY <1>1, <1>2

\* Writing what a snapshot says keeps every record's request.
LEMMA UpdatedKeeps ==
  ASSUME CatalogInv, UNCHANGED tasks, NEW t \in Tasks, NEW s \in TaskStates,
         s \in Terminal => ~NonTerminal(t), Matches(t),
         NEW x, x = [routes[t] EXCEPT !.state = s],
         stored' \in {stored, Updated(x)},
         routes' \in {routes, [routes EXCEPT ![t] = x]}
  PROVE  /\ StoredOK' /\ RoutesOK' /\ OneRecord'
         /\ \A r \in Requests : Held(r) => Held(r)'
<1>1. /\ routes[t] \in Routes /\ x \in Routes
      /\ x.request = routes[t].request /\ x.state = s /\ TaskOf[x.request] = t
  BY DEF Matches, CatalogInv, Data, RoutesOK, Routes
<1>2. \A y \in stored : y \in Routes
  BY DEF CatalogInv, Data, StoredOK
<1>3. StoredOK'
  BY <1>1, <1>2 DEF CatalogInv, Data, StoredOK, Updated, NonTerminal
<1>4. RoutesOK'
  BY <1>1 DEF CatalogInv, Data, RoutesOK
<1>5. OneRecord'
  <2>1. \A y, z \in stored : TaskOf[y.request] = TaskOf[z.request] => y = z
    BY DEF CatalogInv, Promises, OneRecord
  <2>2. CASE stored' = stored
    BY <2>1, <2>2 DEF OneRecord
  <2>3. CASE stored' = Updated(x)
    <3>1. \A y \in stored' : y = x \/ (y \in stored /\ TaskOf[y.request] # t)
      BY <1>1, <2>3 DEF Updated
    <3> QED
      BY <1>1, <2>1, <3>1 DEF OneRecord
  <2> QED
    BY <2>2, <2>3
<1>6. ASSUME NEW r \in Requests, Held(r)
      PROVE  Held(r)'
  <2>1. PICK y \in stored : y.request = r
    BY <1>6 DEF Held
  <2>2. \E z \in stored' : z.request = r
    <3>1. CASE stored' = stored
      BY <2>1, <3>1
    <3>2. CASE stored' = Updated(x)
      <4>1. CASE TaskOf[r] = t
        <5>1. x \in Updated(x)
          BY <1>1, <2>1, <4>1 DEF Updated
        <5> QED
          BY <1>1, <1>6, <3>2, <4>1, <5>1 DEF Held
      <4>2. CASE TaskOf[r] # t
        BY <1>1, <2>1, <3>2, <4>2 DEF Updated
      <4> QED
        BY <4>1, <4>2
    <3> QED
      BY <3>1, <3>2
  <2>3. routes'[TaskOf[r]] # NoRoute /\ routes'[TaskOf[r]].request = r
    <3>1. TaskOf[r] \in Tasks
      BY RequestsAssumption
    <3> QED
      BY <1>1, <1>6, <3>1, SentinelsAssumption DEF Held, CatalogInv, Data, RoutesOK
  <2> QED
    BY <2>2, <2>3 DEF Held
<1> QED
  BY <1>3, <1>4, <1>5, <1>6

LEMMA MarkSnapshotKeeps ==
  ASSUME CatalogInv, MarkSnapshot
  PROVE  CatalogInv'
<1> DEFINE o == Head(mutation)
           t == o.task
           x == [routes[t] EXCEPT !.state = o.state]
<1>1. /\ mutation # <<>> /\ o.kind = "mark"
      /\ t \in Tasks /\ o.state \in TaskStates
      /\ o.state \in Terminal => ~NonTerminal(t)
  BY HeadLeaves DEF MarkSnapshot, CatalogInv, Ops, TrueMark
<1>2. /\ tasks' = tasks /\ groups' = groups
      /\ \E ok \in BOOLEAN : AfterMark(o.by, t, ok)
      /\ \/ stored' = stored /\ routes' = routes
         \/ /\ Matches(t)
            /\ stored' \in {stored, Updated(x)}
            /\ routes' \in {routes, [routes EXCEPT ![t] = x]}
  BY DEF MarkSnapshot, Written, WriteThrows
<1>3. /\ StoredOK' /\ RoutesOK' /\ OneRecord'
      /\ \A r \in Requests : Held(r) => Held(r)'
  <2>1. CASE stored' = stored /\ routes' = routes
    BY <1>2, <2>1 DEF CatalogInv, Data, Promises, StoredOK, RoutesOK, OneRecord, Held, NonTerminal
  <2>2. CASE /\ Matches(t)
             /\ stored' \in {stored, Updated(x)}
             /\ routes' \in {routes, [routes EXCEPT ![t] = x]}
    BY <1>1, <1>2, <2>2, UpdatedKeeps
  <2> QED
    BY <1>2, <2>1, <2>2
<1>4. GroupsOK' /\ TasksOK' /\ \A u \in Tasks : \A b : GroupKept(u, b)
  BY <1>2 DEF CatalogInv, Data, GroupsOK, TasksOK, Exists, GroupKept
<1>5. CASE o.by = Nobody /\ mutation' = Tail(mutation) /\ attempts' = attempts
  <2>1. AttemptsOK'
    BY <1>2, <1>5 DEF CatalogInv, Data, AttemptsOK, Phase, Request, Task, Exists, NonTerminal
  <2>2. QueueOK'
    <3>1. Onward /\ Turns(Nobody, "idle") /\ Joins(Tail(mutation), Nobody, "idle")
      BY <1>2, <1>5, SentinelsAssumption DEF Onward, Exists, Turns, Joins
    <3> QED
      BY <1>1, <3>1, HeadLeaves, QueueMoves DEF CatalogInv
  <2>3. Promises'
    BY <1>2, <1>3, <1>4, <1>5, SentinelsAssumption, PromisesKept DEF CatalogInv
  <2> QED
    BY <1>3, <1>4, <2>1, <2>2, <2>3 DEF CatalogInv, Data
<1>6. ASSUME NEW p \in Phases \ {"idle", "reserved", "releasing"}, NEW ops, o.by \in Attempts,
             Resumes(o.by, p, ops), Queues(o.by, p, ops)
      PROVE  CatalogInv'
  <2>1. PICK a \in Attempts : a = o.by
    BY <1>6
  <2>2. /\ attempts' = [attempts EXCEPT ![a].phase = p] /\ mutation' = Tail(mutation) \o ops
        /\ attempts'[a] = [attempts[a] EXCEPT !.phase = p]
        /\ \A b \in Attempts : b # a => attempts'[b] = attempts[b]
    BY <1>6, <2>1 DEF Resumes, CatalogInv, Data, AttemptsOK
  <2>3. Request(a) \in Requests
    BY <1>1, <2>1, HeadLeaves, SentinelsAssumption, RequestKnown DEF CatalogInv, Serves
  <2>4. AttemptsOK'
    BY <1>2, <2>2, <2>3, PhaseTyped DEF CatalogInv, Data
  <2>5. /\ attempts'[a].attempted = attempts[a].attempted
        /\ attempts'[a].request = attempts[a].request
        /\ attempts'[a].phase = p
    BY <2>2 DEF CatalogInv, Data, AttemptsOK
  <2>6. QueueOK'
    <3>1. Turns(a, p) /\ Task(a)' = Task(a)
      BY <2>2, <2>3, <2>5 DEF Turns, Task, Request
    <3> QED
      BY <1>1, <1>2, <1>6, <2>1, <2>2, <3>1, ResumeQueue
  <2>7. Promises'
    BY <1>2, <1>3, <1>4, <2>2, <2>5, PromisesKept DEF CatalogInv
  <2> QED
    BY <1>3, <1>4, <2>4, <2>6, <2>7 DEF CatalogInv, Data
<1> QED
  BY <1>1, <1>2, <1>5, <1>6, AfterMarkGoes

\* What an attempt that may release its reservation knows of the task.
LEMMA ReleasableUnsent ==
  ASSUME CatalogInv, NEW a \in Attempts, Phase(a) = "releasing", Task(a) \in Tasks, InGroup(a), Releasable(a)
  PROVE  ~NonTerminal(Task(a)) \/
         /\ ~Exists(Task(a))
         /\ \A b \in Attempts : /\ attempts[b].attempted => Task(b) # Task(a)
                                /\ Phase(b) = "reserved" => Task(b) # Task(a)
<1> SUFFICES ASSUME NonTerminal(Task(a))
             PROVE  /\ ~Exists(Task(a))
                    /\ \A b \in Attempts : /\ attempts[b].attempted => Task(b) # Task(a)
                                           /\ Phase(b) = "reserved" => Task(b) # Task(a)
  OBVIOUS
<1> DEFINE t == Task(a)
<1>1. Loose(t) /\ groups[t].attempts = {a}
  BY DEF InGroup, Releasable, Loose
<1>2. ~(attempts[a].attempted)
  BY DEF CatalogInv, Promises, ReleasedUntried
<1>3. /\ Exists(t) /\ tasks[t].request \notin Remote
         => \E b \in groups[t].attempts : Request(b) = tasks[t].request /\ Phase(b) # "releasing"
      /\ \A b \in Attempts : attempts[b].attempted /\ Request(b) \in Remote /\ Task(b) = t
                             => b \in groups[t].attempts
  BY <1>1 DEF CatalogInv, Promises, LooseKeeps
<1>4. AttemptedKnown
  BY DEF CatalogInv, Promises
<1>5. ~(Exists(t) /\ tasks[t].request \notin Remote)
  BY <1>1, <1>3
<1>6. \A b \in Attempts : attempts[b].attempted /\ Request(b) \in Remote => Task(b) # t
  BY <1>1, <1>2, <1>3
<1>7. ~Exists(t)
  <2> SUFFICES ASSUME Exists(t), tasks[t].request \in Remote PROVE FALSE
    BY <1>5
  <2>1. PICK b \in Attempts : attempts[b].attempted /\ Request(b) = tasks[t].request
    BY <1>4 DEF AttemptedKnown
  <2>2. Task(b) = t
    BY <2>1 DEF Task, CatalogInv, Data, TasksOK
  <2> QED
    BY <1>6, <2>1, <2>2
<1>8. ASSUME NEW b \in Attempts, attempts[b].attempted, Task(b) = t
      PROVE  FALSE
  <2>1. Request(b) \notin Remote
    BY <1>6, <1>8
  <2>2. tasks[t].request = Request(b) /\ Request(b) \in Requests
    BY <1>4, <1>8, <2>1 DEF AttemptedKnown, CatalogInv, Data, AttemptsOK
  <2> QED
    BY <1>7, <1>8, <2>2, SameRequest
<1>9. ASSUME NEW b \in Attempts, Phase(b) = "reserved", Task(b) = t
      PROVE  FALSE
  <2>1. InGroup(b)
    BY <1>1, <1>9 DEF CatalogInv, Promises, ReservedHeld
  <2>2. b = a
    BY <1>1, <1>9, <2>1 DEF InGroup
  <2> QED
    BY <1>9, <2>2
<1> QED
  BY <1>7, <1>8, <1>9

LEMMA ReleaseKeeps ==
  ASSUME CatalogInv, NEW a \in Attempts, Release(a)
  PROVE  CatalogInv'
<1> DEFINE t == Task(a)
           g == groups[t]
<1>1. /\ mutation # <<>> /\ Head(mutation).by = a /\ Phase(a) = "releasing"
      /\ Request(a) \in Requests /\ t \in Tasks
      /\ InGroup(a) /\ g \in Groups
  BY Runner DEF Release, Serves, InGroup, CatalogInv, Data, GroupsOK
<1>2. \E p \in {"failed", "abandoning"} : \E ops : Resumes(a, p, ops) /\ Queues(a, p, ops)
  <2>1. Queues(a, "failed", <<>>)
    BY DEF Queues
  <2>2. Queues(a, "abandoning", Op("retain", a))
    BY <1>1, OpQueues DEF Serves
  <2> QED
    BY <2>1, <2>2 DEF Release
<1>3. PICK p \in {"failed", "abandoning"} : \E ops : Resumes(a, p, ops) /\ Queues(a, p, ops)
  BY <1>2
<1>4. PICK ops : Resumes(a, p, ops) /\ Queues(a, p, ops)
  BY <1>3
<1>5. /\ tasks' = tasks
      /\ groups' = [groups EXCEPT ![t] = Left(g, a)]
      /\ \/ stored' = stored /\ routes' = routes
         \/ /\ Releasable(a)
            /\ stored' \in {stored, stored \ {g.route}}
            /\ routes' \in {routes, [routes EXCEPT ![t] = NoRoute]}
  BY DEF Release, Written, WriteThrows
<1>6. /\ attempts'[a] = [attempts[a] EXCEPT !.phase = p]
      /\ \A b \in Attempts : b # a => attempts'[b] = attempts[b]
      /\ attempts' = [attempts EXCEPT ![a].phase = p]
      /\ mutation' = Tail(mutation) \o ops
  BY <1>4 DEF Resumes, CatalogInv, Data, AttemptsOK
<1>7. /\ attempts'[a].attempted = attempts[a].attempted
      /\ attempts'[a].request = attempts[a].request
      /\ attempts'[a].phase = p
  BY <1>6 DEF CatalogInv, Data, AttemptsOK
<1>8. AttemptsOK'
  BY <1>1, <1>4, <1>5, <1>6, PhaseTyped DEF CatalogInv, Data, Phases
<1>9. GroupsOK' /\ \A u \in Tasks : GroupKept(u, a)
  <2>1. Left(g, a) = NoGroup \/ Left(g, a) = [g EXCEPT !.attempts = @ \ {a}]
    BY DEF Left
  <2>2. [g EXCEPT !.attempts = @ \ {a}] \in Groups /\ [g EXCEPT !.attempts = @ \ {a}].route = g.route
    BY <1>1 DEF Groups
  <2>3. \A u \in Tasks : groups'[u] = IF u = t THEN Left(g, a) ELSE groups[u]
    BY <1>5 DEF CatalogInv, Data, GroupsOK
  <2>4. groups' \in [Tasks -> Groups \cup {NoGroup}]
    BY <1>5, <2>1, <2>2 DEF CatalogInv, Data, GroupsOK
  <2>5. g # NoGroup /\ TaskOf[g.route.request] = t
    BY <1>1 DEF InGroup, CatalogInv, Data, GroupsOK
  <2>6. \A u \in Tasks : groups'[u] # NoGroup => TaskOf[groups'[u].route.request] = u
    BY <2>1, <2>2, <2>3, <2>5 DEF CatalogInv, Data, GroupsOK
  <2>7. GroupsOK'
    BY <2>4, <2>6 DEF GroupsOK
  <2>8. g # NoGroup
    BY <1>1 DEF InGroup
  <2> QED
    BY <1>1, <2>1, <2>3, <2>7, <2>8 DEF GroupKept, Loose
<1>10. StoredOK' /\ RoutesOK' /\ OneRecord'
  BY <1>1, <1>5 DEF CatalogInv, Data, Promises, StoredOK, RoutesOK, OneRecord, NonTerminal
<1>11. ASSUME NEW r \in Requests, Matters(r, a), Held(r)
      PROVE  Held(r)'
  <2>1. CASE stored' = stored /\ routes' = routes
    BY <1>11, <2>1 DEF Held
  <2>2. CASE /\ Releasable(a)
             /\ stored' \in {stored, stored \ {g.route}}
             /\ routes' \in {routes, [routes EXCEPT ![t] = NoRoute]}
    <3>1. ASSUME TaskOf[r] = t
          PROVE  FALSE
      <4>1. /\ ~Exists(t)
            /\ \A b \in Attempts : /\ attempts[b].attempted => Task(b) # t
                                   /\ Phase(b) = "reserved" => Task(b) # t
        BY <1>1, <1>11, <2>2, <3>1, ReleasableUnsent DEF Matters
      <4>2. \A u \in Tasks : Exists(u) /\ tasks[u].request = r => u = t
        BY <3>1 DEF CatalogInv, Data, TasksOK
      <4>3. \A b \in Attempts : Request(b) = r => Task(b) = t
        BY <3>1 DEF Task
      <4>4. CASE \E u \in Tasks : Exists(u) /\ tasks[u].request = r
        BY <4>1, <4>2, <4>4
      <4>5. CASE \E b \in Attempts : attempts[b].attempted /\ Request(b) = r
        BY <4>1, <4>3, <4>5
      <4>6. CASE \E b \in Attempts : b # a /\ Phase(b) = "reserved" /\ Request(b) = r
        BY <4>1, <4>3, <4>6
      <4> QED
        BY <1>11, <4>4, <4>5, <4>6 DEF Matters
    <3>2. TaskOf[g.route.request] = t
      BY <1>1 DEF InGroup, CatalogInv, Data, GroupsOK
    <3>3. TaskOf[r] \in Tasks
      BY RequestsAssumption
    <3> QED
      BY <1>11, <2>2, <3>1, <3>2, <3>3 DEF Held, CatalogInv, Data, RoutesOK
  <2> QED
    BY <1>5, <2>1, <2>2
<1>12. QueueOK'
  <2>1. Turns(a, p) /\ Task(a)' = Task(a)
    BY <1>1, <1>6, <1>7 DEF Turns, Task, Request
  <2> QED
    BY <1>1, <1>4, <1>5, <1>6, <2>1, ResumeQueue
<1>13. Promises'
  BY <1>4, <1>5, <1>6, <1>7, <1>9, <1>10, <1>11, PromisesKept DEF CatalogInv
<1>14. TasksOK'
  BY <1>5 DEF CatalogInv, Data, TasksOK, Exists
<1> QED
  BY <1>8, <1>9, <1>10, <1>12, <1>13, <1>14 DEF CatalogInv, Data

\* A reservation holds the route x of the attempt's request, new (created) or
\* found, and the attempt joins its group or founds one.
LEMMA ReserveKeeps ==
  ASSUME CatalogInv, NEW a \in Attempts, Runs("reserve", a), UNCHANGED tasks,
         NEW x \in Routes, x.request = Request(a), NEW created \in BOOLEAN,
         Reserves(a, x, created),
         created => Holding(Request(a)) = {},
         x \in stored', routes'[Task(a)] = x,
         StoredOK', RoutesOK', OneRecord',
         \A r \in Requests : Matters(r, a) /\ Held(r) => Held(r)'
  PROVE  CatalogInv'
<1> DEFINE t == Task(a)
           g == groups[t]
<1>1. /\ mutation # <<>> /\ Head(mutation).by = a /\ Phase(a) = "reserving"
      /\ Request(a) \in Requests /\ t \in Tasks /\ TaskOf[x.request] = t
  BY Runner DEF Serves, Task
<1>2. /\ attempts'[a] = [attempts[a] EXCEPT !.phase = "reserved", !.route = x]
      /\ \A b \in Attempts : b # a => attempts'[b] = attempts[b]
      /\ attempts' = [attempts EXCEPT ![a] = attempts'[a]]
      /\ mutation' = Tail(mutation) \o <<>>
  BY <1>1, HeadLeaves, EmptyQueues DEF Reserves, CatalogInv, Data, AttemptsOK
<1>3. /\ attempts'[a].attempted = attempts[a].attempted
      /\ attempts'[a].request = attempts[a].request
      /\ attempts'[a].seen = attempts[a].seen
      /\ attempts'[a].phase = "reserved" /\ attempts'[a].route = x
      /\ attempts'[a] \in [phase : Phases, request : Requests \cup {NoRequest},
                           route : Routes \cup {NoRoute}, attempted : BOOLEAN,
                           seen : TaskStates \cup {Absent}]
  BY <1>2 DEF CatalogInv, Data, AttemptsOK, Phases
<1>4. AttemptsOK'
  <2>1. attempts' \in [Attempts -> [phase : Phases, request : Requests \cup {NoRequest},
                                    route : Routes \cup {NoRoute}, attempted : BOOLEAN,
                                    seen : TaskStates \cup {Absent}]]
    BY <1>2, <1>3 DEF CatalogInv, Data, AttemptsOK
  <2> QED
    <3> SUFFICES ASSUME NEW b \in Attempts
                 PROVE  (/\ IF Phase(b) = "idle" THEN Request(b) = NoRequest ELSE Request(b) \in Requests
                         /\ attempts[b].attempted => Request(b) \in Requests
                         /\ attempts[b].seen # Absent => Request(b) \in Requests /\ Exists(Task(b))
                         /\ attempts[b].seen \in Terminal => ~NonTerminal(Task(b)))'
      BY <2>1 DEF AttemptsOK
    <3>1. /\ b # a => IF Phase(b) = "idle" THEN Request(b) = NoRequest ELSE Request(b) \in Requests
          /\ attempts[b].attempted => Request(b) \in Requests
          /\ attempts[b].seen # Absent => Request(b) \in Requests /\ Exists(Task(b))
          /\ attempts[b].seen \in Terminal => ~NonTerminal(Task(b))
      BY DEF CatalogInv, Data, AttemptsOK
    <3> QED
      BY <1>1, <1>2, <1>3, <3>1 DEF Phase, Request, Task, Exists, NonTerminal
<1>5. QueueOK'
  <2>1. Turns(a, "reserved") /\ Task(a)' = Task(a) /\ Queues(a, "reserved", <<>>)
    BY <1>1, <1>2, <1>3 DEF Turns, Task, Request, Queues
  <2> QED
    BY <1>1, <1>2, <2>1, ResumeQueue
\* The group that the attempt is in now.
<1>6. \/ g # NoGroup /\ g.route = x /\ groups'[t] = [g EXCEPT !.attempts = @ \cup {a}]
      \/ groups'[t] = [route |-> x, attempts |-> {a}, releasable |-> created, protected |-> ~created]
  BY <1>1 DEF Reserves, Joined, CatalogInv, Data, GroupsOK
<1>7. g # NoGroup => g \in Groups
  BY <1>1 DEF CatalogInv, Data, GroupsOK
<1>8. \A u \in Tasks : u # t => groups'[u] = groups[u]
  BY DEF Reserves, CatalogInv, Data, GroupsOK
<1>9. /\ groups'[t] \in Groups /\ groups'[t].route = x /\ a \in groups'[t].attempts
      /\ groups'[t] # NoGroup
  <2>1. CASE g # NoGroup /\ g.route = x /\ groups'[t] = [g EXCEPT !.attempts = @ \cup {a}]
    BY <1>7, <2>1, SentinelsAssumption DEF Groups
  <2>2. CASE groups'[t] = [route |-> x, attempts |-> {a}, releasable |-> created, protected |-> ~created]
    <3>1. groups'[t] \in Groups
      <4>1. CASE created = TRUE
        BY <2>2, <4>1 DEF Groups
      <4>2. CASE created = FALSE
        BY <2>2, <4>2 DEF Groups
      <4> QED
        BY <4>1, <4>2
    <3> QED
      BY <2>2, <3>1, SentinelsAssumption
  <2> QED
    BY <1>6, <2>1, <2>2
<1>10. GroupsOK'
  <2>1. groups' = [groups EXCEPT ![t] = groups'[t]]
    BY <1>1 DEF Reserves, CatalogInv, Data, GroupsOK
  <2> QED
    BY <1>1, <1>8, <1>9, <2>1 DEF CatalogInv, Data, GroupsOK
<1>11. Data'
  BY <1>4, <1>10 DEF CatalogInv, Data, TasksOK, Exists
<1>12. TasksHeld /\ AttemptsHeld /\ ReservedHeld /\ LooseKeeps /\ AttemptedKnown /\ ReleasedUntried
  BY DEF CatalogInv, Promises
<1>13. Held(Request(a))'
  BY <1>1, <1>3, SentinelsAssumption DEF Held, Request, Task
<1>14. \A b \in Attempts : /\ Request(b)' = Request(b) /\ Task(b)' = Task(b)
                           /\ attempts'[b].attempted = attempts[b].attempted
  BY <1>2, <1>3 DEF Request, Task
\* A new record means that nothing of the task matters.
<1>15. ASSUME NEW r \in Requests, Held(r), TaskOf[r] = t
       PROVE  ~created
  BY <1>1, <1>15 DEF Held, Holding
<1>16. Loose(t)' => \/ created
                    \/ /\ Loose(t) /\ g.route = x
                       /\ groups'[t].attempts = g.attempts \cup {a}
  <2>1. CASE g # NoGroup /\ g.route = x /\ groups'[t] = [g EXCEPT !.attempts = @ \cup {a}]
    BY <1>1, <1>7, <1>14, <2>1 DEF Loose, Groups
  <2>2. CASE groups'[t] = [route |-> x, attempts |-> {a}, releasable |-> created, protected |-> ~created]
    BY <1>1, <1>14, <2>2 DEF Loose
  <2> QED
    BY <1>6, <2>1, <2>2
<1>17. ReleasedUntried' /\ AttemptedKnown'
  <2>1. ReleasedUntried'
    BY <1>2, <1>3, <1>12 DEF ReleasedUntried, Phase
  <2>2. AttemptedKnown'
    BY <1>12, <1>14 DEF AttemptedKnown, Exists
  <2> QED
    BY <2>1, <2>2
<1> USE DEF Request, Task, Phase
<1>18. TasksHeld' /\ AttemptsHeld'
  <2>1. ASSUME NEW u \in Tasks, Exists(u), NonTerminal(u)
        PROVE  Held(tasks[u].request)'
    <3>1. PICK r \in Requests : r = tasks[u].request /\ TaskOf[r] = u
      BY <2>1 DEF CatalogInv, Data, TasksOK
    <3>2. Held(r)'
      BY <1>12, <2>1, <3>1 DEF TasksHeld, Matters
    <3> QED
      BY <3>1, <3>2 DEF Held
  <2>2. ASSUME NEW b \in Attempts, attempts[b].attempted, NonTerminal(Task(b))
        PROVE  Held(Request(b))'
    <3>1. Request(b) \in Requests /\ Held(Request(b))
      BY <1>12, <2>2 DEF AttemptsHeld, CatalogInv, Data, AttemptsOK
    <3>2. Matters(Request(b), a)
      BY <2>2 DEF Matters
    <3>3. PICK r \in Requests : r = Request(b) /\ Held(r)'
      BY <3>1, <3>2
    <3> QED
      BY <1>14, <3>3 DEF Held
  <2> QED
    BY <1>14, <2>1, <2>2 DEF TasksHeld, AttemptsHeld, Exists, NonTerminal
<1>19. ReservedHeld'
  <2> SUFFICES ASSUME NEW b \in Attempts, attempts'[b].phase = "reserved", NonTerminal(Task(b))
               PROVE  Held(Request(b))' /\ (InGroup(b)' \/ ~(Loose(Task(b))'))
    BY <1>14 DEF ReservedHeld, NonTerminal
  <2>1. CASE b = a
    <3>1. InGroup(a)'
      BY <1>3, <1>9, <1>14 DEF InGroup
    <3> QED
      BY <1>13, <2>1, <3>1
  <2>2. CASE b # a
    <3>1. /\ attempts'[b] = attempts[b] /\ Phase(b) = "reserved"
          /\ Request(b) \in Requests /\ Task(b) \in Tasks
      BY <1>2, <2>2, RequestKnown
    <3>2. Held(Request(b)) /\ (InGroup(b) \/ ~Loose(Task(b)))
      BY <1>12, <3>1 DEF ReservedHeld
    <3>3. PICK r \in Requests : r = Request(b) /\ Held(r)'
      BY <2>2, <3>1, <3>2 DEF Matters
    <3>4. Held(Request(b))'
      BY <3>1, <3>3 DEF Held
    <3>5. CASE Task(b) # t
      BY <1>8, <3>1, <3>2, <3>4, <3>5 DEF InGroup, Loose
    <3>6. CASE Task(b) = t
      <4>1. ~created
        BY <1>15, <3>1, <3>2, <3>6
      <4>2. CASE g # NoGroup /\ g.route = x /\ groups'[t] = [g EXCEPT !.attempts = @ \cup {a}]
        BY <1>7, <3>1, <3>2, <3>4, <3>6, <4>2, SentinelsAssumption DEF InGroup, Loose, Groups
      <4>3. CASE groups'[t] = [route |-> x, attempts |-> {a}, releasable |-> created, protected |-> ~created]
        BY <3>1, <3>4, <3>6, <4>1, <4>3 DEF Loose
      <4> QED
        BY <1>6, <4>2, <4>3
    <3> QED
      BY <3>5, <3>6
  <2> QED
    BY <2>1, <2>2
<1>20. LooseKeeps'
  <2> SUFFICES ASSUME NEW u \in Tasks, Loose(u)', NonTerminal(u)
               PROVE  /\ Exists(u) /\ tasks[u].request \notin Remote
                         => \E b \in groups'[u].attempts : attempts'[b].request = tasks[u].request /\ attempts'[b].phase # "releasing"
                      /\ \A b \in Attempts : attempts[b].attempted /\ Request(b) \in Remote /\ Task(b) = u
                                             => b \in groups'[u].attempts
    BY <1>14 DEF LooseKeeps, NonTerminal, Exists
  <2>1. CASE u = t /\ created
    <3>1. ~Exists(t)
      BY <1>12, <1>15, <2>1 DEF TasksHeld, CatalogInv, Data, TasksOK
    <3>2. \A b \in Attempts : attempts[b].attempted => Task(b) # t
      BY <1>12, <1>15, <2>1 DEF AttemptsHeld, CatalogInv, Data, AttemptsOK
    <3> QED
      BY <2>1, <3>1, <3>2
  <2>2. CASE u # t \/ ~created
    <3>1. /\ Loose(u) /\ groups[u].attempts \subseteq Attempts
          /\ groups'[u].attempts \in {groups[u].attempts, groups[u].attempts \cup {a}}
      <4>1. CASE u # t
        BY <1>8, <4>1 DEF Loose, CatalogInv, Data, GroupsOK, Groups
      <4>2. CASE u = t
        BY <1>7, <1>14, <1>16, <2>2, <4>2 DEF Loose, Groups
      <4> QED
        BY <4>1, <4>2
    <3>2. ASSUME Exists(u), tasks[u].request \notin Remote
          PROVE  \E b \in groups'[u].attempts : attempts'[b].request = tasks[u].request /\ attempts'[b].phase # "releasing"
      <4>1. PICK b \in groups[u].attempts : Request(b) = tasks[u].request /\ Phase(b) # "releasing"
        BY <1>12, <3>1, <3>2 DEF LooseKeeps
      <4>2. b \in Attempts /\ attempts'[b].request = Request(b) /\ attempts'[b].phase # "releasing"
        BY <1>2, <1>3, <1>14, <3>1, <4>1
      <4> QED
        BY <3>1, <4>1, <4>2
    <3>3. \A b \in Attempts : attempts[b].attempted /\ Request(b) \in Remote /\ Task(b) = u
                              => b \in groups'[u].attempts
      BY <1>12, <3>1 DEF LooseKeeps
    <3> QED
      BY <3>2, <3>3
  <2> QED
    BY <2>1, <2>2
<1> QED
  BY <1>5, <1>11, <1>17, <1>18, <1>19, <1>20 DEF CatalogInv, Promises

LEMMA ReserveExistingKeeps ==
  ASSUME CatalogInv, NEW a \in Attempts, ReserveExisting(a)
  PROVE  CatalogInv'
<1>1. PICK x \in stored : /\ x.request = Request(a)
                          /\ routes' = [routes EXCEPT ![Task(a)] = x]
                          /\ Reserves(a, x, FALSE)
  BY DEF ReserveExisting, Holding
<1>2. /\ stored' = stored /\ tasks' = tasks /\ Runs("reserve", a)
      /\ Request(a) \in Requests /\ Task(a) \in Tasks /\ TaskOf[x.request] = Task(a)
  BY <1>1, Runner DEF ReserveExisting, Task
<1>3. x \in Routes /\ routes'[Task(a)] = x
  BY <1>1, <1>2 DEF CatalogInv, Data, StoredOK, RoutesOK
<1>4. StoredOK' /\ OneRecord'
  BY <1>2 DEF CatalogInv, Data, Promises, StoredOK, OneRecord, NonTerminal
<1>5. RoutesOK'
  BY <1>1, <1>2, <1>3 DEF CatalogInv, Data, RoutesOK
<1>6. ASSUME NEW r \in Requests, Held(r)
      PROVE  Held(r)'
  <2>1. TaskOf[r] = Task(a) => x.request = r
    BY <1>2, <1>6 DEF Held, CatalogInv, Promises, OneRecord
  <2>2. TaskOf[r] \in Tasks
    BY RequestsAssumption
  <2> QED
    BY <1>1, <1>2, <1>3, <1>6, <2>1, <2>2, SentinelsAssumption DEF Held, CatalogInv, Data, RoutesOK
<1> QED
  BY <1>1, <1>2, <1>3, <1>4, <1>5, <1>6, ReserveKeeps

LEMMA ReserveNewKeeps ==
  ASSUME CatalogInv, NEW a \in Attempts, ReserveNew(a)
  PROVE  CatalogInv'
<1> DEFINE t == Task(a)
           x == [request |-> Request(a), createdBy |-> a, state |-> "ambiguous"]
<1>1. /\ Runs("reserve", a) /\ Holding(Request(a)) = {} /\ tasks' = tasks
      /\ mutation # <<>> /\ Head(mutation).by = a /\ Phase(a) = "reserving"
      /\ Request(a) \in Requests /\ t \in Tasks /\ TaskOf[x.request] = t
  BY Runner DEF ReserveNew, Task, Serves
<1>2. PICK gone \in Evictions :
        \/ stored' = (stored \ gone) \cup {x} /\ routes' = MapWith(gone, x) /\ Reserves(a, x, TRUE)
        \/ /\ stored' \in {stored, (stored \ gone) \cup {x}}
           /\ Resumes(a, "refused", <<>>)
           /\ UNCHANGED <<routes, groups>>
  BY DEF ReserveNew, Written, WriteThrows
<1>3. x \in Routes
  BY <1>1 DEF Routes
<1>4. \A y \in gone : y \in stored /\ ~NonTerminal(TaskOf[y.request])
  BY DEF Evictions, Evictable, CatalogInv, Data, StoredOK
<1>5. \A y \in stored : TaskOf[y.request] # t
  BY <1>1 DEF Holding
<1>6. StoredOK' /\ OneRecord'
  <2>1. stored' \subseteq stored \cup {x}
    BY <1>2
  <2>2. StoredOK'
    BY <1>1, <1>3, <2>1 DEF CatalogInv, Data, StoredOK, NonTerminal, Terminal
  <2> QED
    BY <1>1, <1>5, <2>1, <2>2 DEF CatalogInv, Promises, OneRecord
<1>7. ASSUME NEW r \in Requests, NonTerminal(TaskOf[r]), NEW y \in stored, y.request = r
      PROVE  y \in stored' /\ TaskOf[r] # t /\ \A z \in gone : TaskOf[z.request] # TaskOf[r]
  BY <1>2, <1>4, <1>5, <1>7
<1>8. CASE stored' = (stored \ gone) \cup {x} /\ routes' = MapWith(gone, x) /\ Reserves(a, x, TRUE)
  <2>1. RoutesOK' /\ routes'[t] = x
    BY <1>1, <1>3, <1>8 DEF MapWith, CatalogInv, Data, RoutesOK
  <2>2. ASSUME NEW r \in Requests, NonTerminal(TaskOf[r]), Held(r)
        PROVE  Held(r)'
    <3>1. PICK y \in stored : y.request = r
      BY <2>2 DEF Held
    <3>2. /\ y \in stored' /\ TaskOf[r] # t /\ TaskOf[r] \in Tasks
          /\ \A z \in gone : TaskOf[z.request] # TaskOf[r]
      BY <1>7, <2>2, <3>1, RequestsAssumption
    <3>3. routes'[TaskOf[r]] = routes[TaskOf[r]]
      BY <1>1, <1>8, <3>2 DEF MapWith
    <3> QED
      BY <2>2, <3>1, <3>2, <3>3 DEF Held
  <2> QED
    BY <1>1, <1>3, <1>6, <1>8, <2>1, <2>2, ReserveKeeps DEF Matters
<1>9. CASE /\ stored' \in {stored, (stored \ gone) \cup {x}}
           /\ Resumes(a, "refused", <<>>)
           /\ UNCHANGED <<routes, groups>>
  <2>1. /\ attempts'[a] = [attempts[a] EXCEPT !.phase = "refused"]
        /\ \A b \in Attempts : b # a => attempts'[b] = attempts[b]
        /\ attempts' = [attempts EXCEPT ![a].phase = "refused"]
        /\ mutation' = Tail(mutation) \o <<>>
    BY <1>9 DEF Resumes, CatalogInv, Data, AttemptsOK
  <2>2. /\ attempts'[a].attempted = attempts[a].attempted
        /\ attempts'[a].request = attempts[a].request
        /\ attempts'[a].phase = "refused"
    BY <2>1 DEF CatalogInv, Data, AttemptsOK
  <2>3. AttemptsOK'
    BY <1>1, <2>1, PhaseTyped DEF CatalogInv, Data, Phases
  <2>4. QueueOK'
    <3>1. Turns(a, "refused") /\ Task(a)' = Task(a) /\ Queues(a, "refused", <<>>)
      BY <1>1, <2>1, <2>2 DEF Turns, Task, Request, Queues
    <3> QED
      BY <1>1, <2>1, <3>1, ResumeQueue
  <2>5. Data'
    BY <1>1, <1>6, <1>9, <2>3 DEF CatalogInv, Data, TasksOK, RoutesOK, GroupsOK, Exists
  <2>6. Promises'
    <3>1. \A r \in Requests : Matters(r, a) /\ Held(r) => Held(r)'
      BY <1>7, <1>9 DEF Held, Matters
    <3>2. \A u \in Tasks : GroupKept(u, a)
      BY <1>9 DEF GroupKept
    <3> QED
      BY <1>1, <1>6, <2>1, <2>2, <3>1, <3>2, PromisesKept DEF CatalogInv
  <2> QED
    BY <2>4, <2>5, <2>6 DEF CatalogInv
<1> QED
  BY <1>2, <1>8, <1>9

----------------------------------------------------------------------------
(* Tasks and the rest of the broker *)

LEMMA ObserveKeeps ==
  ASSUME CatalogInv, NEW t \in Tasks, Observe(t)
  PROVE  CatalogInv'
<1> DEFINE o == [kind |-> "mark", by |-> Nobody, task |-> t, state |-> tasks[t].state]
<1>1. tasks[t].state \in TaskStates
  BY DEF Observe, Exists, CatalogInv, Data, TasksOK
<1>2. o \in Ops /\ TrueMark(o)
  BY <1>1 DEF Ops, TrueMark, Observe, NonTerminal
<1>3. UNCHANGED <<catalogVars, attempts, tasks>> /\ mutation' = mutation \o <<o>>
  BY DEF Observe, Mark
<1>4. TrueMark(o)'
  BY <1>2, <1>3 DEF TrueMark, Exists, NonTerminal
<1>5. QueueOK'
  <2>1. Onward /\ Turns(Nobody, "idle") /\ Joins(mutation, Nobody, "idle")
    BY <1>2, <1>3, <1>4, SentinelsAssumption DEF Onward, Exists, Turns, Joins
  <2> QED
    BY <2>1, QueueMoves DEF CatalogInv, QueueOK
<1>6. AttemptsOK'
  BY <1>3 DEF CatalogInv, Data, AttemptsOK, Phase, Request, Task, Exists, NonTerminal
<1>7. Data'
  BY <1>3, <1>6 DEF CatalogInv, Data, TasksOK, StoredOK, RoutesOK, GroupsOK, Exists, NonTerminal, catalogVars
<1>8. Promises'
  <2>1. OneRecord' /\ \A r \in Requests : Held(r) => Held(r)'
    BY <1>3 DEF CatalogInv, Promises, OneRecord, Held, catalogVars
  <2>2. \A u \in Tasks : GroupKept(u, Nobody)
    BY <1>3 DEF GroupKept, catalogVars
  <2> QED
    BY <1>3, <2>1, <2>2, SentinelsAssumption, PromisesKept DEF CatalogInv
<1> QED
  BY <1>5, <1>7, <1>8 DEF CatalogInv

LEMMA ProgressKeeps ==
  ASSUME CatalogInv, NEW t \in Tasks, Progress(t)
  PROVE  CatalogInv'
<1>1. PICK s \in TaskStates :
        /\ tasks' = [tasks EXCEPT ![t].state = s]
        /\ mutation' = mutation \/ mutation' = mutation \o Mark(Nobody, t, s)
  BY DEF Progress, After, TaskStates, Terminal
<1>2. Exists(t) /\ NonTerminal(t)
  BY DEF Progress, After, NonTerminal, Terminal
<1>3. UNCHANGED <<catalogVars, attempts>>
  BY DEF Progress
<1>4. \A u \in Tasks : /\ tasks'[u].request = tasks[u].request
                       /\ Exists(u)' <=> Exists(u)
                       /\ NonTerminal(u)' => NonTerminal(u)
  BY <1>1, <1>2 DEF CatalogInv, Data, TasksOK, Exists, NonTerminal, TaskStates, Terminal, Absent
<1>5. TasksOK'
  BY <1>1, <1>4 DEF CatalogInv, Data, TasksOK
<1>6. AttemptsOK'
  <2>1. \A b \in Attempts : Request(b) \in Requests => Task(b) \in Tasks
    BY RequestsAssumption DEF Task
  <2>2. \A b \in Attempts : attempts[b].seen \in Terminal => attempts[b].seen # Absent
    BY DEF Terminal, Absent
  <2> QED
    BY <1>3, <1>4, <2>1, <2>2 DEF CatalogInv, Data, AttemptsOK, Phase, Request, Task, Exists, NonTerminal
<1>7. StoredOK' /\ RoutesOK' /\ GroupsOK'
  BY <1>3, <1>4, RequestsAssumption DEF CatalogInv, Data, StoredOK, RoutesOK, GroupsOK, Routes, catalogVars
<1>8. QueueOK'
  <2> DEFINE o == [kind |-> "mark", by |-> Nobody, task |-> t, state |-> s]
  <2>1. o \in Ops
    BY DEF Ops
  <2>2. tasks'[t].state = s
    BY <1>1 DEF CatalogInv, Data, TasksOK
  <2>3. TrueMark(o)'
    BY <2>2 DEF TrueMark, Exists, NonTerminal, TaskStates, Terminal, Absent
  <2>4. Joins(mutation, Nobody, "idle")
    BY <1>1, <2>1, <2>3 DEF Joins, Mark
  <2>5. Onward /\ Turns(Nobody, "idle")
    BY <1>3, <1>4, SentinelsAssumption DEF Onward, Exists, NonTerminal, Turns
  <2> QED
    BY <2>4, <2>5, QueueMoves DEF CatalogInv, QueueOK
<1>9. Promises'
  <2> USE DEF Phase, Request, Task
  <2>1. OneRecord' /\ ReleasedUntried' /\ \A r \in Requests : Held(r) <=> Held(r)'
    BY <1>3 DEF CatalogInv, Promises, OneRecord, ReleasedUntried, Held, catalogVars
  <2>2. \A u \in Tasks : Loose(u)' <=> Loose(u)
    BY <1>3 DEF Loose, catalogVars
  <2>3. \A b \in Attempts : Request(b) \in Requests => Task(b) \in Tasks
    BY RequestsAssumption
  <2>4. AttemptedKnown'
    BY <1>3, <1>4, <2>3 DEF CatalogInv, Data, AttemptsOK, Promises, AttemptedKnown
  <2>5. TasksHeld'
    BY <1>3, <1>4, <2>1 DEF CatalogInv, Data, TasksOK, Promises, TasksHeld, Held, catalogVars
  <2>6. AttemptsHeld'
    BY <1>3, <1>4, <2>1, <2>3 DEF CatalogInv, Data, AttemptsOK, Promises, AttemptsHeld, Held, catalogVars
  <2>7. ReservedHeld'
    <3>1. \A b \in Attempts : Phase(b) = "reserved" => Request(b) \in Requests
      BY RequestKnown
    <3> QED
      BY <1>3, <1>4, <2>3, <3>1 DEF CatalogInv, Promises, ReservedHeld, Held, InGroup, Loose, catalogVars
  <2>8. LooseKeeps'
    BY <1>3, <1>4, <2>2 DEF CatalogInv, Promises, LooseKeeps, catalogVars
  <2> QED
    BY <2>1, <2>4, <2>5, <2>6, <2>7, <2>8 DEF Promises
<1> QED
  BY <1>5, <1>6, <1>7, <1>8, <1>9 DEF CatalogInv, Data

\* The broker loads the same routes, brought up to date with the local tasks.
LEMMA ReloadedKeeps ==
  ASSUME CatalogInv, NEW x \in stored
  PROVE  /\ Reloaded(x) \in Routes
         /\ Reloaded(x).request = x.request
         /\ Reloaded(x).state \in Terminal => ~NonTerminal(TaskOf[x.request])
<1>1. x \in Routes /\ TaskOf[x.request] \in Tasks
  BY RequestsAssumption DEF CatalogInv, Data, StoredOK, Routes
<1>2. x.state \in Terminal => ~NonTerminal(TaskOf[x.request])
  BY DEF CatalogInv, Data, StoredOK
<1>3. Exists(TaskOf[x.request]) => tasks[TaskOf[x.request]].state \in TaskStates
  BY <1>1 DEF CatalogInv, Data, TasksOK, Exists
<1> QED
  BY <1>1, <1>2, <1>3 DEF Reloaded, Routes, NonTerminal

LEMMA RestartKeeps ==
  ASSUME CatalogInv, Restart
  PROVE  CatalogInv'
<1>1. /\ stored' = {Reloaded(x) : x \in stored}
      /\ tasks' = tasks /\ mutation' = <<>>
      /\ groups' = [t \in Tasks |-> NoGroup]
  BY DEF Restart
<1>2. \A b \in Attempts : /\ attempts'[b].request = attempts[b].request
                          /\ attempts'[b].attempted = attempts[b].attempted
                          /\ attempts'[b].seen = attempts[b].seen
                          /\ attempts'[b].phase = IF Phase(b) \in {"idle"} \cup Ended THEN Phase(b) ELSE "interrupted"
  BY DEF Restart, CatalogInv, Data, AttemptsOK, Phase
<1>3. attempts' \in [Attempts -> [phase : Phases, request : Requests \cup {NoRequest},
                                  route : Routes \cup {NoRoute}, attempted : BOOLEAN,
                                  seen : TaskStates \cup {Absent}]]
  <2>1. \A b \in Attempts : [attempts[b] EXCEPT !.phase = "interrupted"] \in
                              [phase : Phases, request : Requests \cup {NoRequest},
                               route : Routes \cup {NoRoute}, attempted : BOOLEAN,
                               seen : TaskStates \cup {Absent}]
    BY DEF CatalogInv, Data, AttemptsOK, Phases
  <2> QED
    BY <2>1 DEF Restart, CatalogInv, Data, AttemptsOK
<1>4. AttemptsOK'
  <2>1. \A b \in Attempts : /\ Request(b)' = Request(b) /\ Task(b)' = Task(b)
                            /\ Phase(b)' = "idle" => Phase(b) = "idle"
                            /\ Phase(b) = "idle" => Phase(b)' = "idle"
    BY <1>2 DEF Phase, Request, Task, Ended
  <2> SUFFICES ASSUME NEW b \in Attempts
               PROVE  (/\ IF Phase(b) = "idle" THEN Request(b) = NoRequest ELSE Request(b) \in Requests
                       /\ attempts[b].attempted => Request(b) \in Requests
                       /\ attempts[b].seen # Absent => Request(b) \in Requests /\ Exists(Task(b))
                       /\ attempts[b].seen \in Terminal => ~NonTerminal(Task(b)))'
    BY <1>3 DEF AttemptsOK
  <2>2. /\ IF Phase(b) = "idle" THEN Request(b) = NoRequest ELSE Request(b) \in Requests
        /\ attempts[b].attempted => Request(b) \in Requests
        /\ attempts[b].seen # Absent => Request(b) \in Requests /\ Exists(Task(b))
        /\ attempts[b].seen \in Terminal => ~NonTerminal(Task(b))
    BY DEF CatalogInv, Data, AttemptsOK
  <2> QED
    BY <1>1, <1>2, <2>1, <2>2 DEF Exists, NonTerminal
<1>5. StoredOK' /\ OneRecord' /\ TasksOK' /\ GroupsOK'
  <2>1. StoredOK'
    BY <1>1, ReloadedKeeps DEF StoredOK, NonTerminal
  <2>2. OneRecord'
    BY <1>1, ReloadedKeeps DEF CatalogInv, Promises, OneRecord
  <2> QED
    BY <1>1, <2>1, <2>2 DEF CatalogInv, Data, TasksOK, GroupsOK, Exists
<1>6. /\ DOMAIN routes' = Tasks
      /\ routes' = [t \in Tasks |-> routes'[t]]
      /\ \A t \in Tasks :
           \/ /\ ~ \E x \in stored : TaskOf[x.request] = t
              /\ routes'[t] = NoRoute
           \/ \E x \in stored : TaskOf[x.request] = t /\ routes'[t] = Reloaded(x)
  <2>1. routes' = [t \in Tasks |->
                    IF \E x \in stored : TaskOf[x.request] = t
                      THEN Reloaded(CHOOSE x \in stored : TaskOf[x.request] = t) ELSE NoRoute]
    BY DEF Restart
  <2>2. ASSUME NEW t \in Tasks, \E x \in stored : TaskOf[x.request] = t
        PROVE  \E x \in stored : TaskOf[x.request] = t /\ routes'[t] = Reloaded(x)
    <3>1. PICK y : y = CHOOSE x \in stored : TaskOf[x.request] = t
      OBVIOUS
    <3>2. y \in stored /\ TaskOf[y.request] = t
      BY <2>2, <3>1
    <3>3. routes'[t] = Reloaded(y)
      BY <2>1, <2>2, <3>1
    <3> QED
      BY <3>2, <3>3
  <2> QED
    BY <2>1, <2>2
<1>7. RoutesOK'
  BY <1>6, ReloadedKeeps DEF RoutesOK
<1>8. \A r \in Requests : Held(r) => Held(r)'
  <2> SUFFICES ASSUME NEW r \in Requests, Held(r) PROVE Held(r)'
    OBVIOUS
  <2>1. PICK x \in stored : x.request = r
    BY DEF Held
  <2>2. TaskOf[r] \in Tasks
    BY RequestsAssumption
  <2>3. routes'[TaskOf[r]] = Reloaded(x)
    BY <1>6, <2>1, <2>2 DEF CatalogInv, Promises, OneRecord
  <2> QED
    BY <1>1, <2>1, <2>3, ReloadedKeeps, SentinelsAssumption DEF Held
<1>9. QueueOK'
  BY <1>1 DEF QueueOK, Fits
<1>10. Promises'
  <2> USE DEF Phase, Request, Task
  <2>1. ReleasedUntried' /\ ReservedHeld'
    BY <1>2 DEF ReleasedUntried, ReservedHeld, Ended
  <2>2. AttemptedKnown'
    BY <1>1, <1>2 DEF CatalogInv, Promises, AttemptedKnown, Exists
  <2>3. ASSUME NEW t \in Tasks, Exists(t), NonTerminal(t)
        PROVE  Held(tasks[t].request)'
    <3>1. PICK r \in Requests : r = tasks[t].request /\ Held(r)
      BY <2>3 DEF CatalogInv, Data, TasksOK, Promises, TasksHeld
    <3>2. Held(r)'
      BY <1>8, <3>1
    <3> QED
      BY <1>1, <3>1, <3>2 DEF Held
  <2>4. ASSUME NEW b \in Attempts, attempts[b].attempted, NonTerminal(Task(b))
        PROVE  Held(Request(b))'
    <3>1. PICK r \in Requests : r = Request(b) /\ Held(r)
      BY <2>4 DEF CatalogInv, Data, AttemptsOK, Promises, AttemptsHeld
    <3>2. Held(r)'
      BY <1>8, <3>1
    <3> QED
      BY <1>2, <3>1, <3>2 DEF Held
  <2>5. TasksHeld' /\ AttemptsHeld'
    BY <1>1, <1>2, <2>3, <2>4 DEF TasksHeld, AttemptsHeld, Exists, NonTerminal
  <2>6. LooseKeeps'
    BY <1>1 DEF LooseKeeps, Loose
  <2> QED
    BY <1>5, <2>1, <2>2, <2>5, <2>6 DEF Promises
<1> QED
  BY <1>4, <1>5, <1>7, <1>9, <1>10 DEF CatalogInv, Data

----------------------------------------------------------------------------

LEMMA CatalogInit ==
  ASSUME Init
  PROVE  CatalogInv
<1> USE DEF Init, Phase, Request, Exists, NonTerminal
<1>1. Data
  BY SentinelsAssumption DEF Data, AttemptsOK, TasksOK, StoredOK, RoutesOK, GroupsOK, Phases, Terminal, Absent
<1>2. QueueOK
  BY DEF QueueOK, Fits
<1>3. Promises
  BY SentinelsAssumption DEF Promises, OneRecord, ReleasedUntried, AttemptedKnown, TasksHeld, AttemptsHeld,
                             ReservedHeld, LooseKeeps, Loose
<1> QED
  BY <1>1, <1>2, <1>3 DEF CatalogInv

LEMMA CatalogNext ==
  ASSUME CatalogInv, [Next]_vars
  PROVE  CatalogInv'
<1>1. ASSUME NEW a \in Attempts, Submit(a) \/ StartStep(a) \/ CatalogStep(a) \/ PeerAccepts(a)
      PROVE  CatalogInv'
  <2>1. CASE StartStep(a)
    BY <2>1, StartQuiet, StartAcceptsKeeps, StartThrowsKeeps, CallPeerKeeps, ReconcileKeeps DEF StartStep
  <2>2. CASE CatalogStep(a)
    BY <2>2, CatalogQuiet, ReserveExistingKeeps, ReserveNewKeeps, RetainKeeps, ReleaseKeeps DEF CatalogStep
  <2> QED
    BY <1>1, <2>1, <2>2, SubmitKeeps, PeerAcceptsKeeps
<1>2. CASE UNCHANGED vars
  <2> USE <1>2 DEF vars, catalogVars, Phase, Request, Task, Exists, NonTerminal
  <2>1. Data'
    BY DEF CatalogInv, Data, AttemptsOK, TasksOK, StoredOK, RoutesOK, GroupsOK
  <2>2. QueueOK'
    BY DEF CatalogInv, QueueOK, Fits, TrueMark
  <2>3. Promises'
    BY DEF CatalogInv, Promises, OneRecord, ReleasedUntried, AttemptedKnown, TasksHeld, AttemptsHeld,
           ReservedHeld, LooseKeeps, Loose, Held, InGroup
  <2> QED
    BY <2>1, <2>2, <2>3 DEF CatalogInv
<1> QED
  BY <1>1, <1>2, ProgressKeeps, ObserveKeeps, MarkSnapshotKeeps, RestartKeeps DEF Next

\* Through failed attempts that share a reservation, failing writes, evictions
\* and restarts, a task that was accepted or may have been sent has its route
\* on disk until it ends.
THEOREM RoutesHeld == Spec => [](CatalogInv /\ DispatchedHasRoute)
<1>1. ASSUME CatalogInv
      PROVE  DispatchedHasRoute
  BY <1>1 DEF CatalogInv, Promises, TasksHeld, AttemptsHeld, Held, NonTerminal, DispatchedHasRoute
<1> QED
  BY <1>1, CatalogInit, CatalogNext, PTL DEF Spec

\* The steps that can take a record out of the catalog.
LEMMA StoredChanges ==
  ASSUME Next, stored' # stored
  PROVE  \/ \E a \in Attempts : ReserveNew(a) \/ Release(a)
         \/ MarkSnapshot
         \/ Restart
BY DEF Next, Submit, StartStep, CatalogStep, AnswerExisting, LookUp, Prevalidate, PrevalidateRefuses,
       StartAccepts, StartFinds, StartThrows, CallPeer, PeerReplies, PeerFails, Reconcile, ReconcileThrows,
       ReserveExisting, ReserveConflicts, ReserveFull, Retain, GroupGone, PeerAccepts, Progress, Observe,
       catalogVars

Unsent(r) == /\ ~Exists(TaskOf[r])
             /\ \A a \in Attempts : Request(a) = r => ~attempts[a].attempted

LEMMA LeavesSafely ==
  ASSUME CatalogInv, Next, NEW x \in stored, \A y \in stored' : y.request # x.request
  PROVE  tasks[TaskOf[x.request]].state \in Terminal \/ Unsent(x.request)
<1>1. /\ stored' # stored
      /\ x \in Routes /\ TaskOf[x.request] \in Tasks
      /\ x \notin stored'
  BY RequestsAssumption DEF CatalogInv, Data, StoredOK, Routes
<1>2. ASSUME NEW a \in Attempts, ReserveNew(a)
      PROVE  tasks[TaskOf[x.request]].state \in Terminal
  <2>1. PICK gone \in Evictions : stored \ gone \subseteq stored'
    BY <1>1, <1>2 DEF ReserveNew, Written, WriteThrows
  <2>2. x \in gone
    BY <1>1, <2>1
  <2> QED
    BY <2>2 DEF Evictions, Evictable, CatalogInv, Data, StoredOK, NonTerminal
<1>3. ASSUME NEW a \in Attempts, Release(a)
      PROVE  tasks[TaskOf[x.request]].state \in Terminal \/ Unsent(x.request)
  <2>1. Releasable(a) /\ InGroup(a) /\ x = groups[Task(a)].route
    BY <1>1, <1>3 DEF Release, Written, WriteThrows
  <2>2. Phase(a) = "releasing" /\ Task(a) \in Tasks
    BY <1>3, Runner DEF Release, Serves
  <2>3. TaskOf[x.request] = Task(a)
    BY <2>1, <2>2 DEF InGroup, CatalogInv, Data, GroupsOK
  <2>4. NonTerminal(Task(a)) => /\ ~Exists(Task(a))
                                /\ \A b \in Attempts : attempts[b].attempted => Task(b) # Task(a)
    BY <2>1, <2>2, ReleasableUnsent
  <2> QED
    BY <2>3, <2>4 DEF Unsent, NonTerminal, Task
<1>4. ASSUME MarkSnapshot
      PROVE  tasks[TaskOf[x.request]].state \in Terminal \/ Unsent(x.request)
  <2> DEFINE t == Head(mutation).task
             z == [routes[t] EXCEPT !.state = Head(mutation).state]
  <2>1. mutation # <<>> /\ Matches(t) /\ stored' = Updated(z)
    BY <1>1, <1>4 DEF MarkSnapshot, Written, WriteThrows
  <2>2. t \in Tasks /\ Exists(t)
    BY <1>4, <2>1, HeadLeaves DEF MarkSnapshot, CatalogInv, TrueMark, Ops
  <2>3. z.request = routes[t].request /\ TaskOf[z.request] = t
    BY <2>1, <2>2 DEF Matches, CatalogInv, Data, RoutesOK, Routes
  <2>4. TaskOf[x.request] = t /\ x.request # z.request
    BY <1>1, <2>1, <2>3 DEF Updated
  <2>5. NonTerminal(t) => Held(tasks[t].request) /\ TaskOf[tasks[t].request] = t
    BY <2>2 DEF CatalogInv, Promises, TasksHeld, Data, TasksOK
  <2>6. NonTerminal(t) => x.request = tasks[t].request
    BY <2>4, <2>5 DEF Held, CatalogInv, Promises, OneRecord
  <2> QED
    BY <2>3, <2>4, <2>5, <2>6 DEF Held, NonTerminal
<1>5. ASSUME Restart
      PROVE  FALSE
  <2>1. Reloaded(x) \in stored' /\ Reloaded(x).request = x.request
    BY <1>5, ReloadedKeeps DEF Restart
  <2> QED
    BY <2>1
<1> QED
  BY <1>1, <1>2, <1>3, <1>4, <1>5, StoredChanges

\* A route leaves the catalog only when its task has ended or nothing was sent
\* for it: an eviction takes a route whose task has ended, a release one that
\* no attempt of the group has used or is about to use, and a mark writes over
\* no route of another request that still matters.
THEOREM RoutesLeave == Spec => RoutesLeaveSafely
<1>1. ASSUME CatalogInv, [Next]_vars
      PROVE  [\A x \in stored :
               (\A y \in stored' : y.request # x.request)
               => \/ tasks[TaskOf[x.request]].state \in Terminal
                  \/ /\ ~Exists(TaskOf[x.request])
                     /\ \A a \in Attempts : Request(a) = x.request => ~attempts[a].attempted]_vars
  <2>1. CASE Next
    BY <1>1, <2>1, LeavesSafely DEF Unsent
  <2>2. CASE UNCHANGED vars
    BY <2>2
  <2> QED
    BY <1>1, <2>1, <2>2
<1> QED
  BY <1>1, CatalogInit, CatalogNext, PTL DEF Spec, RoutesLeaveSafely
====
