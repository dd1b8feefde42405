---- MODULE NativeChat ----
(***************************************************************************)
(* The saved transcripts of the tasks a Codespace runs.  Every window has  *)
(* a NativeChatStore on the same private directory: a session is one file, *)
(* a change is a transaction under an exclusive lock file that is never    *)
(* stolen, published by a rename, and undone when the directory cannot be  *)
(* synced.  NativeChatExecution records in it what a task of its window    *)
(* does, beside the events it passes on; it gives up the history of a task *)
(* at its first failure and never lets it disturb the task.                *)
(***************************************************************************)
EXTENDS Integers, Sequences, FiniteSets, SequencesExt

CONSTANTS
  Writers,      \* the windows that share the directory
  ChatTasks,    \* the tasks; a session bears the id of its first task
  Recoveries,   \* what a runtime answers as the session to continue
  Script,       \* [ChatTasks -> the events of the task when undisturbed]
  MaxEntries,   \* maxEntriesPerTurn
  MaxTurns,     \* maxTurnsPerSession
  ChatFaults    \* bound: failing calls, deaths and archivings

VARIABLES
  disk,      \* the files: the session of an id, or NoSession
  lock,      \* who created the lock file, or NoWriter
  store,     \* [Writers -> the queue and the transaction of its store]
  chats,      \* [ChatTasks -> what the execution of a task is doing]
  closed,    \* writers whose execution generation was closed
  dead,      \* writers that died
  attached,      \* the control registries: tasks with a live owner
  chatFaults

chatVars == <<disk, lock, store, chats, closed, dead, attached, chatFaults>>

NoSession == [turns |-> <<>>]
NoWriter == "nobody"
NoRecovery == "none"
NoOp == [op |-> "none"]

\* What the store of a window that opened the directory holds.
IdleStore == [queue |-> <<>>, at |-> "idle", seen |-> NoSession, next |-> NoSession, left |-> {}, ok |-> TRUE]

\* A task nobody started; `by` is the window it will run in.
NewTask(w) ==
  [by |-> w, at |-> "idle", sent |-> 0, event |-> "none", answer |-> "none", told |-> FALSE,
   cancelled |-> FALSE, givenUp |-> FALSE, noted |-> <<>>, recovery |-> NoRecovery]

ChatInit ==
  /\ disk = [s \in ChatTasks |-> NoSession]
  /\ lock = NoWriter
  /\ store = [w \in Writers |-> IdleStore]
  /\ chats \in [ChatTasks -> {NewTask(w) : w \in Writers}]
  /\ closed = {} /\ dead = {} /\ attached = {} /\ chatFaults = 0

Alive(w) == w \notin dead
ChatFails == chatFaults < ChatFaults /\ chatFaults' = chatFaults + 1

----
(* A session and its turns. *)

IsTerminal(status) == status \in {"completed", "cancelled", "failed", "interrupted"}

SessionOf(files, t) == {s \in ChatTasks : \E i \in DOMAIN files[s].turns : files[s].turns[i].task = t}
TurnIn(record, t) == CHOOSE i \in DOMAIN record.turns : record.turns[i].task = t

NewTurn(t, recovery) ==
  [task |-> t, status |-> "starting", entries |-> <<>>, recovery |-> recovery, pending |-> FALSE,
   truncated |-> FALSE]

\* What requiredBytes and the critical slots keep room for: the input or its answer, and the marker.
Reserved(turn) == IF IsTerminal(turn.status) THEN 0 ELSE IF turn.pending THEN 1 ELSE 2

WithEntry(turn, kind) == [turn EXCEPT !.entries = Append(@, kind)]

\* append: the entry, or the one marker of a transcript that is full, or nothing after it.
Appended(turn, kind) ==
  IF turn.truncated THEN turn
  ELSE IF Len(turn.entries) + 2 + Reserved(turn) <= MaxEntries THEN WithEntry(turn, kind)
  ELSE [WithEntry(turn, "marker") EXCEPT !.truncated = TRUE]

MarkerRoom(turn) == IF turn.truncated THEN 0 ELSE 1

\* Every change of one turn: where the store accepts it, and the turn it leaves.
Accepts(turn, change) ==
  CASE change = "input" ->
         /\ ~IsTerminal(turn.status) /\ ~turn.pending
         /\ Len(turn.entries) + 2 + MarkerRoom(turn) <= MaxEntries
    [] change = "answer" -> turn.pending /\ Len(turn.entries) + 1 + MarkerRoom(turn) <= MaxEntries
    [] change = "running" -> ~IsTerminal(turn.status) /\ ~turn.pending
    [] IsTerminal(change) -> ~IsTerminal(turn.status) \/ turn.status = change
    [] OTHER -> TRUE

Changed(turn, change) ==
  CASE change = "input" -> [WithEntry(turn, "input") EXCEPT !.status = "needsInput", !.pending = TRUE]
    [] change = "answer" -> [WithEntry(turn, "answer") EXCEPT !.status = "running", !.pending = FALSE]
    [] change = "running" -> [turn EXCEPT !.status = "running"]
    [] IsTerminal(change) -> [turn EXCEPT !.status = change, !.pending = FALSE]
    [] OTHER -> Appended(turn, change)

\* assertFits: room for the marker of every turn.
Fits(record) ==
  /\ Len(record.turns) <= MaxTurns
  /\ \A i \in DOMAIN record.turns : Len(record.turns[i].entries) + MarkerRoom(record.turns[i]) <= MaxEntries

\* validateHistory: only the last turn is unended, a turn continues the identity of the one before,
\* a question is answered before the next one, and the pending one is the unanswered one.
ValidHistory(record) ==
  \A i \in DOMAIN record.turns :
    LET turn == record.turns[i]
        Count(kind, n) == Cardinality({j \in 1..n : turn.entries[j] = kind}) IN
    /\ (turn.status = "needsInput") = turn.pending
    /\ i > 1 => record.turns[i - 1].status = "completed" /\ record.turns[i - 1].recovery = turn.recovery
    /\ Count("marker", Len(turn.entries)) = MarkerRoom([truncated |-> ~turn.truncated])
    /\ \A n \in DOMAIN turn.entries : Count("input", n) - Count("answer", n) \in {0, 1}
    /\ ~IsTerminal(turn.status) =>
         turn.pending = (Count("input", Len(turn.entries)) > Count("answer", Len(turn.entries)))

----
(* The transaction at the head of a store's queue. *)

HeadOp(w) == IF store[w].queue = <<>> THEN NoOp ELSE Head(store[w].queue)
At(w, at) == Alive(w) /\ store[w].at = at

\* The execution waits for the operation, and is told the outcome in Settles.
TurnOp(t, change) == [op |-> "turn", task |-> t, change |-> change, recovery |-> NoRecovery]
Enqueue(w, op) == store' = [store EXCEPT ![w].queue = Append(@, op)]

\* The exact completed session of this generation, the only one a continuation may extend.
Continued(w, op) ==
  {s \in ChatTasks : /\ disk[s].turns # <<>> /\ disk[s].gen = w
                     /\ Last(disk[s].turns).recovery = op.recovery /\ Last(disk[s].turns).status = "completed"}

\* beginTask: a new session, or a turn more in the one that is continued; begun twice changes nothing.
Begun(w, op) ==
  IF SessionOf(disk, op.task) # {} THEN {[file |-> s, value |-> disk[s]] : s \in SessionOf(disk, op.task)}
  ELSE IF op.recovery = NoRecovery
  THEN {[file |-> op.task, value |-> [gen |-> w, archived |-> FALSE, turns |-> <<NewTurn(op.task, NoRecovery)>>]]}
  ELSE {[file |-> s, value |-> [disk[s] EXCEPT !.turns = Append(@, NewTurn(op.task, op.recovery))]]
          : s \in {c \in Continued(w, op) : Len(disk[c].turns) < MaxTurns}}

\* setRecovery: the identity of the turn, unless it would be bound again or to a second session.
Recovered(w, op) ==
  LET Free(s) ==
        /\ \A i \in DOMAIN disk[s].turns : disk[s].turns[i].recovery \in {NoRecovery, op.recovery}
        /\ \A o \in ChatTasks \ {s} : disk[o].turns # <<>> /\ disk[o].gen = disk[s].gen =>
             \A i \in DOMAIN disk[o].turns : disk[o].turns[i].recovery # op.recovery
  IN {[file |-> s, value |-> [disk[s] EXCEPT !.turns[TurnIn(disk[s], op.task)].recovery = op.recovery]]
        : s \in {c \in SessionOf(disk, op.task) : Free(c)}}

\* changeTurn.
ChangedTurn(op) ==
  {[file |-> s, value |-> [disk[s] EXCEPT !.turns[TurnIn(disk[s], op.task)] = Changed(@, op.change)]]
     : s \in {c \in SessionOf(disk, op.task) : Accepts(disk[c].turns[TurnIn(disk[c], op.task)], op.change)}}

Archived(op) ==
  {[file |-> s, value |-> [disk[s] EXCEPT !.archived = ~@]] : s \in {op.task} \cap {c \in ChatTasks : disk[c].turns # <<>>}}

\* interruptGeneration, one session after another: those with a turn that has not ended.
Unended(w) == {s \in ChatTasks : /\ disk[s].turns # <<>> /\ disk[s].gen = w
                                 /\ \E i \in DOMAIN disk[s].turns : ~IsTerminal(disk[s].turns[i].status)}
Interrupted(s) ==
  [disk[s] EXCEPT !.turns = [i \in DOMAIN @ |->
     IF IsTerminal(@[i].status) THEN @[i] ELSE [@[i] EXCEPT !.status = "interrupted", !.pending = FALSE]]]

\* What an operation makes of the files it has just read: nothing is a refusal.
Outcomes(w, op) ==
  CASE op.op = "begin" -> Begun(w, op)
    [] op.op = "recover" -> Recovered(w, op)
    [] op.op = "archive" -> Archived(op)
    [] op.op = "interrupt" -> {[file |-> s, value |-> Interrupted(s)] : s \in Unended(w)}
    [] OTHER -> ChangedTurn(op)

\* reload or readRecord, then the change it decides; an unchanged session is not written.
Decides(w) ==
  LET op == HeadOp(w)
      out == Outcomes(w, op) IN
  IF out = {} THEN store' = [store EXCEPT ![w].at = "releasing", ![w].ok = op.op = "interrupt"]
  ELSE \E o \in out :
    IF o.value = disk[o.file] THEN store' = [store EXCEPT ![w].at = "releasing"]
    ELSE store' = [store EXCEPT ![w].at = "ready", ![w].seen = disk[o.file], ![w].next = o]

\* acquireWriteLock: O_EXCL; the files are read under it.
TakesChatLock(w) ==
  /\ At(w, "idle") /\ store[w].queue # <<>> /\ lock = NoWriter
  /\ lock' = w
  /\ Decides(w)
  /\ UNCHANGED <<disk, chats, closed, dead, attached, chatFaults>>

\* readContents, readRecord: a file that is unsafe, corrupt or changing ends the transaction.
ReadFails(w) ==
  /\ At(w, "idle") /\ store[w].queue # <<>> /\ lock = NoWriter /\ ChatFails
  /\ lock' = w
  /\ store' = [store EXCEPT ![w].at = "releasing", ![w].ok = FALSE]
  /\ UNCHANGED <<disk, chats, closed, dead, attached>>

\* commit: the lock is still ours and the file is as it was read; rename publishes it.
Commits(w) ==
  /\ At(w, "ready")
  /\ LET s == store[w].next.file
         next == store[w].next.value
         fits == Fits(next) /\ ValidHistory(next) /\ lock = w /\ disk[s] = store[w].seen IN
     \/ /\ fits
        /\ disk' = [disk EXCEPT ![s] = next]
        /\ store' = [store EXCEPT ![w].at = "published"]
        /\ UNCHANGED chatFaults
     \/ /\ IF fits THEN ChatFails ELSE UNCHANGED chatFaults
        /\ store' = [store EXCEPT ![w].at = "releasing", ![w].ok = FALSE]
        /\ UNCHANGED disk
  /\ UNCHANGED <<lock, chats, closed, dead, attached>>

\* syncDirectory: an interruption goes on with the next session of its generation.
Syncs(w) ==
  /\ At(w, "published")
  /\ \/ /\ IF HeadOp(w).op = "interrupt" THEN Decides(w) ELSE store' = [store EXCEPT ![w].at = "releasing"]
        /\ UNCHANGED chatFaults
     \/ /\ ChatFails
        /\ store' = [store EXCEPT ![w].at = "undoing"]
  /\ UNCHANGED <<disk, lock, chats, closed, dead, attached>>

\* rollback: only what this transaction published is taken back.
RollsBack(w) ==
  /\ At(w, "undoing")
  /\ LET s == store[w].next.file IN
     \/ /\ lock = w /\ disk[s] = store[w].next.value
        /\ disk' = [disk EXCEPT ![s] = store[w].seen]
        /\ UNCHANGED chatFaults
     \/ UNCHANGED <<disk, chatFaults>>
  /\ store' = [store EXCEPT ![w].at = "releasing", ![w].ok = FALSE]
  /\ UNCHANGED <<lock, chats, closed, dead, attached>>

----
(* The execution is told how an operation ended. *)

\* record: the first failure of a task's history ends its recording.
Told(t, change, ok) ==
  [chats[t] EXCEPT !.givenUp = @ \/ ~ok,
     !.noted = IF ok /\ change \in {"tool", "output", "input", "answer"} THEN Append(@, change) ELSE @]

\* What the execution does after the operation it waited for.
Continues(t, op, ok) ==
  LET told == Told(t, op.change, ok) IN
  CASE op.op = "begin" -> [told EXCEPT !.at = "begun"]
    [] op.op = "recover" -> [told EXCEPT !.at = IF ok THEN "starting" ELSE "reading"]
    [] op.change = "running" -> [told EXCEPT !.at = "reading"]
    [] op.change = "output" -> [told EXCEPT !.at = "publishing"]
    [] op.change = "answer" -> [told EXCEPT !.answer = "none"]
    [] op.change = "error" /\ ok -> told
    [] op.change = "error" \/ IsTerminal(op.change) -> [told EXCEPT !.at = "ended"]
    [] OTHER -> [told EXCEPT !.at = "reading", !.event = "none"]

\* The second write of an operation that makes two.
Followed(op, ok) ==
  IF ~ok THEN <<>>
  ELSE IF op.op = "recover" THEN <<TurnOp(op.task, "running")>>
  ELSE IF op.change = "error" THEN <<TurnOp(op.task, "failed")>> ELSE <<>>

Settles(w, ok) ==
  LET op == HeadOp(w) IN
  /\ store' = [store EXCEPT ![w] = [IdleStore EXCEPT !.queue = Tail(store[w].queue) \o Followed(op, ok)]]
  /\ chats' = IF op.op \in {"archive", "interrupt"} THEN chats
             ELSE [chats EXCEPT ![op.task] = Continues(op.task, op, ok)]
  /\ attached' = IF op.op = "interrupt" THEN attached \ {t \in ChatTasks : chats[t].by = w}
             ELSE IF op.op = "turn" /\ (IsTerminal(op.change) \/ (op.change = "error" /\ ~ok)) THEN attached \ {op.task}
             ELSE attached

\* releaseWriteLock: identity, then unlink; a lock that could not be removed stays, and the operation fails.
ReleasesChatLock(w) ==
  /\ At(w, "releasing")
  /\ \/ /\ lock = w /\ lock' = NoWriter
        /\ Settles(w, store[w].ok)
        /\ UNCHANGED chatFaults
     \/ /\ ChatFails
        /\ Settles(w, FALSE)
        /\ UNCHANGED lock
  /\ UNCHANGED <<disk, closed, dead>>

\* checkRoot, before there is a lock: a root that was replaced or is not private is not used.
RootFails(w) ==
  /\ At(w, "idle") /\ store[w].queue # <<>> /\ ChatFails
  /\ Settles(w, FALSE)
  /\ UNCHANGED <<disk, lock, closed, dead>>

\* STORAGE_LOCKED after five seconds; the lock is never stolen.
GivesUpLock(w) ==
  /\ At(w, "idle") /\ store[w].queue # <<>> /\ lock # NoWriter
  /\ Settles(w, FALSE)
  /\ UNCHANGED <<disk, lock, closed, dead, chatFaults>>

\* The user removes a lock whose writer is gone.
UserUnlocksChat ==
  /\ lock # NoWriter
  /\ lock \in dead \/ store[lock].at = "idle"
  /\ lock' = NoWriter
  /\ UNCHANGED <<disk, store, chats, closed, dead, attached, chatFaults>>

----
(* NativeChatExecution. *)

Owner(t) == chats[t].by
Records(t, change) == Enqueue(Owner(t), TurnOp(t, change))
Goes(t, at) == chats' = [chats EXCEPT ![t].at = at]
ExecAt(t, at) == Alive(Owner(t)) /\ chats[t].at = at
ChatQuiet == UNCHANGED <<disk, lock, closed, dead>>

\* start and begin: the task gets a live owner, and its turn is begun before the runtime is.
StartsChat(t) ==
  /\ ExecAt(t, "idle") /\ Owner(t) \notin closed
  /\ attached' = attached \union {t}
  /\ Goes(t, "begin")
  /\ \E r \in Recoveries \union {NoRecovery} :
       /\ r # NoRecovery => \E o \in ChatTasks \ {t} : Owner(o) = Owner(t) /\ chats[o].recovery = r /\ chats[o].at = "ended"
       /\ Enqueue(Owner(t), [op |-> "begin", task |-> t, change |-> "none", recovery |-> r])
  /\ ChatQuiet /\ UNCHANGED chatFaults

\* cancelStart.
CancelsStart(t) ==
  /\ Alive(Owner(t)) /\ chats[t].at \in {"begin", "begun"} /\ ~chats[t].cancelled
  /\ chats' = [chats EXCEPT ![t].cancelled = TRUE]
  /\ ChatQuiet /\ UNCHANGED <<store, attached, chatFaults>>

\* The runtime is started unless the start was cancelled meanwhile.
RunsRuntime(t) ==
  /\ ExecAt(t, "begun") /\ ~chats[t].cancelled
  /\ \E r \in Recoveries :
       IF chats[t].givenUp THEN chats' = [chats EXCEPT ![t].at = "reading", ![t].recovery = r] /\ UNCHANGED store
       ELSE /\ chats' = [chats EXCEPT ![t].at = "recover", ![t].recovery = r]
            /\ Enqueue(Owner(t), [op |-> "recover", task |-> t, change |-> "none", recovery |-> r])
  /\ ChatQuiet /\ UNCHANGED <<attached, chatFaults>>

\* attach: a start that did not succeed is recorded as failed, and has no live owner any more.
FailsStart(t) ==
  /\ ExecAt(t, "begun")
  /\ IF chats[t].cancelled THEN UNCHANGED chatFaults ELSE ChatFails
  /\ IF chats[t].givenUp THEN Goes(t, "ended") /\ attached' = attached \ {t} /\ UNCHANGED store
     ELSE Goes(t, "failing") /\ Records(t, "error") /\ UNCHANGED attached
  /\ ChatQuiet

\* The next event of the runtime: those after a question come once the answer reached it.
ComingEvents(t) ==
  {"cancelled"} \union
  {Script[t][i] : i \in {n \in {chats[t].sent + 1} \cap DOMAIN Script[t] :
                          (\E j \in 1..n - 1 : Script[t][j] = "input") => chats[t].told}}

\* Mutant: the next event does not wait for an answer that is being recorded.
GateIgnored(t) == TRUE

\* answerGates of the task.
GateOpen(t) == chats[t].answer = "none"

\* events: it waits for every answer being applied, and output is written before it is passed on.
ReadsEvent(t) ==
  /\ ExecAt(t, "reading") /\ Owner(t) \notin closed /\ GateOpen(t)
  /\ \E e \in ComingEvents(t) :
       IF e = "output" /\ ~chats[t].givenUp
       THEN Records(t, "output") /\ chats' = [chats EXCEPT ![t].event = e, ![t].at = "writing"]
       ELSE chats' = [chats EXCEPT ![t].event = e, ![t].at = "publishing"] /\ UNCHANGED store
  /\ ChatQuiet /\ UNCHANGED <<attached, chatFaults>>

\* eventSink.publish: to the source first, then recordEvent; a failed sink ends the task unrecorded.
PublishesEvent(t) ==
  /\ ExecAt(t, "publishing")
  /\ LET e == chats[t].event
         ends == IsTerminal(e) IN
     \/ /\ UNCHANGED chatFaults
        /\ IF e = "output" \/ chats[t].givenUp
           THEN /\ chats' = [chats EXCEPT ![t].sent = @ + 1, ![t].event = "none", ![t].at = IF ends THEN "ended" ELSE "reading"]
                /\ attached' = IF ends THEN attached \ {t} ELSE attached
                /\ UNCHANGED store
           ELSE /\ Records(t, e)
                /\ chats' = [chats EXCEPT ![t].sent = @ + 1, ![t].at = "noting"]
                /\ UNCHANGED attached
     \/ /\ ChatFails
        /\ Goes(t, "lost")
        /\ UNCHANGED <<store, attached>>
  /\ ChatQuiet

\* observeInputAnswer, first half: the gate is raised, and the publication of the question awaited.
AnswerComes(t) ==
  /\ Alive(Owner(t)) /\ ~chats[t].told /\ chats[t].answer = "none" /\ chats[t].at \in {"noting", "reading"}
  /\ chats[t].sent > 0 /\ Script[t][chats[t].sent] = "input"
  /\ chats' = [chats EXCEPT ![t].answer = "waits"]
  /\ ChatQuiet /\ UNCHANGED <<store, attached, chatFaults>>

\* Second half: the runtime is told, and then the answer is recorded before the gate opens.
AnswerApplies(t) ==
  /\ Alive(Owner(t)) /\ chats[t].answer = "waits" /\ chats[t].at # "noting"
  /\ \/ /\ chats' = [chats EXCEPT ![t].told = TRUE, ![t].answer = IF chats[t].givenUp THEN "none" ELSE "records"]
        /\ IF chats[t].givenUp THEN UNCHANGED store ELSE Records(t, "answer")
        /\ UNCHANGED chatFaults
     \/ /\ ChatFails
        /\ chats' = [chats EXCEPT ![t].answer = "none"]
        /\ UNCHANGED store
  /\ ChatQuiet /\ UNCHANGED attached

\* dispose of the executor: no start and no event after it.
ClosesChat(w) ==
  /\ Alive(w) /\ w \notin closed
  /\ closed' = closed \union {w}
  /\ chats' = [t \in ChatTasks |-> IF Owner(t) = w THEN [chats[t] EXCEPT !.cancelled = TRUE] ELSE chats[t]]
  /\ UNCHANGED <<disk, lock, store, dead, attached, chatFaults>>

\* Once the executor has drained, what was left unended in the generation is interrupted.
InterruptsGeneration(w) ==
  /\ Alive(w) /\ w \in closed
  /\ \A t \in ChatTasks : Owner(t) = w => chats[t].at \in {"idle", "reading", "ended", "lost"} /\ chats[t].answer = "none"
  /\ \E t \in attached : Owner(t) = w
  /\ \A i \in DOMAIN store[w].queue : store[w].queue[i].op # "interrupt"
  /\ Enqueue(w, [op |-> "interrupt", task |-> "none", change |-> "none", recovery |-> NoRecovery])
  /\ UNCHANGED <<disk, lock, chats, closed, dead, attached, chatFaults>>

\* The user archives a session or brings it back, in any window.
ArchivesChat(w, s) ==
  /\ Alive(w) /\ store[w].queue = <<>> /\ disk[s].turns # <<>> /\ ChatFails
  /\ Enqueue(w, [op |-> "archive", task |-> s, change |-> "none", recovery |-> NoRecovery])
  /\ UNCHANGED <<disk, lock, chats, closed, dead, attached>>

\* A window dies in the middle of anything; its lock file and its turns stay.
DiesChat(w) ==
  /\ Alive(w) /\ ChatFails
  /\ dead' = dead \union {w}
  /\ attached' = {t \in attached : Owner(t) # w}
  /\ UNCHANGED <<disk, lock, store, chats, closed>>

ChatNext ==
  \/ \E w \in Writers :
       \/ TakesChatLock(w) \/ ReadFails(w) \/ RootFails(w) \/ Commits(w) \/ Syncs(w) \/ RollsBack(w)
       \/ ReleasesChatLock(w) \/ GivesUpLock(w)
       \/ ClosesChat(w) \/ InterruptsGeneration(w) \/ DiesChat(w)
       \/ \E s \in ChatTasks : ArchivesChat(w, s)
  \/ UserUnlocksChat
  \/ \E t \in ChatTasks :
       \/ StartsChat(t) \/ CancelsStart(t) \/ RunsRuntime(t) \/ FailsStart(t)
       \/ ReadsEvent(t) \/ PublishesEvent(t) \/ AnswerComes(t) \/ AnswerApplies(t)

----
(* Properties. *)

TurnsOf(t) == {disk[s].turns[TurnIn(disk[s], t)] : s \in SessionOf(disk, t)}

\* What a task does, in order, with the answer after its question.
Story(t) == FlattenSeq([i \in DOMAIN Script[t] |->
              IF Script[t][i] = "input" THEN <<"input", "answer">> ELSE <<Script[t][i]>>])

\* A transcript is the beginning of what the task did: no event is missing before a recorded one
\* and none is out of order, until the marker, after which only questions and answers follow.
TranscriptIsTheBeginning ==
  \A t \in ChatTasks : \A turn \in TurnsOf(t) :
    LET told == SelectSeq(turn.entries, LAMBDA e : e # "error")
        cut == IF turn.truncated THEN SelectInSeq(told, LAMBDA e : e = "marker") - 1 ELSE Len(told) IN
    /\ IsPrefix(SubSeq(told, 1, cut), Story(t))
    /\ \A i \in cut + 2..Len(told) : told[i] \in {"input", "answer"}

\* What the execution was told is saved stays saved, whatever other windows write, fail or undo.
SavedStaysSaved ==
  \A t \in ChatTasks : \A turn \in TurnsOf(t) :
    ~turn.truncated => Len(SelectSeq(turn.entries, LAMBDA e : e # "error")) >= Len(chats[t].noted)

\* A task is in one session, and a session to continue belongs to one session of a generation.
OneSessionEach ==
  /\ \A t \in ChatTasks : Cardinality(SessionOf(disk, t)) <= 1
  /\ \A s, o \in ChatTasks : disk[s].turns # <<>> /\ disk[o].turns # <<>> /\ disk[s].gen = disk[o].gen /\ s # o =>
       \A i \in DOMAIN disk[s].turns, j \in DOMAIN disk[o].turns :
         disk[s].turns[i].recovery # NoRecovery => disk[s].turns[i].recovery # disk[o].turns[j].recovery

\* A turn ends as completed only after its last event reached the source, and as interrupted only
\* when its generation was closed; only the last turn of a session can be unended.
EndsAreTrue ==
  /\ \A t \in ChatTasks : \A turn \in TurnsOf(t) :
       /\ turn.status = "completed" => chats[t].sent = Len(Script[t])
       /\ turn.status = "interrupted" => Owner(t) \in closed
  /\ \A s \in ChatTasks : \A i \in 1..Len(disk[s].turns) - 1 : disk[s].turns[i].status = "completed"

\* The saved history is true: these hold together.
TranscriptSound == TranscriptIsTheBeginning /\ SavedStaysSaved /\ OneSessionEach /\ EndsAreTrue
====
