---- MODULE TaskReading ----
(***************************************************************************)
(* How an agent follows what it delegated: meshGetTask reads a task from   *)
(* the cursor of the read before, and may wait for it to move; meshListTasks*)
(* pages through the tasks its window owns; meshListWorkers lists where to *)
(* delegate.  Whatever they return must fit a budget, and is cut to it.    *)
(*                                                                         *)
(* A result is the interval of the events it shows and the weight of every *)
(* other part; an event weighs 1.                                          *)
(***************************************************************************)
EXTENDS Integers, Sequences, SequencesExt, FiniteSets, FiniteSetsExt

CONSTANTS
  MaxLog,       \* bound: events of the task
  KeptEvents,   \* how many of them the broker keeps
  PageSizes,    \* bound: how many events or tasks a read may ask for
  Weights,      \* bound: what a part of a snapshot may weigh
  OutputLimit,  \* outputByteLimit
  Budgets,      \* bound: the token budgets of a result
  MaxOwned,     \* bound: tasks the window delegates
  Entries       \* bound: entries of each half of the directory

VARIABLES
  task,      \* the task at the broker: its state and its last event
  posts,     \* notices and answers on their way to the window, in order
  reader,    \* the call of meshGetTask
  told,      \* what the calls have told: their cursor, the events shown, those said to be skipped
  last,      \* the last result
  owned,     \* routes of the window's tasks, newest first
  paging,    \* the pages read so far
  listing    \* the last result of meshListWorkers

readingVars == <<task, posts, reader, told, last>>
listVars == <<owned, paging>>
readVars == <<readingVars, listVars, listing>>

Ends == {"completed", "failed"}
OutcomeStates == Ends \union {"needsInput"}

Parts == {"title", "phase", "summary", "artifacts", "validation", "message", "choices", "prompt"}
PartsOf(state) ==
  {"title"} \union
  CASE state = "running" -> {"phase", "summary"}
    [] state = "completed" -> {"summary", "artifacts", "validation"}
    [] state = "failed" -> {"message"}
    [] state = "needsInput" -> {"choices", "prompt"}

NoGap == [from |-> 0, to |-> 0]
NoResult == [kind |-> "none", state |-> "running", wait |-> "none", stale |-> FALSE, advice |-> "none", asked |-> FALSE]
NoCall == [phase |-> "idle", mode |-> "snapshot", max |-> 1, stopped |-> FALSE, wait |-> "none",
           found |-> <<>>, read |-> <<>>, latest |-> <<>>]

ReadingInit ==
  /\ task = [state |-> "running", seq |-> 1]
  /\ posts = <<>> /\ reader = NoCall /\ last = NoResult
  /\ told = [cursor |-> 0, shown |-> {}, skipped |-> {}]
  /\ owned = <<>> /\ paging = [phase |-> "none", cursor |-> 0, listed |-> {}, due |-> {}, made |-> 0]
  /\ listing = [status |-> "none", shown |-> 0, had |-> 0, cut |-> FALSE]

----
(* From the record of the task to what the tool reads. *)

\* BrokerTaskService.snapshot: the kept events after the cursor.
Snapshot(after) ==
  LET earliest == Max({1, task.seq - KeptEvents + 1}) IN
  [state |-> task.state, seq |-> task.seq, first |-> Max({after + 1, earliest}), earliest |-> earliest]

\* toToolReadResult: as many of them as were asked for, and the gap before them.
ToToolReadResult(s, after, max) ==
  LET some == s.first <= s.seq
      from == IF some THEN s.first ELSE IF s.earliest > 1 THEN s.earliest ELSE s.seq + 1
      upto == IF some THEN Min({s.first + max - 1, s.seq}) ELSE s.first - 1
  IN [state |-> s.state, seq |-> s.seq, first |-> s.first, upto |-> upto,
      cursor |-> IF some THEN upto ELSE after,
      gap |-> IF from > after + 1 THEN [from |-> after + 1, to |-> from] ELSE NoGap,
      cut |-> from > after + 1 \/ after + 1 < s.earliest \/ upto < s.seq]

EventsIn(r) == r.upto - r.first + 1

\* parseTaskReadResult: a read that contradicts itself or its request is refused.
Parses(r, after) ==
  /\ EventsIn(r) > 0 => r.first = IF r.gap = NoGap THEN after + 1 ELSE r.gap.to
  /\ r.cursor = IF EventsIn(r) > 0 THEN r.upto ELSE after
  /\ r.gap # NoGap => r.cut /\ r.gap.from < r.gap.to /\ r.gap.from = after + 1

----
(* Cut to the budget. *)

Size(r) ==
  LET w == r.parts IN
  1 + EventsIn(r) + w["title"] + w["phase"] + w["summary"] + w["artifacts"] + w["validation"] + w["message"]
    + w["choices"] + w["prompt"]
Over(r, limit) == Max({0, Size(r) - limit})

\* Whatever is skipped is said; a result without events leaves the cursor where it was.
SkipEvents(r, k, from) ==
  IF k = 0 THEN r
  ELSE [r EXCEPT !.first = @ + k, !.gap = [from |-> from, to |-> r.first + k], !.cut = TRUE,
                 !.cursor = IF r.first + k > r.upto THEN from - 1 ELSE @]

\* The oldest go first.
\* Mutant: the gap of the read is kept as it is.
BoundEventsSilently(r, after, limit) ==
  [r EXCEPT !.first = @ + Min({EventsIn(r), Over(r, limit)})]

BoundEvents(r, after, limit) ==
  SkipEvents(r, Min({EventsIn(r), Over(r, limit)}), IF r.gap = NoGap THEN after + 1 ELSE r.gap.from)

\* A part is trimmed as far as it must be, and as far as its floor.
TrimPart(r, p, floor, limit) ==
  IF r.parts[p] <= floor \/ Size(r) <= limit THEN r
  ELSE [r EXCEPT !.parts[p] = Max({floor, @ - Over(r, limit)}), !.cut = TRUE]

TooLarge(r) == [r EXCEPT !.kind = "tooLarge"]

\* boundTaskResult.
BoundOrder ==
  << <<"artifacts", 0>>, <<"summary", 0>>, <<"phase", 0>>, <<"title", 1>>, <<"validation", 1>>,
     <<"message", 1>>, <<"choices", 0>>, <<"prompt", 1>>, <<"validation", 0>> >>

BoundTaskResult(r, after, limit) ==
  LET trimmed[i \in 0 .. Len(BoundOrder)] ==
        IF i = 0 THEN BoundEvents(r, after, limit)
        ELSE TrimPart(trimmed[i - 1], BoundOrder[i][1], BoundOrder[i][2], limit)
      bound == trimmed[Len(BoundOrder)]
  IN IF Size(r) <= limit THEN r ELSE IF Size(bound) > limit THEN TooLarge(bound) ELSE bound

\* shrinkToolResult, one thing at a time: events, then whole parts.
ShrinkEvents(r, limit) ==
  SkipEvents(r, Min({EventsIn(r), Over(r, limit)}), IF r.gap = NoGap THEN r.first ELSE r.gap.from)

ShrinkOrder ==
  << <<"summary", 0>>, <<"artifacts", 0>>, <<"phase", 0>>, <<"message", 1>>, <<"validation", 1>>,
     <<"validation", 0>>, <<"choices", 0>>, <<"prompt", 1>> >>

DropPart(r, p, floor, limit) ==
  IF r.parts[p] <= floor \/ Size(r) <= limit THEN r ELSE [r EXCEPT !.parts[p] = floor, !.cut = TRUE]

\* In the end only the question, or the failure, is left; the advice goes with the rest.
Compact(r, limit) ==
  IF Over(r, limit) > 0 /\ r.state \in {"needsInput", "failed"}
  THEN [r EXCEPT !.parts["title"] = 0, !.advice = "none"] ELSE r

\* fitToolResultToByteBudget, serializeToolResultToTokenBudget.
Fit(r, limit) ==
  LET shrunk[i \in 0 .. Len(ShrinkOrder)] ==
        IF i = 0 THEN ShrinkEvents(r, limit)
        ELSE DropPart(shrunk[i - 1], ShrinkOrder[i][1], ShrinkOrder[i][2], limit)
      small == Compact(shrunk[Len(ShrinkOrder)], limit)
  IN IF r.kind # "ok" \/ Size(r) <= limit THEN r ELSE IF Size(small) > limit THEN TooLarge(small) ELSE small

\* presentToolResult: what to do next.
Present(r) ==
  [r EXCEPT !.advice =
     IF r.kind # "ok" THEN "none"
     ELSE IF r.stale THEN "readNow"
     ELSE IF r.state = "needsInput" THEN "answer"
     ELSE IF r.state \in Ends THEN "over" ELSE "readOutcome"]

\* getTask and TaskToolBase.result.
Result(read, wait, w, budget) ==
  LET r == [kind |-> "ok", state |-> read.state, first |-> read.first, upto |-> read.upto, cursor |-> read.cursor,
            gap |-> read.gap, cut |-> read.cut, advice |-> "none", wait |-> wait,
            stale |-> wait \in {"timeout", "cancelled"},
            parts |-> [p \in Parts |-> IF p \in PartsOf(read.state) THEN w ELSE 0]]
  IN Fit(Present(Fit(BoundTaskResult(r, told.cursor, OutputLimit), OutputLimit)), budget)

----
(* meshGetTask. *)

Returns(read, wait) ==
  \E w \in Weights, budget \in Budgets :
    LET r == Result(read, wait, w, budget) IN
    /\ told' = IF r.kind # "ok" THEN told
               ELSE [cursor |-> r.cursor, shown |-> told.shown \union (r.first .. r.upto),
                     skipped |-> told.skipped \union (IF r.gap = NoGap THEN {} ELSE r.gap.from .. (r.gap.to - 1))]
    /\ last' = [kind |-> r.kind, state |-> r.state, wait |-> wait, stale |-> r.stale, advice |-> r.advice,
                asked |-> r.parts["prompt"] > 0]
    /\ reader' = NoCall

Fails(kind) == last' = [NoResult EXCEPT !.kind = kind] /\ reader' = NoCall /\ UNCHANGED told

Waits == reader.mode # "snapshot" /\ reader.phase # "idle"

\* getTask: the subscription comes before the first read.
Opens(mode, max) ==
  /\ reader.phase = "idle"
  /\ reader' = [NoCall EXCEPT !.phase = "reading", !.mode = mode, !.max = max]
  /\ last' = NoResult /\ UNCHANGED <<task, posts, told>>

BrokerReads ==
  /\ reader.phase \in {"reading", "rereading"} /\ reader.found = <<>>
  /\ reader' = [reader EXCEPT !.found = <<Snapshot(told.cursor)>>]
  /\ UNCHANGED <<task, posts, told, last>>

\* The route is marked before the answer goes.
BrokerAnswersRead ==
  /\ reader.found # <<>>
  /\ posts' = Append(posts, [kind |-> "answer", snapshot |-> reader.found[1]])
  /\ reader' = [reader EXCEPT !.phase = IF @ = "reading" THEN "read" ELSE "reread", !.found = <<>>]
  /\ UNCHANGED <<task, told, last>>

HearsChange(m) ==
  /\ m.kind = "notice"
  /\ reader' = IF Waits THEN [reader EXCEPT !.latest = <<m.snapshot>>] ELSE reader
  /\ UNCHANGED <<told, last>>

\* After the wait, the task may have moved on: what was an outcome is only a change then.
WaitOutcome(wait, read) == IF wait = "outcome" /\ read.state \notin OutcomeStates THEN "changed" ELSE wait

HearsAnswer(m) ==
  /\ m.kind = "answer"
  /\ LET read == ToToolReadResult(m.snapshot, told.cursor, reader.max) IN
     IF ~Parses(read, told.cursor) THEN Fails("invalid")
     ELSE IF reader.phase = "reread" THEN Returns(read, WaitOutcome(reader.wait, read))
     ELSE IF ~Waits THEN Returns(read, "none")
     ELSE reader' = [reader EXCEPT !.phase = "waiting", !.read = <<read>>] /\ UNCHANGED <<told, last>>

HearsPost ==
  /\ posts # <<>> /\ posts' = Tail(posts)
  /\ HearsChange(Head(posts)) \/ HearsAnswer(Head(posts))
  /\ UNCHANGED task

\* TaskSnapshotWaiter.wait, each time it is woken.
Wakes ==
  /\ reader.phase = "waiting"
  /\ LET read == reader.read[1]
         moved == told.cursor > 0 /\ read.cursor > told.cursor
         heard == reader.latest # <<>>
         why == IF reader.stopped THEN "cancelled"
                ELSE IF read.state \in OutcomeStates \/ (heard /\ reader.latest[1].state \in OutcomeStates) THEN "outcome"
                ELSE IF reader.mode = "change" /\ (moved \/ (heard /\ reader.latest[1].seq # read.seq)) THEN "changed"
                ELSE "none"
     IN /\ why # "none"
        /\ IF why = "cancelled" THEN Returns(read, why)
           ELSE reader' = [reader EXCEPT !.phase = "rereading", !.wait = why] /\ UNCHANGED <<told, last>>
  /\ UNCHANGED <<task, posts>>

TimesOut ==
  /\ reader.phase = "waiting" /\ Returns(reader.read[1], "timeout")
  /\ UNCHANGED <<task, posts>>

\* runBounded: a read may be stopped, take too long, or fail; nobody waits for its answer then.
GivesUp(kind) ==
  /\ reader.phase \in {"reading", "read", "rereading", "reread"}
  /\ kind = "cancelled" => reader.stopped
  /\ posts' = SelectSeq(posts, LAMBDA m : m.kind = "notice")
  /\ Fails(kind) /\ UNCHANGED task

StopsReading ==
  /\ reader.phase # "idle" /\ ~reader.stopped
  /\ reader' = [reader EXCEPT !.stopped = TRUE]
  /\ UNCHANGED <<task, posts, told, last>>

\* The task goes on; every event is noticed.
Advances(state) ==
  /\ task.state \notin Ends /\ task.seq < MaxLog
  /\ task' = [state |-> state, seq |-> task.seq + 1]
  /\ posts' = Append(posts, [kind |-> "notice", snapshot |-> task'])
  /\ UNCHANGED <<reader, told, last>>

OfReading == UNCHANGED <<listVars, listing>>

----
(* meshListTasks. *)

Ids(s) == {s[i].id : i \in DOMAIN s}
ActiveIds == {owned[i].id : i \in {j \in DOMAIN owned : ~owned[j].over}}

Delegates ==
  /\ paging.made < MaxOwned
  /\ paging' = [paging EXCEPT !.made = @ + 1]
  /\ owned' = <<[id |-> paging.made + 1, over |-> FALSE]>> \o owned

TaskEnds(i) ==
  /\ ~owned[i].over /\ owned' = [owned EXCEPT ![i].over = TRUE]
  /\ paging' = [paging EXCEPT !.due = @ \ {owned[i].id}]

\* Routes of ended tasks make room.
RouteGoes(i) ==
  /\ owned[i].over /\ owned' = RemoveAt(owned, i)
  /\ UNCHANGED paging

\* listOwnedTasks: the cursor is looked for among all routes, whether or not they are shown.
CursorAt(cursor) == {i \in DOMAIN owned : owned[i].id = cursor}

Page(cursor, limit, all) ==
  LET from == IF cursor = 0 THEN 0 ELSE CHOOSE i \in CursorAt(cursor) : TRUE
      visible == SelectSeq(SubSeq(owned, from + 1, Len(owned)), LAMBDA x : all \/ ~x.over)
      shown == SubSeq(visible, 1, Min({limit, Len(visible)}))
  IN [ids |-> Ids(shown), cursor |-> IF Len(shown) < Len(visible) THEN Last(shown).id ELSE 0]

\* A page too large loses its last tasks, and its cursor goes back with them.
Lists(limit, all) ==
  LET more == paging.phase = "more"
      so == IF more THEN paging ELSE [paging EXCEPT !.cursor = 0, !.listed = {}, !.due = ActiveIds]
      page == Page(so.cursor, limit, all)
  IN /\ paging' = IF more /\ CursorAt(so.cursor) = {} THEN [paging EXCEPT !.phase = "refused"]
                  ELSE [so EXCEPT !.phase = IF page.cursor = 0 THEN "done" ELSE "more", !.cursor = page.cursor,
                                  !.listed = @ \union page.ids]
     /\ UNCHANGED owned

ListNext ==
  \/ Delegates
  \/ \E i \in DOMAIN owned : TaskEnds(i) \/ RouteGoes(i)
  \/ \E limit \in PageSizes, all \in BOOLEAN : Lists(limit, all)

OfListing == UNCHANGED <<readingVars, listing>>

----
(* meshListWorkers. *)

\* boundWorkerResult and shrinkDirectoryDevices: of devices, nodes, capabilities, workspaces and tags,
\* in this order, as many as fit; what the source left out counts as left out.
BoundWorkers(had, cutBefore, limit) == [shown |-> Min({had, limit}), cut |-> had > limit \/ cutBefore]

\* Each half is asked for on its own; one that fails is an issue of the result.
ListsWorkers(scopes, failing, size, missing, budget) ==
  LET good == scopes \ failing
      had == Cardinality(good) * size
      bound == BoundWorkers(had, missing > 0 /\ good # {}, Min({OutputLimit, budget}))
  IN listing' = IF good = {} THEN [status |-> "error", shown |-> 0, had |-> 0, cut |-> FALSE]
                ELSE [status |-> IF failing \intersect scopes # {} THEN "partial" ELSE "ok",
                      shown |-> bound.shown, had |-> Cardinality(scopes) * (size + missing), cut |-> bound.cut]

WorkersNext ==
  \E scopes \in {{"local"}, {"remote"}, {"local", "remote"}} : \E failing \in SUBSET scopes :
    \E size \in Entries, missing \in {0, 1}, budget \in Budgets :
      ListsWorkers(scopes, failing, size, missing, budget)

OfWorkers == UNCHANGED <<readingVars, listVars>>

GetNext ==
  \/ \E mode \in {"snapshot", "change", "outcome"}, max \in PageSizes : Opens(mode, max)
  \/ BrokerReads \/ BrokerAnswersRead \/ HearsPost \/ Wakes \/ TimesOut \/ StopsReading
  \/ \E kind \in {"cancelled", "failed"} : GivesUp(kind)
  \/ \E state \in OutcomeStates \union {"running"} : Advances(state)

----
(* Properties. *)

\* Whoever follows the cursor has been shown every event before it, or has been told that it was
\* skipped, however the broker forgot events and the results were cut; no read is refused as invalid.
NothingMissed ==
  /\ 1 .. told.cursor \subseteq told.shown \union told.skipped
  /\ told.shown \subseteq 1 .. task.seq /\ last.kind # "invalid"

\* A wait that says it ended with an outcome shows one, an agent is told to answer only a question
\* it is shown and that was read anew, and told that a task is over only when it is.
WaitIsTrue ==
  last.kind = "ok" =>
    /\ last.wait = "outcome" => last.state \in OutcomeStates
    /\ last.advice = "answer" => last.state = "needsInput" /\ last.asked /\ ~last.stale
    /\ last.advice = "over" => task.state \in Ends

\* Whoever reads page after page has seen each task that was active all along, and is refused only
\* when the route of the last task it saw is gone; a list of workers that leaves something out says so.
PagesComplete ==
  /\ paging.phase = "done" => paging.due \subseteq paging.listed
  /\ paging.phase = "refused" => paging.cursor \notin Ids(owned)
  /\ listing.status = "ok" /\ ~listing.cut => listing.shown = listing.had

\* What the agent reads can be followed without a gap it does not know of.
ReadingSound == NothingMissed /\ WaitIsTrue /\ PagesComplete
====
