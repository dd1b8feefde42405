---- MODULE PeersProofs ----
(***************************************************************************)
(* What goes on between two devices, for any limits, sizes, tasks, calls,  *)
(* edits and failures.                                                     *)
(*                                                                         *)
(* RpcOutbox: the outbox is one sequence, the frame the socket has before  *)
(* those that wait (Held).  OutboxSound is not inductive: that a call is   *)
(* not lost when its message is merged or flushed needs that it waits in   *)
(* one message only (Book), and that it joins a marker which is there      *)
(* needs that the markers counted are those held, one per task (Marks).    *)
(*                                                                         *)
(* PeerPolicies: that what is revoked stays so needs that one edit at a    *)
(* time holds its document (OneEdit, DocumentHeld) and that what it writes *)
(* keeps to the grants of that moment (WritesKept).                        *)
(*                                                                         *)
(* RemoteRoutes: a call that has asked for its task, or is about to, has   *)
(* the route of the task stored and in memory (CallHeld).  This needs that *)
(* it is in the group of the route as long as that group may take the      *)
(* route away: the attempt that leaves last leaves nobody behind.          *)
(* SavedDevices: what is in memory when a record is deleted then accounts  *)
(* for every task that runs or may still start.                            *)
(*                                                                         *)
(* DevTunnel: the mutation that has the lock and those that wait for it    *)
(* are told apart by their lifecycles.  That a current mutation finds no   *)
(* current host, but the one it has in hands itself, and that two of them  *)
(* are never current unless a renewal goes before a restart (LineKept),    *)
(* keeps a host from exiting, or a start from failing, where it would end  *)
(* a lifecycle amid the renewal that has revoked the entry (AccessKept).   *)
(*                                                                         *)
(* Enrollment: a coordinator may drop its proof once it was told that it   *)
(* is a peer.  That what it was told is about its own enrollment needs the *)
(* stages of a request at both ends of a connection (Stepping, Tied), that *)
(* a mutation answers the request it runs for (Awaiting), and that nobody  *)
(* is let in but a peer (Backed).  The invitation is used up by its first  *)
(* peer, which keeps its root until it is revoked (StoreKept).             *)
(***************************************************************************)
EXTENDS RpcOutbox, PeerPolicies, SavedDevices, DevTunnel, Enrollment, FiniteSetTheorems, TLAPS

----------------------------------------------------------------------------
(* Sequences of messages *)

BoxMessages == [kind : Kinds, task : BoxTasks, size : Nat, waiters : SUBSET Sends]

BoxCounters == [bytes : Int, events : Int, ordinaryBytes : Int, ordinaryEvents : Int]

IsMarker(m, t) == m.kind = "output-marker" /\ m.task = t

\* The calls that are owed an answer wait in exactly one of the messages.
Book(all, owed) ==
  /\ \A i \in Sends : i \in owed <=> \E k \in 1..Len(all) : i \in all[k].waiters
  /\ \A k, l \in 1..Len(all) : k # l => all[k].waiters \cap all[l].waiters = {}

\* A task is marked exactly when one of the messages is its marker.
Marks(all, marked) ==
  /\ \A t \in marked : \E k \in 1..Len(all) : IsMarker(all[k], t)
  /\ \A k \in 1..Len(all) : all[k].kind = "output-marker" => all[k].task \in marked
  /\ \A k, l \in 1..Len(all), t \in BoxTasks : IsMarker(all[k], t) /\ IsMarker(all[l], t) => k = l

\* A call with a message of its own.
LEMMA BookAppended ==
  ASSUME NEW all \in Seq(BoxMessages), NEW owed, Book(all, owed),
         NEW m \in BoxMessages, NEW i \in Sends, m.waiters = {i}, i \notin owed
  PROVE  Book(Append(all, m), owed \cup {i})
<1> DEFINE more == Append(all, m)
<1>1. /\ more \in Seq(BoxMessages) /\ Len(more) = Len(all) + 1 /\ more[Len(all) + 1] = m
      /\ \A k \in 1..Len(all) : more[k] = all[k]
  OBVIOUS
<1>2. Len(all) \in Nat
  OBVIOUS
<1> HIDE DEF more
<1>3. ASSUME NEW j \in Sends
      PROVE  j \in owed \cup {i} <=> \E k \in 1..Len(more) : j \in more[k].waiters
  <2>1. ASSUME j \in owed \cup {i} PROVE \E k \in 1..Len(more) : j \in more[k].waiters
    <3>1. CASE j = i
      <4>1. Len(more) \in 1..Len(more) /\ j \in more[Len(more)].waiters
        BY <1>1, <1>2, <3>1
      <4> QED
        BY <4>1
    <3>2. CASE j \in owed
      <4>1. PICK k \in 1..Len(all) : j \in all[k].waiters
        BY <3>2 DEF Book
      <4>2. k \in 1..Len(more) /\ j \in more[k].waiters
        BY <4>1, <1>1, <1>2
      <4> QED
        BY <4>2
    <3> QED
      BY <2>1, <3>1, <3>2
  <2>2. ASSUME NEW k \in 1..Len(more), j \in more[k].waiters PROVE j \in owed \cup {i}
    <3>1. CASE k = Len(all) + 1
      BY <3>1, <2>2, <1>1
    <3>2. CASE k \in 1..Len(all)
      BY <3>2, <2>2, <1>1 DEF Book
    <3> QED
      BY <3>1, <3>2, <1>1, <1>2
  <2> QED
    BY <2>1, <2>2
<1>4. ASSUME NEW k \in 1..Len(all) PROVE all[k].waiters \cap {i} = {}
  BY DEF Book
<1>5. ASSUME NEW k \in 1..Len(more), NEW l \in 1..Len(more), k # l
      PROVE  more[k].waiters \cap more[l].waiters = {}
  <2>1. CASE k \in 1..Len(all) /\ l \in 1..Len(all)
    BY <2>1, <1>1, <1>5 DEF Book
  <2>2. CASE k = Len(all) + 1 /\ l \in 1..Len(all)
    BY <2>2, <1>1, <1>4
  <2>3. CASE l = Len(all) + 1 /\ k \in 1..Len(all)
    BY <2>3, <1>1, <1>4
  <2> QED
    BY <1>1, <1>2, <1>5, <2>1, <2>2, <2>3
<1> QED
  BY <1>3, <1>5 DEF Book, more

\* The first message is gone, with its calls.
LEMMA BookAdvanced ==
  ASSUME NEW all \in Seq(BoxMessages), NEW owed, Book(all, owed), all # <<>>
  PROVE  Book(Tail(all), owed \ Head(all).waiters)
<1> DEFINE rest == Tail(all)
<1>1. /\ rest \in Seq(BoxMessages) /\ Len(rest) = Len(all) - 1 /\ Head(all) = all[1] /\ Len(all) \in Nat \ {0}
      /\ \A k \in 1..Len(rest) : rest[k] = all[k + 1]
  OBVIOUS
<1> HIDE DEF rest
<1>2. ASSUME NEW k \in 1..Len(rest) PROVE k + 1 \in 1..Len(all) /\ k + 1 # 1
  BY <1>1
<1>3. ASSUME NEW j \in Sends
      PROVE  j \in owed \ all[1].waiters <=> \E k \in 1..Len(rest) : j \in rest[k].waiters
  <2>1. ASSUME j \in owed \ all[1].waiters PROVE \E k \in 1..Len(rest) : j \in rest[k].waiters
    <3>1. PICK k \in 1..Len(all) : j \in all[k].waiters
      BY <2>1 DEF Book
    <3>2. k # 1
      BY <2>1, <3>1
    <3>3. k - 1 \in 1..Len(rest) /\ rest[k - 1] = all[k]
      BY <3>2, <1>1
    <3> QED
      BY <3>1, <3>3
  <2>2. ASSUME NEW k \in 1..Len(rest), j \in rest[k].waiters PROVE j \in owed \ all[1].waiters
    <3>1. j \in all[k + 1].waiters /\ k + 1 \in 1..Len(all) /\ k + 1 # 1 /\ 1 \in 1..Len(all)
      BY <2>2, <1>1, <1>2
    <3> QED
      BY <3>1 DEF Book
  <2> QED
    BY <2>1, <2>2
<1>4. ASSUME NEW k \in 1..Len(rest), NEW l \in 1..Len(rest), k # l
      PROVE  rest[k].waiters \cap rest[l].waiters = {}
  <2>1. k + 1 # l + 1
    BY <1>4
  <2> QED
    BY <1>1, <1>2, <2>1 DEF Book
<1> QED
  BY <1>1, <1>3, <1>4 DEF Book, rest

\* One more call waits in the message at p.
LEMMA BookJoined ==
  ASSUME NEW all \in Seq(BoxMessages), NEW owed, Book(all, owed), NEW i \in Sends, i \notin owed,
         NEW next, Len(next) = Len(all), NEW p \in 1..Len(all),
         next[p].waiters = all[p].waiters \cup {i},
         \A k \in 1..Len(all) : k # p => next[k].waiters = all[k].waiters
  PROVE  Book(next, owed \cup {i})
<1>1. ASSUME NEW k \in 1..Len(all) PROVE i \notin all[k].waiters
  BY DEF Book
<1>2. ASSUME NEW j \in Sends
      PROVE  j \in owed \cup {i} <=> \E k \in 1..Len(next) : j \in next[k].waiters
  BY DEF Book
<1>3. ASSUME NEW k \in 1..Len(next), NEW l \in 1..Len(next), k # l
      PROVE  next[k].waiters \cap next[l].waiters = {}
  BY <1>1, <1>3 DEF Book
<1> QED
  BY <1>2, <1>3 DEF Book

\* A message that is no marker.
LEMMA MarksAppended ==
  ASSUME NEW all \in Seq(BoxMessages), NEW marked, Marks(all, marked), NEW m \in BoxMessages, m.kind # "output-marker"
  PROVE  Marks(Append(all, m), marked)
<1> DEFINE more == Append(all, m)
<1>1. /\ Len(more) = Len(all) + 1 /\ more[Len(all) + 1] = m /\ Len(all) \in Nat
      /\ \A k \in 1..Len(all) : more[k] = all[k]
  OBVIOUS
<1> HIDE DEF more
<1>2. ASSUME NEW k \in 1..Len(more), more[k].kind = "output-marker" PROVE k \in 1..Len(all)
  BY <1>1, <1>2
<1>3. \A k \in 1..Len(all) : k \in 1..Len(more)
  BY <1>1
<1> QED
  BY <1>1, <1>2, <1>3 DEF Marks, IsMarker, more

\* A marker for a task that had none.
LEMMA MarksMarked ==
  ASSUME NEW all \in Seq(BoxMessages), NEW marked, Marks(all, marked), NEW t \in BoxTasks, t \notin marked,
         NEW m \in BoxMessages, IsMarker(m, t)
  PROVE  Marks(Append(all, m), marked \cup {t})
<1> DEFINE more == Append(all, m)
           n == Len(all) + 1
<1>1. /\ Len(more) = n /\ more[n] = m /\ n \in 1..n /\ n \notin 1..Len(all)
      /\ \A k \in 1..n : k = n \/ k \in 1..Len(all)
      /\ \A k \in 1..Len(all) : k \in 1..n /\ more[k] = all[k]
  OBVIOUS
<1> HIDE DEF more, n
<1>2. \A u \in marked \cup {t} : \E k \in 1..n : IsMarker(more[k], u)
  BY <1>1 DEF Marks
<1>3. \A k \in 1..n : more[k].kind = "output-marker" => more[k].task \in marked \cup {t}
  BY <1>1 DEF Marks, IsMarker
<1>4. ASSUME NEW k \in 1..n, NEW l \in 1..n, NEW u \in BoxTasks, IsMarker(more[k], u), IsMarker(more[l], u)
      PROVE  k = l
  <2>1. ASSUME NEW j \in 1..Len(all), IsMarker(more[j], u) PROVE u # t
    BY <1>1, <2>1 DEF Marks, IsMarker
  <2>2. IsMarker(more[n], u) => u = t
    BY <1>1 DEF IsMarker
  <2> QED
    BY <1>1, <1>4, <2>1, <2>2 DEF Marks
<1> QED
  BY <1>1, <1>2, <1>3, <1>4 DEF Marks, more

\* The first message is gone, and its mark.
LEMMA MarksAdvanced ==
  ASSUME NEW all \in Seq(BoxMessages), NEW marked, Marks(all, marked), all # <<>>
  PROVE  Marks(Tail(all), IF Head(all).kind = "output-marker" THEN marked \ {Head(all).task} ELSE marked)
<1> DEFINE rest == Tail(all)
           left == IF all[1].kind = "output-marker" THEN marked \ {all[1].task} ELSE marked
<1>1. /\ Len(rest) = Len(all) - 1 /\ Head(all) = all[1] /\ Len(all) \in Nat \ {0} /\ 1 \in 1..Len(all)
      /\ all[1] \in BoxMessages
      /\ \A k \in 1..Len(rest) : rest[k] = all[k + 1]
  OBVIOUS
<1> HIDE DEF rest
<1>2. \A k \in 1..Len(rest) : k + 1 \in 1..Len(all) /\ k + 1 # 1
  BY <1>1
<1>3. ASSUME NEW t \in left PROVE \E k \in 1..Len(rest) : IsMarker(rest[k], t)
  <2>1. t \in marked /\ ~IsMarker(all[1], t)
    BY DEF IsMarker
  <2>2. PICK k \in 1..Len(all) : IsMarker(all[k], t)
    BY <2>1 DEF Marks
  <2>3. k - 1 \in 1..Len(rest) /\ rest[k - 1] = all[k]
    BY <2>1, <2>2, <1>1
  <2> QED
    BY <2>2, <2>3
<1>4. ASSUME NEW k \in 1..Len(rest), rest[k].kind = "output-marker" PROVE rest[k].task \in left
  <2>1. all[k + 1].kind = "output-marker" /\ all[k + 1].task = rest[k].task /\ k + 1 \in 1..Len(all) /\ k + 1 # 1
    BY <1>1, <1>2, <1>4
  <2>2. all[k + 1].task \in marked /\ all[k + 1].task \in BoxTasks
    <3>1. all[k + 1] \in BoxMessages
      BY <2>1
    <3> QED
      BY <2>1, <3>1 DEF Marks, BoxMessages
  <2>3. all[1].kind = "output-marker" => all[1].task # all[k + 1].task
    BY <1>1, <2>1, <2>2 DEF Marks, IsMarker
  <2> QED
    BY <2>1, <2>2, <2>3
<1>5. ASSUME NEW k \in 1..Len(rest), NEW l \in 1..Len(rest), NEW t \in BoxTasks,
             IsMarker(rest[k], t), IsMarker(rest[l], t)
      PROVE  k = l
  <2>1. k + 1 = l + 1
    BY <1>1, <1>2, <1>5 DEF Marks
  <2> QED
    BY <2>1
<1> QED
  BY <1>1, <1>3, <1>4, <1>5 DEF Marks, rest

\* Messages of the same kinds and tasks.
LEMMA MarksSame ==
  ASSUME NEW all, NEW marked, Marks(all, marked), NEW next, Len(next) = Len(all),
         \A k \in 1..Len(all) : next[k].kind = all[k].kind /\ next[k].task = all[k].task
  PROVE  Marks(next, marked)
  BY DEF Marks, IsMarker

----------------------------------------------------------------------------
(* The outbox *)

\* What the outbox holds, in the order it is sent.
Held == flying \o queue

BoxTyped ==
  /\ queue \in Seq(BoxMessages) /\ flying \in Seq(BoxMessages) /\ Len(flying) <= 1
  /\ used \in BoxCounters /\ markers \subseteq BoxTasks
  /\ socket \in [open : BOOLEAN, buffered : Nat]
  /\ asked \subseteq Sends /\ answered \subseteq asked

\* While the socket is open its frame is the first, and the accounts are right.
Serving ==
  socket.open =>
    /\ flying = <<>> => queue = <<>>
    /\ used.events = Len(Held)
    /\ Marks(Held, markers)

BoxInv ==
  /\ BoxTyped
  /\ OutboxBounded
  /\ Book(Held, asked \ answered)
  /\ Serving

\* The outbox is empty.
LEMMA BoxInvInit == BoxInit => BoxInv
<1> SUFFICES ASSUME BoxInit PROVE BoxInv
  OBVIOUS
<1>1. BoxTyped /\ OutboxBounded
  BY BoxAssumption DEF BoxInit, BoxTyped, BoxCounters, OutboxBounded
<1>2. Held = <<>> /\ Len(Held) = 0
  BY DEF BoxInit, Held
<1>3. Book(Held, asked \ answered) /\ Serving
  BY <1>2 DEF BoxInit, Book, Serving, Marks
<1> QED
  BY <1>1, <1>3 DEF BoxInv

\* Where the elements of a concatenation are.
LEMMA Concatenated ==
  ASSUME NEW f \in Seq(BoxMessages), NEW q \in Seq(BoxMessages)
  PROVE  /\ f \o q \in Seq(BoxMessages) /\ Len(f \o q) = Len(f) + Len(q)
         /\ \A k \in 1..Len(f) : (f \o q)[k] = f[k]
         /\ \A k \in 1..Len(q) : (f \o q)[Len(f) + k] = q[k]
         /\ \A k \in 1..Len(f \o q) : k \in 1..Len(f) \/ (k - Len(f) \in 1..Len(q) /\ (f \o q)[k] = q[k - Len(f)])
  OBVIOUS

\* Where the messages are that the outbox holds.
LEMMA HeldTyped ==
  ASSUME BoxTyped
  PROVE  /\ Held \in Seq(BoxMessages) /\ Len(Held) = Len(flying) + Len(queue)
         /\ \A k \in 1..Len(flying) : Held[k] = flying[k]
         /\ \A k \in 1..Len(queue) : Held[Len(flying) + k] = queue[k]
  BY Concatenated DEF BoxTyped, Held

\* Counters with other bytes.
Recounted(u, a, b) == [u EXCEPT !.bytes = a, !.ordinaryBytes = b]

\* Bytes change, events stay.
LEMMA CountersChanged ==
  ASSUME NEW u \in BoxCounters, NEW a \in Int, NEW b \in Int
  PROVE  /\ Recounted(u, a, b) \in BoxCounters
         /\ Recounted(u, a, b).bytes = a /\ Recounted(u, a, b).ordinaryBytes = b
         /\ Recounted(u, a, b).events = u.events /\ Recounted(u, a, b).ordinaryEvents = u.ordinaryEvents
  BY DEF BoxCounters, Recounted

\* Those who wait in the outbox are those who wait in what it holds.
LEMMA HeldWaiters ==
  ASSUME BoxTyped, NEW i
  PROVE  i \in WaitersOf(queue) \cup WaitersOf(flying) <=> \E k \in 1..Len(Held) : i \in Held[k].waiters
<1>1. /\ DOMAIN queue = 1..Len(queue) /\ DOMAIN flying = 1..Len(flying)
      /\ Len(queue) \in Nat /\ Len(flying) \in Nat
  BY DEF BoxTyped
<1>2. \A k \in 1..Len(flying) : k \in 1..Len(Held)
  BY <1>1, HeldTyped
<1>3. \A k \in 1..Len(queue) : Len(flying) + k \in 1..Len(Held)
  BY <1>1, HeldTyped
<1>4. ASSUME NEW k \in 1..Len(Held)
      PROVE  k \in 1..Len(flying) \/ \E l \in 1..Len(queue) : k = Len(flying) + l
  <2>1. CASE k > Len(flying)
    <3>1. k - Len(flying) \in 1..Len(queue) /\ k = Len(flying) + (k - Len(flying))
      BY <2>1, <1>1, HeldTyped
    <3> QED
      BY <3>1
  <2>2. CASE k <= Len(flying)
    BY <2>2, <1>1
  <2> QED
    BY <2>1, <2>2, <1>1, HeldTyped
<1>5. i \in WaitersOf(queue) \cup WaitersOf(flying) <=>
        (\E k \in 1..Len(flying) : i \in flying[k].waiters) \/ (\E k \in 1..Len(queue) : i \in queue[k].waiters)
  BY <1>1 DEF WaitersOf
<1>6. ASSUME NEW k \in 1..Len(flying), i \in flying[k].waiters PROVE \E l \in 1..Len(Held) : i \in Held[l].waiters
  BY <1>2, <1>6, HeldTyped
<1>7. ASSUME NEW k \in 1..Len(queue), i \in queue[k].waiters PROVE \E l \in 1..Len(Held) : i \in Held[l].waiters
  BY <1>3, <1>7, HeldTyped
<1>8. ASSUME NEW k \in 1..Len(Held), i \in Held[k].waiters
      PROVE  (\E l \in 1..Len(flying) : i \in flying[l].waiters) \/ (\E l \in 1..Len(queue) : i \in queue[l].waiters)
  <2>1. CASE k \in 1..Len(flying)
    BY <2>1, <1>8, HeldTyped
  <2>2. CASE \E l \in 1..Len(queue) : k = Len(flying) + l
    BY <2>2, <1>8, HeldTyped
  <2> QED
    BY <1>4, <2>1, <2>2
<1> QED
  BY <1>5, <1>6, <1>7, <1>8

\* A message is queued, and taken at once if the socket is free.
LEMMA Enqueued ==
  ASSUME BoxInv, socket.open, NEW m \in BoxMessages, Enqueue(m)
  PROVE  /\ queue' \in Seq(BoxMessages) /\ flying' \in Seq(BoxMessages) /\ Len(flying') <= 1
         /\ flying' # <<>> /\ Held' = Append(Held, m)
         /\ used' \in BoxCounters /\ used'.events = used.events + 1
         /\ used'.bytes <= used.bytes + m.size
         /\ ~Ordinary(m.kind) => used'.ordinaryEvents = used.ordinaryEvents /\ used'.ordinaryBytes = used.ordinaryBytes
         /\ Ordinary(m.kind) => /\ used'.ordinaryEvents = used.ordinaryEvents + 1
                                /\ used'.ordinaryBytes <= used.ordinaryBytes + m.size
<1> DEFINE counted == Counted(used, m)
           taken == Taken(counted, m)
<1>1. m.size \in Nat /\ used \in BoxCounters
  BY DEF BoxMessages, BoxInv, BoxTyped
<1>2. /\ counted \in BoxCounters /\ counted.events = used.events + 1 /\ counted.bytes = used.bytes + m.size
      /\ ~Ordinary(m.kind) => counted.ordinaryEvents = used.ordinaryEvents /\ counted.ordinaryBytes = used.ordinaryBytes
      /\ Ordinary(m.kind) => /\ counted.ordinaryEvents = used.ordinaryEvents + 1
                             /\ counted.ordinaryBytes = used.ordinaryBytes + m.size
  BY <1>1 DEF Counted, BoxCounters
<1> HIDE DEF counted
<1>3. /\ taken \in BoxCounters /\ taken.events = counted.events /\ taken.bytes = counted.bytes - m.size
      /\ taken.ordinaryEvents = counted.ordinaryEvents
      /\ ~Ordinary(m.kind) => taken.ordinaryBytes = counted.ordinaryBytes
      /\ Ordinary(m.kind) => taken.ordinaryBytes = counted.ordinaryBytes - m.size
  <2>1. CASE Ordinary(m.kind)
    <3>1. taken = Recounted(counted, counted.bytes - m.size, counted.ordinaryBytes - m.size)
      BY <2>1 DEF Taken, Recounted
    <3>2. counted.bytes - m.size \in Int /\ counted.ordinaryBytes - m.size \in Int
      BY <1>1, <1>2 DEF BoxCounters
    <3> HIDE DEF taken
    <3> QED
      BY <1>2, <2>1, <3>1, <3>2, CountersChanged
  <2>2. CASE ~Ordinary(m.kind)
    <3>1. taken = Recounted(counted, counted.bytes - m.size, counted.ordinaryBytes)
      BY <2>2 DEF Taken, Recounted
    <3>2. counted.bytes - m.size \in Int /\ counted.ordinaryBytes \in Int
      BY <1>1, <1>2 DEF BoxCounters
    <3> HIDE DEF taken
    <3> QED
      BY <1>2, <2>2, <3>1, <3>2, CountersChanged
  <2> QED
    BY <2>1, <2>2
<1> HIDE DEF taken
<1>4. CASE flying = <<>>
  <2>1. queue = <<>>
    BY <1>4 DEF BoxInv, Serving
  <2>2. flying' = <<m>> /\ queue' = <<>> /\ used' = taken
    <3>1. Append(queue, m) = <<m>>
      BY <2>1
    <3>2. Head(<<m>>) = m /\ Tail(<<m>>) = <<>>
      OBVIOUS
    <3> QED
      BY <1>4, <3>1, <3>2 DEF Enqueue, taken, counted
  <2>3. Held' = <<m>> /\ Append(Held, m) = <<m>>
    BY <1>4, <2>1, <2>2 DEF Held
  <2> QED
    BY <1>1, <1>2, <1>3, <2>2, <2>3 DEF BoxCounters
<1>5. CASE flying # <<>>
  <2>1. queue' = Append(queue, m) /\ flying' = flying /\ used' = counted
    BY <1>5 DEF Enqueue, counted
  <2>2. Held' = Append(Held, m)
    BY <2>1 DEF Held, BoxInv, BoxTyped
  <2>3. queue' \in Seq(BoxMessages) /\ flying' \in Seq(BoxMessages) /\ Len(flying') <= 1 /\ flying' # <<>>
    BY <1>5, <2>1 DEF BoxInv, BoxTyped
  <2> QED
    BY <1>1, <1>2, <2>1, <2>2, <2>3 DEF BoxCounters
<1> QED
  BY <1>4, <1>5

\* A call whose message is queued.
LEMMA QueuedKeeps ==
  ASSUME BoxInv, NEW i \in Sends, Fresh(i), asked' = asked \cup {i}, answered' = answered, socket' = socket,
         NEW m \in BoxMessages, m.waiters = {i}, Enqueue(m),
         CanAdmitTotal(m.size), Ordinary(m.kind) => CanAdmitOrdinary(m.size),
         \/ m.kind # "output-marker" /\ markers' = markers
         \/ \E t \in BoxTasks : IsMarker(m, t) /\ t \notin markers /\ markers' = markers \cup {t}
  PROVE  BoxInv'
<1>1. socket.open /\ i \notin asked
  BY DEF Fresh
<1>2. Held \in Seq(BoxMessages)
  BY HeldTyped DEF BoxInv
<1>3. BoxTyped'
  BY <1>1, Enqueued DEF BoxInv, BoxTyped
<1>4. OutboxBounded'
  <2>1. /\ socket.buffered \in Nat /\ m.size \in Nat
        /\ used.bytes \in Int /\ used.events \in Int /\ used.ordinaryBytes \in Int /\ used.ordinaryEvents \in Int
        /\ used'.bytes \in Int /\ used'.ordinaryBytes \in Int
    BY <1>3 DEF BoxInv, BoxTyped, BoxMessages, BoxCounters
  <2>2. used'.events = used.events + 1 /\ used'.bytes <= used.bytes + m.size
    BY <1>1, Enqueued
  <2>3. used'.events <= TotalMaxEvents /\ used'.bytes <= TotalMaxBytes
    BY <2>1, <2>2, BoxAssumption DEF CanAdmitTotal
  <2>4. CASE Ordinary(m.kind)
    <3>1. used'.ordinaryEvents = used.ordinaryEvents + 1 /\ used'.ordinaryBytes <= used.ordinaryBytes + m.size
      BY <1>1, <2>4, Enqueued
    <3> QED
      BY <2>1, <2>3, <2>4, <3>1, BoxAssumption DEF CanAdmitOrdinary, OutboxBounded
  <2>5. CASE ~Ordinary(m.kind)
    <3>1. used'.ordinaryEvents = used.ordinaryEvents /\ used'.ordinaryBytes = used.ordinaryBytes
      BY <1>1, <2>5, Enqueued
    <3> QED
      BY <2>3, <3>1 DEF BoxInv, OutboxBounded
  <2> QED
    BY <2>4, <2>5
<1>5. Book(Held, asked \ answered)'
  <2>1. asked' \ answered' = (asked \ answered) \cup {i}
    BY <1>1 DEF BoxInv, BoxTyped
  <2>2. i \notin asked \ answered
    BY <1>1
  <2>3. Book(Append(Held, m), (asked \ answered) \cup {i})
    BY <1>2, <2>2, BookAppended DEF BoxInv
  <2>4. Held' = Append(Held, m)
    BY <1>1, Enqueued
  <2> QED
    BY <2>1, <2>3, <2>4
<1>6. Serving'
  <2>1. Held' = Append(Held, m) /\ flying' # <<>> /\ used'.events = used.events + 1
    BY <1>1, Enqueued
  <2>2. Len(Held') = Len(Held) + 1
    BY <1>2, <2>1
  <2>3. used.events = Len(Held) /\ Marks(Held, markers)
    BY <1>1 DEF BoxInv, Serving
  <2>4. Marks(Append(Held, m), markers')
    BY <1>2, <2>3, MarksAppended, MarksMarked
  <2> QED
    BY <2>1, <2>2, <2>3, <2>4 DEF Serving
<1> QED
  BY <1>3, <1>4, <1>5, <1>6 DEF BoxInv

\* A call that is settled at once, because there is no room.
LEMMA RejectedKeeps ==
  ASSUME BoxInv, NEW i \in Sends, Fresh(i), asked' = asked \cup {i}, Reject(i),
         socket' = socket \/ socket' = [socket EXCEPT !.open = FALSE]
  PROVE  BoxInv'
<1>1. asked' \ answered' = asked \ answered /\ answered' \subseteq asked' /\ asked' \subseteq Sends
  BY DEF Fresh, Reject, BoxInv, BoxTyped
<1>2. socket' \in [open : BOOLEAN, buffered : Nat] /\ (socket'.open => socket.open)
  BY DEF BoxInv, BoxTyped
<1>3. BoxTyped'
  BY <1>1, <1>2 DEF Reject, BoxInv, BoxTyped
<1> QED
  BY <1>1, <1>2, <1>3 DEF Reject, BoxInv, OutboxBounded, Serving, Held

\* A newer progress takes the place, and the waiters, of the one that waits.
LEMMA ReplacedKeeps ==
  ASSUME BoxInv, NEW i \in Sends, NEW t \in BoxTasks, NEW size \in Nat, NEW k \in DOMAIN queue,
         ReplaceProgress(i, t, size, k)
  PROVE  BoxInv'
<1>1. /\ Fresh(i) /\ socket.open /\ i \notin asked /\ asked' = asked \cup {i} /\ socket' = socket
      /\ k \in 1..Len(queue) /\ queue[k].kind = "progress" /\ BoxTyped
  BY DEF ReplaceProgress, Asks, Fresh, Waiting, BoxInv, BoxTyped
<1>2. CASE ~CanReplace(queue[k], size)
  BY <1>1, <1>2, RejectedKeeps DEF ReplaceProgress
<1>3. CASE CanReplace(queue[k], size)
  <2> DEFINE m == [queue[k] EXCEPT !.size = size, !.waiters = @ \cup {i}]
             more == [used EXCEPT !.bytes = @ + (size - queue[k].size),
                                  !.ordinaryBytes = @ + (size - queue[k].size)]
             p == Len(flying) + k
  <2>1. queue' = [queue EXCEPT ![k] = m] /\ used' = more /\ UNCHANGED <<flying, markers, answered>>
    BY <1>3 DEF ReplaceProgress
  <2>2. /\ queue[k] \in BoxMessages /\ m \in BoxMessages
        /\ m.kind = queue[k].kind /\ m.task = queue[k].task /\ m.waiters = queue[k].waiters \cup {i}
    <3>1. queue[k] \in BoxMessages
      BY <1>1 DEF BoxTyped
    <3> QED
      BY <3>1 DEF BoxMessages
  <2> HIDE DEF m
  <2>3. queue' \in Seq(BoxMessages) /\ Len(queue') = Len(queue) /\ queue'[k] = m
        /\ \A l \in 1..Len(queue) : l # k => queue'[l] = queue[l]
    BY <1>1, <2>1, <2>2 DEF BoxTyped
  <2>4. more \in BoxCounters /\ more.events = used.events /\ more.ordinaryEvents = used.ordinaryEvents
        /\ more.bytes = used.bytes + (size - queue[k].size)
        /\ more.ordinaryBytes = used.ordinaryBytes + (size - queue[k].size)
    <3>1. more = Recounted(used, used.bytes + (size - queue[k].size), used.ordinaryBytes + (size - queue[k].size))
      BY DEF Recounted
    <3>2. /\ used \in BoxCounters /\ used.bytes + (size - queue[k].size) \in Int
          /\ used.ordinaryBytes + (size - queue[k].size) \in Int
      BY <1>1, <2>2 DEF BoxMessages, BoxCounters, BoxTyped
    <3> HIDE DEF more
    <3> QED
      BY <3>1, <3>2, CountersChanged
  <2> HIDE DEF more
  <2>5. BoxTyped'
    BY <1>1, <2>1, <2>3, <2>4 DEF BoxTyped
  <2>6. OutboxBounded'
    <3>1. /\ socket.buffered \in Nat /\ queue[k].size \in Nat /\ used.bytes \in Int /\ used.ordinaryBytes \in Int
      BY <1>1, <2>2 DEF BoxTyped, BoxCounters, BoxMessages
    <3> QED
      BY <1>3, <2>1, <2>4, <3>1, BoxAssumption DEF CanReplace, OutboxBounded, BoxInv
  <2>7. /\ Len(Held') = Len(Held) /\ p \in 1..Len(Held)
        /\ Held'[p].kind = Held[p].kind /\ Held'[p].task = Held[p].task
        /\ Held'[p].waiters = Held[p].waiters \cup {i}
        /\ \A l \in 1..Len(Held) : l # p => Held'[l] = Held[l]
    <3>1. Len(flying) \in Nat /\ Len(queue) \in Nat /\ flying' = flying
      BY <1>1, <2>1 DEF BoxTyped
    <3>2. Len(Held) = Len(flying) + Len(queue) /\ Len(Held') = Len(flying) + Len(queue)
      <4>1. Len(flying \o queue) = Len(flying) + Len(queue)
        BY <1>1, Concatenated DEF BoxTyped
      <4>2. Len(flying \o queue') = Len(flying) + Len(queue')
        BY <1>1, <2>3, Concatenated DEF BoxTyped
      <4> QED
        BY <2>3, <3>1, <4>1, <4>2 DEF Held
    <3>3. p \in 1..Len(Held) /\ Held[p] = queue[k] /\ Held'[p] = m
      BY <1>1, <2>3, <2>5, <3>1, <3>2 DEF Held, BoxTyped
    <3>4. ASSUME NEW l \in 1..Len(Held), l # p PROVE Held'[l] = Held[l]
      <4>1. CASE l \in 1..Len(flying)
        BY <1>1, <2>3, <3>1, <4>1, Concatenated DEF Held, BoxTyped
      <4>2. CASE /\ l - Len(flying) \in 1..Len(queue)
                 /\ Held[l] = queue[l - Len(flying)] /\ Held'[l] = queue'[l - Len(flying)]
        <5>1. l - Len(flying) # k
          BY <1>1, <3>1, <3>4
        <5> QED
          BY <2>3, <4>2, <5>1
      <4> QED
        BY <1>1, <2>3, <3>1, <3>2, <4>1, <4>2, Concatenated DEF Held, BoxTyped
    <3> QED
      BY <2>2, <3>2, <3>3, <3>4
  <2>8. Book(Held, asked \ answered)'
    <3>1. Held \in Seq(BoxMessages) /\ i \notin asked \ answered
      BY <1>1, HeldTyped
    <3>2. Book(Held', (asked \ answered) \cup {i})
      BY <2>7, <3>1, BookJoined DEF BoxInv
    <3>3. asked' \ answered' = (asked \ answered) \cup {i}
      BY <1>1, <2>1 DEF BoxTyped
    <3> QED
      BY <3>2, <3>3
  <2>9. Serving'
    <3>1. Marks(Held', markers) /\ used'.events = Len(Held')
      BY <1>1, <2>1, <2>4, <2>7, MarksSame DEF BoxInv, Serving
    <3>2. flying' = <<>> => queue' = <<>>
      BY <1>1, <2>1 DEF BoxInv, BoxTyped, Serving
    <3> QED
      BY <2>1, <3>1, <3>2 DEF Serving
  <2> QED
    BY <2>5, <2>6, <2>8, <2>9 DEF BoxInv
<1> QED
  BY <1>2, <1>3

\* A call joins the marker of its task.
LEMMA JoinedKeeps ==
  ASSUME BoxInv, NEW i \in Sends, Fresh(i), asked' = asked \cup {i}, socket' = socket,
         NEW t \in BoxTasks, t \in markers, JoinMarker(i, t)
  PROVE  BoxInv'
<1> DEFINE with(m) == IF IsMarker(m, t) THEN [m EXCEPT !.waiters = @ \cup {i}] ELSE m
<1>1. socket.open /\ i \notin asked /\ BoxTyped /\ Held \in Seq(BoxMessages) /\ Marks(Held, markers)
  BY HeldTyped DEF Fresh, BoxInv, Serving
<1>2. ASSUME NEW m \in BoxMessages
      PROVE  /\ with(m) \in BoxMessages /\ with(m).kind = m.kind /\ with(m).task = m.task
             /\ with(m).waiters = IF IsMarker(m, t) THEN m.waiters \cup {i} ELSE m.waiters
  BY DEF BoxMessages
<1>3. /\ queue' = [k \in 1..Len(queue) |-> with(queue[k])]
      /\ flying' = [k \in 1..Len(flying) |-> with(flying[k])]
      /\ UNCHANGED <<used, markers, answered>>
  BY <1>1 DEF JoinMarker, Waiting, IsMarker, BoxTyped
<1> HIDE DEF with
<1>4. /\ Len(queue) \in Nat /\ Len(flying) \in Nat
      /\ \A k \in 1..Len(queue) : queue[k] \in BoxMessages
      /\ \A k \in 1..Len(flying) : flying[k] \in BoxMessages
  BY <1>1 DEF BoxTyped
<1>5. /\ queue' \in Seq(BoxMessages) /\ Len(queue') = Len(queue)
      /\ flying' \in Seq(BoxMessages) /\ Len(flying') = Len(flying)
  <2>1. ASSUME NEW n \in Nat, NEW f, f = [k \in 1..n |-> f[k]], \A k \in 1..n : f[k] \in BoxMessages
        PROVE  f \in Seq(BoxMessages) /\ Len(f) = n
    BY <2>1
  <2>2. /\ queue' = [k \in 1..Len(queue) |-> queue'[k]] /\ \A k \in 1..Len(queue) : queue'[k] \in BoxMessages
        /\ flying' = [k \in 1..Len(flying) |-> flying'[k]] /\ \A k \in 1..Len(flying) : flying'[k] \in BoxMessages
    BY <1>2, <1>3, <1>4
  <2> QED
    BY <1>4, <2>1, <2>2
<1>6. BoxTyped'
  BY <1>1, <1>3, <1>5 DEF BoxTyped
<1>7. Len(Held) = Len(flying) + Len(queue) /\ Len(Held') = Len(Held)
  BY <1>1, <1>5, Concatenated DEF Held, BoxTyped
<1>8. ASSUME NEW k \in 1..Len(Held) PROVE Held'[k] = with(Held[k])
  <2>1. CASE k \in 1..Len(flying)
    BY <2>1, <1>1, <1>3, <1>4, <1>5 DEF Held, BoxTyped
  <2>2. CASE k \notin 1..Len(flying)
    <3>1. k - Len(flying) \in 1..Len(queue)
      BY <2>2, <1>4, <1>7
    <3>2. Held[k] = queue[k - Len(flying)] /\ Held'[k] = queue'[k - Len(flying)]
      BY <2>2, <3>1, <1>1, <1>4, <1>5, <1>7 DEF Held, BoxTyped
    <3> QED
      BY <3>1, <3>2, <1>3
  <2> QED
    BY <2>1, <2>2
<1>9. \A k \in 1..Len(Held) : Held[k] \in BoxMessages
  BY <1>1
<1>10. PICK p \in 1..Len(Held) : IsMarker(Held[p], t)
  BY <1>1 DEF Marks
<1>11. \A k \in 1..Len(Held) : k # p => ~IsMarker(Held[k], t)
  BY <1>1, <1>10 DEF Marks
<1>12. Book(Held, asked \ answered)'
  <2>1. /\ Held'[p].waiters = Held[p].waiters \cup {i}
        /\ \A k \in 1..Len(Held) : k # p => Held'[k].waiters = Held[k].waiters
    BY <1>2, <1>8, <1>9, <1>10, <1>11
  <2>2. i \notin asked \ answered
    BY <1>1
  <2>3. Book(Held', (asked \ answered) \cup {i})
    BY <1>1, <1>7, <2>1, <2>2, BookJoined DEF BoxInv
  <2>4. asked' \ answered' = (asked \ answered) \cup {i}
    BY <1>1, <1>3 DEF BoxTyped
  <2> QED
    BY <2>3, <2>4
<1>13. Serving'
  <2>1. \A k \in 1..Len(Held) : Held'[k].kind = Held[k].kind /\ Held'[k].task = Held[k].task
    BY <1>2, <1>8, <1>9
  <2>2. Marks(Held', markers')
    BY <1>1, <1>3, <1>7, <2>1, MarksSame
  <2>3. flying' = <<>> => queue' = <<>>
    <3>1. flying' = <<>> => Len(flying) = 0 /\ flying = <<>>
      BY <1>1, <1>5 DEF BoxTyped
    <3>2. queue = <<>> => Len(queue') = 0 /\ queue' = <<>>
      BY <1>5
    <3> QED
      BY <1>1, <3>1, <3>2 DEF BoxInv, Serving
  <2> QED
    BY <1>1, <1>3, <1>7, <2>2, <2>3 DEF Serving, BoxInv
<1>14. OutboxBounded'
  BY <1>3 DEF BoxInv, OutboxBounded
<1> QED
  BY <1>6, <1>12, <1>13, <1>14 DEF BoxInv

\* What the counters lose when a frame is sent and when one is taken.
LEMMA Released ==
  ASSUME NEW u \in BoxCounters, NEW m \in BoxMessages
  PROVE  /\ Sent(u, m) \in BoxCounters /\ Sent(u, m).events = u.events - 1 /\ Sent(u, m).bytes = u.bytes
         /\ Sent(u, m).ordinaryEvents <= u.ordinaryEvents /\ Sent(u, m).ordinaryBytes = u.ordinaryBytes
         /\ Taken(u, m) \in BoxCounters /\ Taken(u, m).events = u.events /\ Taken(u, m).bytes <= u.bytes
         /\ Taken(u, m).ordinaryEvents = u.ordinaryEvents /\ Taken(u, m).ordinaryBytes <= u.ordinaryBytes
<1>1. m.size \in Nat /\ u.bytes \in Int /\ u.events \in Int /\ u.ordinaryBytes \in Int /\ u.ordinaryEvents \in Int
  BY DEF BoxMessages, BoxCounters
<1>2. /\ Sent(u, m) \in BoxCounters /\ Sent(u, m).events = u.events - 1 /\ Sent(u, m).bytes = u.bytes
      /\ Sent(u, m).ordinaryEvents <= u.ordinaryEvents /\ Sent(u, m).ordinaryBytes = u.ordinaryBytes
  <2> DEFINE n == IF Ordinary(m.kind) THEN u.ordinaryEvents - 1 ELSE u.ordinaryEvents
             e == u.events - 1
  <2>1. n \in Int /\ n <= u.ordinaryEvents /\ e \in Int
    BY <1>1
  <2>2. Sent(u, m) = [u EXCEPT !.events = e, !.ordinaryEvents = n]
    BY DEF Sent
  <2> HIDE DEF n, e
  <2>3. /\ Sent(u, m) \in BoxCounters /\ Sent(u, m).events = e /\ Sent(u, m).bytes = u.bytes
        /\ Sent(u, m).ordinaryEvents = n /\ Sent(u, m).ordinaryBytes = u.ordinaryBytes
    BY <1>1, <2>1, <2>2 DEF BoxCounters
  <2> QED
    BY <2>1, <2>3 DEF e
<1>3. /\ Taken(u, m) \in BoxCounters /\ Taken(u, m).events = u.events /\ Taken(u, m).bytes <= u.bytes
      /\ Taken(u, m).ordinaryEvents = u.ordinaryEvents /\ Taken(u, m).ordinaryBytes <= u.ordinaryBytes
  <2> DEFINE b == u.bytes - m.size
             o == IF Ordinary(m.kind) THEN u.ordinaryBytes - m.size ELSE u.ordinaryBytes
  <2>1. b \in Int /\ o \in Int /\ b <= u.bytes /\ o <= u.ordinaryBytes
    BY <1>1
  <2>2. Taken(u, m) = Recounted(u, b, o)
    BY DEF Taken, Recounted
  <2> HIDE DEF b, o
  <2> QED
    BY <2>1, <2>2, CountersChanged
<1> QED
  BY <1>2, <1>3

\* The socket is done with its frame.
LEMMA FlushedKeeps ==
  ASSUME BoxInv, NEW ok \in BOOLEAN, Flushed(ok)
  PROVE  BoxInv'
<1> DEFINE m == flying[1]
<1>1. BoxTyped /\ Held \in Seq(BoxMessages) /\ flying = <<m>> /\ m \in BoxMessages
  <2>1. BoxTyped /\ Held \in Seq(BoxMessages) /\ flying # <<>>
    BY HeldTyped DEF Flushed, BoxInv
  <2>2. flying \in Seq(BoxMessages) /\ Len(flying) = 1
    <3>1. flying \in Seq(BoxMessages) /\ Len(flying) <= 1
      BY <2>1 DEF BoxTyped
    <3>2. Len(flying) \in Nat /\ (Len(flying) = 0 => flying = <<>>)
      BY <3>1
    <3>3. Len(flying) # 0
      BY <2>1, <3>2
    <3>4. \A n \in Nat : n <= 1 /\ n # 0 => n = 1
      OBVIOUS
    <3> QED
      BY <3>1, <3>2, <3>3, <3>4
  <2>3. flying[1] \in BoxMessages /\ flying = <<flying[1]>>
    BY <2>2
  <2> QED
    BY <2>1, <2>3
<1>2. Held # <<>> /\ Head(Held) = m /\ Tail(Held) = queue
  <2>1. ASSUME NEW x \in BoxMessages, NEW q \in Seq(BoxMessages)
        PROVE  <<x>> \o q # <<>> /\ Head(<<x>> \o q) = x /\ Tail(<<x>> \o q) = q
    OBVIOUS
  <2>2. Held = <<m>> \o queue
    BY <1>1 DEF Held
  <2> HIDE DEF m
  <2> QED
    BY <1>1, <2>1, <2>2 DEF BoxTyped
<1>3. asked' = asked /\ socket' = socket /\ answered' = answered \cup m.waiters
  BY DEF Flushed
<1>4. m.waiters \subseteq asked /\ m.waiters \subseteq Sends
  <2>1. 1 \in 1..Len(Held) /\ Held[1] = m
    BY <1>1, <1>2
  <2>2. m.waiters \subseteq Sends
    BY <1>1 DEF BoxMessages
  <2> QED
    BY <2>1, <2>2 DEF BoxInv, Book
<1>5. /\ queue' \in Seq(BoxMessages) /\ flying' \in Seq(BoxMessages) /\ Len(flying') <= 1
      /\ Held' = Tail(Held) /\ used' \in BoxCounters /\ used'.events = used.events - 1
      /\ used'.bytes <= used.bytes
      /\ used'.ordinaryEvents <= used.ordinaryEvents /\ used'.ordinaryBytes <= used.ordinaryBytes
      /\ socket.open /\ flying' = <<>> => queue' = <<>>
  <2>1. Sent(used, m) \in BoxCounters
    BY <1>1, Released DEF BoxTyped
  <2>2. CASE queue # <<>> /\ socket.open
    <3>1. flying' = <<Head(queue)>> /\ queue' = Tail(queue) /\ used' = Taken(Sent(used, m), Head(queue))
      BY <2>2 DEF Flushed
    <3>2. Head(queue) \in BoxMessages /\ Tail(queue) \in Seq(BoxMessages) /\ <<Head(queue)>> \o Tail(queue) = queue
      BY <1>1, <2>2 DEF BoxTyped
    <3>3. Held' = Tail(Held)
      BY <1>2, <3>1, <3>2 DEF Held
    <3>4. /\ used' \in BoxCounters /\ used'.events = Sent(used, m).events /\ used'.bytes <= Sent(used, m).bytes
          /\ used'.ordinaryEvents = Sent(used, m).ordinaryEvents
          /\ used'.ordinaryBytes <= Sent(used, m).ordinaryBytes
      BY <2>1, <3>1, <3>2, Released
    <3>5. /\ Sent(used, m).events = used.events - 1 /\ Sent(used, m).bytes = used.bytes
          /\ Sent(used, m).ordinaryEvents <= used.ordinaryEvents /\ Sent(used, m).ordinaryBytes = used.ordinaryBytes
      BY <1>1, Released DEF BoxTyped
    <3>6. /\ used'.events = used.events - 1 /\ used'.bytes <= used.bytes
          /\ used'.ordinaryEvents <= used.ordinaryEvents /\ used'.ordinaryBytes <= used.ordinaryBytes
      BY <3>4, <3>5
    <3> QED
      BY <3>1, <3>2, <3>3, <3>4, <3>6
  <2>3. CASE ~(queue # <<>> /\ socket.open)
    <3>1. flying' = <<>> /\ queue' = queue /\ used' = Sent(used, m)
      BY <2>3 DEF Flushed
    <3>2. Held' = queue
      BY <1>1, <3>1 DEF Held, BoxTyped
    <3>3. /\ used' \in BoxCounters /\ used'.events = used.events - 1 /\ used'.bytes = used.bytes
          /\ used'.ordinaryEvents <= used.ordinaryEvents /\ used'.ordinaryBytes = used.ordinaryBytes
      BY <1>1, <3>1, Released DEF BoxTyped
    <3>4. used'.bytes \in Int /\ used'.ordinaryBytes \in Int
      BY <3>3 DEF BoxCounters
    <3> QED
      BY <1>1, <1>2, <2>3, <3>1, <3>2, <3>3, <3>4 DEF BoxTyped
  <2> QED
    BY <2>2, <2>3
<1>6. markers' = IF m.kind = "output-marker" THEN markers \ {m.task} ELSE markers
  BY DEF Flushed
<1>7. BoxTyped'
  BY <1>1, <1>3, <1>4, <1>5, <1>6 DEF BoxTyped
<1>8. OutboxBounded'
  <2>1. /\ used.bytes \in Int /\ used.events \in Int /\ used.ordinaryBytes \in Int /\ used.ordinaryEvents \in Int
        /\ used'.bytes \in Int /\ used'.ordinaryBytes \in Int /\ used'.ordinaryEvents \in Int
    BY <1>1, <1>5 DEF BoxTyped, BoxCounters
  <2>2. /\ used'.events = used.events - 1 /\ used'.bytes <= used.bytes
        /\ used'.ordinaryEvents <= used.ordinaryEvents /\ used'.ordinaryBytes <= used.ordinaryBytes
    BY <1>5
  <2>3. used'.ordinaryEvents \in Int
    BY <1>5 DEF BoxCounters
  <2>4. /\ used.events <= TotalMaxEvents /\ used.bytes <= TotalMaxBytes
        /\ used.ordinaryEvents <= OrdinaryMaxEvents /\ used.ordinaryBytes <= OrdinaryMaxBytes
    BY DEF BoxInv, OutboxBounded
  <2>5. used'.events <= TotalMaxEvents /\ used'.bytes <= TotalMaxBytes
    BY ONLY <2>1, <2>2, <2>4, BoxAssumption
  <2>6. used'.ordinaryEvents <= OrdinaryMaxEvents /\ used'.ordinaryBytes <= OrdinaryMaxBytes
    BY ONLY <2>1, <2>2, <2>3, <2>4, BoxAssumption
  <2> QED
    BY <2>5, <2>6 DEF OutboxBounded
<1>9. Book(Held, asked \ answered)'
  <2>1. Book(Tail(Held), (asked \ answered) \ m.waiters)
    BY <1>1, <1>2, BookAdvanced DEF BoxInv
  <2>2. asked' \ answered' = (asked \ answered) \ m.waiters
    BY <1>3
  <2> QED
    BY <1>5, <2>1, <2>2
<1>10. Serving'
  <2> SUFFICES ASSUME socket.open PROVE (flying' = <<>> => queue' = <<>>) /\ used'.events = Len(Held') /\ Marks(Held', markers')
    BY <1>3 DEF Serving
  <2>1. Len(Held') = Len(Held) - 1
    BY <1>1, <1>2, <1>5
  <2>2. used.events = Len(Held) /\ Marks(Held, markers)
    BY DEF BoxInv, Serving
  <2>3. Marks(Held', markers')
    BY <1>1, <1>2, <1>5, <1>6, <2>2, MarksAdvanced
  <2> QED
    BY <1>5, <2>1, <2>2, <2>3
<1> QED
  BY <1>7, <1>8, <1>9, <1>10 DEF BoxInv

\* What was queued is dropped, and its calls are settled.
LEMMA DroppedKeeps ==
  ASSUME BoxInv, DisposeBox
  PROVE  BoxInv'
<1>1. /\ BoxTyped /\ Held \in Seq(BoxMessages) /\ ~socket.open /\ UNCHANGED <<flying, used, markers, socket, asked>>
      /\ queue' = <<>> /\ answered' = answered \cup WaitersOf(queue)
  BY HeldTyped DEF DisposeBox, BoxInv
<1>2. Held' = flying /\ \A k \in 1..Len(flying) : k \in 1..Len(Held) /\ Held[k] = flying[k]
  BY <1>1, HeldTyped DEF Held, BoxTyped
<1>3. \A i \in Sends : i \in asked \ answered <=> i \in WaitersOf(queue) \cup WaitersOf(flying)
  BY <1>1, HeldWaiters DEF BoxInv, Book
<1>4. ASSUME NEW i, i \in WaitersOf(queue) PROVE i \in Sends /\ i \notin WaitersOf(flying)
  <2>1. PICK k \in 1..Len(queue) : i \in queue[k].waiters
    BY <1>1, <1>4 DEF WaitersOf, BoxTyped
  <2>2. queue[k] \in BoxMessages /\ i \in Sends
    <3>1. queue[k] \in BoxMessages
      BY <1>1, <2>1 DEF BoxTyped
    <3> QED
      BY <2>1, <3>1 DEF BoxMessages
  <2>3. ASSUME NEW l \in 1..Len(flying), i \in flying[l].waiters PROVE FALSE
    <3>1. /\ Held[Len(flying) + k] = queue[k] /\ Len(flying) + k \in 1..Len(Held)
          /\ Held[l] = flying[l] /\ l \in 1..Len(Held) /\ l # Len(flying) + k
      BY <1>1, <1>2, <2>1, HeldTyped DEF BoxTyped
    <3> QED
      BY <2>1, <2>3, <3>1 DEF BoxInv, Book
  <2> QED
    BY <1>1, <2>2, <2>3 DEF WaitersOf, BoxTyped
<1>5. BoxTyped'
  BY <1>1, <1>3, <1>4 DEF BoxTyped
<1>6. Book(Held, asked \ answered)'
  <2>1. ASSUME NEW i \in Sends
        PROVE  i \in asked' \ answered' <=> \E k \in 1..Len(flying) : i \in flying[k].waiters
    <3>1. i \in WaitersOf(flying) <=> \E k \in 1..Len(flying) : i \in flying[k].waiters
      BY <1>1 DEF WaitersOf, BoxTyped
    <3> QED
      BY <1>1, <1>3, <1>4, <3>1
  <2>2. \A k, l \in 1..Len(flying) : k # l => flying[k].waiters \cap flying[l].waiters = {}
    BY <1>2 DEF BoxInv, Book
  <2> QED
    BY <1>2, <2>1, <2>2 DEF Book
<1> QED
  BY <1>1, <1>5, <1>6 DEF BoxInv, Serving, OutboxBounded

\* Every action keeps the invariant.
LEMMA BoxInvStep == BoxInv /\ [BoxNext]_boxVars => BoxInv'
<1> SUFFICES ASSUME BoxInv, [BoxNext]_boxVars PROVE BoxInv'
  OBVIOUS
<1>1. ASSUME NEW i \in Sends, NEW t \in BoxTasks, NEW size \in Sizes PROVE size \in Nat
  BY BoxAssumption
<1>2. ASSUME NEW i \in Sends, NEW t \in BoxTasks, NEW size \in Sizes, SendCritical(i, t, size) PROVE BoxInv'
  <2> DEFINE m == Message("critical", t, size, {i})
  <2>1. m \in BoxMessages /\ m.waiters = {i} /\ m.size = size /\ m.kind = "critical"
    BY BoxAssumption DEF Message, BoxMessages, Kinds
  <2>2. /\ Fresh(i) /\ asked' = asked \cup {i} /\ socket' = socket /\ Enqueue(m)
        /\ markers' = markers /\ answered' = answered
    BY <1>2 DEF SendCritical, Asks
  <2>3. CanAdmitTotal(size)
    BY <1>2 DEF SendCritical
  <2> HIDE DEF m
  <2> QED
    BY <2>3, <2>1, <2>2, QueuedKeeps DEF CanAdmitOrdinary, Ordinary
<1>3. ASSUME NEW i \in Sends, NEW t \in BoxTasks, NEW size \in Sizes, SendOverflows(i, size) PROVE BoxInv'
  BY <1>3, RejectedKeeps DEF SendOverflows
<1>4. ASSUME NEW i \in Sends, NEW t \in BoxTasks, NEW size \in Sizes, SendProgress(i, t, size) PROVE BoxInv'
  <2>1. CASE CanAdmitOrdinary(size)
    <3> DEFINE m == Message("progress", t, size, {i})
    <3>1. m \in BoxMessages /\ m.waiters = {i} /\ m.size = size /\ m.kind = "progress"
      BY BoxAssumption DEF Message, BoxMessages, Kinds
    <3>2. /\ Fresh(i) /\ asked' = asked \cup {i} /\ socket' = socket /\ Enqueue(m)
          /\ markers' = markers /\ answered' = answered
      BY <1>4, <2>1 DEF SendProgress, Asks
    <3> HIDE DEF m
    <3> QED
      BY <2>1, <3>1, <3>2, QueuedKeeps DEF CanAdmitOrdinary, Ordinary
  <2>2. CASE ~CanAdmitOrdinary(size)
    BY <1>4, <2>2, RejectedKeeps DEF SendProgress, Asks
  <2> QED
    BY <2>1, <2>2
<1>5. ASSUME NEW i \in Sends, NEW t \in BoxTasks, NEW size \in Sizes, SendOutput(i, t, size) PROVE BoxInv'
  <2> DEFINE m == Message("output", t, size, {i})
  <2>1. m \in BoxMessages /\ m.waiters = {i} /\ m.size = size /\ m.kind = "output"
    BY BoxAssumption DEF Message, BoxMessages, Kinds
  <2>2. /\ Fresh(i) /\ asked' = asked \cup {i} /\ socket' = socket /\ Enqueue(m)
        /\ markers' = markers /\ answered' = answered
    BY <1>5 DEF SendOutput, Asks
  <2>3. CanAdmitOrdinary(size)
    BY <1>5 DEF SendOutput
  <2> HIDE DEF m
  <2> QED
    BY <2>3, <2>1, <2>2, QueuedKeeps DEF CanAdmitOrdinary, Ordinary
<1>6. ASSUME NEW i \in Sends, NEW t \in BoxTasks, NEW size \in Sizes, OutputUnderPressure(i, t, size) PROVE BoxInv'
  <2>1. /\ Fresh(i) /\ asked' = asked \cup {i} /\ socket' = socket
        /\ (t \in markers /\ JoinMarker(i, t)) \/ Reject(i) \/ (t \notin markers /\ EnqueueMarker(i, t))
    BY <1>6 DEF OutputUnderPressure
  <2>2. CASE t \in markers /\ JoinMarker(i, t)
    BY <2>1, <2>2, JoinedKeeps
  <2>3. CASE Reject(i)
    BY <2>1, <2>3, RejectedKeeps
  <2>4. CASE t \notin markers /\ EnqueueMarker(i, t) /\ ~Reject(i)
    <3> DEFINE m == Message("output-marker", t, MarkerSize, {i})
    <3>1. m \in BoxMessages /\ m.waiters = {i} /\ m.size = MarkerSize /\ IsMarker(m, t) /\ ~Ordinary(m.kind)
      BY BoxAssumption DEF Message, BoxMessages, Kinds, IsMarker, Ordinary
    <3>2. CanAdmitTotal(MarkerSize) /\ markers' = markers \cup {t} /\ Enqueue(m) /\ answered' = answered
      BY <2>4 DEF EnqueueMarker
    <3> HIDE DEF m
    <3> QED
      BY <2>1, <2>4, <3>1, <3>2, QueuedKeeps
  <2> QED
    BY <2>1, <2>2, <2>3, <2>4
<1>7. ASSUME NEW i \in Sends, NEW t \in BoxTasks, NEW size \in Sizes, NEW k \in DOMAIN queue,
             ReplaceProgress(i, t, size, k)
      PROVE  BoxInv'
  BY <1>1, <1>7, ReplacedKeeps
<1>8. ASSUME NEW ok \in BOOLEAN, Flushed(ok) PROVE BoxInv'
  BY <1>8, FlushedKeeps
<1>9. ASSUME NEW n \in Sizes \cup {0}, Buffered(n) PROVE BoxInv'
  <2>1. n \in Nat /\ socket' = [socket EXCEPT !.buffered = n]
    BY <1>9, BoxAssumption DEF Buffered
  <2>2. socket' \in [open : BOOLEAN, buffered : Nat] /\ socket'.open = socket.open
    BY <2>1 DEF BoxInv, BoxTyped
  <2> QED
    BY <1>9, <2>2 DEF Buffered, BoxInv, BoxTyped, OutboxBounded, Serving, Held
<1>10. ASSUME SocketCloses PROVE BoxInv'
  <2>1. socket' \in [open : BOOLEAN, buffered : Nat] /\ ~socket'.open
    BY <1>10 DEF SocketCloses, BoxInv, BoxTyped
  <2> QED
    BY <1>10, <2>1 DEF SocketCloses, BoxInv, BoxTyped, OutboxBounded, Serving, Held
<1>11. ASSUME DisposeBox PROVE BoxInv'
  BY <1>11, DroppedKeeps
<1>12. CASE UNCHANGED boxVars
  BY <1>12 DEF boxVars, BoxInv, BoxTyped, OutboxBounded, Serving, Held
<1> QED
  BY <1>2, <1>3, <1>4, <1>5, <1>6, <1>7, <1>8, <1>9, <1>10, <1>11, <1>12 DEF BoxNext

\* OutboxSound, for any limits and sizes, any number of tasks and calls, and whatever order the
\* socket, the replacements, the markers and the closing come in.
THEOREM OutboxKept == BoxSpec => []OutboxSound
<1>1. ASSUME BoxInv PROVE OutboxSound
  <2>1. socket.open => used.events = Len(queue) + Len(flying)
    BY <1>1, HeldTyped DEF BoxInv, BoxTyped, Serving
  <2>2. ASSUME NEW i PROVE i \in asked \ answered <=> i \in WaitersOf(queue) \cup WaitersOf(flying)
    <3>1. ASSUME NEW k \in 1..Len(Held), i \in Held[k].waiters PROVE i \in Sends
      <4>1. Held[k] \in BoxMessages
        BY <1>1, HeldTyped DEF BoxInv
      <4> QED
        BY <3>1, <4>1 DEF BoxMessages
    <3>2. i \in WaitersOf(queue) \cup WaitersOf(flying) => i \in Sends
      BY <1>1, <3>1, HeldWaiters DEF BoxInv
    <3>3. i \in asked \ answered => i \in Sends
      BY <1>1 DEF BoxInv, BoxTyped
    <3> QED
      BY <1>1, <3>2, <3>3, HeldWaiters DEF BoxInv, Book
  <2> QED
    BY <1>1, <2>1, <2>2 DEF OutboxSound, NoCallForgotten, BoxInv
<1> QED
  BY <1>1, BoxInvInit, BoxInvStep, PTL DEF BoxSpec

----------------------------------------------------------------------------
(* PeerPolicies *)

EditKinds == {"none", "grant", "auto", "allow", "receive", "pair"}
EditPhases == {"none", "chosen", "queued", "writing", "renamed", "ended"}

PolicyRecords ==
  [rev : Nat, allow : SUBSET (Spaces \X Nat), granted : SUBSET Spaces, auto : SUBSET Spaces, receive : SUBSET Spaces,
   pairs : SUBSET (Spaces \X Spaces)]

EditRecords ==
  [at : EditPhases, kind : EditKinds, space : Spaces \cup {"none"}, on : BOOLEAN, scope : SUBSET Spaces,
   generation : Nat, rev : Nat]

StartedRecords ==
  [at : {"none", "checked", "dispatched", "refused"}, kind : {"none", "out", "in", "local"},
   space : Spaces \cup {"none"}, scope : SUBSET Spaces, auto : BOOLEAN, fine : BOOLEAN]

PoliciesTyped ==
  /\ loaded \in PolicyRecords /\ filed \in PolicyRecords
  /\ edit \in [Edits -> EditRecords]
  /\ busy \in [remote : {"free", "edit", "revocation"}, local : {"free", "edit"}]
  /\ peer \in [revoked : {"no", "denied", "removed"}, generation : Nat]
  /\ start \in StartedRecords /\ (start.at = "checked" => start.kind # "none")
  /\ \A e \in Edits : edit[e].at \in {"chosen", "queued", "writing", "renamed"} =>
       edit[e].kind # "none" /\ edit[e].space \in Spaces

\* One edit at a time is on its way; while it writes, its document is its own.
Writing == {"writing", "renamed"}
OneEdit ==
  \A e, o \in Edits : edit[e].at \in Writing \cup {"queued"} /\ edit[o].at \in Writing \cup {"queued"} => e = o
DocumentHeld == \A e \in Edits : edit[e].at \in Writing => busy[Document(edit[e].kind)] = "edit"

\* What is written keeps to the grants, those that are taken away among them.
WritesKept ==
  \A e \in Edits : edit[e].at \in Writing =>
    /\ edit[e].kind = "auto" => edit[e].space \in loaded.granted
    /\ edit[e].kind = "grant" /\ edit[e].on => peer.revoked # "removed"
RevocationStored == busy.remote = "revocation" => filed.granted = {}

PoliciesInv ==
  /\ PoliciesTyped /\ OneEdit /\ DocumentHeld /\ WritesKept /\ RevocationStored
  /\ GrantsDie /\ AutoNeedsGrant /\ DispatchedIsAllowed

LEMMA PoliciesInvInit == PoliciesInit => PoliciesInv
<1> SUFFICES ASSUME PoliciesInit  PROVE PoliciesInv
  OBVIOUS
<1>1. loaded \in PolicyRecords /\ filed = loaded /\ loaded.auto = {}
  <2> DEFINE first == [NoPolicies EXCEPT !.granted = Spaces, !.receive = Spaces]
  <2>1. NoPolicies \in PolicyRecords /\ NoPolicies.auto = {}
    BY DEF NoPolicies, PolicyRecords
  <2>2. first \in PolicyRecords /\ first.auto = {}
    BY <2>1 DEF PolicyRecords
  <2> QED
    BY <2>1, <2>2 DEF PoliciesInit
<1>2. edit = [e \in Edits |-> NoEdit] /\ NoEdit \in EditRecords /\ NoEdit.at = "none"
  BY DEF PoliciesInit, NoEdit, EditRecords, EditKinds, EditPhases
<1>3. PoliciesTyped
  BY <1>1, <1>2 DEF PoliciesTyped, PoliciesInit, PoliciesAssumption, NoStart, StartedRecords
<1>4. OneEdit /\ DocumentHeld /\ WritesKept
  BY <1>2 DEF OneEdit, DocumentHeld, WritesKept, Writing
<1>5. RevocationStored /\ GrantsDie /\ AutoNeedsGrant /\ DispatchedIsAllowed
  BY <1>1 DEF RevocationStored, GrantsDie, AutoNeedsGrant, DispatchedIsAllowed, PoliciesInit, NoStart
<1> QED
  BY <1>3, <1>4, <1>5 DEF PoliciesInv

\* What an edit makes of the grants.
LEMMA EditedGrants ==
  ASSUME loaded \in PolicyRecords, NEW e \in Edits, edit[e] \in EditRecords, edit[e].kind # "none", edit[e].space \in Spaces
  PROVE  /\ Edited(e) \in PolicyRecords
         /\ edit[e].kind = "grant" =>
              /\ Edited(e).granted = Put(loaded.granted, {edit[e].space}, edit[e].on)
              /\ Edited(e).auto = IF edit[e].on THEN loaded.auto ELSE loaded.auto \ {edit[e].space}
         /\ edit[e].kind = "auto" =>
              /\ Edited(e).granted = loaded.granted
              /\ Edited(e).auto = Put(loaded.auto, {edit[e].space}, edit[e].on)
         /\ edit[e].kind \notin {"grant", "auto"} => Edited(e).granted = loaded.granted /\ Edited(e).auto = loaded.auto
<1> DEFINE d == edit[e]
<1>1. d.kind \in EditKinds /\ d.space \in Spaces /\ d.on \in BOOLEAN /\ d.scope \subseteq Spaces /\ d.generation \in Nat
  BY DEF EditRecords
<1> HIDE DEF d
<1>2. CASE d.kind = "grant"
  <2>1. Edited(e) = EditGrant(d.space, d.on)
    BY <1>2 DEF Edited, d
  <2>2. /\ EditGrant(d.space, d.on) \in PolicyRecords
        /\ EditGrant(d.space, d.on).granted = Put(loaded.granted, {d.space}, d.on)
        /\ EditGrant(d.space, d.on).auto = IF d.on THEN loaded.auto ELSE loaded.auto \ {d.space}
    <3> DEFINE g == Put(loaded.granted, {d.space}, d.on)
               a == IF d.on THEN loaded.auto ELSE loaded.auto \ {d.space}
               r == loaded.rev + 1
    <3>1. EditGrant(d.space, d.on) = [loaded EXCEPT !.rev = r, !.granted = g, !.auto = a]
      BY DEF EditGrant
    <3>2. r \in Nat /\ g \subseteq Spaces /\ a \subseteq Spaces
      BY <1>1 DEF PolicyRecords, Put
    <3> HIDE DEF g, a, r
    <3>3. EditGrant(d.space, d.on) \in PolicyRecords
      BY <3>1, <3>2 DEF PolicyRecords
    <3>4. EditGrant(d.space, d.on).granted = g /\ EditGrant(d.space, d.on).auto = a
      BY <3>1 DEF PolicyRecords
    <3> QED
      BY <3>3, <3>4 DEF g, a
  <2> QED
    BY <1>2, <2>1, <2>2 DEF d
<1>3. CASE d.kind = "auto"
  <2>1. Edited(e) = EditAuto(d.space, d.on)
    BY <1>3 DEF Edited, d
  <2>2. /\ EditAuto(d.space, d.on) \in PolicyRecords
        /\ EditAuto(d.space, d.on).granted = loaded.granted
        /\ EditAuto(d.space, d.on).auto = Put(loaded.auto, {d.space}, d.on)
    <3> DEFINE a == Put(loaded.auto, {d.space}, d.on)
               r == loaded.rev + 1
    <3>1. EditAuto(d.space, d.on) = [loaded EXCEPT !.rev = r, !.auto = a]
      BY DEF EditAuto
    <3>2. r \in Nat /\ a \subseteq Spaces
      BY <1>1 DEF PolicyRecords, Put
    <3> HIDE DEF a, r
    <3>3. EditAuto(d.space, d.on) \in PolicyRecords
      BY <3>1, <3>2 DEF PolicyRecords
    <3>4. EditAuto(d.space, d.on).granted = loaded.granted /\ EditAuto(d.space, d.on).auto = a
      BY <3>1 DEF PolicyRecords
    <3> QED
      BY <3>3, <3>4 DEF a
  <2> QED
    BY <1>3, <2>1, <2>2 DEF d
<1>4. CASE d.kind = "allow"
  <2>1. Edited(e) = EditAllow(d.scope, d.generation, d.on)
    BY <1>4 DEF Edited, d
  <2>2. /\ EditAllow(d.scope, d.generation, d.on) \in PolicyRecords
        /\ EditAllow(d.scope, d.generation, d.on).granted = loaded.granted
        /\ EditAllow(d.scope, d.generation, d.on).auto = loaded.auto
    <3> DEFINE a == Put(loaded.allow, d.scope \X {d.generation}, d.on)
               r == loaded.rev + 1
    <3>1. EditAllow(d.scope, d.generation, d.on) = [loaded EXCEPT !.rev = r, !.allow = a]
      BY DEF EditAllow
    <3>2. r \in Nat /\ a \in SUBSET (Spaces \X Nat)
      BY <1>1 DEF PolicyRecords, Put
    <3> HIDE DEF a, r
    <3> QED
      BY <3>1, <3>2 DEF PolicyRecords
  <2> QED
    BY <1>4, <2>1, <2>2 DEF d
<1>5. CASE d.kind = "receive"
  <2>1. Edited(e) = EditReceive(d.space, d.on)
    BY <1>5 DEF Edited, d
  <2>2. /\ EditReceive(d.space, d.on) \in PolicyRecords
        /\ EditReceive(d.space, d.on).granted = loaded.granted /\ EditReceive(d.space, d.on).auto = loaded.auto
    BY <1>1 DEF EditReceive, PolicyRecords, Put
  <2> QED
    BY <1>5, <2>1, <2>2 DEF d
<1>6. CASE d.kind = "pair"
  <2>1. Edited(e) = EditPair(d.space, d.on)
    BY <1>6 DEF Edited, d
  <2>2. /\ EditPair(d.space, d.on) \in PolicyRecords
        /\ EditPair(d.space, d.on).granted = loaded.granted /\ EditPair(d.space, d.on).auto = loaded.auto
    <3>1. Put(loaded.pairs, {d.space} \X (Spaces \ {d.space}), d.on) \in SUBSET (Spaces \X Spaces)
      BY <1>1 DEF PolicyRecords, Put
    <3> QED
      BY <1>1, <3>1 DEF EditPair, PolicyRecords
  <2> QED
    BY <1>6, <2>1, <2>2 DEF d
<1> QED
  BY <1>1, <1>2, <1>3, <1>4, <1>5, <1>6 DEF EditKinds, d

\* A document is written, or loaded, whole.
LEMMA DocumentStored ==
  ASSUME NEW old \in PolicyRecords, NEW next \in PolicyRecords, NEW doc,
         NEW new, new = [k \in DOMAIN old |-> IF (k \in RemotePart) = (doc = "remote") THEN next[k] ELSE old[k]]
  PROVE  /\ new \in PolicyRecords
         /\ new.granted = IF doc = "remote" THEN next.granted ELSE old.granted
         /\ new.auto = IF doc = "remote" THEN next.auto ELSE old.auto
<1>1. DOMAIN old = {"rev", "allow", "granted", "auto", "receive", "pairs"}
  BY DEF PolicyRecords
<1>2. /\ new["rev"] = IF doc = "remote" THEN next["rev"] ELSE old["rev"]
      /\ new["allow"] = IF doc = "remote" THEN next["allow"] ELSE old["allow"]
      /\ new["granted"] = IF doc = "remote" THEN next["granted"] ELSE old["granted"]
      /\ new["auto"] = IF doc = "remote" THEN next["auto"] ELSE old["auto"]
      /\ new["receive"] = IF doc = "remote" THEN old["receive"] ELSE next["receive"]
      /\ new["pairs"] = IF doc = "remote" THEN old["pairs"] ELSE next["pairs"]
  BY <1>1 DEF RemotePart
<1>3. DOMAIN new = DOMAIN old /\ new = [k \in DOMAIN new |-> new[k]]
  OBVIOUS
<1> QED
  BY <1>1, <1>2, <1>3 DEF PolicyRecords

\* An edit goes on to its next phase, or has ended.
LEMMA EditGoesOn ==
  ASSUME PoliciesTyped, NEW e \in Edits, NEW at \in EditPhases, EditsAt(e, at)
  PROVE  /\ edit' \in [Edits -> EditRecords] /\ \A o \in Edits : o # e => edit'[o] = edit[o]
         /\ edit'[e].at = at /\ edit'[e].kind = edit[e].kind /\ edit'[e].space = edit[e].space /\ edit'[e].on = edit[e].on
<1> DEFINE d == [edit[e] EXCEPT !.at = at]
<1>1. d \in EditRecords /\ d.at = at /\ d.kind = edit[e].kind /\ d.space = edit[e].space /\ d.on = edit[e].on
  BY DEF PoliciesTyped, EditRecords
<1>2. edit' = [edit EXCEPT ![e] = d]
  BY DEF EditsAt
<1> HIDE DEF d
<1> QED
  BY <1>1, <1>2 DEF PoliciesTyped

LEMMA EditHasEnded ==
  ASSUME PoliciesTyped, NEW e \in Edits, Ended(e)
  PROVE  /\ edit' \in [Edits -> EditRecords] /\ \A o \in Edits : o # e => edit'[o] = edit[o]
         /\ edit'[e].at = "ended"
<1> DEFINE d == [NoEdit EXCEPT !.at = "ended"]
<1>1. d \in EditRecords /\ d.at = "ended"
  BY DEF NoEdit, EditRecords, EditPhases, EditKinds
<1>2. edit' = [edit EXCEPT ![e] = d]
  BY DEF Ended
<1> HIDE DEF d
<1> QED
  BY <1>1, <1>2 DEF PoliciesTyped

\* An edit that does not write, or has ended, disturbs nothing.
LEMMA EditIdles ==
  ASSUME PoliciesInv, NEW e \in Edits, edit' \in [Edits -> EditRecords], \A o \in Edits : o # e => edit'[o] = edit[o],
         edit'[e].at \notin Writing,
         edit'[e].at \in {"chosen", "queued"} => edit'[e].kind # "none" /\ edit'[e].space \in Spaces,
         edit'[e].at = "queued" => \A o \in Edits : o # e => edit[o].at \notin Writing \cup {"queued"},
         busy' = busy \/ (\E doc \in {"local", "remote"} : busy' = [busy EXCEPT ![doc] = "free"] /\ busy[doc] = "edit"),
         edit[e].at \in Writing \/ busy' = busy,
         peer' = peer, start' = start,
         loaded' \in PolicyRecords, filed' \in PolicyRecords, loaded'.granted = loaded.granted \/ edit[e].at \in Writing,
         RevocationStored', GrantsDie', AutoNeedsGrant'
  PROVE  PoliciesInv'
<1>1. PoliciesTyped'
  <2>1. busy' \in [remote : {"free", "edit", "revocation"}, local : {"free", "edit"}]
    BY DEF PoliciesInv, PoliciesTyped
  <2>2. ASSUME NEW o \in Edits, edit'[o].at \in {"chosen", "queued", "writing", "renamed"}
        PROVE  edit'[o].kind # "none" /\ edit'[o].space \in Spaces
    BY <2>2 DEF PoliciesInv, PoliciesTyped, Writing
  <2> QED
    BY <2>1, <2>2 DEF PoliciesInv, PoliciesTyped
<1>2. OneEdit'
  <2> SUFFICES ASSUME NEW a \in Edits, NEW b \in Edits, edit'[a].at \in Writing \cup {"queued"},
                      edit'[b].at \in Writing \cup {"queued"}, a # b
               PROVE  FALSE
    BY DEF OneEdit, Writing
  <2> QED
    BY DEF PoliciesInv, OneEdit, Writing
<1>3. ASSUME NEW o \in Edits, edit'[o].at \in Writing
      PROVE  /\ o # e /\ edit'[o] = edit[o] /\ edit[o].at \in Writing /\ busy' = busy /\ loaded'.granted = loaded.granted
  <2>1. o # e /\ edit'[o] = edit[o]
    BY <1>3
  <2>2. edit[e].at \notin Writing
    BY <1>3, <2>1 DEF PoliciesInv, OneEdit
  <2> QED
    BY <1>3, <2>1, <2>2
<1>4. DocumentHeld' /\ WritesKept'
  BY <1>3 DEF PoliciesInv, DocumentHeld, WritesKept, Writing
<1>5. DispatchedIsAllowed'
  BY DEF PoliciesInv, DispatchedIsAllowed
<1> QED
  BY <1>1, <1>2, <1>4, <1>5 DEF PoliciesInv

\* Claims, the peer and the starts: no document, no edit.
LEMMA OtherSteps ==
  ASSUME PoliciesInv,
         \/ \E s \in Spaces : GiveUp(s) \/ \E w \in BothWindows : Claim(s, w)
         \/ PairedAnew \/ Revoke \/ Dispatches
         \/ \E k \in {"out", "in", "local"}, s \in Spaces : TaskStarts(k, s)
  PROVE  PoliciesInv'
<1>1. loaded' = loaded /\ filed' = filed /\ edit' = edit /\ busy' = busy
  BY DEF GiveUp, Claim, PairedAnew, Revoke, Dispatches, TaskStarts
<1>2. /\ peer' \in [revoked : {"no", "denied", "removed"}, generation : Nat]
      /\ peer'.revoked = "removed" <=> peer.revoked = "removed"
  <2>1. peer \in [revoked : {"no", "denied", "removed"}, generation : Nat]
    BY DEF PoliciesInv, PoliciesTyped
  <2>2. CASE peer' = peer
    BY <2>1, <2>2
  <2>3. CASE PairedAnew
    BY <2>1, <2>3 DEF PairedAnew
  <2>4. CASE Revoke
    BY <2>1, <2>4 DEF Revoke, PeerActive
  <2> QED
    BY <2>2, <2>3, <2>4 DEF GiveUp, Claim, Dispatches, TaskStarts
<1>3. start' \in StartedRecords /\ (start'.at = "checked" => start'.kind # "none") /\ DispatchedIsAllowed'
  <2>1. CASE start' = start
    BY <2>1 DEF PoliciesInv, PoliciesTyped, DispatchedIsAllowed
  <2>2. CASE \E k \in {"out", "in", "local"}, s \in Spaces : TaskStarts(k, s)
    <3> PICK k \in {"out", "in", "local"}, s \in Spaces : TaskStarts(k, s)
      BY <2>2
    <3>1. Sources("me") \subseteq Spaces
      BY DEF Sources
    <3>2. start' = [NoStart EXCEPT !.at = "checked", !.kind = k, !.space = s, !.scope = Sources("me")]
      BY DEF TaskStarts
    <3>3. start' \in StartedRecords /\ start'.fine /\ start'.kind = k
      BY <3>1, <3>2 DEF NoStart, StartedRecords
    <3> QED
      BY <3>3 DEF DispatchedIsAllowed
  <2>3. CASE Dispatches
    <3> DEFINE go == CASE start.kind = "out" -> OutgoingAllowed /\ Sources("me") = start.scope
                       [] start.kind = "in" -> IncomingAllowed(start.space)
                       [] OTHER -> TRUE
               auto == go /\ start.kind = "in" /\ start.space \in loaded.auto
               fine == go => Allows(start.kind, start.space)
               at == IF go THEN "dispatched" ELSE "refused"
    <3>1. start' = [start EXCEPT !.at = at, !.auto = auto, !.fine = fine]
      BY <2>3 DEF Dispatches
    <3>2. start \in StartedRecords
      BY DEF PoliciesInv, PoliciesTyped
    <3>3. start.kind \in {"out", "in"} => fine
      BY DEF Allows
    <3>4. auto \in BOOLEAN /\ fine \in BOOLEAN /\ at \in {"dispatched", "refused"}
      OBVIOUS
    <3> HIDE DEF auto, fine, at
    <3>5. start' \in StartedRecords /\ start'.fine = fine /\ start'.kind = start.kind /\ start'.at = at
      BY <3>1, <3>2, <3>4 DEF StartedRecords
    <3>6. start.kind # "none"
      BY <2>3 DEF Dispatches, PoliciesInv, PoliciesTyped
    <3> QED
      BY <3>2, <3>3, <3>4, <3>5, <3>6 DEF DispatchedIsAllowed, StartedRecords
  <2> QED
    BY <2>1, <2>2, <2>3 DEF GiveUp, Claim, PairedAnew, Revoke
<1>4. PoliciesTyped' /\ OneEdit' /\ DocumentHeld' /\ RevocationStored' /\ AutoNeedsGrant'
  BY <1>1, <1>2, <1>3 DEF PoliciesInv, PoliciesTyped, OneEdit, DocumentHeld, RevocationStored, AutoNeedsGrant
<1>5. WritesKept' /\ GrantsDie'
  BY <1>1, <1>2 DEF PoliciesInv, WritesKept, GrantsDie
<1> QED
  BY <1>3, <1>4, <1>5 DEF PoliciesInv

\* The grants of a revoked peer are removed, behind the edits of the document.
LEMMA RemovalKeeps ==
  ASSUME PoliciesInv, RemoveStored \/ RemoveDone
  PROVE  PoliciesInv'
<1>1. Ungranted \in PolicyRecords /\ Ungranted.granted = {} /\ Ungranted.auto = {}
  <2> DEFINE r == loaded.rev + 1
  <2>1. Ungranted = [loaded EXCEPT !.rev = r, !.granted = {}, !.auto = {}]
    BY DEF Ungranted
  <2>2. loaded \in PolicyRecords /\ r \in Nat
    BY DEF PoliciesInv, PoliciesTyped, PolicyRecords
  <2> HIDE DEF r
  <2> QED
    BY <2>1, <2>2 DEF PolicyRecords
<1>2. edit' = edit /\ start' = start
  BY DEF RemoveStored, RemoveDone
<1>3. DispatchedIsAllowed' /\ OneEdit'
  BY <1>2 DEF PoliciesInv, DispatchedIsAllowed, OneEdit
<1>4. ASSUME NEW e \in Edits, edit[e].at \in Writing  PROVE Document(edit[e].kind) = "local"
  <2>1. busy[Document(edit[e].kind)] = "edit" /\ busy.remote # "edit"
    BY <1>4 DEF PoliciesInv, DocumentHeld, RemoveStored, RemoveDone
  <2> QED
    BY <2>1 DEF Document
<1>5. CASE RemoveStored
  <2>1. /\ loaded' = loaded /\ peer' = peer /\ busy' = [busy EXCEPT !.remote = "revocation"]
        /\ filed' = [k \in DOMAIN filed |-> IF (k \in RemotePart) = ("remote" = "remote") THEN Ungranted[k] ELSE filed[k]]
    BY <1>5 DEF RemoveStored, Stores
  <2>2. filed' \in PolicyRecords /\ filed'.granted = {} /\ filed'.auto = {}
    BY <1>1, <2>1, DocumentStored DEF PoliciesInv, PoliciesTyped
  <2>3. busy' \in [remote : {"free", "edit", "revocation"}, local : {"free", "edit"}] /\ busy'.local = busy.local
    BY <2>1 DEF PoliciesInv, PoliciesTyped
  <2>4. PoliciesTyped'
    BY <1>2, <2>1, <2>2, <2>3 DEF PoliciesInv, PoliciesTyped
  <2>5. DocumentHeld' /\ WritesKept'
    BY <1>2, <1>4, <2>1, <2>3 DEF PoliciesInv, DocumentHeld, WritesKept
  <2>6. RevocationStored' /\ GrantsDie' /\ AutoNeedsGrant'
    BY <2>1, <2>2 DEF PoliciesInv, RevocationStored, GrantsDie, AutoNeedsGrant
  <2> QED
    BY <1>3, <2>4, <2>5, <2>6 DEF PoliciesInv
<1>6. CASE RemoveDone
  <2>1. /\ filed' = filed /\ busy' = [busy EXCEPT !.remote = "free"] /\ busy.remote = "revocation"
        /\ \/ /\ loaded' = [k \in DOMAIN loaded |->
                              IF (k \in RemotePart) = ("remote" = "remote") THEN Ungranted[k] ELSE loaded[k]]
              /\ peer' = [peer EXCEPT !.revoked = "removed"]
           \/ loaded' = loaded /\ peer' = peer
    BY <1>6 DEF RemoveDone, Loads
  <2>2. filed.granted = {}
    BY <2>1 DEF PoliciesInv, RevocationStored
  <2>3. busy' \in [remote : {"free", "edit", "revocation"}, local : {"free", "edit"}] /\ busy'.local = busy.local
    BY <2>1 DEF PoliciesInv, PoliciesTyped
  <2>4. \/ loaded' \in PolicyRecords /\ loaded'.granted = {} /\ loaded'.auto = {}
        \/ loaded' = loaded /\ peer' = peer
    BY <1>1, <2>1, DocumentStored DEF PoliciesInv, PoliciesTyped
  <2>5. peer' \in [revoked : {"no", "denied", "removed"}, generation : Nat]
    BY <2>1 DEF PoliciesInv, PoliciesTyped
  <2>6. PoliciesTyped'
    BY <1>2, <2>1, <2>3, <2>4, <2>5 DEF PoliciesInv, PoliciesTyped
  <2>7. DocumentHeld'
    BY <1>2, <1>4, <2>3 DEF PoliciesInv, DocumentHeld
  <2>8. WritesKept'
    BY <1>2, <1>4 DEF WritesKept, Document
  <2>9. RevocationStored' /\ GrantsDie' /\ AutoNeedsGrant'
    BY <2>1, <2>2, <2>3, <2>4 DEF PoliciesInv, PoliciesTyped, RevocationStored, GrantsDie, AutoNeedsGrant
  <2> QED
    BY <1>3, <2>6, <2>7, <2>8, <2>9 DEF PoliciesInv
<1> QED
  BY <1>5, <1>6

\* An edit is chosen, confirmed, and begins to write.
LEMMA EditBegins ==
  ASSUME PoliciesInv, NEW e \in Edits,
         \/ \E k \in {"grant", "auto", "allow", "receive", "pair"}, s \in Spaces, on \in BOOLEAN : Choose(e, k, s, on)
         \/ Confirm(e) \/ Begin(e)
  PROVE  PoliciesInv'
<1>1. /\ loaded' = loaded /\ filed' = filed /\ peer' = peer /\ start' = start
      /\ PoliciesTyped /\ loaded \in PolicyRecords /\ filed \in PolicyRecords
  BY DEF Choose, Confirm, Begin, PoliciesInv, PoliciesTyped
<1>2. edit[e].at \notin Writing
  BY DEF Choose, Confirm, Begin, Writing
<1>3. GrantsDie' /\ AutoNeedsGrant' /\ (busy'.remote = "revocation" => busy.remote = "revocation")
      => RevocationStored'
  BY <1>1 DEF PoliciesInv, RevocationStored
<1>4. GrantsDie' /\ AutoNeedsGrant'
  BY <1>1 DEF PoliciesInv, GrantsDie, AutoNeedsGrant
<1>5. ASSUME NEW k \in {"grant", "auto", "allow", "receive", "pair"}, NEW s \in Spaces, NEW on \in BOOLEAN,
             Choose(e, k, s, on)
      PROVE  PoliciesInv'
  <2> DEFINE scope == IF k = "allow" THEN Sources("me") ELSE {}
             d == [at |-> "chosen", kind |-> k, space |-> s, on |-> on, scope |-> scope,
                   generation |-> peer.generation, rev |-> loaded.rev]
  <2>1. edit' = [edit EXCEPT ![e] = d] /\ busy' = busy
    BY <1>5 DEF Choose
  <2>2. peer.generation \in Nat /\ loaded.rev \in Nat /\ scope \subseteq Spaces
    BY <1>1 DEF PoliciesTyped, PolicyRecords, Sources
  <2>3. d \in EditRecords /\ d.at = "chosen" /\ d.kind = k /\ d.space = s
    BY <2>2 DEF EditRecords, EditPhases, EditKinds
  <2> HIDE DEF d
  <2>4. edit' \in [Edits -> EditRecords] /\ edit'[e] = d /\ \A o \in Edits : o # e => edit'[o] = edit[o]
    BY <1>1, <2>1, <2>3 DEF PoliciesTyped
  <2>5. d.at \notin Writing /\ d.at # "queued" /\ d.kind # "none" /\ d.space \in Spaces
    BY <2>3 DEF Writing
  <2> QED
    BY <1>1, <1>2, <1>3, <1>4, <2>1, <2>4, <2>5, EditIdles
<1>6. CASE Confirm(e)
  <2>1. busy' = busy /\ edit[e].at = "chosen"
    BY <1>6 DEF Confirm
  <2>2. CASE EditsAt(e, "queued")
    <3>1. /\ edit' \in [Edits -> EditRecords] /\ \A o \in Edits : o # e => edit'[o] = edit[o]
          /\ edit'[e].at = "queued" /\ edit'[e].kind = edit[e].kind /\ edit'[e].space = edit[e].space
      BY <1>1, <2>2, EditGoesOn DEF EditPhases
    <3>2. busy' = busy /\ edit'[e].at \notin Writing /\ edit'[e].kind # "none" /\ edit'[e].space \in Spaces
      BY <1>1, <1>6, <3>1 DEF Confirm, Writing, PoliciesTyped
    <3>3. \A o \in Edits : edit[o].at \notin Writing \cup {"queued"}
      BY <1>6 DEF Confirm, Writing
    <3> QED
      BY <1>1, <1>2, <1>3, <1>4, <3>1, <3>2, <3>3, EditIdles
  <2>3. CASE Ended(e)
    <3>1. /\ edit' \in [Edits -> EditRecords] /\ \A o \in Edits : o # e => edit'[o] = edit[o] /\ edit'[e].at = "ended"
      BY <1>1, <2>3, EditHasEnded
    <3>2. edit'[e].at = "ended"
      BY <1>1, <2>3, EditHasEnded
    <3>3. busy' = busy /\ edit'[e].at \notin Writing /\ edit'[e].at \notin {"chosen", "queued"}
      BY <1>6, <3>2 DEF Confirm, Writing
    <3> QED
      BY <1>1, <1>2, <1>3, <1>4, <3>1, <3>3, EditIdles
  <2> QED
    BY <1>6, <2>2, <2>3 DEF Confirm
<1>7. CASE Begin(e)
  <2>1. CASE Ended(e) /\ busy' = busy
    <3>1. edit' \in [Edits -> EditRecords] /\ (\A o \in Edits : o # e => edit'[o] = edit[o]) /\ edit'[e].at = "ended"
      BY <1>1, <2>1, EditHasEnded
    <3>2. edit'[e].at \notin Writing /\ edit'[e].at \notin {"chosen", "queued"}
      BY <3>1 DEF Writing
    <3> QED
      BY <1>1, <1>2, <1>3, <1>4, <2>1, <3>1, <3>2, EditIdles
  <2>2. CASE EditsAt(e, "writing") /\ Valid(e) /\ busy' = [busy EXCEPT ![Document(edit[e].kind)] = "edit"]
    <3>1. /\ edit' \in [Edits -> EditRecords] /\ \A o \in Edits : o # e => edit'[o] = edit[o]
          /\ edit'[e].at = "writing" /\ edit'[e].kind = edit[e].kind /\ edit'[e].space = edit[e].space
          /\ edit'[e].on = edit[e].on
      BY <1>1, <2>2, EditGoesOn DEF EditPhases
    <3>2. edit[e].at = "queued" /\ busy[Document(edit[e].kind)] = "free" /\ edit[e].kind # "none" /\ edit[e].space \in Spaces
      BY <1>1, <1>7 DEF Begin, PoliciesTyped
    <3>3. ASSUME NEW o \in Edits, o # e  PROVE edit'[o] = edit[o] /\ edit[o].at \notin Writing \cup {"queued"}
      BY <3>1, <3>2, <3>3 DEF PoliciesInv, OneEdit
    <3>4. Document(edit[e].kind) \in {"remote", "local"}
      BY DEF Document
    <3>5. /\ busy' \in [remote : {"free", "edit", "revocation"}, local : {"free", "edit"}]
          /\ busy'[Document(edit[e].kind)] = "edit" /\ (busy'.remote = "revocation" => busy.remote = "revocation")
      BY <1>1, <2>2, <3>4 DEF PoliciesTyped
    <3>6. PoliciesTyped'
      BY <1>1, <3>1, <3>2, <3>5 DEF PoliciesTyped
    <3>7. OneEdit' /\ DocumentHeld'
      BY <3>1, <3>3, <3>5 DEF OneEdit, DocumentHeld, Writing
    <3>8. WritesKept'
      BY <1>1, <2>2, <3>1, <3>3 DEF WritesKept, Valid, PeerActive, Writing
    <3>9. DispatchedIsAllowed'
      BY <1>1 DEF PoliciesInv, DispatchedIsAllowed
    <3> QED
      BY <1>3, <1>4, <3>5, <3>6, <3>7, <3>8, <3>9 DEF PoliciesInv
  <2> QED
    BY <1>7, <2>1, <2>2 DEF Begin
<1> QED
  BY <1>5, <1>6, <1>7

\* What an edit that writes makes of the documents keeps to the grants.
LEMMA EditedKept ==
  ASSUME PoliciesInv, NEW e \in Edits, edit[e].at \in Writing
  PROVE  /\ Edited(e) \in PolicyRecords /\ Edited(e).auto \subseteq Edited(e).granted
         /\ peer.revoked = "removed" => Edited(e).granted = {}
         /\ edit[e].kind # "none" /\ edit[e].space \in Spaces /\ busy[Document(edit[e].kind)] = "edit"
<1> DEFINE d == edit[e]
<1>1. /\ loaded \in PolicyRecords /\ d \in EditRecords /\ d.kind # "none" /\ d.space \in Spaces
      /\ busy[Document(d.kind)] = "edit" /\ (d.kind = "auto" => d.space \in loaded.granted)
      /\ (d.kind = "grant" /\ d.on => peer.revoked # "removed")
      /\ loaded.auto \subseteq loaded.granted /\ (peer.revoked = "removed" => loaded.granted = {})
  BY DEF PoliciesInv, PoliciesTyped, WritesKept, DocumentHeld, Writing, AutoNeedsGrant, GrantsDie
<1> QED
  BY <1>1, EditedGrants DEF Put

LEMMA EditWrites ==
  ASSUME PoliciesInv, NEW e \in Edits, Rename(e) \/ Load(e)
  PROVE  PoliciesInv'
<1> DEFINE doc == Document(edit[e].kind)
<1>1. edit[e].at \in Writing /\ peer' = peer /\ start' = start
  BY DEF Rename, Load, Writing
<1>2. /\ Edited(e) \in PolicyRecords /\ Edited(e).auto \subseteq Edited(e).granted
      /\ peer.revoked = "removed" => Edited(e).granted = {}
      /\ edit[e].kind # "none" /\ edit[e].space \in Spaces /\ busy[doc] = "edit"
  BY <1>1, EditedKept
<1>3. doc \in {"local", "remote"}
  BY DEF Document
<1>4. /\ PoliciesTyped /\ loaded \in PolicyRecords /\ filed \in PolicyRecords
      /\ busy \in [remote : {"free", "edit", "revocation"}, local : {"free", "edit"}]
  BY DEF PoliciesInv, PoliciesTyped
<1>5. ASSUME Ended(e), busy' = [busy EXCEPT ![doc] = "free"], loaded' \in PolicyRecords, filed' = filed,
             loaded'.auto \subseteq loaded'.granted, peer.revoked = "removed" => loaded'.granted = {}
      PROVE  PoliciesInv'
  <2>1. edit' \in [Edits -> EditRecords] /\ (\A o \in Edits : o # e => edit'[o] = edit[o]) /\ edit'[e].at = "ended"
    BY <1>4, <1>5, EditHasEnded
  <2>2. edit'[e].at \notin Writing /\ edit'[e].at \notin {"chosen", "queued"}
    BY <2>1 DEF Writing
  <2>3. busy'.remote = "revocation" => busy.remote = "revocation"
    BY <1>3, <1>4, <1>5
  <2>4. RevocationStored' /\ GrantsDie' /\ AutoNeedsGrant'
    BY <1>1, <1>5, <2>3 DEF PoliciesInv, RevocationStored, GrantsDie, AutoNeedsGrant
  <2> QED
    BY <1>1, <1>2, <1>3, <1>4, <1>5, <2>1, <2>2, <2>4, EditIdles
<1>6. CASE Load(e)
  <2>1. /\ busy' = [busy EXCEPT ![doc] = "free"] /\ filed' = filed /\ Ended(e)
        /\ Loads(Edited(e), doc) \/ loaded' = loaded
    BY <1>6 DEF Load
  <2>2. CASE Loads(Edited(e), doc)
    <3>1. /\ loaded' \in PolicyRecords
          /\ loaded'.granted = IF doc = "remote" THEN Edited(e).granted ELSE loaded.granted
          /\ loaded'.auto = IF doc = "remote" THEN Edited(e).auto ELSE loaded.auto
      BY <1>2, <1>4, <2>2, DocumentStored DEF Loads
    <3>2. loaded'.auto \subseteq loaded'.granted /\ (peer.revoked = "removed" => loaded'.granted = {})
      BY <1>2, <3>1 DEF PoliciesInv, AutoNeedsGrant, GrantsDie
    <3> QED
      BY <1>5, <2>1, <3>1, <3>2
  <2>3. CASE loaded' = loaded
    BY <1>4, <1>5, <2>1, <2>3 DEF PoliciesInv, AutoNeedsGrant, GrantsDie
  <2> QED
    BY <2>1, <2>2, <2>3
<1>7. CASE Rename(e)
  <2>1. CASE Ended(e) /\ busy' = [busy EXCEPT ![doc] = "free"] /\ filed' = filed
    BY <1>4, <1>5, <1>7, <2>1 DEF Rename, PoliciesInv, AutoNeedsGrant, GrantsDie
  <2>2. CASE Stores(Edited(e), doc) /\ EditsAt(e, "renamed") /\ busy' = busy
    <3>1. /\ filed' \in PolicyRecords
          /\ filed'.granted = IF doc = "remote" THEN Edited(e).granted ELSE filed.granted
          /\ filed'.auto = IF doc = "remote" THEN Edited(e).auto ELSE filed.auto
      <4> DEFINE next == Edited(e)
      <4>1. filed' = [k \in DOMAIN filed |-> IF (k \in RemotePart) = (doc = "remote") THEN next[k] ELSE filed[k]]
        BY <2>2 DEF Stores
      <4>2. next \in PolicyRecords
        BY <1>2
      <4> HIDE DEF next, doc
      <4>3. /\ filed' \in PolicyRecords
            /\ filed'.granted = IF doc = "remote" THEN next.granted ELSE filed.granted
            /\ filed'.auto = IF doc = "remote" THEN next.auto ELSE filed.auto
        BY <1>4, <4>1, <4>2, DocumentStored
      <4> QED
        BY <4>3 DEF next
    <3>2. loaded' = loaded
      BY <1>7 DEF Rename
    <3>3. /\ edit' \in [Edits -> EditRecords] /\ \A o \in Edits : o # e => edit'[o] = edit[o]
          /\ edit'[e].at = "renamed" /\ edit'[e].kind = edit[e].kind /\ edit'[e].space = edit[e].space
          /\ edit'[e].on = edit[e].on
      BY <1>4, <2>2, EditGoesOn DEF EditPhases
    <3>4. PoliciesTyped'
      BY <1>1, <1>2, <1>4, <2>2, <3>1, <3>2, <3>3 DEF PoliciesTyped
    <3>5. ASSUME NEW o \in Edits, edit'[o].at \in Writing \cup {"queued"}
          PROVE  edit[o].at \in Writing \cup {"queued"} /\ (edit'[o].at \in Writing => edit[o].at \in Writing)
                 /\ edit'[o].kind = edit[o].kind /\ edit'[o].space = edit[o].space /\ edit'[o].on = edit[o].on
      BY <1>1, <3>3, <3>5
    <3>6. OneEdit'
      BY <3>5 DEF PoliciesInv, OneEdit, Writing
    <3>7. DocumentHeld' /\ WritesKept'
      BY <1>1, <2>2, <3>2, <3>5 DEF PoliciesInv, DocumentHeld, WritesKept, Writing
    <3>8. GrantsDie' /\ AutoNeedsGrant'
      BY <1>1, <1>2, <3>1, <3>2 DEF PoliciesInv, GrantsDie, AutoNeedsGrant
    <3>9. RevocationStored'
      BY <1>2, <2>2, <3>1 DEF PoliciesInv, RevocationStored
    <3>10. DispatchedIsAllowed'
      BY <1>1 DEF PoliciesInv, DispatchedIsAllowed
    <3> QED
      BY <3>4, <3>6, <3>7, <3>8, <3>9, <3>10 DEF PoliciesInv
  <2> QED
    BY <1>7, <2>1, <2>2 DEF Rename
<1> QED
  BY <1>6, <1>7

\* However edits, claims, pairings and a revocation overlap, and whichever
\* writes throw: what a revoked peer was granted is gone from memory and disk
\* and does not come back with an edit under way, what accepts without asking
\* was granted, and what crosses devices was allowed when it left.
THEOREM PoliciesKept == PoliciesSpec => []PoliciesSound
<1>1. PoliciesInv /\ [PoliciesNext]_policyVars => PoliciesInv'
  <2> SUFFICES ASSUME PoliciesInv, [PoliciesNext]_policyVars  PROVE PoliciesInv'
    OBVIOUS
  <2>1. CASE UNCHANGED policyVars
    BY <2>1 DEF policyVars, PoliciesInv, PoliciesTyped, OneEdit, DocumentHeld, WritesKept, RevocationStored, GrantsDie,
                AutoNeedsGrant, DispatchedIsAllowed
  <2> QED
    BY <2>1, OtherSteps, RemovalKeeps, EditBegins, EditWrites DEF PoliciesNext
<1>2. PoliciesInv => PoliciesSound
  BY DEF PoliciesInv, PoliciesSound
<1> QED
  BY PoliciesInvInit, <1>1, <1>2, PTL DEF PoliciesSpec

----------------------------------------------------------------------------
(* RemoteRoutes *)

SvcStates == {"none", "running", "cancelling", "completed"}
RouteStates == SvcStates \cup {"ambiguous"}

RouteGroups == [attempts : SUBSET RouteAttempts, releasable : BOOLEAN, protected : BOOLEAN, state : RouteStates]

StartCalls ==
  [at : {"idle", "gone", "reserving", "authorizing", "asked", "settling"}, task : RouteTasks \cup {""},
   asked : BOOLEAN, seen : SvcStates, state : RouteStates, conn : Nat, object : Nat]

\* What a call has reached, and what it saw is true.
CallTrue(r, s) ==
  /\ r.at \notin {"idle", "gone"} \/ r.asked => r.task \in RouteTasks
  /\ r.at \in {"idle", "reserving", "authorizing"} => ~r.asked
  /\ r.seen # "none" => r.asked
  /\ r.asked /\ r.seen = "completed" => s[r.task] = "completed"

\* A call that asked for its task, or may at any moment, has the route of the
\* task, stored and in memory, until the task is known to have ended; and as
\* long as its group may take the route away, it is in that group.
Loose(q) == q.releasable /\ ~q.protected
Engaged(r) == r.asked \/ r.at = "authorizing"
CallHeld(r, a, d, m, g, s) ==
  Engaged(r) /\ s[r.task] # "completed" =>
    /\ d[r.task] # "none" /\ m[r.task] # "none"
    /\ Loose(g[r.task]) => a \in g[r.task].attempts

\* d and m are the routes as stored and in memory, g the groups, s the peer and
\* c the calls.
RoutesKept(d, m, g, s, c) ==
  /\ d \in [RouteTasks -> RouteStates] /\ m \in [RouteTasks -> RouteStates]
  /\ g \in [RouteTasks -> RouteGroups] /\ s \in [RouteTasks -> SvcStates]
  /\ c \in [RouteAttempts -> StartCalls]
  /\ \A a \in RouteAttempts : CallTrue(c[a], s) /\ CallHeld(c[a], a, d, m, g, s)
  /\ \A t \in RouteTasks : d[t] = "completed" \/ m[t] = "completed" => s[t] = "completed"
  /\ \A t \in RouteTasks : s[t] # "none" => \E a \in RouteAttempts : c[a].asked /\ c[a].task = t

\* One call goes on.
LEMMA CallGoesOn ==
  ASSUME NEW d, NEW m, NEW g, NEW s, NEW c, RoutesKept(d, m, g, s, c), NEW a \in RouteAttempts, NEW r \in StartCalls,
         CallTrue(r, s), CallHeld(r, a, d, m, g, s), c[a].asked => r.asked /\ r.task = c[a].task,
         NEW c2, c2 = [c EXCEPT ![a] = r]
  PROVE  RoutesKept(d, m, g, s, c2)
<1>1. c2 \in [RouteAttempts -> StartCalls] /\ \A b \in RouteAttempts : c2[b] = IF b = a THEN r ELSE c[b]
  BY DEF RoutesKept
<1>2. \A t \in RouteTasks : s[t] # "none" => \E b \in RouteAttempts : c2[b].asked /\ c2[b].task = t
  BY <1>1 DEF RoutesKept
<1>3. \A b \in RouteAttempts : CallTrue(c2[b], s) /\ CallHeld(c2[b], b, d, m, g, s)
  BY <1>1 DEF RoutesKept
<1> QED
  BY <1>1, <1>2, <1>3 DEF RoutesKept

\* The task of a route goes on at the peer, or nothing happens to it.
LEMMA PeerGoesOn ==
  ASSUME NEW d, NEW m, NEW g, NEW s, NEW c, RoutesKept(d, m, g, s, c), NEW s2 \in [RouteTasks -> SvcStates],
         \A t \in RouteTasks : s[t] = "completed" => s2[t] = "completed",
         \A t \in RouteTasks : s2[t] # "none" =>
           s[t] # "none" \/ \E a \in RouteAttempts : c[a].asked /\ c[a].task = t
  PROVE  RoutesKept(d, m, g, s2, c)
<1>1. ASSUME NEW a \in RouteAttempts  PROVE CallTrue(c[a], s2) /\ CallHeld(c[a], a, d, m, g, s2)
  <2>1. CallTrue(c[a], s) /\ CallHeld(c[a], a, d, m, g, s)
    BY DEF RoutesKept
  <2>2. Engaged(c[a]) => c[a].task \in RouteTasks
    BY <2>1 DEF CallTrue, Engaged
  <2> QED
    BY <2>1, <2>2 DEF CallTrue, CallHeld, Engaged
<1> QED
  BY <1>1 DEF RoutesKept

\* A snapshot is recorded, on disk and maybe in memory.
LEMMA SnapshotKept ==
  ASSUME NEW d, NEW m, NEW g, NEW s, NEW c, RoutesKept(d, m, g, s, c),
         NEW d2 \in [RouteTasks -> RouteStates], NEW m2 \in [RouteTasks -> RouteStates],
         \A t \in RouteTasks : d2[t] = d[t] \/ (d2[t] # "none" /\ (d2[t] = "completed" => s[t] = "completed")),
         \A t \in RouteTasks : m2[t] = m[t] \/ (m2[t] # "none" /\ (m2[t] = "completed" => s[t] = "completed"))
  PROVE  RoutesKept(d2, m2, g, s, c)
<1>1. ASSUME NEW a \in RouteAttempts  PROVE CallTrue(c[a], s) /\ CallHeld(c[a], a, d2, m2, g, s)
  <2>1. CallTrue(c[a], s) /\ CallHeld(c[a], a, d, m, g, s)
    BY DEF RoutesKept
  <2>2. Engaged(c[a]) => c[a].task \in RouteTasks
    BY <2>1 DEF CallTrue, Engaged
  <2> QED
    BY <2>1, <2>2 DEF CallHeld
<1> QED
  BY <1>1 DEF RoutesKept

\* Routes go: of tasks that have ended, or of one that nobody is engaged in.
LEMMA RoutesGo ==
  ASSUME NEW d, NEW m, NEW g, NEW s, NEW c, RoutesKept(d, m, g, s, c),
         NEW d2 \in [RouteTasks -> RouteStates], NEW m2 \in [RouteTasks -> RouteStates],
         \A t \in RouteTasks :
           \/ d2[t] = d[t] /\ m2[t] = m[t]
           \/ d2[t] # "completed" /\ (m2[t] = m[t] \/ m2[t] # "completed")
              /\ \A a \in RouteAttempts : Engaged(c[a]) /\ c[a].task = t => s[t] = "completed"
  PROVE  RoutesKept(d2, m2, g, s, c)
<1>1. ASSUME NEW a \in RouteAttempts  PROVE CallTrue(c[a], s) /\ CallHeld(c[a], a, d2, m2, g, s)
  <2>1. CallTrue(c[a], s) /\ CallHeld(c[a], a, d, m, g, s)
    BY DEF RoutesKept
  <2>2. Engaged(c[a]) => c[a].task \in RouteTasks
    BY <2>1 DEF CallTrue, Engaged
  <2> QED
    BY <2>1, <2>2 DEF CallHeld
<1> QED
  BY <1>1 DEF RoutesKept

\* A group changes: it may not take the route away, or all who are engaged are in it.
LEMMA GroupKept ==
  ASSUME NEW d, NEW m, NEW g, NEW s, NEW c, RoutesKept(d, m, g, s, c), NEW t \in RouteTasks, NEW q \in RouteGroups,
         Loose(q) => \A a \in RouteAttempts : Engaged(c[a]) /\ c[a].task = t /\ s[t] # "completed" => a \in q.attempts,
         NEW g2, g2 = [g EXCEPT ![t] = q]
  PROVE  RoutesKept(d, m, g2, s, c)
<1>1. g2 \in [RouteTasks -> RouteGroups] /\ \A u \in RouteTasks : g2[u] = IF u = t THEN q ELSE g[u]
  BY DEF RoutesKept
<1>2. ASSUME NEW a \in RouteAttempts  PROVE CallTrue(c[a], s) /\ CallHeld(c[a], a, d, m, g2, s)
  <2>1. CallTrue(c[a], s) /\ CallHeld(c[a], a, d, m, g, s)
    BY DEF RoutesKept
  <2>2. Engaged(c[a]) => c[a].task \in RouteTasks
    BY <2>1 DEF CallTrue, Engaged
  <2> QED
    BY <1>1, <2>1, <2>2 DEF CallHeld
<1> QED
  BY <1>1, <1>2 DEF RoutesKept

----------------------------------------------------------------------------
(* SavedDevices *)

Auths == Nat \X Nat
DeviceDisks == [routes : [RouteTasks -> RouteStates], entry : {"none", "denied", "deleted"}, pending : BOOLEAN]
DeviceMemories ==
  [routes : [RouteTasks -> RouteStates], groups : [RouteTasks -> RouteGroups],
   catalog : [auth : Auths, origin : Auths], directory : {"none", "listed", "incompatible"}, reading : Nat]
DeviceLinks == [online : BOOLEAN, conn : Nat, object : Nat, profile : Nat, saved : BOOLEAN]
DevicePolls ==
  [at : {"idle", "asked", "recording"}, task : RouteTasks \cup {""}, cancel : BOOLEAN, seen : SvcStates]
DeviceReads == [at : {"idle", "asked", "incompatible", "listed", "done"}, auth : Auths, from : Auths]
DeviceActions ==
  [at : {"idle", "confirming", "outgoing", "removing", "finishing"}, deleting : BOOLEAN,
   seen : BOOLEAN \X Nat \X Nat \X BOOLEAN, left : SUBSET RouteTasks, failed : BOOLEAN]

DevicesTyped ==
  /\ disk \in DeviceDisks /\ mem \in DeviceMemories /\ link \in DeviceLinks /\ poll \in DevicePolls
  /\ read \in [RouteReads -> DeviceReads] /\ dash \in DeviceActions
  /\ inc \in {"none", "running", "cancelling", "completed"}

\* What a poll is about to record is true.
PollTrue(p, s) ==
  /\ p.at # "idle" => p.task \in RouteTasks
  /\ p.at = "recording" => p.seen # "none" /\ (p.seen = "completed" => s[p.task] = "completed")

\* The catalog is what was read under its authentication.
ReadsTrue ==
  /\ mem.catalog.auth = mem.catalog.origin
  /\ \A r \in RouteReads : read[r].auth = read[r].from

\* A deletion comes after the removal of the peer.
Removed == dash.at = "finishing" /\ ~dash.failed => ~link.saved
DeletedKept ==
  disk.entry = "deleted" =>
    /\ ~link.saved /\ inc \notin Unfinished
    /\ \A t \in RouteTasks : svc[t] \notin Unfinished
    /\ \A a \in RouteAttempts : att[a].asked /\ att[a].seen = "none" => svc[att[a].task] = "completed"

DevicesInv ==
  /\ DevicesTyped /\ RoutesKept(disk.routes, mem.routes, mem.groups, svc, att)
  /\ PollTrue(poll, svc) /\ ReadsTrue /\ Removed /\ DeletedKept

LEMMA DevicesInvInit == DevicesInit => DevicesInv
<1> SUFFICES ASSUME SavedInit, NEW starts \in [RouteAttempts -> {"idle", "gone"}], RoutesInit(starts)
             PROVE  DevicesInv
  BY DEF DevicesInit
<1> USE DEF RoutesInit, SavedInit
<1>1. disk \in DeviceDisks /\ disk.routes = [t \in RouteTasks |-> "none"] /\ disk.entry = "none"
  BY DEF DeviceDisks, RouteStates, SvcStates, Unrouted
<1>2. /\ mem \in DeviceMemories /\ mem.routes = [t \in RouteTasks |-> "none"] /\ mem.groups = [t \in RouteTasks |-> NoGroup]
      /\ mem.catalog.auth = mem.catalog.origin
  <2>1. NoGroup \in RouteGroups
    BY DEF NoGroup, RouteGroups, RouteStates, SvcStates
  <2>2. NoCatalog \in [auth : Auths, origin : Auths] /\ NoCatalog.auth = NoCatalog.origin
    BY DEF NoCatalog, Auths
  <2> QED
    BY <1>1, <2>1, <2>2 DEF DeviceMemories, DeviceDisks
<1>3. link \in DeviceLinks /\ poll \in DevicePolls /\ poll.at = "idle"
  BY DEF DeviceLinks, DevicePolls, NoPoll, SvcStates
<1>4. read \in [RouteReads -> DeviceReads] /\ \A r \in RouteReads : read[r].auth = read[r].from
  <2>1. NoRead \in DeviceReads /\ NoRead.auth = NoRead.from
    BY DEF NoRead, DeviceReads, Auths
  <2> QED
    BY <2>1
<1>5. dash \in DeviceActions /\ dash.at = "idle" /\ inc = "none"
  BY DEF NoAction, DeviceActions
<1>6. /\ svc = [t \in RouteTasks |-> "none"] /\ att \in [RouteAttempts -> StartCalls]
      /\ \A a \in RouteAttempts : att[a].at \in {"idle", "gone"} /\ ~att[a].asked /\ att[a].seen = "none"
  <2>1. ASSUME NEW at \in {"idle", "gone"}
        PROVE  LET r == [NoAttempt EXCEPT !.at = at] IN r \in StartCalls /\ r.at = at /\ ~r.asked /\ r.seen = "none"
    BY DEF NoAttempt, StartCalls, SvcStates, RouteStates
  <2> QED
    BY <2>1
<1>7. RoutesKept(disk.routes, mem.routes, mem.groups, svc, att)
  <2>1. /\ mem.groups \in [RouteTasks -> RouteGroups] /\ svc \in [RouteTasks -> SvcStates]
        /\ disk.routes \in [RouteTasks -> RouteStates] /\ mem.routes \in [RouteTasks -> RouteStates]
    BY <1>1, <1>2, <1>6 DEF DeviceMemories, DeviceDisks, SvcStates
  <2>2. \A a \in RouteAttempts : CallTrue(att[a], svc) /\ ~Engaged(att[a])
    BY <1>6 DEF CallTrue, Engaged
  <2> QED
    BY <1>1, <1>2, <1>6, <2>1, <2>2 DEF RoutesKept, CallHeld
<1> QED
  BY <1>1, <1>2, <1>3, <1>4, <1>5, <1>7 DEF DevicesInv, DevicesTyped, PollTrue, ReadsTrue, Removed, DeletedKept

\* A step of the calls, the routes and the groups.
LEMMA Framed ==
  ASSUME DevicesInv, disk' \in DeviceDisks, mem' \in DeviceMemories, disk'.entry = disk.entry, mem'.catalog = mem.catalog,
         UNCHANGED <<link, read, svc, dash, inc>>, poll' \in DevicePolls, PollTrue(poll', svc),
         RoutesKept(disk'.routes, mem'.routes, mem'.groups, svc, att'),
         disk.entry = "deleted" => \A a \in RouteAttempts : att'[a].asked /\ att'[a].seen = "none"
           => att[a].asked /\ att[a].seen = "none" /\ att'[a].task = att[a].task
  PROVE  DevicesInv'
<1>1. DevicesTyped' /\ PollTrue(poll', svc') /\ RoutesKept(disk'.routes, mem'.routes, mem'.groups, svc', att')
  BY DEF DevicesInv, DevicesTyped
<1>2. ReadsTrue' /\ Removed'
  BY DEF DevicesInv, ReadsTrue, Removed
<1>3. DeletedKept'
  BY DEF DevicesInv, DeletedKept
<1> QED
  BY <1>1, <1>2, <1>3 DEF DevicesInv

\* A step of one call.
LEMMA CallChanged ==
  ASSUME DevicesInv, NEW a \in RouteAttempts, NEW r \in StartCalls, CallTrue(r, svc),
         CallHeld(r, a, disk.routes, mem.routes, mem.groups, svc), att[a].asked => r.asked /\ r.task = att[a].task,
         disk.entry = "deleted" /\ r.asked => att[a].asked /\ r.seen = att[a].seen,
         UNCHANGED <<disk, mem, link, poll, read, svc, dash, inc>>, att' = [att EXCEPT ![a] = r]
  PROVE  DevicesInv'
<1>1. RoutesKept(disk.routes, mem.routes, mem.groups, svc, att')
  BY CallGoesOn DEF DevicesInv
<1>2. \A b \in RouteAttempts : att'[b] = IF b = a THEN r ELSE att[b]
  BY DEF DevicesInv, RoutesKept
<1>3. disk' \in DeviceDisks /\ mem' \in DeviceMemories /\ poll' \in DevicePolls /\ PollTrue(poll', svc)
  BY DEF DevicesInv, DevicesTyped
<1>4. RoutesKept(disk'.routes, mem'.routes, mem'.groups, svc, att')
  BY <1>1
<1> QED
  BY <1>2, <1>3, <1>4, Framed
\* A call settles, or is gone: what it has asked for stays.
LEMMA CallLeft ==
  ASSUME NEW d, NEW m, NEW g, NEW s, NEW c, RoutesKept(d, m, g, s, c), NEW a \in RouteAttempts,
         NEW r \in StartCalls, r.at \in {"settling", "gone"}, c[a].at \notin {"idle", "gone"},
         r.asked = c[a].asked, r.seen = c[a].seen, r.task = c[a].task, NEW c2, c2 = [c EXCEPT ![a] = r]
  PROVE  RoutesKept(d, m, g, s, c2)
<1>1. CallTrue(c[a], s) /\ CallHeld(c[a], a, d, m, g, s)
  BY DEF RoutesKept
<1>2. CallTrue(r, s)
  BY <1>1 DEF CallTrue
<1>3. CallHeld(r, a, d, m, g, s)
  BY <1>1 DEF CallHeld, Engaged
<1>4. c[a].asked => r.asked /\ r.task = c[a].task
  OBVIOUS
<1> QED
  BY <1>2, <1>3, <1>4, CallGoesOn

LEMMA Left ==
  ASSUME DevicesInv, NEW a \in RouteAttempts, NEW at \in {"settling", "gone"}, Goes(a, at)
  PROVE  \E r \in StartCalls : /\ r.at = at /\ r.asked = att[a].asked /\ r.seen = att[a].seen /\ r.task = att[a].task
                               /\ att' = [att EXCEPT ![a] = r]
<1> DEFINE r == [att[a] EXCEPT !.at = at]
<1>1. att \in [RouteAttempts -> StartCalls]
  BY DEF DevicesInv, RoutesKept
<1>2. r \in StartCalls /\ r.at = at /\ r.asked = att[a].asked /\ r.seen = att[a].seen /\ r.task = att[a].task
  BY <1>1 DEF StartCalls
<1>3. att' = [att EXCEPT ![a] = r]
  BY <1>1 DEF Goes
<1> QED
  BY <1>2, <1>3

\* The steps of a call that change nothing else.
LEMMA LeaveKeeps ==
  ASSUME DevicesInv, NEW a \in RouteAttempts, NEW at \in {"settling", "gone"}, att[a].at \notin {"idle", "gone"}, Goes(a, at),
         UNCHANGED <<disk, mem, link, poll, read, svc, dash, inc>>
  PROVE  DevicesInv'
<1>1. PICK r \in StartCalls :
        /\ r.at = at /\ r.asked = att[a].asked /\ r.seen = att[a].seen /\ r.task = att[a].task
        /\ att' = [att EXCEPT ![a] = r]
  BY Left
<1>2. CallTrue(att[a], svc) /\ CallHeld(att[a], a, disk.routes, mem.routes, mem.groups, svc)
  BY DEF DevicesInv, RoutesKept
<1>3. CallTrue(r, svc)
  BY <1>1, <1>2 DEF CallTrue
<1>4. CallHeld(r, a, disk.routes, mem.routes, mem.groups, svc)
  BY <1>1, <1>2 DEF CallHeld, Engaged
<1>5. att[a].asked => r.asked /\ r.task = att[a].task
  BY <1>1
<1>6. disk.entry = "deleted" /\ r.asked => att[a].asked /\ r.seen = att[a].seen
  BY <1>1
<1> QED
  BY <1>1, <1>3, <1>4, <1>5, <1>6, CallChanged

LEMMA StartTaskKeeps ==
  ASSUME DevicesInv, NEW a \in RouteAttempts, NEW t \in RouteTasks, StartTask(a, t), UNCHANGED savedVars
  PROVE  DevicesInv'
<1> DEFINE at == IF DeviceAllowed /\ Online THEN "reserving" ELSE "gone"
           r == [att[a] EXCEPT !.task = t, !.conn = link.conn, !.object = link.object, !.at = at]
<1>1. att[a] \in StartCalls /\ att[a].at = "idle" /\ CallTrue(att[a], svc) /\ link.conn \in Nat /\ link.object \in Nat
  BY DEF StartTask, DevicesInv, DevicesTyped, RoutesKept, DeviceLinks
<1>2. /\ r \in StartCalls /\ r.at \in {"reserving", "gone"} /\ r.task = t /\ r.asked = att[a].asked /\ r.seen = att[a].seen
      /\ att' = [att EXCEPT ![a] = r]
  BY <1>1 DEF StartTask, StartCalls, DevicesInv, RoutesKept
<1> HIDE DEF at, r
<1>3. ~r.asked /\ r.seen = "none" /\ ~att[a].asked
  BY <1>1, <1>2 DEF CallTrue
<1>4. CallTrue(r, svc) /\ CallHeld(r, a, disk.routes, mem.routes, mem.groups, svc)
  BY <1>2, <1>3 DEF CallTrue, CallHeld, Engaged
<1> QED
  BY <1>2, <1>3, <1>4, CallChanged DEF StartTask, savedVars

LEMMA RefusedKeeps ==
  ASSUME DevicesInv, NEW a \in RouteAttempts, ReserveRefused(a) \/ NotAuthorized(a) \/ StartFails(a) \/ SettleThrows(a),
         UNCHANGED savedVars
  PROVE  DevicesInv'
<1>1. CASE ReserveRefused(a)
  BY <1>1, LeaveKeeps DEF ReserveRefused, Leaves, savedVars
<1>2. CASE NotAuthorized(a)
  BY <1>2, LeaveKeeps DEF NotAuthorized, savedVars
<1>3. CASE StartFails(a)
  BY <1>3, LeaveKeeps DEF StartFails, savedVars
<1>4. CASE SettleThrows(a)
  BY <1>4, LeaveKeeps DEF SettleThrows, Leaves, savedVars
<1> QED
  BY <1>1, <1>2, <1>3, <1>4

LEMMA DispatchKeeps ==
  ASSUME DevicesInv, NEW a \in RouteAttempts, Dispatch(a), UNCHANGED savedVars
  PROVE  DevicesInv'
<1>1. CASE DeviceAllowed /\ Online /\ link.object = att[a].object
  <2> DEFINE r == [att[a] EXCEPT !.at = "asked", !.asked = TRUE, !.conn = link.conn]
  <2>1. /\ att[a] \in StartCalls /\ link.conn \in Nat /\ att[a].at = "authorizing" /\ CallTrue(att[a], svc)
        /\ CallHeld(att[a], a, disk.routes, mem.routes, mem.groups, svc)
    BY DEF Dispatch, DevicesInv, DevicesTyped, DeviceLinks, RoutesKept
  <2>2. /\ r \in StartCalls /\ r.at = "asked" /\ r.asked /\ r.task = att[a].task /\ r.seen = att[a].seen
        /\ att' = [att EXCEPT ![a] = r]
    BY <1>1, <2>1 DEF Dispatch, StartCalls, DevicesInv, RoutesKept
  <2> HIDE DEF r
  <2>3. CallTrue(r, svc)
    BY <2>1, <2>2 DEF CallTrue
  <2>4. CallHeld(r, a, disk.routes, mem.routes, mem.groups, svc)
    BY <2>1, <2>2 DEF CallHeld, Engaged
  <2>5. disk.entry # "deleted" /\ ~att[a].asked
    BY <1>1, <2>1 DEF DeviceAllowed, CallTrue
  <2> QED
    BY <2>2, <2>3, <2>4, <2>5, CallChanged DEF Dispatch, savedVars
<1>2. CASE ~(DeviceAllowed /\ Online /\ link.object = att[a].object)
  BY <1>2, LeaveKeeps DEF Dispatch, savedVars
<1> QED
  BY <1>1, <1>2
\* The routes and the groups change, and the call that changed them leaves.
LEMMA LeavesWith ==
  ASSUME DevicesInv, NEW a \in RouteAttempts, NEW at \in {"settling", "gone"}, att[a].at \notin {"idle", "gone"}, Goes(a, at),
         disk' \in DeviceDisks, mem' \in DeviceMemories, disk'.entry = disk.entry, mem'.catalog = mem.catalog,
         UNCHANGED <<link, poll, read, svc, dash, inc>>, RoutesKept(disk'.routes, mem'.routes, mem'.groups, svc, att)
  PROVE  DevicesInv'
<1>1. PICK r \in StartCalls :
        /\ r.at = at /\ r.asked = att[a].asked /\ r.seen = att[a].seen /\ r.task = att[a].task
        /\ att' = [att EXCEPT ![a] = r]
  BY Left
<1>2. RoutesKept(disk'.routes, mem'.routes, mem'.groups, svc, att')
  BY <1>1, CallLeft
<1>3. \A b \in RouteAttempts : att'[b] = IF b = a THEN r ELSE att[b]
  BY <1>1 DEF DevicesInv, RoutesKept
<1>4. poll' \in DevicePolls /\ PollTrue(poll', svc)
  BY DEF DevicesInv, DevicesTyped
<1>5. \A b \in RouteAttempts : att'[b].asked /\ att'[b].seen = "none"
        => att[b].asked /\ att[b].seen = "none" /\ att'[b].task = att[b].task
  BY <1>1, <1>3
<1> QED
  BY <1>2, <1>4, <1>5, Framed

\* What a snapshot does to the routes, if what it says is true.
LEMMA RecordKeeps ==
  ASSUME DevicesInv, NEW t \in RouteTasks, NEW state \in SvcStates \ {"none"}, NEW fails \in BOOLEAN,
         state = "completed" => svc[t] = "completed", RecordSnapshot(t, state, fails)
  PROVE  /\ disk' \in DeviceDisks /\ mem' \in DeviceMemories /\ disk'.entry = disk.entry /\ mem'.catalog = mem.catalog
         /\ mem'.groups = mem.groups /\ RoutesKept(disk'.routes, mem'.routes, mem'.groups, svc, att)
<1> DEFINE new == [disk EXCEPT !.routes[t] = state]
           newMem == [mem EXCEPT !.routes[t] = state]
<1>1. /\ disk \in DeviceDisks /\ mem \in DeviceMemories /\ state \in RouteStates
      /\ RoutesKept(disk.routes, mem.routes, mem.groups, svc, att)
  BY DEF DevicesInv, DevicesTyped, RouteStates
<1>2. /\ new \in DeviceDisks /\ new.entry = disk.entry
      /\ \A u \in RouteTasks : new.routes[u] = IF u = t THEN state ELSE disk.routes[u]
  BY <1>1 DEF DeviceDisks
<1>3. /\ newMem \in DeviceMemories /\ newMem.catalog = mem.catalog /\ newMem.groups = mem.groups
      /\ \A u \in RouteTasks : newMem.routes[u] = IF u = t THEN state ELSE mem.routes[u]
  BY <1>1 DEF DeviceMemories
<1>4. disk' \in {disk, new} /\ mem' \in {mem, newMem}
  BY DEF RecordSnapshot, UpdateThrows, Updates
<1> HIDE DEF new, newMem
<1>5. /\ disk' \in DeviceDisks /\ mem' \in DeviceMemories /\ disk'.entry = disk.entry /\ mem'.catalog = mem.catalog
      /\ mem'.groups = mem.groups
  BY <1>1, <1>2, <1>3, <1>4
<1>6. disk'.routes \in [RouteTasks -> RouteStates] /\ mem'.routes \in [RouteTasks -> RouteStates]
  BY <1>5 DEF DeviceDisks, DeviceMemories
<1>7. \A u \in RouteTasks :
        /\ disk'.routes[u] = disk.routes[u] \/ (disk'.routes[u] # "none" /\ (disk'.routes[u] = "completed" => svc[u] = "completed"))
        /\ mem'.routes[u] = mem.routes[u] \/ (mem'.routes[u] # "none" /\ (mem'.routes[u] = "completed" => svc[u] = "completed"))
  BY <1>2, <1>3, <1>4
<1>8. RoutesKept(disk'.routes, mem'.routes, mem.groups, svc, att)
  BY <1>1, <1>6, <1>7, SnapshotKept
<1> QED
  BY <1>5, <1>8

LEMMA AnsweredKeeps ==
  ASSUME DevicesInv, NEW a \in RouteAttempts, NEW fails \in BOOLEAN, StartAnswered(a, fails), UNCHANGED savedVars
  PROVE  DevicesInv'
<1>1. att[a] \in StartCalls /\ att[a].at = "asked" /\ att[a].seen # "none" /\ CallTrue(att[a], svc)
  BY DEF StartAnswered, DevicesInv, RoutesKept
<1>2. att[a].task \in RouteTasks /\ att[a].seen \in SvcStates \ {"none"} /\ (att[a].seen = "completed" => svc[att[a].task] = "completed")
  BY <1>1 DEF CallTrue, StartCalls
<1>3. RecordSnapshot(att[a].task, att[a].seen, fails) /\ Goes(a, "settling") /\ UNCHANGED <<link, poll, read, svc, dash, inc>>
  BY DEF StartAnswered, savedVars
<1>4. /\ disk' \in DeviceDisks /\ mem' \in DeviceMemories /\ disk'.entry = disk.entry /\ mem'.catalog = mem.catalog
      /\ RoutesKept(disk'.routes, mem'.routes, mem'.groups, svc, att)
  BY <1>2, <1>3, RecordKeeps
<1> QED
  BY <1>1, <1>3, <1>4, LeavesWith

LEMMA RecordedKeeps ==
  ASSUME DevicesInv, NEW fails \in BOOLEAN, Recorded(fails), UNCHANGED savedVars
  PROVE  DevicesInv'
<1>1. poll \in DevicePolls /\ poll.at = "recording" /\ PollTrue(poll, svc)
  BY DEF Recorded, DevicesInv, DevicesTyped
<1>2. poll.task \in RouteTasks /\ poll.seen \in SvcStates \ {"none"} /\ (poll.seen = "completed" => svc[poll.task] = "completed")
  BY <1>1 DEF PollTrue, DevicePolls
<1>3. RecordSnapshot(poll.task, poll.seen, fails) /\ poll' = NoPoll /\ UNCHANGED <<link, att, read, svc, dash, inc>>
  BY DEF Recorded, savedVars
<1>4. /\ disk' \in DeviceDisks /\ mem' \in DeviceMemories /\ disk'.entry = disk.entry /\ mem'.catalog = mem.catalog
      /\ RoutesKept(disk'.routes, mem'.routes, mem'.groups, svc, att)
  BY <1>2, <1>3, RecordKeeps
<1>5. poll' \in DevicePolls /\ PollTrue(poll', svc)
  BY <1>3 DEF NoPoll, DevicePolls, PollTrue, SvcStates
<1>6. RoutesKept(disk'.routes, mem'.routes, mem'.groups, svc, att')
  BY <1>3, <1>4
<1> QED
  BY <1>3, <1>4, <1>5, <1>6, Framed
LEMMA GroupsTyped ==
  ASSUME NEW t \in RouteTasks, NEW m \in DeviceMemories, NEW q \in RouteGroups
  PROVE  LET n == [m EXCEPT !.groups[t] = q] IN
         /\ n \in DeviceMemories /\ n.groups = [m.groups EXCEPT ![t] = q] /\ n.routes = m.routes /\ n.catalog = m.catalog
  BY DEF DeviceMemories

\* A group as an attempt leaves it.
LEMMA LeftTyped ==
  ASSUME NEW q \in RouteGroups, NEW a \in RouteAttempts
  PROVE  /\ LeftGroup(q, a) \in RouteGroups
         /\ Loose(LeftGroup(q, a)) => Loose(q) /\ LeftGroup(q, a).attempts = q.attempts \ {a}
<1>1. CASE q.attempts = {a}
  BY <1>1 DEF LeftGroup, NoGroup, RouteGroups, RouteStates, SvcStates, Loose
<1>2. CASE q.attempts # {a}
  <2> DEFINE n == [q EXCEPT !.attempts = @ \ {a}]
  <2>1. /\ n \in RouteGroups /\ n.attempts = q.attempts \ {a} /\ n.releasable = q.releasable
        /\ n.protected = q.protected
    BY DEF RouteGroups
  <2>2. LeftGroup(q, a) = n
    BY <1>2 DEF LeftGroup
  <2> QED
    BY <2>1, <2>2 DEF Loose
<1> QED
  BY <1>1, <1>2

LEMMA RetainKeeps ==
  ASSUME DevicesInv, NEW a \in RouteAttempts, Retain(a), UNCHANGED savedVars
  PROVE  DevicesInv'
<1> DEFINE t == att[a].task
           p == [mem.groups[t] EXCEPT !.protected = TRUE]
           q == LeftGroup(p, a)
<1>1. /\ att[a] \in StartCalls /\ att[a].at = "settling" /\ CallTrue(att[a], svc) /\ mem \in DeviceMemories
      /\ disk \in DeviceDisks /\ RoutesKept(disk.routes, mem.routes, mem.groups, svc, att)
  BY DEF Retain, DevicesInv, DevicesTyped, RoutesKept
<1>2. t \in RouteTasks
  BY <1>1 DEF CallTrue
<1>3. mem.groups[t] \in RouteGroups
  BY <1>1, <1>2 DEF DeviceMemories
<1>4. p \in RouteGroups /\ p.protected
  BY <1>3 DEF RouteGroups
<1>5. mem' = [mem EXCEPT !.groups[t] = q]
  BY DEF Retain
<1> HIDE DEF p, t
<1>6. q \in RouteGroups /\ ~Loose(q)
  BY <1>4, LeftTyped DEF Loose
<1> HIDE DEF q
<1>7. /\ mem' \in DeviceMemories /\ mem'.groups = [mem.groups EXCEPT ![t] = q] /\ mem'.routes = mem.routes
      /\ mem'.catalog = mem.catalog
  BY <1>1, <1>2, <1>5, <1>6, GroupsTyped
<1>8. RoutesKept(disk.routes, mem.routes, mem'.groups, svc, att)
  BY <1>1, <1>2, <1>6, <1>7, GroupKept
<1>9. Goes(a, "gone") /\ UNCHANGED <<disk, link, poll, read, svc, dash, inc>>
  BY DEF Retain, Leaves, savedVars
<1> QED
  BY <1>1, <1>7, <1>8, <1>9, LeavesWith

LEMMA ReleaseKeeps ==
  ASSUME DevicesInv, NEW a \in RouteAttempts, Release(a), UNCHANGED savedVars
  PROVE  DevicesInv'
<1> DEFINE t == att[a].task
           g == mem.groups[t]
           q == LeftGroup(g, a)
           m == [mem EXCEPT !.groups[t] = q]
           d == [disk EXCEPT !.routes[t] = Unrouted]
           n == [m EXCEPT !.routes[t] = Unrouted]
           last == g.attempts = {a} /\ Loose(g) /\ disk.routes[t] = "ambiguous"
<1>1. /\ att[a] \in StartCalls /\ att[a].at = "settling" /\ ~att[a].asked /\ CallTrue(att[a], svc) /\ mem \in DeviceMemories
      /\ disk \in DeviceDisks /\ RoutesKept(disk.routes, mem.routes, mem.groups, svc, att)
  BY DEF Release, DevicesInv, DevicesTyped, RoutesKept
<1>2. t \in RouteTasks
  BY <1>1 DEF CallTrue
<1>3. g \in RouteGroups
  BY <1>1, <1>2 DEF DeviceMemories
<1>4. /\ Goes(a, "gone") /\ UNCHANGED <<link, poll, read, svc, dash, inc>>
      /\ (disk' = disk /\ mem' = m) \/ (last /\ disk' \in {disk, d} /\ mem' \in {m, n})
  <2>1. Goes(a, "gone") /\ UNCHANGED <<link, poll, read, svc, dash, inc>>
    BY DEF Release, Leaves, savedVars
  <2>2. CASE last
    BY <2>1, <2>2 DEF Release, Updates, UpdateThrows, Loose
  <2>3. CASE ~last
    BY <2>1, <2>3 DEF Release, Loose
  <2> QED
    BY <2>2, <2>3
<1>5. q \in RouteGroups /\ (Loose(q) => Loose(g) /\ q.attempts = g.attempts \ {a})
  BY <1>3, LeftTyped
<1>6. ASSUME NEW b \in RouteAttempts, Engaged(att[b]), att[b].task = t, svc[t] # "completed", Loose(g)
      PROVE  b \in g.attempts /\ b # a
  BY <1>1, <1>6 DEF RoutesKept, CallHeld, Engaged
<1> HIDE DEF q, g
<1>7. /\ m \in DeviceMemories /\ m.groups = [mem.groups EXCEPT ![t] = q] /\ m.routes = mem.routes
      /\ m.catalog = mem.catalog
  BY <1>1, <1>2, <1>5, GroupsTyped
<1> HIDE DEF m
<1>8. RoutesKept(disk.routes, mem.routes, m.groups, svc, att)
  <2>1. Loose(q) => \A b \in RouteAttempts : Engaged(att[b]) /\ att[b].task = t /\ svc[t] # "completed" => b \in q.attempts
    BY <1>5, <1>6
  <2> QED
    BY <1>1, <1>2, <1>5, <1>7, <2>1, GroupKept
<1>9. /\ d \in DeviceDisks /\ d.entry = disk.entry
      /\ \A u \in RouteTasks : d.routes[u] = IF u = t THEN "none" ELSE disk.routes[u]
  BY <1>1, <1>2 DEF DeviceDisks, RouteStates, SvcStates, Unrouted
<1>10. /\ n \in DeviceMemories /\ n.groups = m.groups /\ n.catalog = mem.catalog
       /\ \A u \in RouteTasks : n.routes[u] = IF u = t THEN "none" ELSE mem.routes[u]
  BY <1>2, <1>7 DEF DeviceMemories, RouteStates, SvcStates, Unrouted
<1> HIDE DEF d, n, t
<1>11. /\ disk' \in DeviceDisks /\ disk'.entry = disk.entry /\ mem' \in DeviceMemories /\ mem'.catalog = mem.catalog
       /\ mem'.groups = m.groups
  BY <1>1, <1>4, <1>7, <1>9, <1>10
<1>12. disk'.routes \in [RouteTasks -> RouteStates] /\ mem'.routes \in [RouteTasks -> RouteStates]
  BY <1>11 DEF DeviceDisks, DeviceMemories
<1>13. last => \A b \in RouteAttempts : Engaged(att[b]) /\ att[b].task = t => svc[t] = "completed"
  BY <1>6
<1>14. \A u \in RouteTasks :
         \/ disk'.routes[u] = disk.routes[u] /\ mem'.routes[u] = mem.routes[u]
         \/ disk'.routes[u] # "completed" /\ (mem'.routes[u] = mem.routes[u] \/ mem'.routes[u] # "completed")
            /\ \A b \in RouteAttempts : Engaged(att[b]) /\ att[b].task = u => svc[u] = "completed"
  BY <1>4, <1>7, <1>9, <1>10, <1>13
<1>15. RoutesKept(disk'.routes, mem'.routes, m.groups, svc, att)
  BY <1>8, <1>12, <1>14, RoutesGo
<1>16. RoutesKept(disk'.routes, mem'.routes, mem'.groups, svc, att)
  BY <1>11, <1>15
<1> QED
  BY <1>1, <1>4, <1>11, <1>16, LeavesWith
\* A call has its reservation: the routes and the groups stand.
LEMMA ReservedKeeps ==
  ASSUME DevicesInv, NEW a \in RouteAttempts, att[a].at = "reserving", NEW state \in RouteStates,
         att' = [att EXCEPT ![a].at = "authorizing", ![a].state = state],
         disk' \in DeviceDisks, mem' \in DeviceMemories, disk'.entry = disk.entry, mem'.catalog = mem.catalog,
         UNCHANGED <<link, poll, read, svc, dash, inc>>, RoutesKept(disk'.routes, mem'.routes, mem'.groups, svc, att),
         disk'.routes[att[a].task] # "none", mem'.routes[att[a].task] # "none",
         Loose(mem'.groups[att[a].task]) => a \in mem'.groups[att[a].task].attempts
  PROVE  DevicesInv'
<1> DEFINE r == [att[a] EXCEPT !.at = "authorizing", !.state = state]
<1>1. att \in [RouteAttempts -> StartCalls] /\ CallTrue(att[a], svc)
  BY DEF DevicesInv, RoutesKept
<1>2. /\ r \in StartCalls /\ r.at = "authorizing" /\ r.asked = att[a].asked /\ r.seen = att[a].seen
      /\ r.task = att[a].task /\ att' = [att EXCEPT ![a] = r]
  BY <1>1 DEF StartCalls
<1> HIDE DEF r
<1>3. att[a].asked = FALSE
  BY <1>1 DEF CallTrue, StartCalls
<1>4. CallTrue(r, svc)
  BY <1>1, <1>2, <1>3 DEF CallTrue
<1>5. CallHeld(r, a, disk'.routes, mem'.routes, mem'.groups, svc)
  BY <1>2 DEF CallHeld
<1>6. RoutesKept(disk'.routes, mem'.routes, mem'.groups, svc, att')
  <2>1. att[a].asked => r.asked /\ r.task = att[a].task
    BY <1>3
  <2> QED
    BY ONLY <1>2, <1>4, <1>5, <2>1, CallGoesOn, a \in RouteAttempts,
       RoutesKept(disk'.routes, mem'.routes, mem'.groups, svc, att)
<1>7. \A b \in RouteAttempts : att'[b] = IF b = a THEN r ELSE att[b]
  BY <1>1, <1>2
<1>8. poll' \in DevicePolls /\ PollTrue(poll', svc)
  BY DEF DevicesInv, DevicesTyped
<1>9. \A b \in RouteAttempts : att'[b].asked /\ att'[b].seen = "none"
        => att[b].asked /\ att[b].seen = "none" /\ att'[b].task = att[b].task
  BY <1>2, <1>3, <1>7
<1> QED
  BY <1>6, <1>8, <1>9, Framed

\* The group an attempt of a route that is there joins: what it may take away, it could before.
LEMMA JoinedTyped ==
  ASSUME NEW g \in [RouteTasks -> RouteGroups], NEW a \in RouteAttempts, NEW t \in RouteTasks, NEW state \in RouteStates
  PROVE  \E q \in RouteGroups :
           /\ Joined(g, a, t, state, FALSE) = [g EXCEPT ![t] = q] /\ a \in q.attempts
           /\ Loose(q) => Loose(g[t]) /\ g[t].attempts \subseteq q.attempts
<1>1. CASE g[t].attempts # {} /\ g[t].state = state
  <2> DEFINE q == [g[t] EXCEPT !.attempts = @ \cup {a}]
  <2>1. /\ q \in RouteGroups /\ q.attempts = g[t].attempts \cup {a} /\ q.releasable = g[t].releasable
        /\ q.protected = g[t].protected
    BY DEF RouteGroups
  <2>2. Joined(g, a, t, state, FALSE) = [g EXCEPT ![t] = q]
    BY <1>1 DEF Joined
  <2>3. Loose(q) => Loose(g[t])
    BY <2>1 DEF Loose
  <2> QED
    BY <2>1, <2>2, <2>3
<1>2. CASE ~(g[t].attempts # {} /\ g[t].state = state)
  <2> DEFINE q == [attempts |-> {a}, releasable |-> FALSE, protected |-> ~FALSE, state |-> state]
  <2>1. q \in RouteGroups /\ q.attempts = {a} /\ ~Loose(q)
    BY DEF RouteGroups, Loose
  <2>2. Joined(g, a, t, state, FALSE) = [g EXCEPT ![t] = q]
    BY <1>2 DEF Joined
  <2> QED
    BY <2>1, <2>2
<1> QED
  BY <1>1, <1>2

LEMMA ExistingKeeps ==
  ASSUME DevicesInv, NEW a \in RouteAttempts, ReserveExisting(a), UNCHANGED savedVars
  PROVE  DevicesInv'
<1> DEFINE t == att[a].task
           g == Joined(mem.groups, a, t, disk.routes[t], FALSE)
           state == disk.routes[t]
<1>1. /\ att[a] \in StartCalls /\ att[a].at = "reserving" /\ CallTrue(att[a], svc) /\ mem \in DeviceMemories
      /\ disk \in DeviceDisks /\ RoutesKept(disk.routes, mem.routes, mem.groups, svc, att)
  BY DEF ReserveExisting, DevicesInv, DevicesTyped, RoutesKept
<1>2. t \in RouteTasks
  BY <1>1 DEF CallTrue
<1>3. mem.groups \in [RouteTasks -> RouteGroups] /\ state \in RouteStates /\ state # "none"
  BY <1>1, <1>2 DEF ReserveExisting, Unrouted, DeviceMemories, DeviceDisks
<1>4. PICK q \in RouteGroups : /\ g = [mem.groups EXCEPT ![t] = q] /\ a \in q.attempts
                               /\ Loose(q) => Loose(mem.groups[t]) /\ mem.groups[t].attempts \subseteq q.attempts
  BY <1>2, <1>3, JoinedTyped
<1>5. g \in [RouteTasks -> RouteGroups] /\ g[t] = q
  BY <1>2, <1>3, <1>4
<1>6. /\ att' = [att EXCEPT ![a].at = "authorizing", ![a].state = state]
      /\ UNCHANGED <<disk, link, poll, read, svc, dash, inc>> /\ mem' = [mem EXCEPT !.routes[t] = state, !.groups = g]
  BY DEF ReserveExisting, savedVars
<1> HIDE DEF g, state
<1>7. /\ mem' \in DeviceMemories /\ mem'.catalog = mem.catalog /\ mem'.groups = g
      /\ mem'.routes \in [RouteTasks -> RouteStates]
      /\ \A u \in RouteTasks : mem'.routes[u] = IF u = t THEN state ELSE mem.routes[u]
  BY <1>1, <1>2, <1>3, <1>5, <1>6 DEF DeviceMemories
<1>8. RoutesKept(disk.routes, mem.routes, g, svc, att)
  <2>1. Loose(q) => \A b \in RouteAttempts : Engaged(att[b]) /\ att[b].task = t /\ svc[t] # "completed" => b \in q.attempts
    BY <1>1, <1>4 DEF RoutesKept, CallHeld
  <2> QED
    BY <1>1, <1>2, <1>4, <2>1, GroupKept
<1>9. RoutesKept(disk.routes, mem'.routes, g, svc, att)
  <2>1. state = "completed" => svc[t] = "completed"
    BY <1>1, <1>2 DEF RoutesKept, state
  <2>2. disk.routes \in [RouteTasks -> RouteStates]
    BY <1>1 DEF DeviceDisks
  <2> QED
    BY <1>3, <1>7, <1>8, <2>1, <2>2, SnapshotKept
<1>10. disk'.routes[t] # "none" /\ mem'.routes[t] # "none" /\ a \in mem'.groups[t].attempts
  BY <1>2, <1>3, <1>4, <1>5, <1>6, <1>7 DEF state
<1> QED
  BY <1>1, <1>3, <1>6, <1>7, <1>9, <1>10, ReservedKeeps

LEMMA NewKeeps ==
  ASSUME DevicesInv, NEW a \in RouteAttempts, ReserveNew(a), UNCHANGED savedVars
  PROVE  DevicesInv'
<1> DEFINE t == att[a].task
           g == Joined(mem.groups, a, t, "ambiguous", TRUE)
<1>1. /\ att[a] \in StartCalls /\ att[a].at = "reserving" /\ CallTrue(att[a], svc) /\ mem \in DeviceMemories
      /\ disk \in DeviceDisks /\ RoutesKept(disk.routes, mem.routes, mem.groups, svc, att)
  BY DEF ReserveNew, DevicesInv, DevicesTyped, RoutesKept
<1>2. t \in RouteTasks
  BY <1>1 DEF CallTrue
<1>3. mem.groups \in [RouteTasks -> RouteGroups] /\ "ambiguous" \in RouteStates
  BY <1>1 DEF DeviceMemories, RouteStates
<1>4. PICK q \in RouteGroups : g = [mem.groups EXCEPT ![t] = q] /\ a \in q.attempts
  <2> DEFINE old == [mem.groups[t] EXCEPT !.attempts = @ \cup {a}]
             fresh == [attempts |-> {a}, releasable |-> TRUE, protected |-> ~TRUE, state |-> "ambiguous"]
  <2>1. mem.groups[t] \in RouteGroups
    BY <1>2, <1>3
  <2>2. old \in RouteGroups /\ a \in old.attempts /\ fresh \in RouteGroups /\ a \in fresh.attempts
    BY <1>3, <2>1 DEF RouteGroups
  <2>3. g = [mem.groups EXCEPT ![t] = old] \/ g = [mem.groups EXCEPT ![t] = fresh]
    BY DEF Joined
  <2> QED
    BY <2>2, <2>3
<1>5. g \in [RouteTasks -> RouteGroups] /\ g[t] = q
  BY <1>2, <1>3, <1>4
<1> HIDE DEF g
<1>6. \A b \in RouteAttempts : Engaged(att[b]) /\ att[b].task = t => svc[t] = "completed"
  BY <1>1 DEF ReserveNew, Unrouted, RoutesKept, CallHeld
<1>7. RoutesKept(disk.routes, mem.routes, g, svc, att)
  BY <1>1, <1>2, <1>4, <1>6, GroupKept
<1>8. PICK out \in Room :
        LET new == [disk EXCEPT !.routes = Routed(disk.routes, out, t)] IN
        \/ /\ Updates(new, [mem EXCEPT !.routes = Routed(mem.routes, out, t), !.groups = g])
           /\ att' = [att EXCEPT ![a].at = "authorizing", ![a].state = "ambiguous"]
        \/ UpdateThrows(new, mem) /\ Leaves(a)
  BY DEF ReserveNew, g
<1>9. \A u \in out : u \in RouteTasks /\ svc[u] = "completed"
  BY <1>1, <1>8 DEF Room, Evictable, Stored, IsTerminal, RoutesKept
<1> DEFINE d == [disk EXCEPT !.routes = Routed(disk.routes, out, t)]
           m == [mem EXCEPT !.routes = Routed(mem.routes, out, t), !.groups = g]
<1>10. ASSUME NEW f \in [RouteTasks -> RouteStates]
       PROVE  /\ Routed(f, out, t) \in [RouteTasks -> RouteStates]
              /\ \A u \in RouteTasks : Routed(f, out, t)[u] = IF u = t THEN "ambiguous" ELSE IF u \in out THEN "none" ELSE f[u]
  BY DEF Routed, Unrouted, RouteStates, SvcStates
<1>11. /\ d \in DeviceDisks /\ d.entry = disk.entry /\ d.routes \in [RouteTasks -> RouteStates]
       /\ \A u \in RouteTasks : d.routes[u] = IF u = t THEN "ambiguous" ELSE IF u \in out THEN "none" ELSE disk.routes[u]
  BY <1>1, <1>10 DEF DeviceDisks
<1>12. /\ m \in DeviceMemories /\ m.catalog = mem.catalog /\ m.groups = g /\ m.routes \in [RouteTasks -> RouteStates]
       /\ \A u \in RouteTasks : m.routes[u] = IF u = t THEN "ambiguous" ELSE IF u \in out THEN "none" ELSE mem.routes[u]
  BY <1>1, <1>5, <1>10 DEF DeviceMemories
<1>13. /\ UNCHANGED <<link, poll, read, svc, dash, inc>>
       /\ \/ disk' = d /\ mem' = m /\ att' = [att EXCEPT ![a].at = "authorizing", ![a].state = "ambiguous"]
          \/ disk' \in {disk, d} /\ mem' = mem /\ Goes(a, "gone")
  BY <1>8 DEF ReserveNew, savedVars, Updates, UpdateThrows, Leaves
<1> HIDE DEF d, m, t
<1>14. CASE disk' = d /\ mem' = m /\ att' = [att EXCEPT ![a].at = "authorizing", ![a].state = "ambiguous"]
  <2>1. RoutesKept(d.routes, m.routes, g, svc, att)
    BY <1>6, <1>7, <1>9, <1>11, <1>12, RoutesGo
  <2>2. d.routes[t] # "none" /\ m.routes[t] # "none" /\ a \in g[t].attempts
    BY <1>2, <1>4, <1>5, <1>11, <1>12
  <2> QED
    BY <1>1, <1>3, <1>11, <1>12, <1>13, <1>14, <2>1, <2>2, ReservedKeeps DEF t
<1>15. CASE disk' \in {disk, d} /\ mem' = mem /\ Goes(a, "gone")
  <2>1. disk' \in DeviceDisks /\ disk'.entry = disk.entry
    BY <1>1, <1>11, <1>15
  <2>2. RoutesKept(d.routes, mem.routes, mem.groups, svc, att)
    <3>1. mem.routes \in [RouteTasks -> RouteStates]
      BY <1>1 DEF DeviceMemories
    <3> QED
      BY <1>1, <1>6, <1>9, <1>11, <3>1, RoutesGo
  <2>3. RoutesKept(disk'.routes, mem'.routes, mem'.groups, svc, att)
    BY <1>1, <1>15, <2>2
  <2> QED
    BY <1>1, <1>13, <1>15, <2>1, <2>3, LeavesWith
<1> QED
  BY <1>13, <1>14, <1>15
\* A step of the peer.
LEMMA PeerFramed ==
  ASSUME DevicesInv, svc' \in [RouteTasks -> SvcStates], \A t \in RouteTasks : svc[t] = "completed" => svc'[t] = "completed",
         UNCHANGED <<disk, mem, link, read, dash, inc>>, poll' \in DevicePolls, PollTrue(poll', svc'),
         RoutesKept(disk.routes, mem.routes, mem.groups, svc', att'),
         disk.entry = "deleted" =>
           /\ \A t \in RouteTasks : svc'[t] \in Unfinished => svc[t] \in Unfinished
           /\ \A a \in RouteAttempts : att'[a].asked /\ att'[a].seen = "none"
                => att[a].asked /\ att[a].seen = "none" /\ att'[a].task = att[a].task
  PROVE  DevicesInv'
<1>1. DevicesTyped' /\ PollTrue(poll', svc') /\ RoutesKept(disk'.routes, mem'.routes, mem'.groups, svc', att')
  BY DEF DevicesInv, DevicesTyped
<1>2. ReadsTrue' /\ Removed'
  BY DEF DevicesInv, ReadsTrue, Removed
<1>3. DeletedKept'
  <2> SUFFICES ASSUME disk.entry = "deleted"  PROVE DeletedKept'
    BY DEF DeletedKept
  <2>1. DeletedKept /\ att' \in [RouteAttempts -> StartCalls] /\ \A a \in RouteAttempts : CallTrue(att'[a], svc')
    BY <1>1 DEF DevicesInv, RoutesKept
  <2>2. \A a \in RouteAttempts : att'[a].asked => att'[a].task \in RouteTasks
    BY <2>1 DEF CallTrue
  <2> QED
    BY <2>1, <2>2 DEF DeletedKept
<1> QED
  BY <1>1, <1>2, <1>3 DEF DevicesInv

LEMMA PeerStartsKeeps ==
  ASSUME DevicesInv, NEW a \in RouteAttempts, PeerStarts(a), UNCHANGED savedVars
  PROVE  DevicesInv'
<1> DEFINE t == att[a].task
           state == IF svc[t] = "none" THEN "running" ELSE svc[t]
           s == [svc EXCEPT ![t] = state]
           r == [att[a] EXCEPT !.seen = state]
<1>1. /\ att[a] \in StartCalls /\ att[a].asked /\ att[a].seen = "none" /\ CallTrue(att[a], svc) /\ poll \in DevicePolls
      /\ PollTrue(poll, svc) /\ RoutesKept(disk.routes, mem.routes, mem.groups, svc, att)
      /\ svc \in [RouteTasks -> SvcStates] /\ att \in [RouteAttempts -> StartCalls]
  BY DEF PeerStarts, DevicesInv, DevicesTyped, RoutesKept
<1>2. t \in RouteTasks
  BY <1>1 DEF CallTrue
<1>3. state \in SvcStates \ {"none"} /\ (state = "completed" => svc[t] = "completed") /\ (svc[t] = "completed" => state = "completed")
  BY <1>1, <1>2 DEF SvcStates
<1>4. /\ svc' = s /\ att' = [att EXCEPT ![a].seen = state]
      /\ UNCHANGED <<disk, mem, link, poll, read, dash, inc>>
  BY DEF PeerStarts, savedVars
<1>5. /\ r \in StartCalls /\ r.at = att[a].at /\ r.asked = att[a].asked /\ r.task = t /\ r.seen = state
      /\ att' = [att EXCEPT ![a] = r]
  BY <1>1, <1>3, <1>4 DEF StartCalls
<1>6. s \in [RouteTasks -> SvcStates] /\ \A u \in RouteTasks : s[u] = IF u = t THEN state ELSE svc[u]
  BY <1>1, <1>2, <1>3
<1> HIDE DEF s, r, state
<1>7. \A u \in RouteTasks : svc[u] = "completed" => s[u] = "completed"
  BY <1>3, <1>6
<1>8. RoutesKept(disk.routes, mem.routes, mem.groups, s, att)
  <2>1. \A u \in RouteTasks : s[u] # "none" => svc[u] # "none" \/ \E b \in RouteAttempts : att[b].asked /\ att[b].task = u
    BY <1>1, <1>6
  <2> QED
    BY <1>1, <1>6, <1>7, <2>1, PeerGoesOn
<1>9. RoutesKept(disk.routes, mem.routes, mem.groups, s, att')
  <2>1. CallTrue(att[a], s) /\ CallHeld(att[a], a, disk.routes, mem.routes, mem.groups, s)
    BY <1>8 DEF RoutesKept
  <2>2. CallTrue(r, s)
    BY <1>1, <1>2, <1>3, <1>5, <1>6, <2>1 DEF CallTrue
  <2>3. CallHeld(r, a, disk.routes, mem.routes, mem.groups, s)
    BY <1>5, <2>1 DEF CallHeld, Engaged
  <2>4. att[a].asked => r.asked /\ r.task = att[a].task
    BY <1>5
  <2> QED
    BY <1>5, <1>8, <2>2, <2>3, <2>4, CallGoesOn
<1>10. poll' \in DevicePolls /\ PollTrue(poll', s)
  BY <1>1, <1>4, <1>7 DEF PollTrue
<1>11. ASSUME disk.entry = "deleted"
       PROVE  /\ \A u \in RouteTasks : s[u] \in Unfinished => svc[u] \in Unfinished
              /\ \A b \in RouteAttempts : att'[b].asked /\ att'[b].seen = "none"
                   => att[b].asked /\ att[b].seen = "none" /\ att'[b].task = att[b].task
  <2>1. svc[t] = "completed"
    BY <1>1, <1>11 DEF DevicesInv, DeletedKept
  <2>2. \A b \in RouteAttempts : att'[b] = IF b = a THEN r ELSE att[b]
    BY <1>1, <1>5
  <2> QED
    BY <1>3, <1>5, <1>6, <2>1, <2>2 DEF Unfinished
<1> QED
  BY <1>4, <1>6, <1>7, <1>9, <1>10, <1>11, PeerFramed

\* A task at the peer goes on, as it is asked to or by itself.
LEMMA TaskGoesOn ==
  ASSUME DevicesInv, NEW s \in [RouteTasks -> SvcStates], svc' = s,
         \A t \in RouteTasks : /\ s[t] # "none" => svc[t] # "none"
                               /\ svc[t] = "completed" => s[t] = "completed"
                               /\ s[t] \in Unfinished => svc[t] \in Unfinished,
         UNCHANGED <<disk, mem, link, att, read, dash, inc>>, poll' \in DevicePolls, PollTrue(poll', s)
  PROVE  DevicesInv'
<1>1. RoutesKept(disk.routes, mem.routes, mem.groups, svc, att)
  BY DEF DevicesInv
<1>2. RoutesKept(disk.routes, mem.routes, mem.groups, s, att)
  BY <1>1, PeerGoesOn
<1>3. RoutesKept(disk.routes, mem.routes, mem.groups, svc', att')
  BY <1>2
<1> QED
  BY <1>3, PeerFramed

LEMMA CancelledTyped ==
  ASSUME DevicesInv, NEW t \in RouteTasks
  PROVE  /\ Cancelled(t) \in [RouteTasks -> SvcStates]
         /\ \A u \in RouteTasks : /\ Cancelled(t)[u] # "none" <=> svc[u] # "none"
                                  /\ svc[u] = "completed" <=> Cancelled(t)[u] = "completed"
                                  /\ Cancelled(t)[u] \in Unfinished <=> svc[u] \in Unfinished
<1>1. svc \in [RouteTasks -> SvcStates]
  BY DEF DevicesInv, RoutesKept
<1>2. CASE svc[t] = "running"
  BY <1>1, <1>2 DEF Cancelled, SvcStates, Unfinished
<1>3. CASE svc[t] # "running"
  BY <1>1, <1>3 DEF Cancelled
<1> QED
  BY <1>2, <1>3

LEMMA PeerKeeps ==
  ASSUME DevicesInv, UNCHANGED savedVars, PeerAnswers \/ \E t \in RouteTasks : TaskCompletes(t)
  PROVE  DevicesInv'
<1>1. svc \in [RouteTasks -> SvcStates] /\ poll \in DevicePolls /\ PollTrue(poll, svc)
  BY DEF DevicesInv, DevicesTyped, RoutesKept
<1>2. CASE PeerAnswers
  <2> DEFINE s == IF poll.cancel THEN Cancelled(poll.task) ELSE svc
  <2>1. poll.at = "asked" /\ poll.task \in RouteTasks /\ svc[poll.task] # "none"
    BY <1>1, <1>2 DEF PeerAnswers, PollTrue
  <2>2. /\ s \in [RouteTasks -> SvcStates]
        /\ \A t \in RouteTasks : /\ s[t] # "none" <=> svc[t] # "none"
                                 /\ svc[t] = "completed" <=> s[t] = "completed"
                                 /\ s[t] \in Unfinished <=> svc[t] \in Unfinished
    BY <1>1, <2>1, CancelledTyped
  <2>3. /\ svc' = s /\ poll' = [poll EXCEPT !.at = "recording", !.seen = s[poll.task]]
        /\ UNCHANGED <<disk, mem, link, att, read, dash, inc>>
    BY <1>2 DEF PeerAnswers, savedVars
  <2> HIDE DEF s
  <2>4. s[poll.task] \in SvcStates \ {"none"}
    BY <2>1, <2>2
  <2>5. poll' \in DevicePolls /\ poll'.task = poll.task /\ poll'.seen = s[poll.task]
    BY <1>1, <2>3, <2>4 DEF DevicePolls
  <2>6. PollTrue(poll', s)
    BY <2>1, <2>4, <2>5 DEF PollTrue
  <2> QED
    BY <2>2, <2>3, <2>5, <2>6, TaskGoesOn
<1>3. ASSUME NEW t \in RouteTasks, TaskCompletes(t)  PROVE DevicesInv'
  <2> DEFINE s == [svc EXCEPT ![t] = "completed"]
  <2>1. /\ svc' = s /\ svc[t] \in {"running", "cancelling"} /\ UNCHANGED <<disk, mem, link, att, poll, read, dash, inc>>
    BY <1>3 DEF TaskCompletes, savedVars
  <2>2. s \in [RouteTasks -> SvcStates] /\ \A u \in RouteTasks : s[u] = IF u = t THEN "completed" ELSE svc[u]
    BY <1>1 DEF SvcStates
  <2> HIDE DEF s
  <2>3. poll' \in DevicePolls /\ PollTrue(poll', s)
    BY <1>1, <2>1, <2>2 DEF PollTrue
  <2>4. \A u \in RouteTasks : /\ s[u] # "none" => svc[u] # "none"
                              /\ svc[u] = "completed" => s[u] = "completed"
                              /\ s[u] \in Unfinished => svc[u] \in Unfinished
    BY <2>1, <2>2 DEF Unfinished
  <2> QED
    BY <2>1, <2>2, <2>3, <2>4, TaskGoesOn
<1> QED
  BY <1>2, <1>3

LEMMA AskKeeps ==
  ASSUME DevicesInv, UNCHANGED savedVars, AskFails \/ \E t \in RouteTasks, c \in BOOLEAN : Ask(t, c)
  PROVE  DevicesInv'
<1>1. UNCHANGED <<disk, mem, link, att, read, svc, dash, inc>>
  BY DEF AskFails, Ask, savedVars
<1>2. poll' \in DevicePolls /\ PollTrue(poll', svc)
  <2>1. CASE AskFails
    BY <2>1 DEF AskFails, NoPoll, DevicePolls, PollTrue, SvcStates
  <2>2. ASSUME NEW t \in RouteTasks, NEW c \in BOOLEAN, Ask(t, c)  PROVE poll' \in DevicePolls /\ PollTrue(poll', svc)
    BY <2>2 DEF Ask, DevicePolls, PollTrue, SvcStates
  <2> QED
    BY <2>1, <2>2
<1>3. /\ disk \in DeviceDisks /\ mem \in DeviceMemories
      /\ RoutesKept(disk.routes, mem.routes, mem.groups, svc, att)
  BY DEF DevicesInv, DevicesTyped
<1>4. RoutesKept(disk'.routes, mem'.routes, mem'.groups, svc, att')
  BY <1>1, <1>3
<1> QED
  BY <1>1, <1>2, <1>3, <1>4, Framed
\* A step that leaves the routes, the calls, the peer and the poll alone.
LEMMA RoutesStay ==
  ASSUME DevicesInv, DevicesTyped', ReadsTrue', Removed', disk'.routes = disk.routes, mem'.routes = mem.routes,
         mem'.groups = mem.groups, UNCHANGED <<svc, att, poll>>, disk'.entry = "deleted" => disk.entry = "deleted",
         disk.entry = "deleted" /\ ~link.saved => ~link'.saved, disk.entry = "deleted" /\ inc \notin Unfinished => inc' \notin Unfinished
  PROVE  DevicesInv'
<1>1. RoutesKept(disk.routes, mem.routes, mem.groups, svc, att) /\ PollTrue(poll, svc)
  BY DEF DevicesInv
<1>2. RoutesKept(disk'.routes, mem'.routes, mem'.groups, svc', att') /\ PollTrue(poll', svc')
  BY <1>1
<1>3. DeletedKept'
  BY DEF DevicesInv, DeletedKept
<1> QED
  BY <1>2, <1>3 DEF DevicesInv

LEMMA LinkKeeps ==
  ASSUME DevicesInv, LinkNext, UNCHANGED savedVars
  PROVE  DevicesInv'
<1>1. link \in DeviceLinks /\ UNCHANGED <<disk, mem, att, poll, read, svc, dash, inc>>
  BY DEF LinkNext, Drop, ReconnectPeer, PairAgain, savedVars, DevicesInv, DevicesTyped
<1>2. link' \in DeviceLinks /\ link'.saved = link.saved
  <2>1. CASE Drop
    BY <1>1, <2>1 DEF Drop, DeviceLinks
  <2>2. link.conn + 1 \in Nat /\ link.profile + 1 \in Nat
    BY <1>1 DEF DeviceLinks
  <2>3. CASE ReconnectPeer
    <3>1. link' = [link EXCEPT !.online = TRUE, !.conn = link.conn + 1]
      BY <2>3 DEF ReconnectPeer
    <3> QED
      BY ONLY <1>1, <2>2, <3>1 DEF DeviceLinks
  <2>4. CASE PairAgain
    <3>1. PICK object \in {link.object, link.object + 1} :
            link' = [link EXCEPT !.profile = link.profile + 1, !.conn = link.conn + 1, !.object = object, !.online = TRUE]
      BY <2>4 DEF PairAgain
    <3>2. object \in Nat
      BY <1>1 DEF DeviceLinks
    <3> QED
      BY ONLY <1>1, <2>2, <3>1, <3>2 DEF DeviceLinks
  <2> QED
    BY <2>1, <2>3, <2>4 DEF LinkNext
<1>3. DevicesTyped' /\ ReadsTrue' /\ Removed'
  BY <1>1, <1>2 DEF DevicesInv, DevicesTyped, ReadsTrue, Removed
<1> QED
  BY <1>1, <1>2, <1>3, RoutesStay

\* What a read does: the catalog it leaves is one that was read.
Catalogs == [auth : Auths, origin : Auths]

LEMMA ReadKeeps ==
  ASSUME DevicesInv, UNCHANGED <<disk, link, att, poll, svc, dash, inc>>, NEW r \in RouteReads, NEW q \in DeviceReads,
         q.auth = q.from, read' = [read EXCEPT ![r] = q], mem' \in DeviceMemories, mem'.routes = mem.routes,
         mem'.groups = mem.groups, mem'.catalog.auth = mem'.catalog.origin
  PROVE  DevicesInv'
<1>1. read' \in [RouteReads -> DeviceReads] /\ \A s \in RouteReads : read'[s].auth = read'[s].from
  BY DEF DevicesInv, DevicesTyped, ReadsTrue
<1>2. DevicesTyped' /\ ReadsTrue' /\ Removed'
  BY <1>1 DEF DevicesInv, DevicesTyped, ReadsTrue, Removed
<1> QED
  BY <1>2, RoutesStay

LEMMA ReadsKeep ==
  ASSUME DevicesInv, ReadsNext, UNCHANGED savedVars
  PROVE  DevicesInv'
<1> PICK r \in RouteReads : ReadStarts(r) \/ ReadAnswered(r) \/ ReadEnds(r)
  BY DEF ReadsNext
<1>1. UNCHANGED <<disk, link, att, poll, svc, dash, inc>>
  BY DEF ReadStarts, ReadAnswered, ReadEnds, savedVars
<1>2. /\ mem \in DeviceMemories /\ read \in [RouteReads -> DeviceReads] /\ read[r] \in DeviceReads /\ read[r].auth = read[r].from
      /\ mem.catalog.auth = mem.catalog.origin /\ Binding \in Auths /\ r \in Nat
  BY RoutesAssumption DEF DevicesInv, DevicesTyped, ReadsTrue, DeviceLinks, Binding, Auths
<1>3. NoCatalog \in Catalogs /\ NoCatalog.auth = NoCatalog.origin
  BY DEF NoCatalog, Catalogs, Auths
<1>4. ASSUME NEW c \in Catalogs, NEW n \in Nat, NEW d \in {"none", "listed", "incompatible"}
      PROVE  LET m == [mem EXCEPT !.catalog = c, !.reading = n, !.directory = d] IN
             m \in DeviceMemories /\ m.routes = mem.routes /\ m.groups = mem.groups /\ m.catalog = c
  BY <1>2 DEF DeviceMemories, Catalogs
<1>5. ASSUME NEW at \in {"incompatible", "listed", "done"}
      PROVE  LET q == [read[r] EXCEPT !.at = at] IN
             q \in DeviceReads /\ q.auth = q.from /\ [read EXCEPT ![r].at = at] = [read EXCEPT ![r] = q]
  BY <1>2 DEF DeviceReads
<1>6. PICK q \in DeviceReads : q.auth = q.from /\ read' = [read EXCEPT ![r] = q]
  <2>1. CASE ReadStarts(r)
    <3> DEFINE q == [at |-> "asked", auth |-> Binding, from |-> Binding]
    <3>1. q \in DeviceReads /\ q.auth = q.from
      BY <1>2 DEF DeviceReads
    <3> QED
      BY <1>5, <2>1, <3>1 DEF ReadStarts
  <2>2. CASE ReadAnswered(r)
    BY <1>5, <2>2 DEF ReadAnswered
  <2>3. CASE ReadEnds(r)
    BY <1>5, <2>3 DEF ReadEnds
  <2> QED
    BY <2>1, <2>2, <2>3
<1>7. /\ mem' \in DeviceMemories /\ mem'.routes = mem.routes /\ mem'.groups = mem.groups
      /\ mem'.catalog.auth = mem'.catalog.origin
  <2>1. CASE ReadStarts(r)
    BY <1>2, <1>3, <2>1 DEF ReadStarts, DeviceMemories, Catalogs
  <2>2. CASE ReadAnswered(r)
    <3>1. read[r].auth \in Auths /\ read[r].from \in Auths
      BY <1>2 DEF DeviceReads
    <3> DEFINE c == [auth |-> read[r].auth, origin |-> read[r].from]
    <3>2. c \in Catalogs /\ c.auth = c.origin
      BY <1>2, <3>1 DEF Catalogs
    <3>3. mem' = mem \/ mem' = [mem EXCEPT !.catalog = c] \/ mem' = [mem EXCEPT !.catalog = NoCatalog]
      BY <2>2 DEF ReadAnswered
    <3> HIDE DEF c
    <3> QED
      BY <1>2, <1>3, <3>2, <3>3 DEF DeviceMemories, Catalogs
  <2>3. CASE ReadEnds(r)
    <3>1. Directory(read[r].at) \in {"none", "listed", "incompatible"}
      BY <2>3 DEF ReadEnds, Directory
    <3> QED
      BY <1>2, <2>3, <3>1 DEF ReadEnds, DeviceMemories
  <2> QED
    BY <2>1, <2>2, <2>3
<1> QED
  BY <1>1, <1>6, <1>7, ReadKeeps

LEMMA RestartKeeps ==
  ASSUME DevicesInv, RestartRoutes, dash' = NoAction, UNCHANGED inc
  PROVE  DevicesInv'
<1>1. /\ disk \in DeviceDisks /\ mem \in DeviceMemories /\ read \in [RouteReads -> DeviceReads]
      /\ att \in [RouteAttempts -> StartCalls] /\ svc \in [RouteTasks -> SvcStates]
      /\ RoutesKept(disk.routes, mem.routes, mem.groups, svc, att)
  BY DEF DevicesInv, DevicesTyped, RoutesKept
<1>2. /\ mem' \in DeviceMemories /\ mem'.routes = disk.routes /\ mem'.groups = [t \in RouteTasks |-> NoGroup]
      /\ mem'.catalog.auth = mem'.catalog.origin
  <2>1. NoGroup \in RouteGroups
    BY DEF NoGroup, RouteGroups, RouteStates, SvcStates
  <2>2. NoCatalog \in [auth : Auths, origin : Auths] /\ NoCatalog.auth = NoCatalog.origin
    BY DEF NoCatalog, Auths
  <2> QED
    BY <1>1, <2>1, <2>2 DEF RestartRoutes, DeviceMemories, DeviceDisks
<1>3. read' \in [RouteReads -> DeviceReads] /\ \A r \in RouteReads : read'[r].auth = read'[r].from
  <2>1. ASSUME NEW r \in RouteReads
        PROVE  LET q == [read[r] EXCEPT !.at = "done"] IN q \in DeviceReads /\ q.auth = read[r].auth /\ q.from = read[r].from
    BY <1>1 DEF DeviceReads
  <2> QED
    BY <1>1, <2>1 DEF RestartRoutes, DevicesInv, ReadsTrue
<1>4. /\ att' \in [RouteAttempts -> StartCalls]
      /\ \A a \in RouteAttempts : /\ att'[a].at \in {"idle", "gone"} /\ att'[a].asked = att[a].asked
                                  /\ att'[a].task = att[a].task /\ att'[a].seen = att[a].seen
                                  /\ att'[a].at = "idle" => att[a].at = "idle"
  <2>1. ASSUME NEW a \in RouteAttempts
        PROVE  LET r == [att[a] EXCEPT !.at = "gone"] IN
               r \in StartCalls /\ r.at = "gone" /\ r.asked = att[a].asked /\ r.task = att[a].task /\ r.seen = att[a].seen
    BY <1>1 DEF StartCalls
  <2> QED
    BY <1>1, <2>1 DEF RestartRoutes
<1>5. UNCHANGED <<disk, link, svc>> /\ poll' = NoPoll
  BY DEF RestartRoutes
<1>6. RoutesKept(disk'.routes, mem'.routes, mem'.groups, svc', att')
  <2>1. ASSUME NEW a \in RouteAttempts
        PROVE  CallTrue(att'[a], svc) /\ (Engaged(att'[a]) => att[a].asked)
    <3>1. CallTrue(att[a], svc)
      BY <1>1 DEF RoutesKept
    <3> QED
      BY <1>4, <3>1 DEF CallTrue, Engaged
  <2>2. ASSUME NEW a \in RouteAttempts
        PROVE  CallHeld(att'[a], a, disk.routes, mem'.routes, mem'.groups, svc)
    <3> SUFFICES ASSUME Engaged(att'[a]), svc[att'[a].task] # "completed"
                 PROVE  disk.routes[att'[a].task] # "none" /\ ~Loose(mem'.groups[att'[a].task])
      BY <1>2 DEF CallHeld
    <3>1. att[a].asked /\ att'[a].task = att[a].task /\ att[a].task \in RouteTasks
      BY <1>1, <1>4, <2>1 DEF RoutesKept, CallTrue
    <3>2. disk.routes[att[a].task] # "none"
      BY <1>1, <3>1 DEF RoutesKept, CallHeld, Engaged
    <3> QED
      BY <1>2, <3>1, <3>2 DEF Loose, NoGroup
  <2>3. \A t \in RouteTasks : svc[t] # "none" => \E a \in RouteAttempts : att'[a].asked /\ att'[a].task = t
    BY <1>1, <1>4 DEF RoutesKept
  <2>4. mem'.routes \in [RouteTasks -> RouteStates] /\ mem'.groups \in [RouteTasks -> RouteGroups]
    BY <1>2 DEF DeviceMemories
  <2> QED
    BY <1>1, <1>2, <1>4, <1>5, <2>1, <2>2, <2>3, <2>4 DEF RoutesKept
<1>7. PollTrue(poll', svc') /\ poll' \in DevicePolls
  BY <1>5 DEF NoPoll, PollTrue, DevicePolls, SvcStates
<1>8. dash' \in DeviceActions /\ Removed'
  BY DEF NoAction, DeviceActions, Removed
<1>9. DevicesTyped' /\ ReadsTrue'
  BY <1>1, <1>2, <1>3, <1>5, <1>7, <1>8 DEF DevicesInv, DevicesTyped, ReadsTrue
<1>10. DeletedKept'
  BY <1>4, <1>5 DEF DevicesInv, DeletedKept
<1> QED
  BY <1>6, <1>7, <1>8, <1>9, <1>10 DEF DevicesInv
\* The action of the dashboard goes on, and the other device here.
LEMMA DashKeeps ==
  ASSUME DevicesInv, UNCHANGED <<mem, att, poll, read, svc>>, disk' \in DeviceDisks, disk'.routes = disk.routes,
         disk'.entry = "deleted" => disk.entry = "deleted", link' \in DeviceLinks, link'.saved => link.saved,
         inc' \in {"none", "running", "cancelling", "completed"},
         disk.entry = "deleted" /\ inc \notin Unfinished => inc' \notin Unfinished,
         dash' \in DeviceActions, Removed'
  PROVE  DevicesInv'
<1>1. DevicesTyped' /\ ReadsTrue' /\ mem'.routes = mem.routes /\ mem'.groups = mem.groups
  BY DEF DevicesInv, DevicesTyped, ReadsTrue
<1> QED
  BY <1>1, RoutesStay

LEMMA ActionsTyped ==
  ASSUME DevicesInv
  PROVE  /\ NoAction \in DeviceActions /\ NoAction.at = "idle"
         /\ \A deleting \in BOOLEAN :
              LET d == [NoAction EXCEPT !.at = "confirming", !.deleting = deleting, !.seen = Fingerprint] IN
              d \in DeviceActions /\ d.at = "confirming"
         /\ \A left \in SUBSET RouteTasks :
              LET d == [dash EXCEPT !.at = "outgoing", !.left = left] IN d \in DeviceActions /\ d.at = "outgoing"
         /\ \A at \in {"removing", "finishing"} :
              LET d == [dash EXCEPT !.at = at] IN d \in DeviceActions /\ d.at = at /\ d.failed = dash.failed
         /\ \A at \in {"removing", "finishing"} :
              LET d == [dash EXCEPT !.at = at, !.failed = TRUE] IN d \in DeviceActions /\ d.at = at /\ d.failed
<1>1. dash \in DeviceActions /\ Fingerprint \in BOOLEAN \X Nat \X Nat \X BOOLEAN
  BY DEF DevicesInv, DevicesTyped, DeviceLinks, Fingerprint
<1>2. NoAction \in DeviceActions /\ NoAction.at = "idle"
  BY DEF NoAction, DeviceActions
<1>3. ASSUME NEW deleting \in BOOLEAN
      PROVE  LET d == [NoAction EXCEPT !.at = "confirming", !.deleting = deleting, !.seen = Fingerprint] IN
             d \in DeviceActions /\ d.at = "confirming"
  BY <1>1, <1>2 DEF DeviceActions
<1>4. ASSUME NEW left \in SUBSET RouteTasks
      PROVE  LET d == [dash EXCEPT !.at = "outgoing", !.left = left] IN d \in DeviceActions /\ d.at = "outgoing"
  BY <1>1 DEF DeviceActions
<1>5. ASSUME NEW at \in {"removing", "finishing"}
      PROVE  LET d == [dash EXCEPT !.at = at] IN d \in DeviceActions /\ d.at = at /\ d.failed = dash.failed
  BY <1>1 DEF DeviceActions
<1>6. ASSUME NEW at \in {"removing", "finishing"}
      PROVE  LET d == [dash EXCEPT !.at = at, !.failed = TRUE] IN d \in DeviceActions /\ d.at = at /\ d.failed
  BY <1>1 DEF DeviceActions
<1> QED
  BY <1>2, <1>3, <1>4, <1>5, <1>6

LEMMA ChoiceKeeps ==
  ASSUME DevicesInv, Dismissed \/ LeftPending \/ DenyDevice \/ \E deleting \in BOOLEAN : Act(deleting)
  PROVE  DevicesInv'
<1>1. /\ disk \in DeviceDisks /\ link \in DeviceLinks /\ inc \in {"none", "running", "cancelling", "completed"}
  BY DEF DevicesInv, DevicesTyped
<1>2. UNCHANGED <<mem, link, att, poll, read, svc, inc>>
  BY DEF Dismissed, LeftPending, DenyDevice, Act, routesVars, Updates, UpdateThrows
<1>3. dash' \in DeviceActions /\ dash'.at # "finishing"
  <2>1. CASE Dismissed \/ LeftPending
    BY <2>1, ActionsTyped DEF Dismissed, LeftPending, Ends
  <2>2. CASE DenyDevice
    <3>1. ActiveRoutes \in SUBSET RouteTasks
      BY DEF ActiveRoutes
    <3>2. dash' = [dash EXCEPT !.at = "outgoing", !.left = ActiveRoutes] \/ dash' = NoAction
      BY <2>2 DEF DenyDevice, Ends
    <3>3. NoAction \in DeviceActions /\ NoAction.at = "idle"
      BY ActionsTyped
    <3>4. \A left \in SUBSET RouteTasks :
            LET d == [dash EXCEPT !.at = "outgoing", !.left = left] IN d \in DeviceActions /\ d.at = "outgoing"
      BY ActionsTyped
    <3>5. CASE dash' = NoAction
      BY <3>3, <3>5
    <3>6. CASE dash' = [dash EXCEPT !.at = "outgoing", !.left = ActiveRoutes]
      BY <3>1, <3>4, <3>6
    <3> QED
      BY <3>2, <3>5, <3>6
  <2>3. ASSUME NEW deleting \in BOOLEAN, Act(deleting)  PROVE dash' \in DeviceActions /\ dash'.at # "finishing"
    <3>1. dash' = [NoAction EXCEPT !.at = "confirming", !.deleting = deleting, !.seen = Fingerprint]
      BY <2>3 DEF Act
    <3> QED
      BY <3>1, ActionsTyped
  <2> QED
    BY <2>1, <2>2, <2>3
<1>4. disk' \in DeviceDisks /\ disk'.routes = disk.routes /\ (disk'.entry = "deleted" => disk.entry = "deleted")
  <2> DEFINE denied == [disk EXCEPT !.entry = "denied", !.pending = TRUE]
  <2>1. denied \in DeviceDisks /\ denied.routes = disk.routes /\ denied.entry = "denied"
    BY <1>1 DEF DeviceDisks
  <2>2. disk' = disk \/ disk' = denied
    BY DEF Dismissed, LeftPending, DenyDevice, Act, routesVars, Updates, UpdateThrows
  <2> QED
    BY <1>1, <2>1, <2>2
<1>5. Removed'
  BY <1>3 DEF Removed
<1> QED
  BY <1>1, <1>2, <1>3, <1>4, <1>5, DashKeeps

LEMMA IncomingKeeps ==
  ASSUME DevicesInv, CancelIncoming \/ RemovePeer \/ IncomingStarts \/ IncomingEnds
  PROVE  DevicesInv'
<1>1. /\ disk \in DeviceDisks /\ link \in DeviceLinks /\ inc \in {"none", "running", "cancelling", "completed"}
      /\ dash \in DeviceActions /\ Removed
  BY DEF DevicesInv, DevicesTyped
<1>2. UNCHANGED <<disk, mem, att, poll, read, svc>>
  BY DEF CancelIncoming, RemovePeer, IncomingStarts, IncomingEnds, routesVars
<1>3. /\ inc' \in {"none", "running", "cancelling", "completed"}
      /\ disk.entry = "deleted" /\ inc \notin Unfinished => inc' \notin Unfinished
  BY <1>1 DEF CancelIncoming, RemovePeer, IncomingStarts, IncomingEnds, DeviceAllowed, Unfinished
<1>4. CASE CancelIncoming
  <2>1. UNCHANGED link /\ (dash' = [dash EXCEPT !.at = "removing"] \/ dash' = [dash EXCEPT !.at = "removing", !.failed = TRUE])
    BY <1>4 DEF CancelIncoming, At
  <2>2. dash' \in DeviceActions /\ dash'.at = "removing"
    BY <2>1, ActionsTyped
  <2>3. Removed'
    BY <2>2 DEF Removed
  <2> QED
    BY <1>1, <1>2, <1>3, <2>1, <2>2, <2>3, DashKeeps
<1>5. CASE RemovePeer
  <2> DEFINE gone == [link EXCEPT !.online = FALSE, !.saved = FALSE]
             off == [link EXCEPT !.online = FALSE]
  <2>1. gone \in DeviceLinks /\ ~gone.saved /\ off \in DeviceLinks /\ off.saved = link.saved
    BY <1>1 DEF DeviceLinks
  <2>2. \/ link' = gone /\ dash' = [dash EXCEPT !.at = "finishing"]
        \/ link' = off /\ dash' = [dash EXCEPT !.at = "finishing", !.failed = TRUE]
    BY <1>5 DEF RemovePeer, At
  <2>3. dash' \in DeviceActions /\ (link' = gone \/ (link' = off /\ dash'.failed))
    BY <2>2, ActionsTyped
  <2>4. link' \in DeviceLinks /\ (link'.saved => link.saved)
    BY <2>1, <2>3
  <2>5. Removed'
    BY <2>1, <2>3 DEF Removed
  <2> QED
    BY <1>1, <1>2, <1>3, <2>3, <2>4, <2>5, DashKeeps
<1>6. CASE IncomingStarts \/ IncomingEnds
  <2>1. UNCHANGED <<link, dash>>
    BY <1>6 DEF IncomingStarts, IncomingEnds, routesVars
  <2>2. Removed'
    BY <1>1, <2>1 DEF Removed
  <2> QED
    BY <1>1, <1>2, <1>3, <2>1, <2>2, DashKeeps
<1> QED
  BY <1>4, <1>5, <1>6

LEMMA OutgoingKeeps ==
  ASSUME DevicesInv, NEW t \in RouteTasks, CancelOutgoing(t)
  PROVE  DevicesInv'
<1>1. dash \in DeviceActions /\ dash.at = "outgoing"
  BY DEF CancelOutgoing, DevicesInv, DevicesTyped
<1>2. dash' \in DeviceActions /\ dash'.at = "outgoing"
  <2>1. ASSUME NEW failed \in BOOLEAN
        PROVE  LET d == [dash EXCEPT !.left = @ \ {t}, !.failed = failed] IN d \in DeviceActions /\ d.at = "outgoing"
    BY <1>1 DEF DeviceActions
  <2>2. PICK fails \in BOOLEAN : dash' = [dash EXCEPT !.left = @ \ {t}, !.failed = @ \/ fails]
                                 \/ dash' = [dash EXCEPT !.left = @ \ {t}, !.failed = TRUE]
    BY DEF CancelOutgoing
  <2>3. (dash.failed \/ fails) \in BOOLEAN
    BY <1>1 DEF DeviceActions
  <2> QED
    BY <2>1, <2>2, <2>3
<1>3. Removed'
  BY <1>2 DEF Removed
<1>4. UNCHANGED <<link, att, poll, read, inc>>
  BY DEF CancelOutgoing
<1>5. CASE UNCHANGED <<disk, mem, svc>>
  <2>1. /\ disk \in DeviceDisks /\ link \in DeviceLinks /\ inc \in {"none", "running", "cancelling", "completed"}
    BY DEF DevicesInv, DevicesTyped
  <2> QED
    BY <1>2, <1>3, <1>4, <1>5, <2>1, DashKeeps
<1>6. CASE svc[t] # "none" /\ svc' = Cancelled(t) /\ \E fails \in BOOLEAN : RecordSnapshot(t, svc'[t], fails)
  <2>1. PICK fails \in BOOLEAN : RecordSnapshot(t, Cancelled(t)[t], fails)
    BY <1>6
  <2>2. /\ Cancelled(t) \in [RouteTasks -> SvcStates]
        /\ \A u \in RouteTasks : /\ Cancelled(t)[u] # "none" <=> svc[u] # "none"
                                 /\ svc[u] = "completed" <=> Cancelled(t)[u] = "completed"
                                 /\ Cancelled(t)[u] \in Unfinished <=> svc[u] \in Unfinished
    BY CancelledTyped
  <2>3. /\ disk' \in DeviceDisks /\ mem' \in DeviceMemories /\ disk'.entry = disk.entry /\ mem'.catalog = mem.catalog
        /\ RoutesKept(disk'.routes, mem'.routes, mem'.groups, svc, att)
    <3>1. Cancelled(t)[t] \in SvcStates \ {"none"} /\ (Cancelled(t)[t] = "completed" => svc[t] = "completed")
      BY <1>6, <2>2
    <3> QED
      BY <2>1, <3>1, RecordKeeps
  <2>4. RoutesKept(disk'.routes, mem'.routes, mem'.groups, Cancelled(t), att)
    BY <2>2, <2>3, PeerGoesOn
  <2>5. RoutesKept(disk'.routes, mem'.routes, mem'.groups, svc', att')
    BY <1>4, <1>6, <2>4
  <2>6. PollTrue(poll', svc')
    <3>1. PollTrue(poll, svc) /\ poll \in DevicePolls
      BY DEF DevicesInv, DevicesTyped
    <3> QED
      BY <1>4, <1>6, <2>2, <3>1 DEF PollTrue
  <2>7. DevicesTyped' /\ ReadsTrue'
    BY <1>2, <1>4, <2>3 DEF DevicesInv, DevicesTyped, ReadsTrue
  <2>8. DeletedKept'
    <3>1. \A a \in RouteAttempts : att[a].asked => att[a].task \in RouteTasks
      BY DEF DevicesInv, RoutesKept, CallTrue
    <3>2. \A u \in RouteTasks : svc'[u] \in Unfinished => svc[u] \in Unfinished
      BY <1>6, <2>2
    <3>3. \A u \in RouteTasks : svc[u] = "completed" => svc'[u] = "completed"
      BY <1>6, <2>2
    <3> QED
      BY <1>4, <2>3, <3>1, <3>2, <3>3 DEF DevicesInv, DeletedKept
  <2> QED
    BY <1>3, <2>5, <2>6, <2>7, <2>8 DEF DevicesInv
<1> QED
  BY <1>5, <1>6 DEF CancelOutgoing

\* The record goes only when nothing of either device runs for the other.
LEMMA FinishKeeps ==
  ASSUME DevicesInv, Finish
  PROVE  DevicesInv'
<1> DEFINE done == [disk EXCEPT !.pending = FALSE, !.entry = IF dash.deleting THEN "deleted" ELSE @]
<1>1. /\ disk \in DeviceDisks /\ mem \in DeviceMemories /\ dash \in DeviceActions
      /\ RoutesKept(disk.routes, mem.routes, mem.groups, svc, att) /\ PollTrue(poll, svc) /\ ReadsTrue
  BY DEF DevicesInv, DevicesTyped
<1>2. /\ done \in DeviceDisks /\ done.routes = disk.routes
      /\ done.entry = IF dash.deleting THEN "deleted" ELSE disk.entry
  BY <1>1 DEF DeviceDisks
<1>3. /\ disk' \in {disk, done} /\ mem' \in {mem, Forgotten(mem)} /\ dash' = NoAction
      /\ UNCHANGED <<link, att, poll, read, svc, inc>>
  BY DEF Finish, Updates, UpdateThrows, Ends
<1> HIDE DEF done
<1>4. disk' \in DeviceDisks /\ disk'.routes = disk.routes
  BY <1>1, <1>2, <1>3
<1>5. /\ mem' \in DeviceMemories /\ mem'.routes = mem.routes /\ mem'.groups = mem.groups
      /\ mem'.catalog.auth = mem'.catalog.origin
  <2>1. NoCatalog \in [auth : Auths, origin : Auths] /\ NoCatalog.auth = NoCatalog.origin
    BY DEF NoCatalog, Auths
  <2>2. mem' = mem \/ mem' = [mem EXCEPT !.catalog = NoCatalog, !.directory = "none"]
    BY <1>3 DEF Forgotten
  <2>3. mem.catalog.auth = mem.catalog.origin
    BY <1>1 DEF ReadsTrue
  <2> HIDE DEF done
  <2> QED
    BY <1>1, <2>1, <2>2, <2>3 DEF DeviceMemories
<1>6. RoutesKept(disk'.routes, mem'.routes, mem'.groups, svc', att') /\ PollTrue(poll', svc')
  BY <1>1, <1>3, <1>4, <1>5
<1>7. dash' \in DeviceActions /\ Removed' /\ ReadsTrue'
  BY <1>1, <1>3, <1>5, ActionsTyped DEF Removed, ReadsTrue
<1>8. DevicesTyped'
  BY <1>3, <1>4, <1>5, <1>7 DEF DevicesInv, DevicesTyped
<1>9. DeletedKept'
  <2> SUFFICES ASSUME disk'.entry = "deleted", disk.entry # "deleted"  PROVE DeletedKept'
    BY <1>3 DEF DevicesInv, DeletedKept
  <2>1. dash.deleting /\ ~dash.failed /\ dash.at = "finishing" /\ ~ActiveTasks
    BY <1>2, <1>3 DEF Finish
  <2>2. ~link.saved /\ inc \notin Unfinished
    BY <2>1 DEF DevicesInv, Removed, ActiveTasks
  <2>3. ASSUME NEW t \in RouteTasks, NEW a \in RouteAttempts, att[a].asked, att[a].task = t
        PROVE  svc[t] = "completed"
    <3>1. mem.routes[t] = "none" \/ mem.routes[t] = "completed"
      BY <2>1 DEF ActiveTasks, ActiveRoutes, IsTerminal, Unrouted
    <3>2. CASE mem.routes[t] = "none"
      BY <1>1, <2>3, <3>2 DEF RoutesKept, CallHeld, Engaged
    <3>3. CASE mem.routes[t] = "completed"
      BY <1>1, <3>3 DEF RoutesKept
    <3> QED
      BY <3>1, <3>2, <3>3
  <2>4. \A t \in RouteTasks : svc[t] \notin Unfinished
    BY <1>1, <2>3 DEF RoutesKept, Unfinished
  <2>5. \A a \in RouteAttempts : att[a].asked => svc[att[a].task] = "completed"
    BY <1>1, <2>3 DEF RoutesKept, CallTrue
  <2> QED
    BY <1>3, <2>2, <2>4, <2>5 DEF DeletedKept
<1> QED
  BY <1>6, <1>7, <1>8, <1>9 DEF DevicesInv

LEMMA DevicesInvNext == DevicesInv /\ [DevicesNext]_<<routesVars, savedVars>> => DevicesInv'
<1> SUFFICES ASSUME DevicesInv, [DevicesNext]_<<routesVars, savedVars>>  PROVE DevicesInv'
  OBVIOUS
<1>1. CASE UNCHANGED <<routesVars, savedVars>>
  <2>1. UNCHANGED <<disk, mem, link, att, poll, read, svc, dash, inc>>
    BY <1>1 DEF routesVars, savedVars
  <2>2. RoutesKept(disk'.routes, mem'.routes, mem'.groups, svc', att') /\ PollTrue(poll', svc')
    BY <2>1 DEF DevicesInv
  <2>3. DevicesTyped' /\ ReadsTrue' /\ Removed' /\ DeletedKept'
    BY <2>1 DEF DevicesInv, DevicesTyped, ReadsTrue, Removed, DeletedKept
  <2> QED
    BY <2>2, <2>3 DEF DevicesInv
<1>2. CASE LinkNext /\ UNCHANGED savedVars
  BY <1>2, LinkKeeps
<1>3. CASE ReadsNext /\ UNCHANGED savedVars
  BY <1>3, ReadsKeep
<1>4. CASE TasksNext /\ UNCHANGED savedVars
  <2>1. CASE PeerAnswers \/ \E t \in RouteTasks : TaskCompletes(t)
    BY <1>4, <2>1, PeerKeeps
  <2>2. CASE AskFails \/ \E t \in RouteTasks, c \in BOOLEAN : Ask(t, c)
    BY <1>4, <2>2, AskKeeps
  <2>3. ASSUME NEW fails \in BOOLEAN, Recorded(fails)  PROVE DevicesInv'
    BY <1>4, <2>3, RecordedKeeps
  <2>4. ASSUME NEW a \in RouteAttempts, NEW t \in RouteTasks, StartTask(a, t)  PROVE DevicesInv'
    BY <1>4, <2>4, StartTaskKeeps
  <2>5. ASSUME NEW a \in RouteAttempts, ReserveExisting(a) \/ ReserveNew(a)  PROVE DevicesInv'
    BY <1>4, <2>5, ExistingKeeps, NewKeeps
  <2>6. ASSUME NEW a \in RouteAttempts, ReserveRefused(a) \/ NotAuthorized(a) \/ StartFails(a) \/ SettleThrows(a)
        PROVE  DevicesInv'
    BY <1>4, <2>6, RefusedKeeps
  <2>7. ASSUME NEW a \in RouteAttempts, Dispatch(a) \/ PeerStarts(a)  PROVE DevicesInv'
    BY <1>4, <2>7, DispatchKeeps, PeerStartsKeeps
  <2>8. ASSUME NEW a \in RouteAttempts, NEW fails \in BOOLEAN, StartAnswered(a, fails)  PROVE DevicesInv'
    BY <1>4, <2>8, AnsweredKeeps
  <2>9. ASSUME NEW a \in RouteAttempts, Retain(a) \/ Release(a)  PROVE DevicesInv'
    BY <1>4, <2>9, RetainKeeps, ReleaseKeeps
  <2> QED
    BY <1>4, <2>1, <2>2, <2>3, <2>4, <2>5, <2>6, <2>7, <2>8, <2>9 DEF TasksNext
<1>5. CASE SavedNext
  <2>1. CASE RestartRoutes /\ dash' = NoAction /\ UNCHANGED inc
    BY <2>1, RestartKeeps
  <2>2. CASE Dismissed \/ LeftPending \/ DenyDevice \/ \E deleting \in BOOLEAN : Act(deleting)
    BY <2>2, ChoiceKeeps
  <2>3. CASE CancelIncoming \/ RemovePeer \/ IncomingStarts \/ IncomingEnds
    BY <2>3, IncomingKeeps
  <2>4. CASE \E t \in RouteTasks : CancelOutgoing(t)
    BY <2>4, OutgoingKeeps
  <2>5. CASE Finish
    BY <2>5, FinishKeeps
  <2> QED
    BY <1>5, <2>1, <2>2, <2>3, <2>4, <2>5 DEF SavedNext
<1> QED
  BY <1>1, <1>2, <1>3, <1>4, <1>5 DEF DevicesNext

\* What the broker believes of another device is grounded, with any number of
\* calls, tasks and reads: a task that was asked for or runs there has a stored
\* route until it has ended, whatever attempts leave, routes are evicted and
\* updates are lost; a target was read on the connection that is authenticated.
THEOREM DevicesGrounded == DevicesSpec => []RoutesSound
<1>1. DevicesInv => RoutesSound
  <2> SUFFICES ASSUME DevicesInv  PROVE RoutesSound
    OBVIOUS
  <2>1. RoutesKept(disk.routes, mem.routes, mem.groups, svc, att) /\ mem.catalog.auth = mem.catalog.origin
    BY DEF DevicesInv, ReadsTrue
  <2>2. \A a \in RouteAttempts : att[a].asked /\ svc[att[a].task] # "completed" => disk.routes[att[a].task] # "none"
    BY <2>1 DEF RoutesKept, CallHeld, Engaged
  <2>3. \A t \in RouteTasks : svc[t] \in {"running", "cancelling"} => disk.routes[t] # "none"
    BY <2>1, <2>2 DEF RoutesKept
  <2>4. CatalogIsAuthentic
    BY <2>1 DEF CatalogIsAuthentic, Target, Shown, Matches
  <2> QED
    BY <2>2, <2>3, <2>4 DEF RoutesSound, RouteBeforeTask, Unrouted
<1> QED
  BY <1>1, DevicesInvInit, DevicesInvNext, PTL DEF DevicesSpec

\* The record of a device goes only when nothing is left behind: no task of
\* either device runs for the other or can still start, and its link is gone.
THEOREM DeletedNothingLeft == DevicesSpec => []DeletedIsIdle
<1>1. DevicesInv => DeletedIsIdle
  BY DEF DevicesInv, DeletedKept, DeletedIsIdle, Target, Shown, DeviceAllowed
<1> QED
  BY <1>1, DevicesInvInit, DevicesInvNext, PTL DEF DevicesSpec

----------------------------------------------------------------------------
(* DevTunnel *)

Ensures == {"ensure-renew", "ensure-start"}
InHands == {"probing", "saving", "stopping"}

Providers ==
  [status : {"idle", "starting", "ready", "backoff", "circuit-open", "cleanup-failed", "stopped"},
   gen : Nat, stopped : BOOLEAN, aborted : BOOLEAN, attempts : Nat, restart : BOOLEAN,
   timer : {"none", "renewal", "retry"}, host : {"none", "up", "exited"}, of : Nat, killing : BOOLEAN]
Hostings ==
  [phase : {"none", "probing", "creating", "recording", "porting", "granting", "saving", "provisioned", "waiting"},
   gen : Nat]
Mutations ==
  [who : {"none", "ensure-renew", "ensure-start", "restart", "timer"}, gen : Nat, retry : BOOLEAN,
   phase : {"none", "loading", "listing", "deleting", "regranting", "storing", "closing", "checking", "spawning",
            "probing", "saving", "stopping"}]
InLine == {x \in Mutations : x.who # "none" /\ x.phase = "loading"}
Records == [made : BOOLEAN, ready : BOOLEAN, access : 0..2]
Services ==
  [tunnel : BOOLEAN, port : BOOLEAN, access : 0..2, given : 1..2, age : {"fresh", "due", "expired"},
   up : Nat, broken : BOOLEAN, faults : Nat]

TunnelTypeOK ==
  /\ provider \in Providers /\ hosting \in Hostings /\ mutation \in Mutations /\ line \in Seq(InLine)
  /\ record \in Records /\ service \in Services

Running(p) == ~p.stopped /\ ~p.aborted
CurrentHost(p) == p.host = "up" /\ p.of = p.gen
Young(p, h) == h.phase # "none" /\ h.gen = p.gen
Present(x, p) == x.who # "none" /\ x.gen = p.gen

\* The process: one that is spawned finds none.
HostKept(p, x, sv) ==
  /\ sv.up = IF p.host = "up" THEN 1 ELSE 0
  /\ x.phase = "spawning" => p.host = "none"

\* The entry is the one on record until a renewal destroys it, and one that was
\* cut short is known.
AccessKept(p, h, x, rc, sv) ==
  /\ rc.ready => rc.made
  /\ h.phase \in {"creating", "recording"} => ~rc.made
  /\ h.phase \in {"porting", "granting", "saving"} => rc.made /\ ~rc.ready
  /\ rc.ready /\ x.phase \notin Destructive /\ sv.tunnel => sv.access = rc.access \/ sv.broken
  /\ x.phase \in Destructive => sv.broken \/ (Running(p) /\ x.gen = p.gen)

\* The mutation that has the lock.
WorkKept(x, p) ==
  /\ x.who # "none" \/ x = NoMutation
  /\ x.who # "none" => x.phase # "none"
  /\ x.who \in {"timer", "ensure-renew"} => x.phase \in {"loading", "closing"} \cup Renewing
  /\ x.phase \in InHands => p.host = "none" \/ p.of = x.gen

\* A mutation, at work or waiting.
Kept(x, p, h) ==
  /\ x.gen <= p.gen
  /\ x.who \in Ensures => h.phase = "waiting" /\ h.gen = x.gen
  /\ Running(p) /\ Present(x, p) =>
       /\ x.who # "timer" /\ x.phase \notin InHands => ~CurrentHost(p)
       /\ x.who # "timer" => ~p.restart
       /\ x.who \in Ensures => p.timer = "none"
       /\ p.status = "ready" => x.who = "timer" /\ p.timer = "none"
       /\ x.phase \notin InHands /\ CurrentHost(p) => p.attempts = 0
       /\ Young(p, h) => x.who \in Ensures

\* Of two mutations.
Before(x, y, p) ==
  /\ ~(x.who \in Ensures /\ y.who \in Ensures)
  /\ Running(p) /\ Present(x, p) /\ Present(y, p) => x.who = "timer" /\ y.who = "restart"

LineKept(p, h, x, l) ==
  /\ WorkKept(x, p) /\ Kept(x, p, h)
  /\ \A i \in 1..Len(l) : Kept(l[i], p, h) /\ Before(x, l[i], p)
  /\ \A i, j \in 1..Len(l) : i < j => Before(l[i], l[j], p)

ProviderKept(p, h, x) ==
  /\ h.phase # "none" => h.gen <= p.gen
  /\ p.of <= p.gen
  /\ Running(p) /\ Young(p, h) =>
       /\ ~p.restart /\ p.timer = "none" /\ p.status # "ready"
       /\ CurrentHost(p) => x.phase \in InHands /\ Present(x, p)
  /\ Running(p) /\ p.restart => ~CurrentHost(p) /\ p.status # "ready"
  /\ Running(p) /\ p.status = "ready" => p.attempts = 0

TunnelInv ==
  /\ TunnelTypeOK
  /\ HostKept(provider, mutation, service) /\ AccessKept(provider, hosting, mutation, record, service)
  /\ LineKept(provider, hosting, mutation, line) /\ ProviderKept(provider, hosting, mutation)

LEMMA TunnelInvInit == TunnelInit => TunnelInv
<1> SUFFICES ASSUME TunnelInit  PROVE TunnelInv
  OBVIOUS
<1>1. NoMutation \in Mutations /\ Idle \in Hostings
  BY DEF NoMutation, Idle, Mutations, Hostings
<1>2. provider \in Providers /\ record \in Records /\ service \in Services /\ line \in Seq(InLine) /\ line = <<>>
  BY DEF TunnelInit, Providers, Records, Services
<1>3. provider.aborted /\ provider.host = "none" /\ provider.gen = 0 /\ provider.of = 0 /\ service.up = 0 /\ ~record.ready
  BY DEF TunnelInit
<1>4. mutation = NoMutation /\ hosting = Idle /\ NoMutation.who = "none" /\ NoMutation.gen = 0 /\ NoMutation.phase = "none"
      /\ Idle.phase = "none"
  BY DEF TunnelInit, NoMutation, Idle
<1>5. LineKept(provider, hosting, mutation, line)
  BY <1>2, <1>3, <1>4 DEF LineKept, WorkKept, Kept, Running, Ensures, InHands
<1> QED
  BY <1>1, <1>2, <1>3, <1>4, <1>5
     DEF TunnelInv, TunnelTypeOK, HostKept, AccessKept, ProviderKept, Running, Destructive

\* The same mutations wait; the one at work goes on or ends.
LEMMA SameLine ==
  ASSUME NEW p \in Providers, NEW p2 \in Providers, NEW h \in Hostings, NEW h2 \in Hostings,
         NEW m \in Mutations, NEW m2 \in Mutations, NEW l \in Seq(InLine), LineKept(p, h, m, l),
         Running(p2) => Running(p) /\ p2.gen = p.gen,
         m2 = NoMutation \/ (m2.who = m.who /\ m2.gen = m.gen), WorkKept(m2, p2), Kept(m2, p2, h2),
         \A x \in InLine : Kept(x, p, h) /\ Before(m, x, p) => Kept(x, p2, h2)
  PROVE  LineKept(p2, h2, m2, l)
<1>1. \A i \in 1..Len(l) : l[i] \in InLine
  OBVIOUS
<1>2. \A i \in 1..Len(l) : Kept(l[i], p2, h2)
  BY <1>1 DEF LineKept
<1>3. \A x, y : Before(x, y, p) => Before(x, y, p2)
  BY DEF Before, Present
<1>4. \A i \in 1..Len(l) : Before(m2, l[i], p2)
  BY <1>3 DEF LineKept, Before, Present, NoMutation, Ensures
<1> QED
  BY <1>2, <1>3, <1>4 DEF LineKept

\* A lifecycle ends: nothing is said of the mutations but whose they are.
LEMMA LineHalts ==
  ASSUME NEW p \in Providers, NEW p2 \in Providers, NEW h \in Hostings, NEW h2 \in Hostings,
         NEW m \in Mutations, NEW m2 \in Mutations, NEW l \in Seq(InLine), LineKept(p, h, m, l),
         ~Running(p2), p2.gen >= p.gen, h2 = h \/ m.who \in Ensures \/ h.phase # "waiting",
         m2 = NoMutation \/ (m2.who = m.who /\ m2.gen = m.gen /\ h2 = h), WorkKept(m2, p2)
  PROVE  LineKept(p2, h2, m2, l)
<1>1. ASSUME NEW x \in InLine, Kept(x, p, h), Before(m, x, p)  PROVE Kept(x, p2, h2)
  BY <1>1 DEF Kept, Before, InLine, Mutations, Providers
<1>2. Kept(m2, p2, h2)
  BY DEF LineKept, Kept, NoMutation, Ensures, Mutations, Providers
<1> QED
  BY <1>1, <1>2, SameLine

\* ensureHosted before it waits for a mutation.
LEMMA HostingGoes ==
  ASSUME TunnelInv, NEW h \in Hostings, hosting.phase \notin {"none", "waiting"}, h.phase \notin {"none", "waiting"},
         h.gen = hosting.gen
  PROVE  LineKept(provider, h, mutation, line) /\ ProviderKept(provider, h, mutation)
<1>1. /\ provider \in Providers /\ hosting \in Hostings /\ mutation \in Mutations /\ line \in Seq(InLine)
      /\ LineKept(provider, hosting, mutation, line) /\ ProviderKept(provider, hosting, mutation)
  BY DEF TunnelInv, TunnelTypeOK
<1>2. \A x : Kept(x, provider, hosting) => Kept(x, provider, h)
  BY DEF Kept, Young
<1>3. Kept(mutation, provider, h) /\ WorkKept(mutation, provider)
  BY <1>1, <1>2 DEF LineKept
<1>4. ProviderKept(provider, h, mutation)
  BY <1>1 DEF ProviderKept, Young
<1> QED
  BY <1>1, <1>2, <1>3, <1>4, SameLine

LEMMA EarlySteps ==
  ASSUME TunnelInv, Probe \/ CreateTunnel \/ RecordTunnel \/ CreatePort \/ CreateAccess \/ SaveAccess
  PROVE  TunnelInv'
<1>1. /\ provider \in Providers /\ hosting \in Hostings /\ mutation \in Mutations /\ line \in Seq(InLine)
      /\ record \in Records /\ service \in Services
      /\ HostKept(provider, mutation, service) /\ AccessKept(provider, hosting, mutation, record, service)
  BY DEF TunnelInv, TunnelTypeOK
<1>2. UNCHANGED <<provider, mutation, line>>
  BY DEF Probe, CreateTunnel, RecordTunnel, CreatePort, CreateAccess, SaveAccess
<1>3. PICK to \in {"creating", "recording", "porting", "granting", "saving", "provisioned"} :
        hosting' = [hosting EXCEPT !.phase = to]
  BY DEF Probe, CreateTunnel, RecordTunnel, CreatePort, CreateAccess, SaveAccess, EnsureGoes
<1>4. hosting' \in Hostings /\ hosting'.phase = to /\ hosting'.gen = hosting.gen
  BY <1>1, <1>3 DEF Hostings
<1>5. hosting.phase \notin {"none", "waiting"}
  BY DEF Probe, CreateTunnel, RecordTunnel, CreatePort, CreateAccess, SaveAccess
<1>6. LineKept(provider, hosting', mutation, line) /\ ProviderKept(provider, hosting', mutation)
  BY <1>4, <1>5, HostingGoes
<1>7. /\ record' \in Records /\ service' \in Services /\ service'.up = service.up
      /\ AccessKept(provider, hosting', mutation, record', service')
  <2>1. CASE Probe
    <3>1. UNCHANGED <<record, service>> /\ hosting' = [hosting EXCEPT !.phase =
            CASE ~record.made -> "creating" [] record.ready -> "provisioned" [] OTHER -> "porting"]
      BY <2>1 DEF Probe, EnsureGoes
    <3>2. \/ hosting'.phase = "creating" /\ ~record.made
          \/ hosting'.phase = "provisioned"
          \/ hosting'.phase = "porting" /\ record.made /\ ~record.ready
      BY <1>1, <3>1 DEF Hostings
    <3> QED
      BY <1>1, <3>1, <3>2 DEF AccessKept
  <2>2. CASE CreateTunnel
    <3>1. /\ UNCHANGED record /\ service' = [service EXCEPT !.tunnel = TRUE] /\ hosting.phase = "creating"
          /\ hosting' = [hosting EXCEPT !.phase = "recording"]
      BY <2>2 DEF CreateTunnel, EnsureGoes
    <3>2. service' \in Services /\ service'.up = service.up /\ service'.broken = service.broken
      BY <1>1, <3>1 DEF Services
    <3>3. hosting'.phase = "recording"
      BY <1>1, <3>1 DEF Hostings
    <3> QED
      BY <1>1, <3>1, <3>2, <3>3 DEF AccessKept
  <2>3. CASE RecordTunnel
    <3>1. /\ UNCHANGED service /\ record' = [record EXCEPT !.made = TRUE] /\ hosting.phase = "recording"
          /\ hosting' = [hosting EXCEPT !.phase = "porting"]
      BY <2>3 DEF RecordTunnel, EnsureGoes
    <3>2. record' \in Records /\ record'.made /\ record'.ready = record.ready /\ record'.access = record.access
      BY <1>1, <3>1 DEF Records
    <3>3. hosting'.phase = "porting" /\ ~record.ready
      BY <1>1, <3>1 DEF Hostings, AccessKept
    <3> QED
      BY <1>1, <3>1, <3>2, <3>3 DEF AccessKept
  <2>4. CASE CreatePort
    <3>1. /\ UNCHANGED record /\ service' = [service EXCEPT !.port = TRUE] /\ hosting.phase = "porting"
      BY <2>4 DEF CreatePort
    <3>2. hosting' = [hosting EXCEPT !.phase = "saving"] \/ hosting' = [hosting EXCEPT !.phase = "granting"]
      BY <2>4 DEF CreatePort, EnsureGoes
    <3>3. /\ service' \in Services /\ service'.up = service.up /\ service'.broken = service.broken
          /\ service'.tunnel = service.tunnel /\ service'.access = service.access
      BY <1>1, <3>1 DEF Services
    <3>4. hosting'.phase \in {"saving", "granting"}
      BY <1>1, <3>2 DEF Hostings
    <3> QED
      BY <1>1, <3>1, <3>3, <3>4 DEF AccessKept
  <2>5. CASE CreateAccess
    <3>1. /\ UNCHANGED record /\ hosting.phase = "granting"
          /\ service' = [service EXCEPT !.access = 3 - service.given, !.given = 3 - service.given, !.age = "fresh"]
          /\ hosting' = [hosting EXCEPT !.phase = "saving"]
      BY <2>5 DEF CreateAccess, EnsureGoes, Granted
    <3> DEFINE g == 3 - service.given
    <3>2. g \in 1..2 /\ g \in 0..2
      <4>1. service.given \in 1..2
        BY <1>1 DEF Services
      <4> QED
        BY <4>1
    <3>3. /\ service' = [service EXCEPT !.access = g, !.given = g, !.age = "fresh"] /\ service \in Services
      BY <1>1, <3>1
    <3> HIDE DEF g
    <3>4. service' \in Services
      BY <3>2, <3>3 DEF Services
    <3>5. service'.up = service.up /\ service'.broken = service.broken
      BY <3>3 DEF Services
    <3>6. hosting'.phase = "saving"
      BY <1>1, <3>1 DEF Hostings
    <3> QED
      BY <1>1, <3>1, <3>4, <3>5, <3>6 DEF AccessKept
  <2>6. CASE SaveAccess
    <3>1. /\ UNCHANGED service /\ record' = [record EXCEPT !.ready = TRUE, !.access = service.access]
          /\ hosting.phase = "saving" /\ hosting' = [hosting EXCEPT !.phase = "provisioned"]
      BY <2>6 DEF SaveAccess, EnsureGoes
    <3>2. service.access \in 0..2
      BY <1>1 DEF Services
    <3>3. record' \in Records /\ record'.made = record.made /\ record'.access = service.access
      BY <1>1, <3>1, <3>2 DEF Records
    <3>4. hosting'.phase = "provisioned"
      BY <1>1, <3>1 DEF Hostings
    <3>5. record.made
      BY <1>1, <3>1 DEF AccessKept
    <3> QED
      BY <1>1, <3>1, <3>3, <3>4, <3>5 DEF AccessKept
  <2> QED
    BY <2>1, <2>2, <2>3, <2>4, <2>5, <2>6
<1> QED
  BY <1>1, <1>2, <1>4, <1>6, <1>7 DEF TunnelInv, TunnelTypeOK, HostKept

\* The circuit is open, or the lifecycle over; the process is where it was.
Halted(p2, p) == p2 \in Providers /\ ~Running(p2) /\ p2.gen >= p.gen /\ p2.host = p.host /\ p2.of = p.of

LEMMA OpenedHalts ==
  ASSUME NEW p \in Providers
  PROVE  Halted(Opened(p), p) /\ Opened(p).gen = p.gen /\ Halted(OpenedAndStopping(p), p)
<1> DEFINE c == Opened(p)
<1>1. c \in Providers /\ c.gen = p.gen /\ c.host = p.host /\ c.of = p.of
  BY DEF Opened, Providers
<1>2. c.aborted
  BY DEF Opened, Providers
<1>3. p.gen \in Nat /\ p.host \in {"none", "up", "exited"}
  BY DEF Providers
<1> DEFINE n == p.gen + 1
           k == p.killing \/ p.host # "none"
           b == [c EXCEPT !.gen = n, !.killing = k]
<1>4. n \in Nat /\ n >= p.gen
  BY <1>3
<1>5. k \in BOOLEAN
  OBVIOUS
<1>6. OpenedAndStopping(p) = b
  BY <1>1 DEF OpenedAndStopping, Opened, Providers
<1> HIDE DEF c, n, k
<1>7. b \in Providers /\ b.gen = n /\ b.host = c.host /\ b.of = c.of
  BY <1>1, <1>4, <1>5 DEF Providers
<1>8. b.aborted = c.aborted
  BY <1>1 DEF Providers
<1> HIDE DEF b
<1>9. Halted(c, p)
  BY <1>1, <1>2, <1>3 DEF Halted, Running
<1>10. Halted(b, p)
  BY <1>1, <1>2, <1>4, <1>7, <1>8 DEF Halted, Running
<1> QED
  BY <1>1, <1>6, <1>9, <1>10 DEF c

\* The lifecycle goes on, with a timer for another renewal or for a restart.
Retried(p2, p) == /\ p2 \in Providers /\ p2.timer # "none"
                  /\ p2.gen = p.gen /\ p2.host = p.host /\ p2.of = p.of /\ p2.stopped = p.stopped /\ p2.aborted = p.aborted
                  /\ p2.attempts = p.attempts /\ p2.restart = p.restart /\ p2.status = p.status
Delayed(p2, p) == /\ p2 \in Providers /\ p2.restart /\ p2.status = "backoff"
                  /\ p2.gen = p.gen /\ p2.host = p.host /\ p2.of = p.of /\ p2.stopped = p.stopped /\ p2.aborted = p.aborted
                  /\ p2.timer = p.timer

LEMMA RestartIs ==
  ASSUME NEW p \in Providers
  PROVE  LET r == RestartScheduled(p) IN
         \/ r = p /\ p.status = "circuit-open"
         \/ Halted(r, p) /\ r.gen = p.gen /\ p.attempts >= MaxRestarts
         \/ Delayed(r, p)
<1> DEFINE n == p.attempts + 1
           c == [p EXCEPT !.attempts = n]
           b == [p EXCEPT !.attempts = n, !.status = "backoff", !.restart = TRUE]
<1>1. n \in Nat
  BY DEF Providers
<1>2. RestartScheduled(p) = IF p.status = "circuit-open" THEN p ELSE IF p.attempts >= MaxRestarts THEN Opened(c) ELSE b
  BY DEF RestartScheduled
<1> HIDE DEF n
<1>3. c \in Providers /\ c.gen = p.gen /\ c.host = p.host /\ c.of = p.of
  BY <1>1 DEF Providers
<1>4. b \in Providers /\ b.gen = p.gen /\ b.host = p.host /\ b.of = p.of /\ b.status = "backoff" /\ b.timer = p.timer
  BY <1>1 DEF Providers
<1>5. b.restart
  BY <1>1 DEF Providers
<1>6. b.stopped = p.stopped /\ b.aborted = p.aborted
  BY <1>1 DEF Providers
<1> HIDE DEF b, c
<1>7. Halted(Opened(c), p) /\ Opened(c).gen = p.gen
  BY <1>3, OpenedHalts DEF Halted
<1>8. Delayed(b, p)
  BY <1>4, <1>5, <1>6 DEF Delayed
<1> QED
  BY <1>2, <1>7, <1>8

\* What becomes of the provider when a mutation, or ensureHosted, fails.
LEMMA FailureIs ==
  ASSUME NEW p \in Providers, NEW who, NEW g, NEW retryable \in BOOLEAN
  PROVE  LET r == AfterFailure(p, who, g, retryable) IN
         \/ r = p
         \/ Active(g) /\ Halted(r, p)
         \/ Active(g) /\ Retried(r, p) /\ who = "timer" /\ p.status = "ready"
         \/ Active(g) /\ Delayed(r, p) /\ who \in {"ensure-start", "restart"} /\ retryable /\ p.status # "cleanup-failed"
<1> DEFINE r == AfterFailure(p, who, g, retryable)
           c == [p EXCEPT !.timer = "retry"]
<1>1. \/ r = p
      \/ Active(g) /\ who = "timer" /\ p.status = "ready" /\ r = c
      \/ Active(g) /\ r = OpenedAndStopping(p)
      \/ Active(g) /\ r = Opened(p)
      \/ Active(g) /\ who \in {"ensure-start", "restart"} /\ retryable /\ p.status # "cleanup-failed" /\ r = RestartScheduled(p)
  BY DEF AfterFailure
<1>2. Retried(c, p)
  <2>1. /\ c \in Providers /\ c.timer = "retry" /\ c.gen = p.gen /\ c.host = p.host /\ c.of = p.of
        /\ c.attempts = p.attempts /\ c.status = p.status
    BY DEF Providers
  <2>2. c.stopped = p.stopped /\ c.aborted = p.aborted /\ c.restart = p.restart
    BY DEF Providers
  <2> QED
    BY <2>1, <2>2 DEF Retried
<1> HIDE DEF r, c
<1>3. /\ Halted(Opened(p), p) /\ Halted(OpenedAndStopping(p), p)
      /\ \/ RestartScheduled(p) = p
         \/ Halted(RestartScheduled(p), p)
         \/ Delayed(RestartScheduled(p), p)
  BY OpenedHalts, RestartIs
<1> QED
  BY <1>1, <1>2, <1>3 DEF r

\* The mutation at work has ended, and one that waited for it goes on.
LEMMA EndKeeps ==
  ASSUME NEW p \in Providers, NEW p2 \in Providers, NEW h \in Hostings, NEW m \in Mutations, NEW l \in Seq(InLine),
         LineKept(p, h, m, l), ProviderKept(p, h, m), m.who # "none",
         \/ p2 = p
         \/ Halted(p2, p)
         \/ Retried(p2, p) /\ m.who = "timer" /\ p.status = "ready" /\ m.gen = p.gen
         \/ Delayed(p2, p) /\ m.who \in {"ensure-start", "restart"} /\ m.gen = p.gen /\ ~CurrentHost(p)
  PROVE  LET h2 == IF m.who \in Ensures THEN Idle ELSE h IN
         h2 \in Hostings /\ LineKept(p2, h2, NoMutation, l) /\ ProviderKept(p2, h2, NoMutation)
<1> DEFINE h2 == IF m.who \in Ensures THEN Idle ELSE h
<1>1. h2 \in Hostings /\ NoMutation \in Mutations /\ NoMutation.who = "none" /\ NoMutation.gen = 0 /\ NoMutation.phase = "none"
  BY DEF Idle, Hostings, NoMutation, Mutations
<1>2. Idle.phase = "none"
  BY DEF Idle
<1>3. (h2 = h /\ m.who \notin Ensures) \/ (h2.phase = "none" /\ m.who \in Ensures)
  BY <1>2
<1>4. WorkKept(NoMutation, p2) /\ Kept(NoMutation, p2, h2)
  BY <1>1 DEF WorkKept, Kept, Present, InHands, Ensures, Providers
<1>5. p2.gen >= p.gen /\ p2.gen \in Nat /\ p.gen \in Nat /\ (Running(p2) => Running(p) /\ p2.gen = p.gen)
  BY DEF Halted, Retried, Delayed, Running, Providers
<1>6. ASSUME NEW x \in InLine, Kept(x, p, h), Before(m, x, p)  PROVE Kept(x, p2, h2)
  <2>1. x.gen <= p2.gen
    BY <1>5, <1>6 DEF Kept, InLine, Mutations
  <2>2. x.who \in Ensures => h2.phase = "waiting" /\ h2.gen = x.gen
    BY <1>3, <1>6 DEF Kept, Before
  <2>3. CASE p2 = p
    BY <1>3, <1>6, <2>1, <2>2, <2>3 DEF Kept, Young
  <2>4. CASE ~Running(p2)
    BY <2>1, <2>2, <2>4 DEF Kept
  <2>5. CASE Running(p2) /\ Retried(p2, p) /\ m.who = "timer" /\ p.status = "ready" /\ m.gen = p.gen
    <3>1. ~Present(x, p)
      BY <1>5, <1>6, <2>5 DEF Kept, Before, Present
    <3> QED
      BY <2>1, <2>2, <2>5, <3>1 DEF Kept, Present, Retried
  <2>6. CASE Running(p2) /\ Delayed(p2, p) /\ m.who \in {"ensure-start", "restart"} /\ m.gen = p.gen
    <3>1. ~Present(x, p)
      BY <1>5, <1>6, <2>6 DEF Kept, Before, Present
    <3> QED
      BY <2>1, <2>2, <2>6, <3>1 DEF Kept, Present, Delayed
  <2> QED
    BY <2>3, <2>4, <2>5, <2>6 DEF Halted
<1>7. LineKept(p2, h2, NoMutation, l)
  BY <1>1, <1>4, <1>5, <1>6, SameLine
<1>8. ProviderKept(p2, h2, NoMutation)
  <2>1. h2.phase # "none" => h2.gen <= p2.gen
    BY <1>1, <1>3, <1>5 DEF ProviderKept, Hostings
  <2>2. p2.of <= p2.gen
    BY <1>5 DEF ProviderKept, Halted, Retried, Delayed, Providers
  <2>3. ASSUME Running(p2)
        PROVE  /\ Young(p2, h2) => ~p2.restart /\ p2.timer = "none" /\ p2.status # "ready" /\ ~CurrentHost(p2)
               /\ p2.restart => ~CurrentHost(p2) /\ p2.status # "ready"
               /\ p2.status = "ready" => p2.attempts = 0
    <3>1. Running(p) /\ p2.gen = p.gen /\ (Young(p2, h2) => Young(p, h) /\ m.who \notin Ensures)
      BY <1>3, <1>5, <2>3 DEF Young
    <3>2. Kept(m, p, h)
      BY DEF LineKept
    <3>3. Young(p2, h2) => ~Present(m, p)
      BY <3>1, <3>2 DEF Kept
    <3>4. CASE p2 = p
      BY <3>1, <3>3, <3>4 DEF ProviderKept
    <3>5. CASE Retried(p2, p) /\ m.who = "timer" /\ p.status = "ready" /\ m.gen = p.gen
      <4>1. ~Young(p2, h2)
        BY <3>3, <3>5 DEF Present
      <4> QED
        BY <3>1, <3>5, <4>1 DEF ProviderKept, Retried, CurrentHost
    <3>6. CASE Delayed(p2, p) /\ m.who \in {"ensure-start", "restart"} /\ m.gen = p.gen /\ ~CurrentHost(p)
      <4>1. ~Young(p2, h2)
        BY <3>3, <3>6 DEF Present
      <4> QED
        BY <3>1, <3>6, <4>1 DEF ProviderKept, Delayed, CurrentHost
    <3> QED
      BY <2>3, <3>4, <3>5, <3>6 DEF Halted
  <2> QED
    BY <2>1, <2>2, <2>3 DEF ProviderKept
<1> QED
  BY <1>1, <1>7, <1>8

\* A provider that differs from the one of the state in its host and status only.
Sibling(x, p) == x \in Providers /\ x.gen = p.gen /\ x.stopped = p.stopped /\ x.aborted = p.aborted

LEMMA FailKeeps ==
  ASSUME TunnelInv, NEW x, Sibling(x, provider), NEW retryable \in BOOLEAN, MutationFails(x, retryable),
         LineKept(x, hosting, mutation, line), ProviderKept(x, hosting, mutation), mutation.who # "none",
         retryable => ~(mutation.who # "timer" /\ Present(mutation, x) /\ Running(x) /\ CurrentHost(x))
  PROVE  /\ provider' \in Providers /\ hosting' \in Hostings /\ mutation' = NoMutation
         /\ hosting' = hosting \/ hosting' = Idle
         /\ LineKept(provider', hosting', mutation', line) /\ ProviderKept(provider', hosting', mutation')
         /\ provider'.host = x.host
<1>1. /\ hosting \in Hostings /\ mutation \in Mutations /\ line \in Seq(InLine) /\ x \in Providers
  BY DEF TunnelInv, TunnelTypeOK, Sibling
<1> DEFINE p2 == AfterFailure(x, mutation.who, mutation.gen, retryable)
           h2 == IF mutation.who \in Ensures THEN Idle ELSE hosting
<1>2. provider' = p2 /\ hosting' = h2 /\ mutation' = NoMutation
  BY DEF MutationFails, Ensures
<1>3. Active(mutation.gen) => mutation.gen = x.gen /\ Running(x)
  BY DEF Active, Running, Sibling
<1>4. \/ p2 = x
      \/ Halted(p2, x)
      \/ Retried(p2, x) /\ mutation.who = "timer" /\ x.status = "ready" /\ mutation.gen = x.gen
      \/ Delayed(p2, x) /\ mutation.who \in {"ensure-start", "restart"} /\ mutation.gen = x.gen /\ ~CurrentHost(x)
  <2> HIDE DEF p2
  <2>1. \/ p2 = x
        \/ Active(mutation.gen) /\ Halted(p2, x)
        \/ Active(mutation.gen) /\ Retried(p2, x) /\ mutation.who = "timer" /\ x.status = "ready"
        \/ Active(mutation.gen) /\ Delayed(p2, x) /\ mutation.who \in {"ensure-start", "restart"} /\ retryable
    BY <1>1, FailureIs DEF p2
  <2> QED
    BY <1>3, <2>1 DEF Present
<1> HIDE DEF p2
<1>5. p2 \in Providers /\ p2.host = x.host
  BY <1>1, <1>4 DEF Halted, Retried, Delayed
<1>6. h2 \in Hostings /\ LineKept(p2, h2, NoMutation, line) /\ ProviderKept(p2, h2, NoMutation)
  BY <1>1, <1>4, <1>5, EndKeeps
<1> QED
  BY <1>2, <1>5, <1>6

\* ensureHosted gives up before it waits for a mutation.
LEMMA GiveUpKeeps ==
  ASSUME TunnelInv, hosting.phase \notin {"none", "waiting"}, NEW p2 \in Providers,
         p2 = provider \/ Halted(p2, provider)
  PROVE  LineKept(p2, Idle, mutation, line) /\ ProviderKept(p2, Idle, mutation)
<1>1. /\ provider \in Providers /\ hosting \in Hostings /\ mutation \in Mutations /\ line \in Seq(InLine)
      /\ LineKept(provider, hosting, mutation, line) /\ ProviderKept(provider, hosting, mutation)
  BY DEF TunnelInv, TunnelTypeOK
<1>2. Idle \in Hostings /\ Idle.phase = "none"
  BY DEF Idle, Hostings
<1>3. p2.gen >= provider.gen /\ p2.of = provider.of /\ p2.host = provider.host /\ p2.gen \in Nat /\ provider.gen \in Nat
      /\ (Running(p2) => p2 = provider)
  BY <1>1 DEF Halted, Providers
<1>4. ASSUME NEW x, x.gen \in Nat, Kept(x, provider, hosting)  PROVE Kept(x, p2, Idle)
  BY <1>2, <1>3, <1>4 DEF Kept, Young
<1>5. Kept(mutation, p2, Idle)
  BY <1>1, <1>4 DEF LineKept, Mutations
<1>6. WorkKept(mutation, p2)
  BY <1>1, <1>3 DEF LineKept, WorkKept
<1>7. LineKept(p2, Idle, mutation, line)
  BY <1>1, <1>2, <1>3, <1>4, <1>5, <1>6, SameLine DEF InLine, Mutations
<1>8. ProviderKept(p2, Idle, mutation)
  BY <1>1, <1>2, <1>3 DEF ProviderKept, Young, Providers
<1> QED
  BY <1>7, <1>8

LEMMA GiveUps ==
  ASSUME TunnelInv, (\E retryable \in BOOLEAN : EnsureFails(retryable)) \/ TunnelIsGone
                    \/ (Provisioned /\ (service.age = "expired" \/ ~Active(hosting.gen)))
  PROVE  TunnelInv'
<1>1. /\ provider \in Providers /\ hosting \in Hostings /\ mutation \in Mutations /\ line \in Seq(InLine)
      /\ record \in Records /\ service \in Services
      /\ LineKept(provider, hosting, mutation, line) /\ ProviderKept(provider, hosting, mutation)
      /\ HostKept(provider, mutation, service) /\ AccessKept(provider, hosting, mutation, record, service)
  BY DEF TunnelInv, TunnelTypeOK
<1>2. /\ UNCHANGED <<mutation, line, record>> /\ hosting' = Idle /\ hosting.phase \notin {"none", "waiting"}
      /\ \E retryable \in BOOLEAN : provider' = AfterFailure(provider, "ensure-renew", hosting.gen, retryable)
      /\ service' = service \/ service' = WithFault(service)
  BY DEF EnsureFails, TunnelIsGone, Provisioned, Failing
<1>3. /\ service' \in Services /\ service'.up = service.up /\ service'.broken = service.broken
      /\ service'.access = service.access /\ service'.tunnel = service.tunnel
  <2> DEFINE n == service.faults + 1
  <2>1. n \in Nat
    BY <1>1 DEF Services
  <2>2. service' = service \/ service' = [service EXCEPT !.faults = n]
    BY <1>2 DEF WithFault
  <2> HIDE DEF n
  <2> QED
    BY <1>1, <2>1, <2>2 DEF Services
<1>4. provider' = provider \/ (Active(hosting.gen) /\ Halted(provider', provider))
  BY <1>1, <1>2, FailureIs
<1>5. provider' \in Providers /\ provider'.host = provider.host
  BY <1>1, <1>4 DEF Halted
<1>6. Idle \in Hostings /\ Idle.phase = "none"
  BY DEF Idle, Hostings
<1>7. LineKept(provider', Idle, mutation, line) /\ ProviderKept(provider', Idle, mutation)
  BY <1>2, <1>4, <1>5, GiveUpKeeps
<1>8. mutation.phase \in Destructive => service.broken \/ provider' = provider
  <2> SUFFICES ASSUME mutation.phase \in Destructive, ~service.broken, Active(hosting.gen)  PROVE FALSE
    BY <1>4
  <2>1. Running(provider) /\ mutation.gen = provider.gen
    BY <1>1 DEF AccessKept
  <2>2. Young(provider, hosting) /\ Kept(mutation, provider, hosting) /\ WorkKept(mutation, provider)
    BY <1>1, <1>2 DEF Young, Active, LineKept
  <2>3. mutation.who # "none"
    BY <2>2 DEF WorkKept, NoMutation, Destructive
  <2>4. mutation.who \in Ensures
    BY <2>1, <2>2, <2>3 DEF Kept, Present
  <2> QED
    BY <1>2, <2>2, <2>4 DEF Kept
<1>9. AccessKept(provider', Idle, mutation, record, service')
  BY <1>1, <1>3, <1>6, <1>8 DEF AccessKept
<1>10. HostKept(provider', mutation, service')
  BY <1>1, <1>3, <1>5 DEF HostKept
<1> QED
  BY <1>1, <1>2, <1>3, <1>5, <1>6, <1>7, <1>9, <1>10 DEF TunnelInv, TunnelTypeOK

\* ensureHosted begins a lifecycle: no mutation and no process is of it.
LEMMA EnsureHostedKeeps ==
  ASSUME TunnelInv, EnsureHosted
  PROVE  TunnelInv'
<1>1. /\ provider \in Providers /\ hosting \in Hostings /\ mutation \in Mutations /\ line \in Seq(InLine)
      /\ record \in Records /\ service \in Services
      /\ LineKept(provider, hosting, mutation, line) /\ ProviderKept(provider, hosting, mutation)
      /\ HostKept(provider, mutation, service) /\ AccessKept(provider, hosting, mutation, record, service)
  BY DEF TunnelInv, TunnelTypeOK
<1> DEFINE n == provider.gen + 1
           b == service.broken \/ mutation.phase \in Destructive
<1>2. n \in Nat /\ n > provider.gen /\ b \in BOOLEAN
  BY <1>1 DEF Providers, Services
<1>3. /\ provider' = [provider EXCEPT !.stopped = FALSE, !.aborted = FALSE, !.gen = n, !.status = "starting",
                                      !.restart = FALSE, !.timer = "none"]
      /\ hosting' = [phase |-> "probing", gen |-> n] /\ hosting.phase = "none"
      /\ service' = [service EXCEPT !.broken = b] /\ UNCHANGED <<mutation, line, record>>
  BY DEF EnsureHosted, Idle
<1>4. mutation.phase \in Destructive => b
  OBVIOUS
<1>5. service.broken => b
  OBVIOUS
<1> HIDE DEF n, b
<1>6. /\ provider' \in Providers /\ provider'.gen = n /\ provider'.host = provider.host /\ provider'.of = provider.of
      /\ provider'.status = "starting" /\ provider'.timer = "none"
  BY <1>1, <1>2, <1>3 DEF Providers
<1>7. provider'.restart = FALSE
  BY <1>1, <1>3 DEF Providers
<1>8. /\ service' \in Services /\ service'.up = service.up /\ service'.access = service.access
      /\ service'.tunnel = service.tunnel
  BY <1>1, <1>2, <1>3 DEF Services
<1>9. service'.broken = b
  BY <1>1, <1>3 DEF Services
<1>10. hosting' \in Hostings /\ hosting'.phase = "probing" /\ hosting'.gen = n
  BY <1>2, <1>3 DEF Hostings
<1>11. ASSUME NEW x, x.gen \in Nat, Kept(x, provider, hosting)
      PROVE  Kept(x, provider', hosting') /\ ~Present(x, provider')
  BY <1>1, <1>2, <1>3, <1>6, <1>11 DEF Kept, Present, Providers
<1>12. Kept(mutation, provider, hosting) /\ mutation.gen \in Nat
  BY <1>1 DEF LineKept, Mutations
<1>13. ASSUME NEW i \in 1..Len(line)
       PROVE  Kept(line[i], provider', hosting') /\ ~Present(line[i], provider') /\ Before(mutation, line[i], provider')
  <2>1. line[i] \in InLine /\ Kept(line[i], provider, hosting) /\ Before(mutation, line[i], provider)
    BY <1>1 DEF LineKept
  <2>2. Kept(line[i], provider', hosting') /\ ~Present(line[i], provider')
    BY <1>11, <2>1 DEF InLine, Mutations
  <2> QED
    BY <2>1, <2>2 DEF Before
<1>14. \A i, j \in 1..Len(line) : i < j => Before(line[i], line[j], provider')
  BY <1>1, <1>13 DEF LineKept, Before
<1>15. WorkKept(mutation, provider')
  BY <1>1, <1>6 DEF LineKept, WorkKept
<1>16. LineKept(provider', hosting', mutation, line)
  BY <1>11, <1>12, <1>13, <1>14, <1>15 DEF LineKept
<1>17. ProviderKept(provider', hosting', mutation)
  <2>1. provider'.of < n
    BY <1>1, <1>2, <1>6 DEF ProviderKept, Providers
  <2> QED
    BY <1>2, <1>6, <1>7, <1>10, <2>1 DEF ProviderKept, CurrentHost, Providers
<1>18. HostKept(provider', mutation, service')
  BY <1>1, <1>6, <1>8 DEF HostKept
<1>19. AccessKept(provider', hosting', mutation, record, service')
  BY <1>1, <1>8, <1>9, <1>10, <1>4, <1>5 DEF AccessKept
<1> QED
  BY <1>1, <1>3, <1>6, <1>8, <1>10, <1>16, <1>17, <1>18, <1>19 DEF TunnelInv, TunnelTypeOK

\* One more mutation waits.
LEMMA JoinsLine ==
  ASSUME NEW p \in Providers, NEW h \in Hostings, NEW m \in Mutations, NEW l \in Seq(InLine), LineKept(p, h, m, l),
         NEW y \in InLine, Kept(y, p, h), Before(m, y, p), \A i \in 1..Len(l) : Before(l[i], y, p)
  PROVE  Append(l, y) \in Seq(InLine) /\ LineKept(p, h, m, Append(l, y))
<1> DEFINE l2 == Append(l, y)
<1>1. l2 \in Seq(InLine) /\ Len(l2) = Len(l) + 1 /\ l2[Len(l) + 1] = y /\ \A i \in 1..Len(l) : l2[i] = l[i] /\ l[i] \in InLine
  OBVIOUS
<1> HIDE DEF l2
<1>2. ASSUME NEW i \in 1..Len(l2)  PROVE Kept(l2[i], p, h) /\ Before(m, l2[i], p)
  <2>1. i \in 1..Len(l) \/ i = Len(l) + 1
    BY <1>1
  <2> QED
    BY <1>1, <2>1 DEF LineKept
<1>3. ASSUME NEW i \in 1..Len(l2), NEW j \in 1..Len(l2), i < j  PROVE Before(l2[i], l2[j], p)
  <2>1. i \in 1..Len(l) /\ (j \in 1..Len(l) \/ j = Len(l) + 1)
    BY <1>1, <1>3
  <2> QED
    BY <1>1, <1>3, <2>1 DEF LineKept
<1>4. LineKept(p, h, m, l2)
  BY <1>2, <1>3 DEF LineKept
<1> QED
  BY <1>1, <1>4 DEF l2

LEMMA ProvisionedKeeps ==
  ASSUME TunnelInv, Provisioned, service.age # "expired", Active(hosting.gen)
  PROVE  TunnelInv'
<1>1. /\ provider \in Providers /\ hosting \in Hostings /\ mutation \in Mutations /\ line \in Seq(InLine)
      /\ record \in Records /\ service \in Services
      /\ LineKept(provider, hosting, mutation, line) /\ ProviderKept(provider, hosting, mutation)
      /\ HostKept(provider, mutation, service) /\ AccessKept(provider, hosting, mutation, record, service)
  BY DEF TunnelInv, TunnelTypeOK
<1> DEFINE who == IF service.age = "due" THEN "ensure-renew" ELSE "ensure-start"
           y == [NoMutation EXCEPT !.who = who, !.gen = hosting.gen, !.phase = "loading"]
<1>2. /\ hosting.phase = "provisioned" /\ hosting' = [hosting EXCEPT !.phase = "waiting"] /\ line' = Append(line, y)
      /\ UNCHANGED <<provider, mutation, record, service>>
  BY DEF Provisioned, EnsureGoes, NoMutation
<1>3. who \in Ensures
  BY DEF Ensures
<1> HIDE DEF who
<1>4. y \in InLine /\ y.who = who /\ y.gen = hosting.gen
  <2>1. hosting.gen \in Nat /\ who \in {"ensure-renew", "ensure-start", "restart", "timer"}
    BY <1>1, <1>3 DEF Hostings, Ensures
  <2> QED
    BY <2>1 DEF NoMutation, InLine, Mutations
<1> HIDE DEF y
<1>5. hosting' \in Hostings /\ hosting'.phase = "waiting" /\ hosting'.gen = hosting.gen
  BY <1>1, <1>2 DEF Hostings
<1>6. Running(provider) /\ hosting.gen = provider.gen /\ Young(provider, hosting)
  BY <1>2 DEF Active, Running, Young
<1>7. ASSUME NEW x, Kept(x, provider, hosting)
      PROVE  Kept(x, provider, hosting') /\ x.who \notin Ensures /\ ~Present(x, provider)
  BY <1>2, <1>5, <1>6, <1>7 DEF Kept, Young
<1>8. Kept(mutation, provider, hosting) /\ WorkKept(mutation, provider)
  BY <1>1 DEF LineKept
<1>9. LineKept(provider, hosting', mutation, line)
  BY <1>1, <1>5, <1>7, <1>8, SameLine
<1>10. ProviderKept(provider, hosting', mutation)
  BY <1>1, <1>2, <1>5 DEF ProviderKept, Young
<1>11. Kept(y, provider, hosting')
  <2>1. ~provider.restart /\ provider.timer = "none" /\ provider.status # "ready" /\ ~CurrentHost(provider)
    BY <1>1, <1>6, <1>7, <1>8 DEF ProviderKept
  <2> QED
    BY <1>1, <1>3, <1>4, <1>5, <1>6, <2>1 DEF Kept, Hostings
<1>12. Before(mutation, y, provider) /\ \A i \in 1..Len(line) : Before(line[i], y, provider)
  BY <1>1, <1>7, <1>8 DEF Before, LineKept
<1>13. line' \in Seq(InLine) /\ LineKept(provider, hosting', mutation, line')
  BY <1>1, <1>2, <1>4, <1>5, <1>9, <1>11, <1>12, JoinsLine
<1>14. AccessKept(provider, hosting', mutation, record, service)
  BY <1>1, <1>5 DEF AccessKept
<1> QED
  BY <1>1, <1>2, <1>5, <1>10, <1>13, <1>14 DEF TunnelInv, TunnelTypeOK

LEMMA TakeLockKeeps ==
  ASSUME TunnelInv, TakeLock
  PROVE  TunnelInv'
<1>1. /\ provider \in Providers /\ hosting \in Hostings /\ mutation \in Mutations /\ line \in Seq(InLine)
      /\ record \in Records /\ service \in Services
      /\ LineKept(provider, hosting, mutation, line) /\ ProviderKept(provider, hosting, mutation)
      /\ HostKept(provider, mutation, service) /\ AccessKept(provider, hosting, mutation, record, service)
  BY DEF TunnelInv, TunnelTypeOK
<1>2. /\ mutation = NoMutation /\ line # <<>> /\ mutation' = Head(line) /\ line' = Tail(line)
      /\ UNCHANGED <<provider, hosting, record, service>>
  BY DEF TakeLock
<1>3. /\ Len(line) \in Nat \ {0} /\ Head(line) = line[1] /\ Len(Tail(line)) = Len(line) - 1 /\ Tail(line) \in Seq(InLine)
      /\ \A i \in 1..Len(Tail(line)) : Tail(line)[i] = line[i + 1]
  BY <1>1, <1>2
<1>4. Head(line) \in InLine
  BY <1>1, <1>3
<1>5. Head(line) \in Mutations /\ Head(line).phase = "loading" /\ Head(line).who # "none"
  BY <1>4 DEF InLine
<1>6. LineKept(provider, hosting, Head(line), Tail(line))
  <2>1. WorkKept(Head(line), provider)
    BY <1>5 DEF WorkKept, InHands
  <2>2. Kept(Head(line), provider, hosting)
    BY <1>1, <1>3 DEF LineKept
  <2>3. ASSUME NEW i \in 1..Len(Tail(line))
        PROVE  Kept(Tail(line)[i], provider, hosting) /\ Before(Head(line), Tail(line)[i], provider)
    <3>1. 1 \in 1..Len(line) /\ i + 1 \in 1..Len(line) /\ 1 < i + 1
      BY <1>3
    <3> QED
      BY <1>1, <1>3, <3>1 DEF LineKept
  <2>4. ASSUME NEW i \in 1..Len(Tail(line)), NEW j \in 1..Len(Tail(line)), i < j
        PROVE  Before(Tail(line)[i], Tail(line)[j], provider)
    <3>1. j + 1 \in 1..Len(line) /\ i + 1 \in 1..Len(line) /\ i + 1 < j + 1
      BY <1>3, <2>4
    <3> QED
      BY <1>1, <1>3, <3>1 DEF LineKept
  <2> QED
    BY <2>1, <2>2, <2>3, <2>4 DEF LineKept
<1>7. NoMutation.who = "none" /\ NoMutation.phase = "none"
  BY DEF NoMutation
<1>8. ProviderKept(provider, hosting, Head(line))
  BY <1>1, <1>2, <1>7 DEF ProviderKept, InHands
<1>9. HostKept(provider, Head(line), service) /\ AccessKept(provider, hosting, Head(line), record, service)
  BY <1>1, <1>2, <1>5, <1>7 DEF HostKept, AccessKept, Destructive
<1> QED
  BY <1>1, <1>2, <1>3, <1>5, <1>6, <1>8, <1>9 DEF TunnelInv, TunnelTypeOK

\* The mutation at work goes to another phase.
LEMMA MoveKeeps ==
  ASSUME TunnelInv, NEW m2, NEW to,
         to \in {"loading", "listing", "deleting", "regranting", "storing", "closing", "checking", "spawning",
                 "probing", "saving", "stopping"},
         m2 = [mutation EXCEPT !.phase = to], mutation.phase # "none",
         to \in InHands <=> mutation.phase \in InHands,
         to = "spawning" => provider.host = "none",
         mutation.who \in {"timer", "ensure-renew"} => to \in {"loading", "closing"} \cup Renewing
  PROVE  /\ m2 \in Mutations /\ m2.phase = to /\ m2.who = mutation.who /\ m2.gen = mutation.gen /\ m2.who # "none"
         /\ LineKept(provider, hosting, m2, line) /\ ProviderKept(provider, hosting, m2)
         /\ HostKept(provider, m2, service)
<1>1. /\ provider \in Providers /\ hosting \in Hostings /\ mutation \in Mutations /\ line \in Seq(InLine)
      /\ LineKept(provider, hosting, mutation, line) /\ ProviderKept(provider, hosting, mutation)
      /\ HostKept(provider, mutation, service)
  BY DEF TunnelInv, TunnelTypeOK
<1>2. m2 \in Mutations /\ m2.phase = to /\ m2.who = mutation.who /\ m2.gen = mutation.gen
  BY <1>1 DEF Mutations
<1>3. WorkKept(mutation, provider) /\ Kept(mutation, provider, hosting)
  BY <1>1 DEF LineKept
<1>4. mutation.who # "none"
  BY <1>3 DEF WorkKept, NoMutation
<1>5. WorkKept(m2, provider)
  BY <1>2, <1>3, <1>4 DEF WorkKept
<1>6. Kept(m2, provider, hosting)
  BY <1>2, <1>3 DEF Kept, Present
<1>7. LineKept(provider, hosting, m2, line)
  BY <1>1, <1>2, <1>5, <1>6, SameLine
<1>8. ProviderKept(provider, hosting, m2) /\ HostKept(provider, m2, service)
  BY <1>1, <1>2 DEF ProviderKept, HostKept, Present
<1> QED
  BY <1>2, <1>4, <1>7, <1>8

LEMMA MutationMoves ==
  ASSUME TunnelInv, \/ ListAccess \/ DeleteAccess \/ RecreateAccess \/ HostAnswers
                    \/ Check /\ provider.host = "none" /\ AsOnRecord
                    \/ LoadRecord /\ service.age # "expired"
  PROVE  TunnelInv'
<1>1. /\ provider \in Providers /\ hosting \in Hostings /\ mutation \in Mutations /\ line \in Seq(InLine)
      /\ record \in Records /\ service \in Services
      /\ LineKept(provider, hosting, mutation, line) /\ WorkKept(mutation, provider)
      /\ HostKept(provider, mutation, service) /\ AccessKept(provider, hosting, mutation, record, service)
  BY DEF TunnelInv, TunnelTypeOK, LineKept
<1>2. Active(mutation.gen) /\ Running(provider) /\ mutation.gen = provider.gen /\ UNCHANGED <<provider, hosting, line, record>>
  BY DEF ListAccess, DeleteAccess, RecreateAccess, HostAnswers, Check, LoadRecord, Active, Running
<1>3. PICK to : mutation' = [mutation EXCEPT !.phase = to]
                /\ \/ /\ mutation.phase = "loading" /\ to = (IF Starts(mutation) /\ service.age = "fresh" THEN "checking" ELSE "listing")
                      /\ service' = service
                   \/ mutation.phase = "listing" /\ to = "deleting" /\ service' = service
                   \/ mutation.phase = "deleting" /\ to = "regranting" /\ service' = [service EXCEPT !.access = 0]
                   \/ mutation.phase = "regranting" /\ to = "storing" /\ service' = Granted
                   \/ mutation.phase = "checking" /\ to = "spawning" /\ provider.host = "none" /\ service' = service
                   \/ mutation.phase = "probing" /\ to = "saving" /\ service' = service
  BY DEF ListAccess, DeleteAccess, RecreateAccess, HostAnswers, Check, LoadRecord, MutationGoes
<1>4. mutation.who \in {"timer", "ensure-renew"} => mutation.phase \in {"loading", "closing"} \cup Renewing
  BY <1>1 DEF WorkKept
<1>5. /\ to \in {"listing", "deleting", "regranting", "storing", "checking", "spawning", "saving"}
      /\ mutation.phase # "none" /\ (to \in InHands <=> mutation.phase \in InHands)
      /\ (to = "spawning" => provider.host = "none")
      /\ (mutation.who \in {"timer", "ensure-renew"} => to \in {"loading", "closing"} \cup Renewing)
  BY <1>3, <1>4 DEF InHands, Renewing, Destructive, Starts
<1>6. /\ mutation' \in Mutations /\ mutation'.phase = to /\ mutation'.gen = mutation.gen
      /\ LineKept(provider, hosting, mutation', line) /\ ProviderKept(provider, hosting, mutation')
      /\ HostKept(provider, mutation', service)
  BY <1>3, <1>5, MoveKeeps
<1>7. /\ service' \in Services /\ service'.up = service.up /\ service'.broken = service.broken
      /\ service'.tunnel = service.tunnel /\ (to \notin {"regranting", "storing"} => service'.access = service.access)
  <2>1. CASE service' = service
    BY <1>1, <2>1
  <2>2. CASE to = "regranting" /\ service' = [service EXCEPT !.access = 0]
    BY <1>1, <2>2 DEF Services
  <2>3. CASE to = "storing" /\ service' = Granted
    <3> DEFINE g == 3 - service.given
    <3>1. g \in 1..2 /\ g \in 0..2
      <4>1. service.given \in 1..2
        BY <1>1 DEF Services
      <4> QED
        BY <4>1
    <3>2. service' = [service EXCEPT !.access = g, !.given = g, !.age = "fresh"] /\ service \in Services
      BY <1>1, <2>3 DEF Granted
    <3> HIDE DEF g
    <3>3. service' \in Services
      BY <3>1, <3>2 DEF Services
    <3>4. service'.up = service.up /\ service'.broken = service.broken /\ service'.tunnel = service.tunnel
      BY <3>2 DEF Services
    <3> QED
      BY <2>3, <3>3, <3>4
  <2> QED
    BY <1>3, <2>1, <2>2, <2>3
<1>8. AccessKept(provider, hosting, mutation', record, service')
  <2>1. mutation'.phase \in Destructive => Running(provider) /\ mutation'.gen = provider.gen
    BY <1>2, <1>6
  <2>2. to \notin Destructive => mutation.phase \notin Destructive /\ service'.access = service.access
    BY <1>3, <1>7 DEF Destructive
  <2> QED
    BY <1>1, <1>6, <1>7, <2>1, <2>2 DEF AccessKept
<1>9. HostKept(provider, mutation', service')
  BY <1>6, <1>7 DEF HostKept
<1> QED
  BY <1>1, <1>2, <1>6, <1>7, <1>8, <1>9 DEF TunnelInv, TunnelTypeOK

LEMMA StoreRenewalKeeps ==
  ASSUME TunnelInv, StoreRenewal
  PROVE  TunnelInv'
<1>1. /\ provider \in Providers /\ hosting \in Hostings /\ mutation \in Mutations /\ line \in Seq(InLine)
      /\ record \in Records /\ service \in Services
      /\ LineKept(provider, hosting, mutation, line) /\ ProviderKept(provider, hosting, mutation)
      /\ HostKept(provider, mutation, service) /\ AccessKept(provider, hosting, mutation, record, service)
  BY DEF TunnelInv, TunnelTypeOK
<1>2. /\ mutation.phase = "storing" /\ record' = [record EXCEPT !.access = service.access] /\ UNCHANGED <<line, service>>
      /\ Running(provider) /\ mutation.gen = provider.gen
  BY DEF StoreRenewal, Active, Running
<1>3. WorkKept(mutation, provider) /\ Kept(mutation, provider, hosting)
  BY <1>1 DEF LineKept
<1>4. mutation.who # "none" /\ Present(mutation, provider)
  BY <1>2, <1>3 DEF WorkKept, NoMutation, Present
<1>5. NoMutation \in Mutations /\ NoMutation.who = "none" /\ NoMutation.phase = "none" /\ NoMutation.gen = 0
  BY DEF NoMutation, Mutations
<1>6. /\ record' \in Records /\ record'.made = record.made /\ record'.ready = record.ready
      /\ record'.access = service.access
  <2>1. service.access \in 0..2
    BY <1>1 DEF Services
  <2> QED
    BY <1>1, <1>2, <2>1 DEF Records
<1>7. /\ provider' \in Providers /\ hosting' \in Hostings /\ mutation' \in Mutations
      /\ LineKept(provider', hosting', mutation', line) /\ ProviderKept(provider', hosting', mutation')
      /\ hosting'.phase \in {hosting.phase, "provisioned"} /\ mutation'.phase \in {"none", "checking"}
      /\ provider'.host = provider.host
  <2>1. CASE Starts(mutation)
    <3>1. mutation' = [mutation EXCEPT !.phase = "checking"] /\ UNCHANGED <<provider, hosting>>
      BY <2>1 DEF StoreRenewal, MutationGoes, Starts
    <3>2. mutation.who \notin {"timer", "ensure-renew"}
      BY <2>1 DEF Starts
    <3>3. /\ mutation' \in Mutations /\ mutation'.phase = "checking"
          /\ LineKept(provider, hosting, mutation', line) /\ ProviderKept(provider, hosting, mutation')
      BY <1>2, <3>1, <3>2, MoveKeeps DEF InHands
    <3> QED
      BY <1>1, <3>1, <3>3
  <2>2. CASE mutation.who = "timer"
    <3> DEFINE p2 == [provider EXCEPT !.timer = "renewal"]
    <3>1. /\ mutation' = NoMutation /\ UNCHANGED hosting
          /\ provider' = provider \/ (provider' = p2 /\ provider.status = "ready")
      BY <2>2 DEF StoreRenewal, Starts
    <3>2. p2 \in Providers /\ p2.timer = "renewal" /\ p2.gen = provider.gen /\ p2.host = provider.host /\ p2.of = provider.of
          /\ p2.attempts = provider.attempts /\ p2.status = provider.status
      BY <1>1 DEF Providers
    <3>3. p2.stopped = provider.stopped /\ p2.aborted = provider.aborted /\ p2.restart = provider.restart
      BY <1>1 DEF Providers
    <3>4. Retried(p2, provider)
      BY <3>2, <3>3 DEF Retried
    <3>5. provider' \in Providers /\ provider'.host = provider.host
      BY <1>1, <3>1, <3>2
    <3> HIDE DEF p2
    <3>6. mutation.who \notin Ensures
      BY <2>2 DEF Ensures
    <3>7. LineKept(provider', hosting, NoMutation, line) /\ ProviderKept(provider', hosting, NoMutation)
      BY <1>1, <1>2, <1>4, <2>2, <3>1, <3>4, <3>5, <3>6, EndKeeps
    <3> QED
      BY <1>1, <1>5, <3>1, <3>5, <3>7
  <2>3. CASE mutation.who = "ensure-renew"
    <3>1. provider.status # "ready" /\ ~CurrentHost(provider) /\ hosting.phase = "waiting" /\ hosting.gen = mutation.gen
      BY <1>2, <1>3, <1>4, <2>3 DEF Kept, Ensures, InHands
    <3>2. mutation' = NoMutation /\ UNCHANGED provider /\ hosting' = [hosting EXCEPT !.phase = "provisioned"]
      BY <2>3, <3>1 DEF StoreRenewal, Starts
    <3>3. hosting' \in Hostings /\ hosting'.phase = "provisioned" /\ hosting'.gen = hosting.gen
      BY <1>1, <3>2 DEF Hostings
    <3>4. WorkKept(NoMutation, provider) /\ Kept(NoMutation, provider, hosting')
      BY <1>1, <1>5 DEF WorkKept, Kept, Present, InHands, Ensures, Providers
    <3>5. ASSUME NEW x \in InLine, Kept(x, provider, hosting), Before(mutation, x, provider)  PROVE Kept(x, provider, hosting')
      BY <2>3, <3>1, <3>3, <3>5 DEF Kept, Before, Young, Ensures
    <3>6. LineKept(provider, hosting', NoMutation, line)
      BY <1>1, <1>5, <3>3, <3>4, <3>5, SameLine
    <3>7. ProviderKept(provider, hosting', NoMutation)
      BY <1>1, <3>1, <3>3 DEF ProviderKept, Young
    <3> QED
      BY <1>1, <1>5, <3>2, <3>3, <3>6, <3>7
  <2> QED
    BY <1>1, <1>4, <2>1, <2>2, <2>3 DEF Mutations, Starts
<1>8. AccessKept(provider', hosting', mutation', record', service)
  BY <1>1, <1>6, <1>7 DEF AccessKept, Destructive
<1>9. HostKept(provider', mutation', service)
  BY <1>1, <1>7 DEF HostKept
<1> QED
  BY <1>1, <1>2, <1>6, <1>7, <1>8, <1>9 DEF TunnelInv, TunnelTypeOK

\* A provider that has given up more than another: its host, a timer.
Lesser(p2, p) ==
  /\ p2 \in Providers
  /\ p2.gen = p.gen /\ p2.stopped = p.stopped /\ p2.aborted = p.aborted /\ p2.attempts = p.attempts /\ p2.of = p.of
  /\ p2.host = p.host \/ p2.host = "none" \/ (p.host = "up" /\ p2.host = "exited")
  /\ p2.restart = p.restart \/ p2.restart = FALSE
  /\ p2.timer \in {p.timer, "none"}
  /\ p2.status = p.status \/ p2.status # "ready"

LEMMA LesserKeeps ==
  ASSUME NEW p \in Providers, NEW p2, Lesser(p2, p), NEW h \in Hostings,
         NEW m \in Mutations, NEW m2 \in Mutations, NEW l \in Seq(InLine),
         LineKept(p, h, m, l), ProviderKept(p, h, m),
         m2 = m \/ (m2.who = m.who /\ m2.gen = m.gen /\ m2.phase = "stopping" /\ m.phase \in InHands)
  PROVE  LineKept(p2, h, m2, l) /\ ProviderKept(p2, h, m2) /\ WorkKept(m2, p2) /\ Sibling(p2, p)
<1>1. p2 \in Providers /\ (CurrentHost(p2) => CurrentHost(p)) /\ (Running(p2) <=> Running(p)) /\ Sibling(p2, p)
  BY DEF Lesser, CurrentHost, Running, Sibling
<1>2. ASSUME NEW x, Kept(x, p, h)  PROVE Kept(x, p2, h)
  BY <1>1, <1>2 DEF Kept, Lesser, Present, Young
<1>3. Kept(m, p, h) /\ WorkKept(m, p)
  BY DEF LineKept
<1>4. WorkKept(m2, p2)
  <2>1. m.phase \in InHands => m.who \notin {"none", "timer", "ensure-renew"} /\ (p2.host = "none" \/ p2.of = m.gen)
    BY <1>3 DEF WorkKept, NoMutation, InHands, Renewing, Destructive, Lesser
  <2> QED
    BY <1>3, <2>1 DEF WorkKept
<1>5. Kept(m2, p2, h)
  <2>1. Kept(m, p2, h)
    BY <1>2, <1>3
  <2> QED
    BY <2>1 DEF Kept, Present, InHands
<1>6. LineKept(p2, h, m2, l)
  BY <1>1, <1>2, <1>4, <1>5, SameLine DEF Lesser
<1>7. ProviderKept(p2, h, m2)
  BY <1>1 DEF ProviderKept, Lesser, Young, Present, InHands
<1> QED
  BY <1>1, <1>4, <1>6, <1>7

LEMMA HaltKeeps ==
  ASSUME NEW p \in Providers, NEW p2, Halted(p2, p), NEW h \in Hostings,
         NEW m \in Mutations, NEW m2 \in Mutations, NEW l \in Seq(InLine),
         LineKept(p, h, m, l), ProviderKept(p, h, m),
         m2 = m \/ (m2.who = m.who /\ m2.gen = m.gen /\ m2.phase = "closing" /\ m.phase # "none")
  PROVE  p2 \in Providers /\ LineKept(p2, h, m2, l) /\ ProviderKept(p2, h, m2)
<1>1. WorkKept(m, p)
  BY DEF LineKept
<1>2. p2 \in Providers /\ ~Running(p2) /\ p2.gen >= p.gen /\ p2.host = p.host /\ p2.of = p.of
  BY DEF Halted
<1>3. WorkKept(m2, p2)
  BY <1>1, <1>2 DEF WorkKept, NoMutation, InHands
<1>4. LineKept(p2, h, m2, l)
  BY <1>2, <1>3, LineHalts
<1>5. ProviderKept(p2, h, m2)
  BY <1>2 DEF ProviderKept, Providers, Hostings
<1> QED
  BY <1>2, <1>4, <1>5

\* The mutation at work fails, with the provider as it is.
LEMMA WorkFails ==
  ASSUME TunnelInv, NEW retryable \in BOOLEAN, MutationFails(provider, retryable), mutation.phase # "none",
         retryable => mutation.phase \notin InHands \/ provider.host = "none"
  PROVE  /\ provider' \in Providers /\ hosting' \in Hostings /\ mutation' \in Mutations /\ mutation'.phase = "none"
         /\ hosting' = hosting \/ hosting'.phase = "none"
         /\ LineKept(provider', hosting', mutation', line) /\ ProviderKept(provider', hosting', mutation')
         /\ provider'.host = provider.host
<1>1. /\ provider \in Providers /\ hosting \in Hostings /\ mutation \in Mutations /\ line \in Seq(InLine)
      /\ LineKept(provider, hosting, mutation, line) /\ ProviderKept(provider, hosting, mutation)
  BY DEF TunnelInv, TunnelTypeOK
<1>2. WorkKept(mutation, provider) /\ Kept(mutation, provider, hosting)
  BY <1>1 DEF LineKept
<1>3. mutation.who # "none"
  BY <1>2 DEF WorkKept, NoMutation
<1>4. retryable => ~(mutation.who # "timer" /\ Present(mutation, provider) /\ Running(provider) /\ CurrentHost(provider))
  BY <1>2 DEF Kept, CurrentHost
<1>5. Sibling(provider, provider)
  BY <1>1 DEF Sibling
<1>6. NoMutation \in Mutations /\ NoMutation.phase = "none" /\ Idle.phase = "none"
  BY DEF NoMutation, Mutations, Idle
<1> QED
  BY <1>1, <1>3, <1>4, <1>5, <1>6, FailKeeps

LEMMA FailingIs ==
  ASSUME NEW g, service \in Services
  PROVE  LET s == Failing(g) IN
         /\ s \in Services /\ s.up = service.up /\ s.access = service.access /\ s.tunnel = service.tunnel
         /\ s.broken = service.broken
<1> DEFINE n == service.faults + 1
           c == [service EXCEPT !.faults = n]
<1>1. n \in Nat
  BY DEF Services
<1>2. Failing(g) = service \/ Failing(g) = c
  BY DEF Failing, WithFault
<1> HIDE DEF n
<1>3. c \in Services /\ c.up = service.up /\ c.access = service.access /\ c.tunnel = service.tunnel
  BY <1>1 DEF Services
<1>4. c.broken = service.broken
  BY <1>1 DEF Services
<1> HIDE DEF c
<1> QED
  BY <1>2, <1>3, <1>4

\* A mutation that closes the circuit goes on until the host is stopped.
LEMMA Closes ==
  ASSUME TunnelInv, mutation.phase # "none", provider' = OpenedAndStopping(provider), MutationGoes("closing")
  PROVE  /\ provider' \in Providers /\ mutation' \in Mutations /\ mutation'.phase = "closing"
         /\ LineKept(provider', hosting, mutation', line) /\ ProviderKept(provider', hosting, mutation')
         /\ provider'.host = provider.host
<1>1. /\ provider \in Providers /\ hosting \in Hostings /\ mutation \in Mutations /\ line \in Seq(InLine)
      /\ LineKept(provider, hosting, mutation, line) /\ ProviderKept(provider, hosting, mutation)
  BY DEF TunnelInv, TunnelTypeOK
<1>2. mutation' = [mutation EXCEPT !.phase = "closing"]
  BY DEF MutationGoes
<1>3. mutation' \in Mutations /\ mutation'.phase = "closing" /\ mutation'.who = mutation.who /\ mutation'.gen = mutation.gen
  BY <1>1, <1>2 DEF Mutations
<1>4. Halted(provider', provider)
  BY <1>1, OpenedHalts
<1>5. provider'.host = provider.host
  BY <1>4 DEF Halted
<1> QED
  BY <1>1, <1>3, <1>4, <1>5, HaltKeeps

LEMMA MutationEnds ==
  ASSUME TunnelInv, UNCHANGED <<line, record>>, mutation.phase # "none",
         \/ \E retryable \in BOOLEAN : /\ MutationFails(provider, retryable)
                                       /\ retryable => mutation.phase \notin InHands \/ provider.host = "none"
         \/ provider' = OpenedAndStopping(provider) /\ MutationGoes("closing") /\ UNCHANGED hosting,
         service' \in Services, service'.up = service.up, service'.tunnel = service.tunnel,
         service.broken => service'.broken,
         mutation.phase \notin Destructive => service'.access = service.access,
         mutation.phase \in Destructive => service'.broken
  PROVE  TunnelInv'
<1>1. /\ provider \in Providers /\ hosting \in Hostings /\ mutation \in Mutations /\ line \in Seq(InLine)
      /\ record \in Records /\ service \in Services
      /\ HostKept(provider, mutation, service) /\ AccessKept(provider, hosting, mutation, record, service)
  BY DEF TunnelInv, TunnelTypeOK
<1>2. /\ provider' \in Providers /\ hosting' \in Hostings /\ mutation' \in Mutations /\ mutation'.phase \in {"none", "closing"}
      /\ hosting' = hosting \/ hosting'.phase = "none"
      /\ LineKept(provider', hosting', mutation', line) /\ ProviderKept(provider', hosting', mutation')
      /\ provider'.host = provider.host
  BY <1>1, WorkFails, Closes
<1>3. HostKept(provider', mutation', service')
  BY <1>1, <1>2 DEF HostKept
<1>4. AccessKept(provider', hosting', mutation', record, service')
  BY <1>1, <1>2 DEF AccessKept, Destructive
<1> QED
  BY <1>1, <1>2, <1>3, <1>4 DEF TunnelInv, TunnelTypeOK

LEMMA RenewalFailsKeeps ==
  ASSUME TunnelInv, NEW retryable \in BOOLEAN, RenewalFails(retryable)
  PROVE  TunnelInv'
<1>1. service \in Services /\ AccessKept(provider, hosting, mutation, record, service)
  BY DEF TunnelInv, TunnelTypeOK
<1> DEFINE b == service.broken \/ (mutation.phase \in Destructive /\ Active(mutation.gen))
           s == Failing(mutation.gen)
<1>2. /\ s \in Services /\ s.up = service.up /\ s.access = service.access /\ s.tunnel = service.tunnel
      /\ s.broken = service.broken
  BY <1>1, FailingIs
<1>3. PICK a : (a = s.access \/ (a = 0 /\ mutation.phase = "deleting")) /\ service' = [s EXCEPT !.access = a, !.broken = b]
  <2>1. PICK deleted \in (IF mutation.phase = "deleting" THEN BOOLEAN ELSE {FALSE}) :
          service' = [s EXCEPT !.access = IF deleted THEN 0 ELSE @,
                               !.broken = @ \/ (mutation.phase \in Destructive /\ Active(mutation.gen))]
    BY DEF RenewalFails
  <2>2. (s.broken \/ (mutation.phase \in Destructive /\ Active(mutation.gen))) = b
    BY <1>2
  <2> HIDE DEF s, b
  <2>3. CASE deleted
    <3>1. service' = [s EXCEPT !.access = 0, !.broken = b] /\ mutation.phase = "deleting"
      BY <1>2, <2>1, <2>2, <2>3 DEF Services
    <3> QED
      BY <3>1
  <2>4. CASE ~deleted
    <3>1. service' = [s EXCEPT !.access = s.access, !.broken = b]
      BY <1>2, <2>1, <2>2, <2>4 DEF Services
    <3> QED
      BY <3>1
  <2> QED
    BY <2>3, <2>4
<1>4. b \in BOOLEAN /\ a \in 0..2 /\ (service.broken => b)
  BY <1>1, <1>2, <1>3 DEF Services
<1>5. mutation.phase \in Destructive => b
  BY <1>1 DEF AccessKept, Active, Running
<1>6. mutation.phase \in Renewing
  BY DEF RenewalFails
<1>7. /\ UNCHANGED <<line, record>>
      /\ \/ \E c \in BOOLEAN : MutationFails(provider, c)
         \/ provider' = OpenedAndStopping(provider) /\ MutationGoes("closing") /\ UNCHANGED hosting
  BY DEF RenewalFails
<1> HIDE DEF b, s
<1>8. service' \in Services /\ service'.up = s.up /\ service'.tunnel = s.tunnel /\ service'.access = a
  BY <1>2, <1>3, <1>4 DEF Services
<1>9. service'.broken = b
  BY <1>2, <1>3, <1>4 DEF Services
<1>10. mutation.phase \notin InHands /\ mutation.phase # "none"
  BY <1>6 DEF Renewing, Destructive, InHands
<1>11. mutation.phase \notin Destructive => service'.access = service.access
  BY <1>2, <1>3, <1>8 DEF Destructive
<1> QED
  BY <1>2, <1>4, <1>5, <1>7, <1>8, <1>9, <1>10, <1>11, MutationEnds

LEMMA StartsThatFail ==
  ASSUME TunnelInv, \/ LoadRecord /\ service.age = "expired"
                    \/ Check /\ (provider.host # "none" \/ ~AsOnRecord)
                    \/ NothingToStop
                    \/ \E retryable \in BOOLEAN : /\ HostStartFails(retryable)
                                                  /\ mutation.phase \notin {"probing", "saving"} \/ provider.host = "none"
  PROVE  TunnelInv'
<1>1. service \in Services
  BY DEF TunnelInv, TunnelTypeOK
<1>2. /\ UNCHANGED <<line, record>> /\ mutation.phase \in {"loading", "checking", "closing", "spawning", "probing", "saving"}
      /\ service' = service \/ service' = Failing(mutation.gen)
  BY DEF LoadRecord, Check, NothingToStop, HostStartFails
<1>3. \/ \E retryable \in BOOLEAN : /\ MutationFails(provider, retryable)
                                    /\ retryable => mutation.phase \notin InHands \/ provider.host = "none"
      \/ provider' = OpenedAndStopping(provider) /\ MutationGoes("closing") /\ UNCHANGED hosting
  BY DEF LoadRecord, Check, NothingToStop, HostStartFails, InHands
<1>4. /\ service' \in Services /\ service'.up = service.up /\ service'.tunnel = service.tunnel
      /\ service'.broken = service.broken /\ service'.access = service.access
  BY <1>1, <1>2, FailingIs
<1> QED
  BY <1>2, <1>3, <1>4, MutationEnds DEF Destructive

LEMMA StartIsStopped ==
  ASSUME TunnelInv, NEW retryable \in BOOLEAN, HostStartFails(retryable), mutation.phase \in {"probing", "saving"},
         provider.host # "none"
  PROVE  TunnelInv'
<1>1. /\ provider \in Providers /\ hosting \in Hostings /\ mutation \in Mutations /\ line \in Seq(InLine)
      /\ record \in Records /\ service \in Services
      /\ LineKept(provider, hosting, mutation, line) /\ ProviderKept(provider, hosting, mutation)
      /\ HostKept(provider, mutation, service) /\ AccessKept(provider, hosting, mutation, record, service)
  BY DEF TunnelInv, TunnelTypeOK
<1>2. /\ UNCHANGED <<hosting, line, record>> /\ provider' = [provider EXCEPT !.killing = TRUE]
      /\ mutation' = [mutation EXCEPT !.phase = "stopping", !.retry = retryable]
      /\ service' = service \/ service' = Failing(mutation.gen)
  BY DEF HostStartFails
<1>3. /\ service' \in Services /\ service'.up = service.up /\ service'.tunnel = service.tunnel
      /\ service'.broken = service.broken /\ service'.access = service.access
  BY <1>1, <1>2, FailingIs
<1>4. /\ mutation' \in Mutations /\ mutation'.phase = "stopping" /\ mutation'.who = mutation.who
      /\ mutation'.gen = mutation.gen
  BY <1>1, <1>2 DEF Mutations
<1>5. /\ provider' \in Providers /\ provider'.gen = provider.gen /\ provider'.attempts = provider.attempts
      /\ provider'.of = provider.of /\ provider'.host = provider.host /\ provider'.timer = provider.timer
      /\ provider'.status = provider.status
  BY <1>1, <1>2 DEF Providers
<1>6. /\ provider'.stopped = provider.stopped /\ provider'.aborted = provider.aborted
      /\ provider'.restart = provider.restart
  BY <1>1, <1>2 DEF Providers
<1>7. Lesser(provider', provider)
  BY <1>5, <1>6 DEF Lesser
<1>8. LineKept(provider', hosting, mutation', line) /\ ProviderKept(provider', hosting, mutation')
  BY <1>1, <1>4, <1>7, LesserKeeps DEF InHands
<1>9. HostKept(provider', mutation', service') /\ AccessKept(provider', hosting, mutation', record, service')
  BY <1>1, <1>3, <1>4, <1>5 DEF HostKept, AccessKept, Destructive
<1> QED
  BY <1>1, <1>2, <1>3, <1>4, <1>5, <1>8, <1>9 DEF TunnelInv, TunnelTypeOK

\* The process is there: of mutations that are present, only this one could have spawned it.
LEMMA SpawnedKeeps ==
  ASSUME TunnelInv, Spawned
  PROVE  TunnelInv'
<1>1. /\ provider \in Providers /\ hosting \in Hostings /\ mutation \in Mutations /\ line \in Seq(InLine)
      /\ record \in Records /\ service \in Services
      /\ LineKept(provider, hosting, mutation, line) /\ ProviderKept(provider, hosting, mutation)
      /\ HostKept(provider, mutation, service) /\ AccessKept(provider, hosting, mutation, record, service)
  BY DEF TunnelInv, TunnelTypeOK
<1> DEFINE n == service.up + 1
           k == ~Active(mutation.gen)
           to == IF Active(mutation.gen) THEN "probing" ELSE "stopping"
<1>2. /\ UNCHANGED <<hosting, line, record>> /\ mutation.phase = "spawning"
      /\ service' = [service EXCEPT !.up = n]
      /\ provider' = [provider EXCEPT !.host = "up", !.of = mutation.gen, !.killing = k]
      /\ mutation' = [mutation EXCEPT !.phase = to]
  BY DEF Spawned, MutationGoes
<1>3. n = 1 /\ n \in Nat /\ k \in BOOLEAN /\ to \in {"probing", "stopping"}
  BY <1>1, <1>2 DEF HostKept
<1> HIDE DEF n, k, to
<1>4. /\ service' \in Services /\ service'.up = 1 /\ service'.tunnel = service.tunnel /\ service'.access = service.access
  BY <1>1, <1>2, <1>3 DEF Services
<1>5. service'.broken = service.broken
  BY <1>1, <1>2, <1>3 DEF Services
<1>6. /\ mutation' \in Mutations /\ mutation'.phase = to /\ mutation'.who = mutation.who
      /\ mutation'.gen = mutation.gen
  BY <1>1, <1>2, <1>3 DEF Mutations
<1>7. mutation.gen \in Nat
  BY <1>1 DEF Mutations
<1>8. /\ provider' \in Providers /\ provider'.gen = provider.gen /\ provider'.attempts = provider.attempts
      /\ provider'.of = mutation.gen /\ provider'.host = "up" /\ provider'.timer = provider.timer
      /\ provider'.status = provider.status
  BY <1>1, <1>2, <1>3, <1>7 DEF Providers
<1>9. /\ provider'.stopped = provider.stopped /\ provider'.aborted = provider.aborted
      /\ provider'.restart = provider.restart
  BY <1>1, <1>2, <1>3 DEF Providers
<1>10. WorkKept(mutation, provider) /\ Kept(mutation, provider, hosting)
  BY <1>1 DEF LineKept
<1>11. mutation.who \notin {"none", "timer", "ensure-renew"}
  BY <1>2, <1>10 DEF WorkKept, NoMutation, Renewing, Destructive
<1>12. /\ to \in InHands
       /\ CurrentHost(provider') => mutation.gen = provider.gen /\ Present(mutation', provider')
       /\ Running(provider') <=> Running(provider)
  BY <1>3, <1>6, <1>8, <1>9, <1>11 DEF InHands, CurrentHost, Present, Running
<1>13. WorkKept(mutation', provider')
  BY <1>3, <1>6, <1>8, <1>11 DEF WorkKept
<1>14. Kept(mutation', provider', hosting)
  BY <1>6, <1>8, <1>9, <1>10, <1>12 DEF Kept, Present, Young
<1>15. ASSUME NEW x \in InLine, Kept(x, provider, hosting), Before(mutation, x, provider)
       PROVE  Kept(x, provider', hosting)
  <2>1. Running(provider) /\ Present(x, provider) => ~CurrentHost(provider')
    BY <1>11, <1>12, <1>15 DEF Before, Present
  <2> QED
    BY <1>8, <1>9, <1>12, <1>15, <2>1 DEF Kept, Present, Young
<1>16. LineKept(provider', hosting, mutation', line)
  BY <1>1, <1>6, <1>8, <1>12, <1>13, <1>14, <1>15, SameLine
<1>17. ProviderKept(provider', hosting, mutation')
  <2>1. mutation.gen <= provider.gen
    BY <1>10 DEF Kept
  <2>2. Running(provider') /\ provider'.restart => ~CurrentHost(provider')
    BY <1>9, <1>10, <1>11, <1>12 DEF Kept, Present
  <2> QED
    BY <1>1, <1>6, <1>8, <1>9, <1>12, <2>1, <2>2 DEF ProviderKept, Young
<1>18. HostKept(provider', mutation', service')
  BY <1>3, <1>4, <1>6, <1>8 DEF HostKept
<1>19. AccessKept(provider', hosting, mutation', record, service')
  BY <1>1, <1>2, <1>3, <1>4, <1>5, <1>6 DEF AccessKept, Destructive
<1> QED
  BY <1>1, <1>2, <1>4, <1>6, <1>8, <1>16, <1>17, <1>18, <1>19 DEF TunnelInv, TunnelTypeOK

LEMMA HostIsReadyKeeps ==
  ASSUME TunnelInv, HostIsReady
  PROVE  TunnelInv'
<1>1. /\ provider \in Providers /\ hosting \in Hostings /\ mutation \in Mutations /\ line \in Seq(InLine)
      /\ record \in Records /\ service \in Services
      /\ LineKept(provider, hosting, mutation, line) /\ ProviderKept(provider, hosting, mutation)
      /\ HostKept(provider, mutation, service) /\ AccessKept(provider, hosting, mutation, record, service)
  BY DEF TunnelInv, TunnelTypeOK
<1>2. /\ UNCHANGED <<line, record, service>> /\ mutation.phase = "saving" /\ mutation' = NoMutation
      /\ provider' = [provider EXCEPT !.status = "ready", !.attempts = 0, !.timer = "renewal"]
      /\ hosting' = IF mutation.who = "ensure-start" THEN Idle ELSE hosting
      /\ Running(provider) /\ mutation.gen = provider.gen
  BY DEF HostIsReady, Ready, Active, Running
<1>3. /\ provider' \in Providers /\ provider'.gen = provider.gen /\ provider'.attempts = 0
      /\ provider'.of = provider.of /\ provider'.host = provider.host
  BY <1>1, <1>2 DEF Providers
<1>4. /\ provider'.stopped = provider.stopped /\ provider'.aborted = provider.aborted
      /\ provider'.restart = provider.restart
  BY <1>1, <1>2 DEF Providers
<1>5. WorkKept(mutation, provider) /\ Kept(mutation, provider, hosting)
  BY <1>1 DEF LineKept
<1>6. mutation.who \notin {"none", "timer", "ensure-renew"}
  BY <1>2, <1>5 DEF WorkKept, NoMutation, Renewing, Destructive
<1>7. Present(mutation, provider) /\ (Running(provider') <=> Running(provider))
  BY <1>2, <1>4, <1>6 DEF Present, Running
<1>8. NoMutation \in Mutations /\ NoMutation.who = "none" /\ NoMutation.phase = "none" /\ NoMutation.gen = 0
      /\ Idle \in Hostings /\ Idle.phase = "none"
  BY DEF NoMutation, Mutations, Idle, Hostings
<1>9. hosting' \in Hostings /\ (hosting' = hosting \/ hosting'.phase = "none")
  BY <1>1, <1>2, <1>8
<1>10. ~provider.restart /\ ~Young(provider', hosting')
  <2>1. ~provider.restart
    BY <1>2, <1>5, <1>6, <1>7 DEF Kept
  <2>2. CASE mutation.who \in Ensures
    BY <1>2, <1>6, <1>8, <2>1, <2>2 DEF Young, Ensures
  <2>3. CASE mutation.who \notin Ensures
    BY <1>2, <1>3, <1>5, <1>7, <2>1, <2>3 DEF Kept, Young, Ensures
  <2> QED
    BY <2>1, <2>2, <2>3
<1>11. WorkKept(NoMutation, provider') /\ Kept(NoMutation, provider', hosting')
  BY <1>3, <1>8 DEF WorkKept, Kept, Present, InHands, Ensures, Providers
<1>12. ASSUME NEW x \in InLine, Kept(x, provider, hosting), Before(mutation, x, provider)
       PROVE  Kept(x, provider', hosting')
  <2>1. ~Present(x, provider')
    BY <1>2, <1>3, <1>6, <1>7, <1>12 DEF Before, Present
  <2>2. x.who \in Ensures => hosting' = hosting
    BY <1>2, <1>6, <1>12 DEF Before, Ensures
  <2> QED
    BY <1>3, <1>12, <2>1, <2>2 DEF Kept
<1>13. LineKept(provider', hosting', NoMutation, line)
  BY <1>1, <1>3, <1>7, <1>8, <1>9, <1>11, <1>12, SameLine
<1>14. ProviderKept(provider', hosting', NoMutation)
  BY <1>1, <1>3, <1>4, <1>9, <1>10 DEF ProviderKept
<1>15. HostKept(provider', NoMutation, service) /\ AccessKept(provider', hosting', NoMutation, record, service)
  BY <1>1, <1>2, <1>3, <1>8, <1>9 DEF HostKept, AccessKept, Destructive
<1> QED
  BY <1>1, <1>2, <1>3, <1>8, <1>9, <1>13, <1>14, <1>15 DEF TunnelInv, TunnelTypeOK

\* A lifecycle that is over leaves a renewal that was cut off known as broken.
LEMMA EndedKeeps ==
  ASSUME TunnelInv, Halted(provider', provider), UNCHANGED <<hosting, mutation, line, record, service>>,
         mutation.phase \in Destructive => service.broken
  PROVE  TunnelInv'
<1>1. /\ provider \in Providers /\ hosting \in Hostings /\ mutation \in Mutations /\ line \in Seq(InLine)
      /\ record \in Records /\ service \in Services
      /\ LineKept(provider, hosting, mutation, line) /\ ProviderKept(provider, hosting, mutation)
      /\ HostKept(provider, mutation, service) /\ AccessKept(provider, hosting, mutation, record, service)
  BY DEF TunnelInv, TunnelTypeOK
<1>2. provider' \in Providers /\ LineKept(provider', hosting, mutation, line) /\ ProviderKept(provider', hosting, mutation)
  BY <1>1, HaltKeeps
<1>3. HostKept(provider', mutation, service) /\ AccessKept(provider', hosting, mutation, record, service)
  BY <1>1 DEF HostKept, AccessKept, Halted
<1> QED
  BY <1>1, <1>2, <1>3 DEF TunnelInv, TunnelTypeOK

\* One that goes on, without a timer or with another status.
LEMMA GoesOnKeeps ==
  ASSUME TunnelInv, Lesser(provider', provider), UNCHANGED <<hosting, mutation, line, record, service>>,
         provider'.host = provider.host
  PROVE  TunnelInv'
<1>1. /\ provider \in Providers /\ hosting \in Hostings /\ mutation \in Mutations /\ line \in Seq(InLine)
      /\ record \in Records /\ service \in Services
      /\ LineKept(provider, hosting, mutation, line) /\ ProviderKept(provider, hosting, mutation)
      /\ HostKept(provider, mutation, service) /\ AccessKept(provider, hosting, mutation, record, service)
  BY DEF TunnelInv, TunnelTypeOK
<1>2. provider' \in Providers /\ LineKept(provider', hosting, mutation, line) /\ ProviderKept(provider', hosting, mutation)
  BY <1>1, LesserKeeps DEF Lesser
<1>3. HostKept(provider', mutation, service) /\ AccessKept(provider', hosting, mutation, record, service)
  BY <1>1 DEF HostKept, AccessKept, Lesser, Running
<1> QED
  BY <1>1, <1>2, <1>3 DEF TunnelInv, TunnelTypeOK

\* Two mutations that are set going by a timer.
LEMMA TimerWaits ==
  ASSUME TunnelInv, NEW who \in {"restart", "timer"}, Lesser(provider', provider), provider'.host = provider.host,
         UNCHANGED <<hosting, mutation, record, service>>,
         line' = Append(line, [NoMutation EXCEPT !.who = who, !.gen = provider.gen, !.phase = "loading"]),
         Running(provider),
         \A x : Kept(x, provider, hosting) /\ Present(x, provider) => x.who = "timer" /\ who = "restart",
         ~Young(provider, hosting), who = "restart" => ~provider'.restart /\ ~CurrentHost(provider) /\ provider.status # "ready",
         who = "timer" => provider'.timer = "none" /\ provider.attempts = 0
  PROVE  TunnelInv'
<1>1. /\ provider \in Providers /\ hosting \in Hostings /\ mutation \in Mutations /\ line \in Seq(InLine)
      /\ record \in Records /\ service \in Services
      /\ LineKept(provider, hosting, mutation, line) /\ ProviderKept(provider, hosting, mutation)
      /\ HostKept(provider, mutation, service) /\ AccessKept(provider, hosting, mutation, record, service)
  BY DEF TunnelInv, TunnelTypeOK
<1> DEFINE y == [NoMutation EXCEPT !.who = who, !.gen = provider.gen, !.phase = "loading"]
<1>2. y \in InLine /\ y.who = who /\ y.gen = provider.gen
  <2>1. provider.gen \in Nat /\ who \in {"ensure-renew", "ensure-start", "restart", "timer"}
    BY <1>1 DEF Providers
  <2> QED
    BY <2>1 DEF NoMutation, InLine, Mutations
<1>3. line' = Append(line, y)
  OBVIOUS
<1> HIDE DEF y
<1>4. provider' \in Providers /\ LineKept(provider', hosting, mutation, line) /\ ProviderKept(provider', hosting, mutation)
  BY <1>1, LesserKeeps DEF Lesser
<1>5. provider'.gen = provider.gen /\ provider.gen \in Nat /\ (Running(provider') <=> Running(provider))
      /\ (CurrentHost(provider') <=> CurrentHost(provider)) /\ (provider'.status = "ready" => provider.status = "ready")
      /\ provider'.attempts = provider.attempts
  BY <1>1 DEF Lesser, Running, CurrentHost, Providers
<1>6. who \notin Ensures
  BY DEF Ensures
<1>7. Kept(y, provider', hosting)
  BY <1>2, <1>5, <1>6 DEF Kept, Young
<1>8. ASSUME NEW x, Kept(x, provider, hosting)  PROVE Before(x, y, provider')
  BY <1>2, <1>5, <1>6, <1>8 DEF Before, Present
<1>9. Before(mutation, y, provider') /\ \A i \in 1..Len(line) : Before(line[i], y, provider')
  BY <1>1, <1>8 DEF LineKept
<1>10. line' \in Seq(InLine) /\ LineKept(provider', hosting, mutation, line')
  BY <1>1, <1>2, <1>3, <1>4, <1>7, <1>9, JoinsLine
<1>11. HostKept(provider', mutation, service) /\ AccessKept(provider', hosting, mutation, record, service)
  BY <1>1, <1>5 DEF HostKept, AccessKept
<1> QED
  BY <1>1, <1>4, <1>10, <1>11 DEF TunnelInv, TunnelTypeOK

LEMMA TimersKeep ==
  ASSUME TunnelInv, RestartTimer \/ RenewalTimer
  PROVE  TunnelInv'
<1>1. /\ provider \in Providers /\ hosting \in Hostings /\ ProviderKept(provider, hosting, mutation)
  BY DEF TunnelInv, TunnelTypeOK
<1>2. UNCHANGED <<hosting, mutation, record, service>>
  BY DEF RestartTimer, RenewalTimer
<1>3. CASE RestartTimer
  <2>1. provider' = [provider EXCEPT !.restart = FALSE] /\ provider.restart
    BY <1>3 DEF RestartTimer
  <2>2. /\ provider' \in Providers /\ provider'.gen = provider.gen /\ provider'.attempts = provider.attempts
        /\ provider'.of = provider.of /\ provider'.host = provider.host /\ provider'.timer = provider.timer
        /\ provider'.status = provider.status
    BY <1>1, <2>1 DEF Providers
  <2>3. provider'.restart = FALSE /\ provider'.stopped = provider.stopped /\ provider'.aborted = provider.aborted
    BY <1>1, <2>1 DEF Providers
  <2>4. Lesser(provider', provider)
    BY <2>2, <2>3 DEF Lesser
  <2>5. CASE Active(provider.gen)
    <3>1. line' = Append(line, [NoMutation EXCEPT !.who = "restart", !.gen = provider.gen, !.phase = "loading"])
      BY <1>3, <2>5 DEF RestartTimer
    <3>2. Running(provider)
      BY <2>5 DEF Active, Running
    <3>3. ~Young(provider, hosting) /\ ~CurrentHost(provider) /\ provider.status # "ready"
      BY <1>1, <2>1, <3>2 DEF ProviderKept
    <3>4. ASSUME NEW x, Kept(x, provider, hosting), Present(x, provider)  PROVE x.who = "timer"
      BY <2>1, <3>2, <3>4 DEF Kept
    <3> QED
      BY <1>2, <2>2, <2>3, <2>4, <3>1, <3>2, <3>3, <3>4, TimerWaits
  <2>6. CASE ~Active(provider.gen)
    <3>1. line' = line
      BY <1>3, <2>6 DEF RestartTimer
    <3> QED
      BY <1>2, <2>2, <2>4, <3>1, GoesOnKeeps
  <2> QED
    BY <2>5, <2>6
<1>4. CASE RenewalTimer
  <2>1. provider' = [provider EXCEPT !.timer = "none"] /\ provider.timer # "none"
    BY <1>4 DEF RenewalTimer
  <2>2. /\ provider' \in Providers /\ provider'.gen = provider.gen /\ provider'.attempts = provider.attempts
        /\ provider'.of = provider.of /\ provider'.host = provider.host /\ provider'.timer = "none"
        /\ provider'.status = provider.status
    BY <1>1, <2>1 DEF Providers
  <2>3. /\ provider'.restart = provider.restart /\ provider'.stopped = provider.stopped
        /\ provider'.aborted = provider.aborted
    BY <1>1, <2>1 DEF Providers
  <2>4. Lesser(provider', provider)
    BY <2>2, <2>3 DEF Lesser
  <2>5. CASE Active(provider.gen) /\ provider.status = "ready"
    <3>1. line' = Append(line, [NoMutation EXCEPT !.who = "timer", !.gen = provider.gen, !.phase = "loading"])
      BY <1>4, <2>5 DEF RenewalTimer
    <3>2. Running(provider)
      BY <2>5 DEF Active, Running
    <3>3. ~Young(provider, hosting) /\ provider.attempts = 0
      BY <1>1, <2>5, <3>2 DEF ProviderKept
    <3>4. ASSUME NEW x, Kept(x, provider, hosting)  PROVE ~Present(x, provider)
      BY <2>1, <2>5, <3>2, <3>4 DEF Kept
    <3> QED
      BY <1>2, <2>2, <2>4, <3>1, <3>2, <3>3, <3>4, TimerWaits
  <2>6. CASE ~(Active(provider.gen) /\ provider.status = "ready")
    <3>1. line' = line
      BY <1>4, <2>6 DEF RenewalTimer
    <3> QED
      BY <1>2, <2>2, <2>4, <3>1, GoesOnKeeps
  <2> QED
    BY <2>5, <2>6
<1> QED
  BY <1>3, <1>4

LEMMA ExpirationKeeps ==
  ASSUME TunnelInv, ExpirationTimer
  PROVE  TunnelInv'
<1>1. /\ provider \in Providers /\ WorkKept(mutation, provider) /\ Kept(mutation, provider, hosting)
      /\ AccessKept(provider, hosting, mutation, record, service)
  BY DEF TunnelInv, TunnelTypeOK, LineKept
<1> DEFINE c == [provider EXCEPT !.timer = "none"]
<1>2. /\ UNCHANGED <<hosting, mutation, line, record, service>> /\ provider.timer = "retry"
      /\ \/ Active(provider.gen) /\ provider.status = "ready" /\ provider' = OpenedAndStopping(c)
         \/ provider' = c
  BY DEF ExpirationTimer
<1>3. /\ c \in Providers /\ c.gen = provider.gen /\ c.attempts = provider.attempts /\ c.of = provider.of
      /\ c.host = provider.host /\ c.timer = "none" /\ c.status = provider.status
  BY <1>1 DEF Providers
<1>4. /\ c.restart = provider.restart /\ c.stopped = provider.stopped /\ c.aborted = provider.aborted
  BY <1>1 DEF Providers
<1>5. Lesser(c, provider)
  BY <1>3, <1>4 DEF Lesser
<1> HIDE DEF c
<1>6. CASE provider' = c
  BY <1>2, <1>3, <1>5, <1>6, GoesOnKeeps
<1>7. CASE Active(provider.gen) /\ provider.status = "ready" /\ provider' = OpenedAndStopping(c)
  <2>1. Halted(provider', provider)
    BY <1>3, <1>7, OpenedHalts DEF Halted
  <2>2. ~Present(mutation, provider)
    BY <1>1, <1>2, <1>7 DEF Kept, Active, Running
  <2>3. mutation.phase \in Destructive => service.broken
    BY <1>1, <2>2 DEF AccessKept, WorkKept, NoMutation, Present, Destructive
  <2> QED
    BY <1>2, <2>1, <2>3, EndedKeeps
<1> QED
  BY <1>2, <1>6, <1>7

LEMMA EndedHalts ==
  ASSUME NEW p \in Providers
  PROVE  Halted(LifecycleEnded(p), p)
<1> DEFINE n == p.gen + 1
           c == [p EXCEPT !.restart = FALSE, !.timer = "none", !.stopped = TRUE, !.aborted = TRUE, !.gen = n]
<1>1. LifecycleEnded(p) = c
  BY DEF LifecycleEnded
<1>2. n \in Nat /\ n >= p.gen
  BY DEF Providers
<1> HIDE DEF n
<1>3. c \in Providers /\ c.gen = n /\ c.host = p.host /\ c.of = p.of
  BY <1>2 DEF Providers
<1>4. c.stopped = TRUE
  BY <1>2 DEF Providers
<1> HIDE DEF c
<1> QED
  BY <1>1, <1>2, <1>3, <1>4 DEF Halted, Running

\* Whoever is told to stop its host is otherwise as it was.
LEMMA StopHostIs ==
  ASSUME NEW x \in Providers, StopHost(x)
  PROVE  /\ provider' \in Providers /\ provider'.gen = x.gen /\ provider'.attempts = x.attempts /\ provider'.of = x.of
         /\ provider'.host = x.host /\ provider'.timer = x.timer /\ provider'.status \in {x.status, "stopped"}
         /\ provider'.restart = x.restart /\ provider'.stopped = x.stopped /\ provider'.aborted = x.aborted
<1>1. \/ provider' = x \/ provider' = [x EXCEPT !.status = "stopped"] \/ provider' = [x EXCEPT !.killing = TRUE]
  BY DEF StopHost
<1>2. provider' \in Providers /\ provider'.gen = x.gen /\ provider'.attempts = x.attempts /\ provider'.of = x.of
      /\ provider'.host = x.host /\ provider'.timer = x.timer /\ provider'.status \in {x.status, "stopped"}
  BY <1>1 DEF Providers
<1>3. provider'.restart = x.restart /\ provider'.stopped = x.stopped /\ provider'.aborted = x.aborted
  BY <1>1 DEF Providers
<1> QED
  BY <1>2, <1>3

LEMMA StopsKeep ==
  ASSUME TunnelInv, Stop \/ StopGoesOn
  PROVE  TunnelInv'
<1>1. /\ provider \in Providers /\ AccessKept(provider, hosting, mutation, record, service)
  BY DEF TunnelInv, TunnelTypeOK
<1>2. UNCHANGED <<hosting, mutation, line, record, service>>
  BY DEF Stop, StopGoesOn
<1>3. CASE StopHost(LifecycleEnded(provider)) /\ (mutation.phase \in Destructive => service.broken)
  <2>1. Halted(LifecycleEnded(provider), provider)
    BY <1>1, EndedHalts
  <2>2. Halted(provider', provider)
    BY <1>3, <2>1, StopHostIs DEF Halted, Running
  <2> QED
    BY <1>2, <1>3, <2>2, EndedKeeps
<1>4. CASE StopHost(provider)
  <2>1. Lesser(provider', provider) /\ provider'.host = provider.host
    BY <1>1, <1>4, StopHostIs DEF Lesser
  <2> QED
    BY <1>2, <2>1, GoesOnKeeps
<1>5. CASE provider' = [provider EXCEPT !.restart = FALSE, !.timer = "none"]
  <2>1. /\ provider' \in Providers /\ provider'.gen = provider.gen /\ provider'.attempts = provider.attempts
        /\ provider'.of = provider.of /\ provider'.host = provider.host /\ provider'.timer = "none"
        /\ provider'.status = provider.status
    BY <1>1, <1>5 DEF Providers
  <2>2. provider'.restart = FALSE /\ provider'.stopped = provider.stopped /\ provider'.aborted = provider.aborted
    BY <1>1, <1>5 DEF Providers
  <2>3. Lesser(provider', provider)
    BY <2>1, <2>2 DEF Lesser
  <2> QED
    BY <1>2, <2>1, <2>3, GoesOnKeeps
<1> QED
  BY <1>1, <1>3, <1>4, <1>5 DEF Stop, StopGoesOn, AccessKept

\* A host that exits is started again, a number of times.
LEMMA HostExitsKeeps ==
  ASSUME TunnelInv, HostExits
  PROVE  TunnelInv'
<1>1. /\ provider \in Providers /\ hosting \in Hostings /\ mutation \in Mutations /\ line \in Seq(InLine)
      /\ record \in Records /\ service \in Services
      /\ LineKept(provider, hosting, mutation, line) /\ ProviderKept(provider, hosting, mutation)
      /\ HostKept(provider, mutation, service) /\ AccessKept(provider, hosting, mutation, record, service)
  BY DEF TunnelInv, TunnelTypeOK
<1> DEFINE c == [provider EXCEPT !.host = "none"]
           d == [provider EXCEPT !.host = "exited"]
           n == service.up - 1
           f == service.faults + 1
<1>2. /\ UNCHANGED <<hosting, mutation, line, record>> /\ provider.host = "up"
      /\ \/ mutation.phase \notin InHands /\ Active(provider.of) /\ provider' = RestartScheduled(c)
         \/ provider' = d
  BY DEF HostExits, InHands
<1>3. service' = [service EXCEPT !.up = n, !.faults = f]
  BY <1>1 DEF HostExits, WithFault, Services
<1>4. n = 0 /\ n \in Nat /\ f \in Nat
  BY <1>1, <1>2 DEF HostKept, Services
<1> HIDE DEF n, f
<1>5. /\ service' \in Services /\ service'.up = 0 /\ service'.tunnel = service.tunnel /\ service'.access = service.access
  BY <1>1, <1>3, <1>4 DEF Services
<1>6. service'.broken = service.broken
  BY <1>1, <1>3, <1>4 DEF Services
<1>7. /\ c \in Providers /\ c.gen = provider.gen /\ c.attempts = provider.attempts
      /\ c.of = provider.of /\ c.host = "none" /\ c.timer = provider.timer /\ c.status = provider.status
  BY <1>1 DEF Providers
<1>8. c.restart = provider.restart /\ c.stopped = provider.stopped /\ c.aborted = provider.aborted
  BY <1>1 DEF Providers
<1>9. /\ d \in Providers /\ d.gen = provider.gen /\ d.attempts = provider.attempts
      /\ d.of = provider.of /\ d.host = "exited" /\ d.timer = provider.timer /\ d.status = provider.status
  BY <1>1 DEF Providers
<1>10. d.restart = provider.restart /\ d.stopped = provider.stopped /\ d.aborted = provider.aborted
  BY <1>1 DEF Providers
<1>11. Lesser(c, provider) /\ Lesser(d, provider)
  BY <1>2, <1>7, <1>8, <1>9, <1>10 DEF Lesser
<1> HIDE DEF c, d
<1>12. LineKept(c, hosting, mutation, line) /\ ProviderKept(c, hosting, mutation) /\ (Running(c) <=> Running(provider))
  BY <1>1, <1>7, <1>8, <1>11, LesserKeeps DEF Running
<1>13. /\ provider' \in Providers /\ provider'.host \in {"none", "exited"} /\ provider'.gen >= provider.gen
       /\ LineKept(provider', hosting, mutation, line) /\ ProviderKept(provider', hosting, mutation)
       /\ mutation.phase \in Destructive => service.broken \/ (Running(provider') /\ mutation.gen = provider'.gen)
  <2>1. provider.gen \in Nat
    BY <1>1 DEF Providers
  <2>2. CASE provider' = d
    <3>1. LineKept(d, hosting, mutation, line) /\ ProviderKept(d, hosting, mutation) /\ (Running(d) <=> Running(provider))
      BY <1>1, <1>9, <1>10, <1>11, LesserKeeps DEF Running
    <3> QED
      BY <1>1, <1>9, <2>1, <2>2, <3>1 DEF AccessKept
  <2>3. CASE provider' = c
    BY <1>1, <1>7, <1>12, <2>1, <2>3 DEF AccessKept
  <2>4. CASE mutation.phase \notin InHands /\ Active(provider.of) /\ provider' = RestartScheduled(c) /\ provider' # c
    <3>1. Running(provider) /\ provider.of = provider.gen /\ CurrentHost(provider)
      BY <1>2, <2>4 DEF Active, Running, CurrentHost
    <3>2. ASSUME NEW x, Kept(x, provider, hosting), x.phase \notin InHands, Present(x, provider)
          PROVE  x.who = "timer" /\ provider.attempts = 0
      BY <3>1, <3>2 DEF Kept
    <3>3. Kept(mutation, provider, hosting) /\ WorkKept(mutation, provider)
      BY <1>1 DEF LineKept
    <3>4. \/ Halted(provider', c) /\ provider'.gen = c.gen /\ c.attempts >= MaxRestarts
          \/ Delayed(provider', c)
      BY <1>7, <2>4, RestartIs
    <3>5. CASE Halted(provider', c) /\ provider'.gen = c.gen /\ c.attempts >= MaxRestarts
      <4>1. provider' \in Providers /\ LineKept(provider', hosting, mutation, line) /\ ProviderKept(provider', hosting, mutation)
        BY <1>1, <1>7, <1>12, <3>5, HaltKeeps
      <4>2. ~Present(mutation, provider)
        BY <1>7, <2>4, <3>2, <3>3, <3>5, TunnelAssumption
      <4>3. mutation.phase \in Destructive => service.broken
        BY <1>1, <3>3, <4>2 DEF AccessKept, WorkKept, NoMutation, Present, Destructive
      <4> QED
        BY <1>7, <2>1, <3>5, <4>1, <4>3 DEF Halted
    <3>6. CASE Delayed(provider', c)
      <4>1. /\ provider' \in Providers /\ provider'.status = "backoff" /\ provider'.gen = provider.gen
            /\ provider'.host = "none" /\ provider'.of = provider.of /\ provider'.timer = provider.timer
            /\ (Running(provider') <=> Running(provider)) /\ ~CurrentHost(provider')
        BY <1>7, <1>8, <3>6 DEF Delayed, Running, CurrentHost
      <4>2. ASSUME NEW x, Kept(x, provider, hosting), x.phase \notin InHands  PROVE Kept(x, provider', hosting)
        BY <3>2, <4>1, <4>2 DEF Kept, Present, Young, Ensures
      <4>3. WorkKept(mutation, provider') /\ Kept(mutation, provider', hosting)
        BY <2>4, <3>3, <4>1, <4>2 DEF WorkKept
      <4>4. \A x \in InLine : Kept(x, provider, hosting) => Kept(x, provider', hosting)
        BY <4>2 DEF InLine, InHands
      <4>5. LineKept(provider', hosting, mutation, line)
        BY <1>1, <4>1, <4>3, <4>4, SameLine
      <4>6. ~Young(provider, hosting)
        BY <1>1, <2>4, <3>1 DEF ProviderKept
      <4>7. ProviderKept(provider', hosting, mutation)
        BY <1>1, <4>1, <4>6 DEF ProviderKept, Young
      <4> QED
        BY <1>1, <2>1, <4>1, <4>5, <4>7 DEF AccessKept
    <3> QED
      BY <3>4, <3>5, <3>6
  <2> QED
    BY <1>2, <2>2, <2>3, <2>4
<1>14. HostKept(provider', mutation, service')
  BY <1>1, <1>2, <1>5, <1>13 DEF HostKept
<1>15. AccessKept(provider', hosting, mutation, record, service')
  BY <1>1, <1>5, <1>6, <1>13 DEF AccessKept
<1> QED
  BY <1>1, <1>2, <1>5, <1>13, <1>14, <1>15 DEF TunnelInv, TunnelTypeOK

LEMMA HostStoppedKeeps ==
  ASSUME TunnelInv, NEW ok \in BOOLEAN, HostStopped(ok)
  PROVE  TunnelInv'
<1>1. /\ provider \in Providers /\ hosting \in Hostings /\ mutation \in Mutations /\ line \in Seq(InLine)
      /\ record \in Records /\ service \in Services
      /\ LineKept(provider, hosting, mutation, line) /\ ProviderKept(provider, hosting, mutation)
      /\ HostKept(provider, mutation, service) /\ AccessKept(provider, hosting, mutation, record, service)
  BY DEF TunnelInv, TunnelTypeOK
<1> DEFINE hs == IF ok THEN "none" ELSE provider.host
           st == IF ~ok THEN "cleanup-failed" ELSE IF stopping.phase = "host" THEN "stopped" ELSE provider.status
           x == [provider EXCEPT !.killing = FALSE, !.host = hs, !.status = st]
           n == IF provider.host = "up" THEN service.up - 1 ELSE service.up
           f == service.faults + 1
<1>2. UNCHANGED <<line, record>>
  BY DEF HostStopped
<1>3. IF mutation.phase \in {"closing", "stopping"} THEN MutationFails(x, mutation.retry /\ ok)
      ELSE provider' = x /\ UNCHANGED <<mutation, hosting>>
  BY <1>1 DEF HostStopped, Providers
<1>4. IF ok THEN service' = [service EXCEPT !.up = n] ELSE service' = [service EXCEPT !.faults = f]
  BY <1>1 DEF HostStopped, WithFault, Services
<1>5. hs \in {"none", provider.host} /\ hs \in {"none", "up", "exited"} /\ (ok => hs = "none") /\ (~ok => hs = provider.host)
  BY <1>1 DEF Providers
<1>6. /\ st \in {"idle", "starting", "ready", "backoff", "circuit-open", "cleanup-failed", "stopped"}
      /\ st = provider.status \/ st # "ready"
  BY <1>1 DEF Providers
<1>7. n \in Nat /\ n = 0 /\ f \in Nat
  BY <1>1 DEF HostKept, Services
<1> HIDE DEF hs, st, n, f
<1>8. /\ service' \in Services /\ service'.tunnel = service.tunnel /\ service'.access = service.access
      /\ service'.up = IF ok THEN 0 ELSE service.up
  BY <1>1, <1>4, <1>7 DEF Services
<1>9. service'.broken = service.broken
  BY <1>1, <1>4, <1>7 DEF Services
<1>10. /\ x \in Providers /\ x.gen = provider.gen /\ x.attempts = provider.attempts
       /\ x.of = provider.of /\ x.host = hs /\ x.timer = provider.timer /\ x.status = st
  BY <1>1, <1>5, <1>6 DEF Providers
<1>11. x.restart = provider.restart /\ x.stopped = provider.stopped /\ x.aborted = provider.aborted
  BY <1>1, <1>5, <1>6 DEF Providers
<1>12. Lesser(x, provider)
  BY <1>5, <1>6, <1>10, <1>11 DEF Lesser
<1> HIDE DEF x
<1>13. /\ LineKept(x, hosting, mutation, line) /\ ProviderKept(x, hosting, mutation) /\ WorkKept(mutation, x)
       /\ Sibling(x, provider)
  BY <1>1, <1>12, LesserKeeps
<1>14. /\ provider' \in Providers /\ hosting' \in Hostings /\ mutation' \in Mutations
       /\ hosting' = hosting \/ hosting'.phase = "none"
       /\ LineKept(provider', hosting', mutation', line) /\ ProviderKept(provider', hosting', mutation')
       /\ provider'.host = hs
       /\ \/ mutation'.phase = "none" /\ mutation.phase \in {"closing", "stopping"}
          \/ mutation' = mutation /\ provider' = x
  <2>1. CASE mutation.phase \in {"closing", "stopping"}
    <3>1. MutationFails(x, mutation.retry /\ ok) /\ (mutation.retry /\ ok) \in BOOLEAN
      BY <1>3, <2>1
    <3>2. mutation.who # "none"
      BY <1>13, <2>1 DEF WorkKept, NoMutation
    <3>3. ok => ~CurrentHost(x)
      BY <1>5, <1>10 DEF CurrentHost
    <3> DEFINE r == mutation.retry /\ ok
    <3>4. r \in BOOLEAN /\ MutationFails(x, r) /\ (r => ok)
      BY <3>1
    <3> HIDE DEF r
    <3>5. /\ provider' \in Providers /\ hosting' \in Hostings /\ mutation' = NoMutation
          /\ hosting' = hosting \/ hosting' = Idle
          /\ LineKept(provider', hosting', mutation', line) /\ ProviderKept(provider', hosting', mutation')
          /\ provider'.host = x.host
      BY <1>13, <3>2, <3>3, <3>4, FailKeeps
    <3>6. NoMutation \in Mutations /\ NoMutation.phase = "none" /\ Idle.phase = "none"
      BY DEF NoMutation, Mutations, Idle
    <3> QED
      BY <1>10, <2>1, <3>5, <3>6
  <2>2. CASE mutation.phase \notin {"closing", "stopping"}
    <3>1. provider' = x /\ UNCHANGED <<mutation, hosting>>
      BY <1>3, <2>2
    <3> QED
      BY <1>1, <1>10, <1>13, <3>1
  <2> QED
    BY <2>1, <2>2
<1>15. HostKept(provider', mutation', service')
  BY <1>1, <1>5, <1>8, <1>14 DEF HostKept
<1>16. AccessKept(provider', hosting', mutation', record, service')
  <2>1. Running(x) <=> Running(provider)
    BY <1>11 DEF Running
  <2> QED
    BY <1>1, <1>8, <1>9, <1>10, <1>14, <2>1 DEF AccessKept, Destructive
<1> QED
  BY <1>1, <1>2, <1>8, <1>14, <1>15, <1>16 DEF TunnelInv, TunnelTypeOK

LEMMA ServiceSteps ==
  ASSUME TunnelInv, TimePasses \/ DeleteOwnedResource
  PROVE  TunnelInv'
<1>1. /\ service \in Services /\ record \in Records
      /\ HostKept(provider, mutation, service) /\ AccessKept(provider, hosting, mutation, record, service)
  BY DEF TunnelInv, TunnelTypeOK
<1>2. UNCHANGED <<provider, hosting, mutation, line, record>>
  BY DEF TimePasses, DeleteOwnedResource
<1>3. /\ service' \in Services /\ service'.up = service.up
      /\ ~service'.tunnel \/ (service'.tunnel = service.tunnel /\ service'.access = service.access)
      /\ service'.broken = service.broken
  <2>1. CASE TimePasses
    <3> DEFINE a == IF service.age = "fresh" THEN "due" ELSE "expired"
    <3>1. a \in {"fresh", "due", "expired"} /\ service' = [service EXCEPT !.age = a]
      BY <1>1, <2>1 DEF TimePasses, Services
    <3> HIDE DEF a
    <3>2. service' \in Services /\ service'.up = service.up /\ service'.access = service.access
      BY <1>1, <3>1 DEF Services
    <3>3. service'.tunnel = service.tunnel /\ service'.broken = service.broken
      BY <1>1, <3>1 DEF Services
    <3> QED
      BY <3>2, <3>3
  <2>2. CASE DeleteOwnedResource
    <3>1. service' = [service EXCEPT !.tunnel = FALSE, !.port = FALSE, !.access = 0]
      BY <2>2 DEF DeleteOwnedResource
    <3>2. FALSE \in BOOLEAN /\ 0 \in 0..2
      OBVIOUS
    <3>3. service' \in Services /\ service'.up = service.up
      BY <1>1, <3>2, <3>1 DEF Services
    <3>4. service'.tunnel = FALSE /\ service'.broken = service.broken
      BY <1>1, <3>1 DEF Services
    <3> QED
      BY <3>3, <3>4
  <2> QED
    BY <2>1, <2>2
<1>4. HostKept(provider, mutation, service') /\ AccessKept(provider, hosting, mutation, record, service')
  BY <1>1, <1>3 DEF HostKept, AccessKept
<1> QED
  BY <1>2, <1>3, <1>4 DEF TunnelInv, TunnelTypeOK

LEMMA TunnelInvNext == TunnelInv /\ [TunnelNext]_tunnelVars => TunnelInv'
<1> SUFFICES ASSUME TunnelInv, [TunnelNext]_tunnelVars  PROVE TunnelInv'
  OBVIOUS
<1>1. CASE UNCHANGED tunnelVars
  BY <1>1 DEF tunnelVars, TunnelInv, TunnelTypeOK
<1>2. CASE EnsureHosted \/ Probe \/ TunnelIsGone \/ CreateTunnel \/ RecordTunnel \/ CreatePort \/ CreateAccess
           \/ SaveAccess \/ \E retryable \in BOOLEAN : EnsureFails(retryable)
  BY <1>2, EnsureHostedKeeps, EarlySteps, GiveUps
<1>3. CASE Provisioned \/ TakeLock
  BY <1>3, ProvisionedKeeps, TakeLockKeeps, GiveUps
<1>4. CASE LoadRecord \/ ListAccess \/ DeleteAccess \/ RecreateAccess \/ StoreRenewal \/ Check \/ HostAnswers
           \/ \E retryable \in BOOLEAN : RenewalFails(retryable)
  BY <1>4, MutationMoves, StoreRenewalKeeps, StartsThatFail, RenewalFailsKeeps DEF LoadRecord, Check
<1>5. CASE Spawned \/ HostIsReady \/ HostExits \/ (\E ok \in BOOLEAN : HostStopped(ok)) \/ NothingToStop
  BY <1>5, SpawnedKeeps, HostIsReadyKeeps, HostExitsKeeps, HostStoppedKeeps, StartsThatFail
<1>6. CASE \E retryable \in BOOLEAN : HostStartFails(retryable)
  BY <1>6, StartsThatFail, StartIsStopped
<1>7. CASE RestartTimer \/ RenewalTimer \/ ExpirationTimer \/ TimePasses \/ Stop \/ StopGoesOn \/ DeleteOwnedResource
  BY <1>7, TimersKeep, ExpirationKeeps, ServiceSteps, StopsKeep
<1> QED
  BY <1>1, <1>2, <1>3, <1>4, <1>5, <1>6, <1>7 DEF TunnelNext

\* Whatever fails, exits or is stopped, no host process is out of the provider's
\* sight, and the entry of the service is the one on record once no renewal is
\* under way.
THEOREM TunnelHeld == TunnelSpec => []TunnelSound
<1>1. TunnelInv => TunnelSound
  BY DEF TunnelInv, TunnelSound, OneHostProcess, AccessOnRecord, AsOnRecord, HostKept, AccessKept, Renewing
<1> QED
  BY <1>1, TunnelInvInit, TunnelInvNext, PTL DEF TunnelSpec

----------------------------------------------------------------------------
(* Enrollment: what is stored, what runs, and what the two ends hold *)

EntryRecords == [st : {"none", "some"}, refs : SUBSET {"root", "inv"}, tasks : BOOLEAN, cleanup : BOOLEAN]
Lives == {"none", "live", "expired"}
StoredRecords ==
  [inv : Lives, key : BOOLEAN, made : BOOLEAN, next : 1..(MaxEnrollments + 1),
   pending : [Enrollments -> Lives], roots : SUBSET Enrollments,
   peers : [Enrollments -> {"none", "cleanup", "active"}],
   denied : SUBSET Enrollments, entries : [Enrollments -> EntryRecords]]

EnrollNames == Enrollments \cup {0}
Findings == {"inv", "pending", "peer"} \X EnrollNames
RunRecords ==
  [op : {"none", "prune", "create", "authenticate", "commit", "revoke", "revokeInvitation"},
   by : Connections \cup {"desk"},
   at : {"none", "prune", "record", "root", "pending", "check", "clean", "close", "tasks", "keys"},
   e : EnrollNames, todo : SUBSET (Findings \cup {"root", "inv"}), failed : BOOLEAN]

PeerRecords ==
  [c : Coordinators \cup {"none"}, cut : BOOLEAN, open : BOOLEAN,
   sess : {"none", "enrollment", "reconnect"},
   of : EnrollNames, e : EnrollNames, named : EnrollNames, auth : EnrollNames,
   req : {"none", "hello", "authenticate", "commit"},
   at : {"idle", "prune", "record", "key", "busy", "mark"},
   mode : {"none", "enrollment", "reconnect"},
   reply : {"none", "ok", "ERROR", "AUTH_FAILED", "ENROLLMENT_EXPIRED"}]

CoordinatorRecords ==
  [profile : {"invited", "candidate", "complete"}, e : EnrollNames,
   keys : SUBSET {"pairing", "credential", "commit"},
   at : {"off", "hello", "authenticate", "reconnect", "proof", "candidate", "commit", "confirmed", "online"},
   conn : Connections \cup {"none"}]

EnrollTyped ==
  /\ rec \in StoredRecords /\ run \in RunRecords
  /\ srv \in [Connections -> PeerRecords] /\ crd \in [Coordinators -> CoordinatorRecords]

IsPeer(e, p) == e \in Enrollments /\ p.peers[e] # "none"
Handed(e, p) == e < p.next
IsClosing(u, e) == u.op = "revoke" /\ u.e = e /\ u.at = "close"

\* The invitation is used up by its one peer, which has its root until it is
\* revoked; a revocation forgets a root only once it is deleted.
StoreKept(p) ==
  /\ \A e \in Enrollments : ~Handed(e, p) =>
       p.pending[e] = "none" /\ p.peers[e] = "none" /\ e \notin p.roots /\ p.entries[e].st = "none"
  /\ p.inv # "none" => p.made
  /\ \A e \in Enrollments : p.peers[e] # "none" => p.inv = "none" /\ p.made
  /\ \A e, f \in Enrollments : p.peers[e] # "none" /\ p.peers[f] # "none" => e = f
  /\ \A e \in Enrollments : p.peers[e] # "none" /\ p.entries[e].st = "none" => e \in p.roots
  /\ \A e \in Enrollments : p.entries[e].st = "some" /\ "root" \notin p.entries[e].refs => e \notin p.roots
  /\ \A e \in Enrollments : p.entries[e].st = "some" /\ ~p.entries[e].cleanup =>
       p.entries[e].refs = {} /\ p.pending[e] = "none"

\* What a mutation that runs may rely on.
RunKept(p, u) ==
  /\ u.op \in {"prune", "authenticate", "commit"} <=> u.by \in Connections
  /\ u.op = "create" => /\ u.at \in {"prune", "record"} /\ p.inv = "none" /\ (p.made <=> u.at = "record")
                        /\ \A e \in Enrollments : p.peers[e] = "none"
  /\ u.op = "prune" => u.at = "prune"
  /\ u.at = "prune" => /\ u.op \in {"prune", "create"}
                       /\ \A e \in Enrollments : <<"peer", e>> \in u.todo => p.peers[e] # "none"
  /\ u.op = "authenticate" =>
       /\ u.at \in {"root", "pending"} /\ u.e \in Enrollments /\ Handed(u.e, p)
       /\ p.peers[u.e] = "none" /\ p.pending[u.e] = "none" /\ p.entries[u.e].st = "none"
  /\ u.op = "commit" =>
       u.at \in {"check", "clean"} /\ u.e \in Enrollments /\ (u.at = "clean" => p.peers[u.e] # "none")
  /\ u.op = "revoke" =>
       /\ u.e \in Enrollments /\ Handed(u.e, p) /\ u.at \in {"record", "close", "tasks", "keys"}
       /\ u.at = "record" => p.entries[u.e].st = "none" /\ "root" \in u.todo /\ u.todo \subseteq {"root", "inv"}
       /\ u.at # "record" => p.entries[u.e].st = "some"

\* The stages of a request on its connection.
Stepping(r) ==
  /\ r.mode = "reconnect" => r.e \in Enrollments
  /\ r.sess \in {"none", r.mode}
  /\ r.reply # "none" => r.req = "none"
  /\ r.req = "none" => r.at = "idle"
  /\ r.at \in {"prune", "record", "key"} => r.req = "hello"
  /\ r.req = "commit" => r.e \in Enrollments
  /\ ~r.open => r.auth = 0

\* The mutation that runs for a connection is the one its request waits for.
Awaiting(n, r, u) == u.by = n =>
  /\ (u.op = "prune" /\ r.at = "prune") \/ (u.op \in {"authenticate", "commit"} /\ r.at = "busy" /\ r.req = u.op)
  /\ u.op = "commit" => r.e = u.e
  /\ u.op = "authenticate" => r.mode = "enrollment"

\* Nobody is about to be authenticated but a peer.
Backed(r, p) ==
  /\ r.at = "mark" => IsPeer(r.e, p)
  /\ r.mode = "reconnect" /\ (r.sess = "reconnect" \/ r.at = "key") => IsPeer(r.e, p)

Shut(r, p, u) ==
  \A e \in Enrollments : p.entries[e].st = "some" /\ ~IsClosing(u, e) => r.auth # e

ConnKept(n, r, p, u) == Stepping(r) /\ Awaiting(n, r, u) /\ Backed(r, p) /\ Shut(r, p, u)

\* A coordinator gives up its means one at a time, the last ones to a worker
\* that has made it a peer.
CoordKept(k, p) ==
  /\ k.profile # "invited" => k.e \in Enrollments /\ "credential" \in k.keys
  /\ k.profile = "candidate" => "commit" \in k.keys \/ IsPeer(k.e, p)
  /\ k.profile = "complete" => IsPeer(k.e, p)
  /\ k.at \in {"authenticate", "proof", "candidate"} => k.profile = "invited"
  /\ k.at \in {"proof", "candidate"} => k.e \in Enrollments /\ "credential" \in k.keys
  /\ k.at = "candidate" => "commit" \in k.keys
  /\ k.at \in {"reconnect", "commit", "confirmed"} => k.profile # "invited"
  /\ k.at = "confirmed" => IsPeer(k.e, p)

\* The two ends of a connection that is up: a good answer is about the
\* enrollment the coordinator asked for.
Tied(k, r, p) ==
  /\ k.at = "hello" =>
       /\ r.req \in {"hello", "none"} /\ r.mode = IF k.profile = "invited" THEN "enrollment" ELSE "reconnect"
       /\ k.profile # "invited" => r.e = k.e
  /\ k.at = "authenticate" =>
       r.req \in {"authenticate", "none"} /\ r.mode = "enrollment" /\ (r.reply = "ok" => r.e \in Enrollments)
  /\ k.at = "reconnect" => r.req \in {"authenticate", "none"} /\ r.mode = "reconnect" /\ r.e = k.e
  /\ k.at \in {"proof", "candidate"} => r.req = "none" /\ r.e = k.e
  /\ k.at = "commit" => r.req \in {"commit", "none"} /\ r.e = k.e
  /\ k.at \in {"reconnect", "commit"} /\ r.reply = "ok" => IsPeer(k.e, p)

EnrollKept ==
  /\ StoreKept(rec) /\ RunKept(rec, run)
  /\ \A n \in Connections : ConnKept(n, srv[n], rec, run)
  /\ \A c \in Coordinators : CoordKept(crd[c], rec) /\ (Linked(c) => Tied(crd[c], srv[crd[c].conn], rec))

----------------------------------------------------------------------------
(* Enrollment: frames *)

PeersStay(p, q) == \A e \in Enrollments : p.peers[e] # "none" => q.peers[e] # "none"
StaysShut(p, u, q, v) ==
  \A e \in Enrollments : q.entries[e].st = "some" /\ ~IsClosing(v, e) =>
                         p.entries[e].st = "some" /\ ~IsClosing(u, e)

\* A connection goes from r to s while the store goes from p to q, and the
\* coordinator at its other end notices nothing untoward.
Follows(n, r, p, s, q, v) ==
  /\ s \in PeerRecords /\ ConnKept(n, s, q, v)
  /\ s.c = r.c /\ (~s.cut => ~r.cut)
  /\ \A k \in CoordinatorRecords : CoordKept(k, p) /\ Tied(k, r, p) => Tied(k, s, q)

LEMMA NoZero == 0 \notin Enrollments
BY EnrollAssumption DEF Enrollments

LEMMA PeerIsKept ==
  ASSUME NEW p, NEW q, NEW e, PeersStay(p, q), IsPeer(e, p)
  PROVE  IsPeer(e, q)
BY DEF PeersStay, IsPeer

LEMMA CoordIsKept ==
  ASSUME NEW p, NEW q, NEW k, PeersStay(p, q), CoordKept(k, p)
  PROVE  CoordKept(k, q)
BY PeerIsKept DEF CoordKept

LEMMA TieIsKept ==
  ASSUME NEW p, NEW q, NEW k, NEW r, PeersStay(p, q), Tied(k, r, p)
  PROVE  Tied(k, r, q)
BY PeerIsKept DEF Tied

LEMMA BackIsKept ==
  ASSUME NEW p, NEW q, NEW r, PeersStay(p, q), Backed(r, p)
  PROVE  Backed(r, q)
BY PeerIsKept DEF Backed

LEMMA ShutIsKept ==
  ASSUME NEW p, NEW q, NEW u, NEW v, NEW r, StaysShut(p, u, q, v), Shut(r, p, u)
  PROVE  Shut(r, q, v)
BY DEF StaysShut, Shut

\* A connection that is left alone.
LEMMA ConnFollows ==
  ASSUME NEW n \in Connections, NEW r \in PeerRecords, NEW p, NEW q, NEW u, NEW v,
         PeersStay(p, q), StaysShut(p, u, q, v), ConnKept(n, r, p, u), Awaiting(n, r, v)
  PROVE  Follows(n, r, p, r, q, v)
BY BackIsKept, ShutIsKept, TieIsKept DEF Follows, ConnKept

\* The mutations write the store and the connections; the coordinators wait.
LEMMA WorkerMoves ==
  ASSUME EnrollTyped, EnrollKept, UNCHANGED crd,
         rec' \in StoredRecords, run' \in RunRecords, StoreKept(rec'), RunKept(rec', run'),
         PeersStay(rec, rec'), DOMAIN srv' = Connections, srv' = [n \in Connections |-> srv'[n]],
         \A n \in Connections : Follows(n, srv[n], rec, srv'[n], rec', run')
  PROVE  EnrollTyped' /\ EnrollKept'
<1>1. EnrollTyped'
  BY DEF EnrollTyped, Follows
<1>2. \A n \in Connections : ConnKept(n, srv'[n], rec', run')
  BY DEF Follows
<1>3. \A c \in Coordinators : CoordKept(crd[c], rec) /\ crd[c] \in CoordinatorRecords
  BY DEF EnrollTyped, EnrollKept
<1>4. \A c \in Coordinators : CoordKept(crd'[c], rec')
  BY <1>3, CoordIsKept
<1>5. ASSUME NEW c \in Coordinators, Linked(c)'
      PROVE  Tied(crd'[c], srv'[crd'[c].conn], rec')
  <2> DEFINE n == crd[c].conn
  <2>1. crd' = crd /\ n \in Connections /\ srv'[n].c = c /\ ~srv'[n].cut /\ n # "none"
    BY <1>5, <1>3 DEF Linked, CoordinatorRecords
  <2>2. Follows(n, srv[n], rec, srv'[n], rec', run')
    BY <2>1
  <2>3. Linked(c)
    BY <2>1, <2>2 DEF Linked, Follows
  <2>4. Tied(crd[c], srv[n], rec)
    BY <2>3 DEF EnrollKept
  <2> QED BY <2>1, <2>2, <2>4, <1>3 DEF Follows
<1> QED BY <1>1, <1>2, <1>4, <1>5 DEF EnrollKept

\* No connection is touched, and the mutation goes on or leaves.
LEMMA StoreMoves ==
  ASSUME EnrollTyped, EnrollKept, UNCHANGED <<srv, crd>>,
         rec' \in StoredRecords, run' \in RunRecords, StoreKept(rec'), RunKept(rec', run'),
         PeersStay(rec, rec'), StaysShut(rec, run, rec', run'),
         \/ run'.by = "desk"
         \/ run'.by = run.by /\ run'.op = run.op /\ run'.e = run.e
  PROVE  EnrollTyped' /\ EnrollKept'
<1>1. ASSUME NEW n \in Connections PROVE Follows(n, srv[n], rec, srv'[n], rec', run')
  <2>1. ConnKept(n, srv[n], rec, run) /\ srv[n] \in PeerRecords
    BY DEF EnrollTyped, EnrollKept
  <2>2. Awaiting(n, srv[n], run')
    BY <2>1, EnrollAssumption DEF ConnKept, Awaiting
  <2> QED BY <2>1, <2>2, ConnFollows
<1>2. DOMAIN srv' = Connections /\ srv' = [n \in Connections |-> srv'[n]]
  BY DEF EnrollTyped
<1> QED BY <1>1, <1>2, WorkerMoves

\* One connection moves, with the mutation that runs for it if there is one.
LEMMA ConnMoves ==
  ASSUME EnrollTyped, EnrollKept, UNCHANGED crd, NEW n \in Connections, NEW s,
         srv' = [srv EXCEPT ![n] = s], Follows(n, srv[n], rec, s, rec', run'),
         rec' \in StoredRecords, run' \in RunRecords, StoreKept(rec'), RunKept(rec', run'),
         PeersStay(rec, rec'), StaysShut(rec, run, rec', run'),
         \/ run'.by \in {"desk", n}
         \/ run'.by = run.by /\ run'.op = run.op /\ run'.e = run.e
  PROVE  EnrollTyped' /\ EnrollKept'
<1>1. DOMAIN srv = Connections /\ DOMAIN srv' = Connections /\ srv' = [m \in Connections |-> srv'[m]]
  BY DEF EnrollTyped
<1>2. srv'[n] = s /\ \A m \in Connections : m # n => srv'[m] = srv[m]
  BY <1>1
<1>3. ASSUME NEW m \in Connections PROVE Follows(m, srv[m], rec, srv'[m], rec', run')
  <2>1. CASE m = n
    BY <2>1, <1>2
  <2>2. CASE m # n
    <3>1. ConnKept(m, srv[m], rec, run) /\ srv[m] \in PeerRecords
      BY DEF EnrollTyped, EnrollKept
    <3>2. Awaiting(m, srv[m], run')
      BY <2>2, <3>1, EnrollAssumption DEF ConnKept, Awaiting
    <3>3. Follows(m, srv[m], rec, srv[m], rec', run')
      BY <3>1, <3>2, ConnFollows
    <3> QED BY <3>3, <2>2, <1>2
  <2> QED BY <2>1, <2>2
<1> QED BY <1>1, <1>3, WorkerMoves

----------------------------------------------------------------------------
(* Enrollment: connections *)

LEMMA ConnHas ==
  ASSUME EnrollTyped, EnrollKept, NEW n \in Connections
  PROVE  srv[n] \in PeerRecords /\ ConnKept(n, srv[n], rec, run)
BY DEF EnrollTyped, EnrollKept

LEMMA StoreHas ==
  ASSUME EnrollTyped, EnrollKept
  PROVE  /\ rec \in StoredRecords /\ run \in RunRecords /\ StoreKept(rec) /\ RunKept(rec, run)
         /\ PeersStay(rec, rec) /\ StaysShut(rec, run, rec, run)
BY DEF EnrollTyped, EnrollKept, PeersStay, StaysShut

\* A step of a connection that answers nothing good keeps both its ends.
LEMMA ConnSteps ==
  ASSUME NEW n \in Connections, NEW r \in PeerRecords, NEW s \in PeerRecords,
         NEW p, NEW q, NEW u, NEW v,
         ConnKept(n, r, p, u), PeersStay(p, q), StaysShut(p, u, q, v),
         s.c = r.c, ~s.cut => ~r.cut, s.e = r.e, s.mode = r.mode, s.req \in {r.req, "none"},
         s.reply # "ok" \/ s.reply = r.reply, s.auth \in {r.auth, 0},
         Stepping(s), Awaiting(n, s, v), Backed(s, q)
  PROVE  Follows(n, r, p, s, q, v)
<1>1. Shut(s, q, v)
  <2>1. Shut(r, q, v)
    BY ShutIsKept DEF ConnKept
  <2> QED BY <2>1, EnrollAssumption DEF Shut, Enrollments
<1>2. ASSUME NEW k \in CoordinatorRecords, Tied(k, r, p) PROVE Tied(k, s, q)
  <2>1. Tied(k, r, q)
    BY <1>2, TieIsKept
  <2> QED BY <2>1 DEF Tied
<1> QED BY <1>1, <1>2 DEF Follows, ConnKept

\* The same, when the store and the mutation stay as they are.
LEMMA SrvMoves ==
  ASSUME EnrollTyped, EnrollKept, UNCHANGED <<rec, run, crd>>, NEW n \in Connections, NEW s,
         srv' = [srv EXCEPT ![n] = s], Follows(n, srv[n], rec, s, rec, run)
  PROVE  EnrollTyped' /\ EnrollKept'
BY StoreHas, ConnMoves

\* A refusal.
LEMMA RefusalFollows ==
  ASSUME NEW n \in Connections, NEW r \in PeerRecords, NEW p, NEW q, NEW u, NEW v,
         ConnKept(n, r, p, u), PeersStay(p, q), StaysShut(p, u, q, v), v.by # n,
         NEW k \in {"ERROR", "AUTH_FAILED", "ENROLLMENT_EXPIRED"}
  PROVE  Follows(n, r, p, Answered(r, k), q, v)
<1> DEFINE s == Answered(r, k)
<1>1. s \in PeerRecords
  BY DEF Answered, PeerRecords
<1>2. /\ s.c = r.c /\ s.cut = r.cut /\ s.e = r.e /\ s.mode = r.mode /\ s.sess = r.sess /\ s.auth = r.auth
      /\ s.open = r.open /\ s.req = "none" /\ s.at = "idle" /\ s.reply = k
  BY DEF Answered, PeerRecords
<1> HIDE DEF s
<1>3. Stepping(s)
  BY <1>2 DEF Stepping, ConnKept
<1>4. Awaiting(n, s, v)
  BY DEF Awaiting
<1>5. Backed(r, q)
  BY BackIsKept DEF ConnKept
<1>6. Backed(s, q)
  BY <1>2, <1>5 DEF Backed
<1> QED BY <1>1, <1>2, <1>3, <1>4, <1>6, ConnSteps DEF s

LEMMA DisposedTyped ==
  ASSUME NEW r \in PeerRecords
  PROVE  DisposedPeer(r) \in PeerRecords /\ [DisposedPeer(r) EXCEPT !.cut = TRUE] \in PeerRecords
<1>1. (IF r.at = "idle" THEN "none" ELSE r.req) \in {"none", "hello", "authenticate", "commit"} /\ 0 \in EnrollNames
  BY DEF PeerRecords, EnrollNames
<1>2. DisposedPeer(r) \in PeerRecords
  BY <1>1 DEF DisposedPeer, PeerRecords
<1> QED BY <1>2 DEF PeerRecords

\* A connection that is disposed, at an end that may have been closed.
LEMMA DisposalFollows ==
  ASSUME NEW n \in Connections, NEW r \in PeerRecords, NEW p, NEW u, NEW v, NEW s,
         ConnKept(n, r, p, u), StaysShut(p, u, p, v), v.by = u.by, v.op = u.op, v.e = u.e,
         s \in {DisposedPeer(r), [DisposedPeer(r) EXCEPT !.cut = TRUE]}
  PROVE  Follows(n, r, p, s, p, v)
<1>1. s \in PeerRecords
  BY DisposedTyped
<1>2. /\ s.c = r.c /\ (s.cut = r.cut \/ s.cut) /\ s.e = r.e /\ s.mode = r.mode /\ s.sess = "none" /\ s.auth = 0
      /\ s.at = r.at /\ s.reply = r.reply /\ s.req = IF r.at = "idle" THEN "none" ELSE r.req
  BY DEF DisposedPeer, PeerRecords
<1>3. Stepping(s)
  BY <1>2 DEF Stepping, ConnKept
<1>4. Awaiting(n, s, v)
  BY <1>2 DEF Awaiting, ConnKept
<1>5. Backed(s, p)
  BY <1>2 DEF Backed, ConnKept
<1>6. PeersStay(p, p)
  BY DEF PeersStay
<1> QED BY <1>1, <1>2, <1>3, <1>4, <1>5, <1>6, ConnSteps

LEMMA DisposeStep ==
  ASSUME EnrollTyped, EnrollKept, NEW n \in Connections, DisposeConnection(n)
  PROVE  EnrollTyped' /\ EnrollKept'
<1>1. UNCHANGED <<rec, run, crd>> /\ srv' = [srv EXCEPT ![n] = DisposedPeer(srv[n])]
  BY DEF DisposeConnection
<1>2. Follows(n, srv[n], rec, DisposedPeer(srv[n]), rec, run)
  BY ConnHas, StoreHas, DisposalFollows
<1> QED BY <1>1, <1>2, SrvMoves

LEMMA SessionExpiresStep ==
  ASSUME EnrollTyped, EnrollKept, NEW n \in Connections, SessionExpires(n)
  PROVE  EnrollTyped' /\ EnrollKept'
<1> DEFINE r == srv[n]
           s == [r EXCEPT !.sess = "none", !.of = 0]
<1>1. UNCHANGED <<rec, run, crd>> /\ srv' = [srv EXCEPT ![n] = s]
  BY DEF SessionExpires
<1>2. r \in PeerRecords /\ ConnKept(n, r, rec, run)
  BY ConnHas
<1> HIDE DEF r
<1>3. s \in PeerRecords
  BY <1>2 DEF PeerRecords, EnrollNames
<1>4. /\ s.c = r.c /\ s.cut = r.cut /\ s.e = r.e /\ s.mode = r.mode /\ s.sess = "none" /\ s.auth = r.auth
      /\ s.open = r.open /\ s.req = r.req /\ s.at = r.at /\ s.reply = r.reply
  BY <1>2 DEF PeerRecords
<1> HIDE DEF s
<1>5. Stepping(s) /\ Awaiting(n, s, run) /\ Backed(s, rec)
  BY <1>2, <1>4 DEF Stepping, Awaiting, Backed, ConnKept
<1>6. Follows(n, r, rec, s, rec, run)
  BY <1>2, <1>3, <1>4, <1>5, StoreHas, ConnSteps
<1> QED BY <1>1, <1>6, SrvMoves DEF r

\* A step that refuses, or goes on without an answer.
LEMMA RefuseStep ==
  ASSUME EnrollTyped, EnrollKept, NEW n \in Connections, UNCHANGED <<rec, run, crd>>,
         srv[n].at # "busy" /\ (srv[n].at = "prune" => run.by # n), Reply(n, "AUTH_FAILED")
  PROVE  EnrollTyped' /\ EnrollKept'
<1>1. run.by # n
  BY ConnHas DEF ConnKept, Awaiting
<1>2. Follows(n, srv[n], rec, Answered(srv[n], "AUTH_FAILED"), rec, run)
  BY <1>1, ConnHas, StoreHas, RefusalFollows
<1> QED BY <1>2, SrvMoves DEF Reply

LEMMA HelloStep ==
  ASSUME EnrollTyped, EnrollKept, NEW n \in Connections, Hello(n)
  PROVE  EnrollTyped' /\ EnrollKept'
<1> DEFINE r == srv[n]
           s == [r EXCEPT !.at = "prune", !.named = IF r.mode = "reconnect" THEN r.e ELSE 0]
<1>1. UNCHANGED <<rec, run, crd>> /\ r.req = "hello" /\ r.at = "idle"
  BY DEF Hello
<1>2. r \in PeerRecords /\ ConnKept(n, r, rec, run)
  BY ConnHas
<1>3. CASE srv' = [srv EXCEPT ![n] = s]
  <2> HIDE DEF r
  <2>1. (IF r.mode = "reconnect" THEN r.e ELSE 0) \in EnrollNames
    BY <1>2 DEF PeerRecords, EnrollNames
  <2>2. s \in PeerRecords
    BY <1>2, <2>1 DEF PeerRecords
  <2>3. /\ s.c = r.c /\ s.cut = r.cut /\ s.e = r.e /\ s.mode = r.mode /\ s.sess = r.sess /\ s.auth = r.auth
        /\ s.open = r.open /\ s.req = r.req /\ s.at = "prune" /\ s.reply = r.reply
    BY <1>2 DEF PeerRecords
  <2> HIDE DEF s
  <2>4. Stepping(s) /\ Awaiting(n, s, run) /\ Backed(s, rec)
    BY <1>1, <1>2, <2>3 DEF Stepping, Awaiting, Backed, ConnKept
  <2>5. Follows(n, r, rec, s, rec, run)
    BY <1>2, <2>2, <2>3, <2>4, StoreHas, ConnSteps
  <2> QED BY <1>1, <1>3, <2>5, SrvMoves DEF r
<1>4. CASE Reply(n, "AUTH_FAILED")
  BY <1>1, <1>4, RefuseStep
<1> QED BY <1>3, <1>4 DEF Hello

LEMMA HelloRecordStep ==
  ASSUME EnrollTyped, EnrollKept, NEW n \in Connections, HelloRecord(n)
  PROVE  EnrollTyped' /\ EnrollKept'
<1> DEFINE r == srv[n]
           s == [r EXCEPT !.at = "key"]
<1>1. UNCHANGED <<rec, run, crd>> /\ r.at = "record"
  BY DEF HelloRecord
<1>2. r \in PeerRecords /\ ConnKept(n, r, rec, run)
  BY ConnHas
<1>3. CASE srv' = [srv EXCEPT ![n].at = "key"] /\ (r.mode = "reconnect" => rec.peers[r.e] # "none")
  <2>1. srv' = [srv EXCEPT ![n] = s]
    BY <1>3 DEF EnrollTyped
  <2> HIDE DEF r
  <2>2. s \in PeerRecords
    BY <1>2 DEF PeerRecords
  <2>3. /\ s.c = r.c /\ s.cut = r.cut /\ s.e = r.e /\ s.mode = r.mode /\ s.sess = r.sess /\ s.auth = r.auth
        /\ s.open = r.open /\ s.req = r.req /\ s.at = "key" /\ s.reply = r.reply
    BY <1>2 DEF PeerRecords
  <2> HIDE DEF s
  <2>4. Stepping(s) /\ Awaiting(n, s, run) /\ Backed(s, rec)
    BY <1>1, <1>2, <1>3, <2>3 DEF Stepping, Awaiting, Backed, ConnKept, IsPeer
  <2>5. Follows(n, r, rec, s, rec, run)
    BY <1>2, <2>2, <2>3, <2>4, StoreHas, ConnSteps
  <2> QED BY <1>1, <2>1, <2>5, SrvMoves DEF r
<1>4. CASE Reply(n, "AUTH_FAILED")
  BY <1>1, <1>4, RefuseStep
<1> QED BY <1>3, <1>4 DEF HelloRecord

LEMMA HelloKeyStep ==
  ASSUME EnrollTyped, EnrollKept, NEW n \in Connections, HelloKey(n)
  PROVE  EnrollTyped' /\ EnrollKept'
<1> DEFINE r == srv[n]
           s == Answered([r EXCEPT !.sess = r.mode], "ok")
<1>1. UNCHANGED <<rec, run, crd>> /\ r.at = "key"
  BY DEF HelloKey
<1>2. r \in PeerRecords /\ ConnKept(n, r, rec, run)
  BY ConnHas
<1>3. CASE srv' = [srv EXCEPT ![n] = s]
  <2> HIDE DEF r
  <2>1. s \in PeerRecords
    BY <1>2 DEF PeerRecords, Answered
  <2>2. /\ s.c = r.c /\ s.cut = r.cut /\ s.e = r.e /\ s.mode = r.mode /\ s.sess = r.mode /\ s.auth = r.auth
        /\ s.open = r.open /\ s.req = "none" /\ s.at = "idle" /\ s.reply = "ok"
    BY <1>2 DEF PeerRecords, Answered
  <2> HIDE DEF s
  <2>3. Stepping(s) /\ Awaiting(n, s, run) /\ Backed(s, rec) /\ Shut(s, rec, run)
    BY <1>1, <1>2, <2>2 DEF Stepping, Awaiting, Backed, Shut, ConnKept
  <2>4. ASSUME NEW k \in CoordinatorRecords, Tied(k, r, rec) PROVE Tied(k, s, rec)
    <3>1. r.req = "hello"
      BY <1>1, <1>2 DEF ConnKept, Stepping
    <3> QED BY <3>1, <2>2, <2>4 DEF Tied
  <2>5. Follows(n, r, rec, s, rec, run)
    BY <2>1, <2>2, <2>3, <2>4 DEF Follows, ConnKept
  <2> QED BY <1>1, <1>3, <2>5, SrvMoves DEF r
<1>4. CASE Reply(n, "AUTH_FAILED")
  BY <1>1, <1>4, RefuseStep
<1> QED BY <1>3, <1>4 DEF HelloKey

LEMMA MarkStep ==
  ASSUME EnrollTyped, EnrollKept, NEW n \in Connections, Mark(n)
  PROVE  EnrollTyped' /\ EnrollKept'
<1> DEFINE r == srv[n]
           s == Answered([r EXCEPT !.auth = IF StillOpen(n) THEN r.e ELSE 0], "ok")
<1>1. UNCHANGED <<rec, run, crd>> /\ r.at = "mark"
  BY DEF Mark
<1>2. r \in PeerRecords /\ ConnKept(n, r, rec, run)
  BY ConnHas
<1>3. CASE srv' = [srv EXCEPT ![n] = s] /\ Allowed(r.e)
  <2>1. StillOpen(n) <=> r.open
    BY <1>2 DEF StillOpen
  <2>2. Allowed(r.e) <=> r.e \notin rec.denied /\ rec.entries[r.e].st = "none"
    BY DEF Allowed
  <2> HIDE DEF r
  <2>3. (IF StillOpen(n) THEN r.e ELSE 0) \in EnrollNames
    BY <1>2 DEF PeerRecords, EnrollNames
  <2>4. s \in PeerRecords
    BY <1>2, <2>3 DEF PeerRecords, Answered
  <2>5. /\ s.c = r.c /\ s.cut = r.cut /\ s.e = r.e /\ s.mode = r.mode /\ s.sess = r.sess
        /\ s.auth = (IF r.open THEN r.e ELSE 0)
        /\ s.open = r.open /\ s.req = "none" /\ s.at = "idle" /\ s.reply = "ok"
    BY <1>2, <2>1 DEF PeerRecords, Answered
  <2> HIDE DEF s
  <2>6. Stepping(s) /\ Awaiting(n, s, run) /\ Backed(s, rec)
    BY <1>1, <1>2, <2>5 DEF Stepping, Awaiting, Backed, ConnKept
  <2>7. Shut(s, rec, run)
    BY <1>3, <2>2, <2>5, EnrollAssumption DEF Shut, Enrollments
  <2>8. IsPeer(r.e, rec)
    BY <1>1, <1>2 DEF ConnKept, Backed
  <2>9. ASSUME NEW k \in CoordinatorRecords, Tied(k, r, rec) PROVE Tied(k, s, rec)
    <3>1. r.req # "none"
      BY <1>1, <1>2 DEF ConnKept, Stepping
    <3> QED BY <3>1, <2>5, <2>8, <2>9 DEF Tied, IsPeer
  <2>10. Follows(n, r, rec, s, rec, run)
    BY <2>4, <2>5, <2>6, <2>7, <2>9 DEF Follows, ConnKept
  <2> QED BY <1>1, <1>3, <2>10, SrvMoves DEF r
<1>4. CASE Reply(n, "AUTH_FAILED")
  BY <1>1, <1>4, RefuseStep
<1> QED BY <1>3, <1>4 DEF Mark

----------------------------------------------------------------------------
(* Enrollment: mutations of the records *)

LEMMA InvitationExpiresStep ==
  ASSUME EnrollTyped, EnrollKept, InvitationExpires
  PROVE  EnrollTyped' /\ EnrollKept'
<1>1. /\ rec \in StoredRecords /\ run \in RunRecords /\ StoreKept(rec) /\ RunKept(rec, run)
      /\ UNCHANGED <<srv, crd>>
  BY StoreHas DEF InvitationExpires
<1>2. rec.inv = "live" /\ run' = run
  BY DEF InvitationExpires, Doing, Start
<1>3. rec' \in StoredRecords
  BY <1>1, <1>2, EnrollAssumption DEF InvitationExpires, StoredRecords, EntryRecords, Lives, Start
<1>4. /\ rec'.inv = "expired"
      /\ rec'.made = rec.made
      /\ rec'.next = rec.next
      /\ rec'.pending = rec.pending
      /\ rec'.roots = rec.roots
      /\ rec'.peers = rec.peers
      /\ rec'.entries = rec.entries
  BY <1>1, <1>2 DEF InvitationExpires, StoredRecords, Start
<1>5. \A x \in Enrollments : Handed(x, rec') <=> Handed(x, rec)
  BY <1>4 DEF Handed
<1>6. run' \in RunRecords
  BY <1>1, <1>2, EnrollAssumption DEF InvitationExpires, RunRecords, Start, Resting, EnrollNames
<1>7. run' = run
  BY <1>1, <1>2 DEF InvitationExpires, RunRecords, Start, Resting
<1>8. StoreKept(rec')
  BY <1>1, <1>2, <1>4, <1>5 DEF StoreKept, RunKept, StoredRecords, EntryRecords
<1>9. RunKept(rec', run')
  BY <1>1, <1>2, <1>4, <1>5, <1>7, EnrollAssumption DEF StoreKept, RunKept, StoredRecords, EntryRecords
<1>10. PeersStay(rec, rec') /\ StaysShut(rec, run, rec', run')
  BY <1>1, <1>2, <1>4, <1>7 DEF PeersStay, StaysShut, IsClosing, StoredRecords, Resting
<1> QED BY <1>1, <1>2, <1>3, <1>6, <1>7, <1>8, <1>9, <1>10, StoreMoves

LEMMA PendingExpiresStep ==
  ASSUME EnrollTyped, EnrollKept, NEW e \in Enrollments, PendingExpires(e)
  PROVE  EnrollTyped' /\ EnrollKept'
<1>1. /\ rec \in StoredRecords /\ run \in RunRecords /\ StoreKept(rec) /\ RunKept(rec, run)
      /\ UNCHANGED <<srv, crd>>
  BY StoreHas DEF PendingExpires
<1>2. rec.pending[e] = "live" /\ run' = run
  BY DEF PendingExpires, Doing, Start
<1>3. rec' \in StoredRecords
  BY <1>1, <1>2, EnrollAssumption DEF PendingExpires, StoredRecords, EntryRecords, Lives, Start
<1>4. /\ rec'.inv = rec.inv
      /\ rec'.made = rec.made
      /\ rec'.next = rec.next
      /\ rec'.pending = [rec.pending EXCEPT ![e] = "expired"]
      /\ rec'.roots = rec.roots
      /\ rec'.peers = rec.peers
      /\ rec'.entries = rec.entries
  BY <1>1, <1>2 DEF PendingExpires, StoredRecords, Start
<1>5. \A x \in Enrollments : Handed(x, rec') <=> Handed(x, rec)
  BY <1>4 DEF Handed
<1>6. run' \in RunRecords
  BY <1>1, <1>2, EnrollAssumption DEF PendingExpires, RunRecords, Start, Resting, EnrollNames
<1>7. run' = run
  BY <1>1, <1>2 DEF PendingExpires, RunRecords, Start, Resting
<1>8. StoreKept(rec')
  BY <1>1, <1>2, <1>4, <1>5 DEF StoreKept, RunKept, StoredRecords, EntryRecords
<1>9. RunKept(rec', run')
  BY <1>1, <1>2, <1>4, <1>5, <1>7, EnrollAssumption DEF StoreKept, RunKept, StoredRecords, EntryRecords
<1>10. PeersStay(rec, rec') /\ StaysShut(rec, run, rec', run')
  BY <1>1, <1>2, <1>4, <1>7 DEF PeersStay, StaysShut, IsClosing, StoredRecords, Resting
<1> QED BY <1>1, <1>2, <1>3, <1>6, <1>7, <1>8, <1>9, <1>10, StoreMoves

LEMMA PruneInvitationStep ==
  ASSUME EnrollTyped, EnrollKept, PruneInvitation
  PROVE  EnrollTyped' /\ EnrollKept'
<1>1. /\ rec \in StoredRecords /\ run \in RunRecords /\ StoreKept(rec) /\ RunKept(rec, run)
      /\ UNCHANGED <<srv, crd>>
  BY StoreHas DEF PruneInvitation
<1>2. run.at = "prune"
  BY DEF PruneInvitation, Doing, Start
<1>3. rec' \in StoredRecords
  <2>1. [rec EXCEPT !.key = FALSE] \in StoredRecords
    BY <1>1 DEF StoredRecords, Lives
  <2>2. [rec EXCEPT !.inv = "none"] \in StoredRecords
    BY <1>1 DEF StoredRecords, Lives
  <2> QED BY <1>1, <1>2, <2>1, <2>2 DEF PruneInvitation
<1>4. /\ rec'.inv = (IF rec.key THEN rec.inv ELSE "none")
      /\ rec'.made = rec.made
      /\ rec'.next = rec.next
      /\ rec'.pending = rec.pending
      /\ rec'.roots = rec.roots
      /\ rec'.peers = rec.peers
      /\ rec'.entries = rec.entries
  BY <1>1, <1>2 DEF PruneInvitation, StoredRecords, Start
<1>5. \A x \in Enrollments : Handed(x, rec') <=> Handed(x, rec)
  BY <1>4 DEF Handed
<1>6. run' \in RunRecords
  BY <1>1, <1>2, EnrollAssumption DEF PruneInvitation, RunRecords, Start, Resting, EnrollNames
<1>7. run'.by = run.by /\ run'.op = run.op /\ run'.at = run.at /\ run'.e = run.e /\ run'.todo \subseteq run.todo
  BY <1>1, <1>2 DEF PruneInvitation, RunRecords, Start, Resting
<1>8. StoreKept(rec')
  BY <1>1, <1>2, <1>4, <1>5 DEF StoreKept, RunKept, StoredRecords, EntryRecords
<1>9. RunKept(rec', run')
  BY <1>1, <1>2, <1>4, <1>5, <1>7, EnrollAssumption DEF StoreKept, RunKept, StoredRecords, EntryRecords
<1>10. PeersStay(rec, rec') /\ StaysShut(rec, run, rec', run')
  BY <1>1, <1>2, <1>4, <1>7 DEF PeersStay, StaysShut, IsClosing, StoredRecords, Resting
<1> QED BY <1>1, <1>2, <1>3, <1>6, <1>7, <1>8, <1>9, <1>10, StoreMoves

LEMMA PrunePendingStep ==
  ASSUME EnrollTyped, EnrollKept, NEW e \in Enrollments, PrunePending(e)
  PROVE  EnrollTyped' /\ EnrollKept'
<1>1. /\ rec \in StoredRecords /\ run \in RunRecords /\ StoreKept(rec) /\ RunKept(rec, run)
      /\ UNCHANGED <<srv, crd>>
  BY StoreHas DEF PrunePending
<1>2. run.at = "prune"
  BY DEF PrunePending, Doing, Start
<1>3. rec' \in StoredRecords
  <2>1. [rec EXCEPT !.roots = @ \ {e}] \in StoredRecords
    BY <1>1 DEF StoredRecords, Lives
  <2>2. [rec EXCEPT !.pending[e] = "none"] \in StoredRecords
    BY <1>1 DEF StoredRecords, Lives
  <2> QED BY <1>1, <1>2, <2>1, <2>2 DEF PrunePending
<1>4. /\ rec'.inv = rec.inv
      /\ rec'.made = rec.made
      /\ rec'.next = rec.next
      /\ rec'.pending = (IF e \in rec.roots /\ rec.peers[e] = "none" THEN rec.pending ELSE [rec.pending EXCEPT ![e] = "none"])
      /\ rec'.roots = (IF e \in rec.roots /\ rec.peers[e] = "none" THEN rec.roots \ {e} ELSE rec.roots)
      /\ rec'.peers = rec.peers
      /\ rec'.entries = rec.entries
  BY <1>1, <1>2 DEF PrunePending, StoredRecords, Start
<1>5. \A x \in Enrollments : Handed(x, rec') <=> Handed(x, rec)
  BY <1>4 DEF Handed
<1>6. run' \in RunRecords
  BY <1>1, <1>2, EnrollAssumption DEF PrunePending, RunRecords, Start, Resting, EnrollNames
<1>7. run'.by = run.by /\ run'.op = run.op /\ run'.at = run.at /\ run'.e = run.e /\ run'.todo \subseteq run.todo
  BY <1>1, <1>2 DEF PrunePending, RunRecords, Start, Resting
<1>8. StoreKept(rec')
  BY <1>1, <1>2, <1>4, <1>5 DEF StoreKept, RunKept, StoredRecords, EntryRecords
<1>9. RunKept(rec', run')
  BY <1>1, <1>2, <1>4, <1>5, <1>7, EnrollAssumption DEF StoreKept, RunKept, StoredRecords, EntryRecords
<1>10. PeersStay(rec, rec') /\ StaysShut(rec, run, rec', run')
  BY <1>1, <1>2, <1>4, <1>7 DEF PeersStay, StaysShut, IsClosing, StoredRecords, Resting
<1> QED BY <1>1, <1>2, <1>3, <1>6, <1>7, <1>8, <1>9, <1>10, StoreMoves

LEMMA PrunePeerStep ==
  ASSUME EnrollTyped, EnrollKept, NEW e \in Enrollments, PrunePeer(e)
  PROVE  EnrollTyped' /\ EnrollKept'
<1>1. /\ rec \in StoredRecords /\ run \in RunRecords /\ StoreKept(rec) /\ RunKept(rec, run)
      /\ UNCHANGED <<srv, crd>>
  BY StoreHas DEF PrunePeer
<1>2. run.at = "prune" /\ <<"peer", e>> \in run.todo
  BY DEF PrunePeer, Doing, Start, CleanedPeer
<1>3. rec' \in StoredRecords
  BY <1>1, <1>2, EnrollAssumption DEF PrunePeer, StoredRecords, EntryRecords, Lives, Start, CleanedPeer
<1>4. /\ rec'.inv = rec.inv
      /\ rec'.made = rec.made
      /\ rec'.next = rec.next
      /\ rec'.pending = rec.pending
      /\ rec'.roots = rec.roots
      /\ rec'.peers = (IF rec.key THEN rec.peers ELSE [rec.peers EXCEPT ![e] = "active"])
      /\ rec'.entries = rec.entries
  BY <1>1, <1>2 DEF PrunePeer, StoredRecords, Start, CleanedPeer
<1>5. \A x \in Enrollments : Handed(x, rec') <=> Handed(x, rec)
  BY <1>4 DEF Handed
<1>6. run' \in RunRecords
  BY <1>1, <1>2, EnrollAssumption DEF PrunePeer, RunRecords, Start, Resting, EnrollNames, CleanedPeer
<1>7. run'.by = run.by /\ run'.op = run.op /\ run'.at = run.at /\ run'.e = run.e /\ run'.todo \subseteq run.todo
  BY <1>1, <1>2 DEF PrunePeer, RunRecords, Start, Resting, CleanedPeer
<1>8. StoreKept(rec')
  BY <1>1, <1>2, <1>4, <1>5 DEF StoreKept, RunKept, StoredRecords, EntryRecords
<1>9. RunKept(rec', run')
  BY <1>1, <1>2, <1>4, <1>5, <1>7, EnrollAssumption DEF StoreKept, RunKept, StoredRecords, EntryRecords
<1>10. PeersStay(rec, rec') /\ StaysShut(rec, run, rec', run')
  BY <1>1, <1>2, <1>4, <1>7 DEF PeersStay, StaysShut, IsClosing, StoredRecords, Resting
<1> QED BY <1>1, <1>2, <1>3, <1>6, <1>7, <1>8, <1>9, <1>10, StoreMoves

LEMMA CommitCleanStep ==
  ASSUME EnrollTyped, EnrollKept, CommitClean
  PROVE  EnrollTyped' /\ EnrollKept'
<1>1. /\ rec \in StoredRecords /\ run \in RunRecords /\ StoreKept(rec) /\ RunKept(rec, run)
      /\ UNCHANGED <<srv, crd>>
  BY StoreHas DEF CommitClean
<1>2. run.op = "commit" /\ run.at = "clean" /\ rec.peers[run.e] = "cleanup" /\ run' = run
  BY DEF CommitClean, Doing, Start, CleanedPeer
<1>3. rec' \in StoredRecords
  BY <1>1, <1>2, EnrollAssumption DEF CommitClean, StoredRecords, EntryRecords, Lives, Start, CleanedPeer
<1>4. /\ rec'.inv = rec.inv
      /\ rec'.made = rec.made
      /\ rec'.next = rec.next
      /\ rec'.pending = rec.pending
      /\ rec'.roots = rec.roots
      /\ rec'.peers = (IF rec.key THEN rec.peers ELSE [rec.peers EXCEPT ![run.e] = "active"])
      /\ rec'.entries = rec.entries
  BY <1>1, <1>2 DEF CommitClean, StoredRecords, Start, CleanedPeer
<1>5. \A x \in Enrollments : Handed(x, rec') <=> Handed(x, rec)
  BY <1>4 DEF Handed
<1>6. run' \in RunRecords
  BY <1>1, <1>2, EnrollAssumption DEF CommitClean, RunRecords, Start, Resting, EnrollNames, CleanedPeer
<1>7. run' = run
  BY <1>1, <1>2 DEF CommitClean, RunRecords, Start, Resting, CleanedPeer
<1>8. StoreKept(rec')
  BY <1>1, <1>2, <1>4, <1>5 DEF StoreKept, RunKept, StoredRecords, EntryRecords
<1>9. RunKept(rec', run')
  BY <1>1, <1>2, <1>4, <1>5, <1>7, EnrollAssumption DEF StoreKept, RunKept, StoredRecords, EntryRecords
<1>10. PeersStay(rec, rec') /\ StaysShut(rec, run, rec', run')
  BY <1>1, <1>2, <1>4, <1>7 DEF PeersStay, StaysShut, IsClosing, StoredRecords, Resting
<1> QED BY <1>1, <1>2, <1>3, <1>6, <1>7, <1>8, <1>9, <1>10, StoreMoves

LEMMA CreateInvitationStep ==
  ASSUME EnrollTyped, EnrollKept, CreateInvitation
  PROVE  EnrollTyped' /\ EnrollKept'
<1>1. /\ rec \in StoredRecords /\ run \in RunRecords /\ StoreKept(rec) /\ RunKept(rec, run)
      /\ UNCHANGED <<srv, crd>>
  BY StoreHas DEF CreateInvitation
<1>2. ~rec.made /\ run = Resting
  BY DEF CreateInvitation, Doing, Start
<1>3. rec' \in StoredRecords
  BY <1>1, <1>2, EnrollAssumption DEF CreateInvitation, StoredRecords, EntryRecords, Lives, Start
<1>4. /\ rec'.inv = rec.inv
      /\ rec'.made = rec.made
      /\ rec'.next = rec.next
      /\ rec'.pending = rec.pending
      /\ rec'.roots = rec.roots
      /\ rec'.peers = rec.peers
      /\ rec'.entries = rec.entries
  BY <1>1, <1>2 DEF CreateInvitation, StoredRecords, Start
<1>5. \A x \in Enrollments : Handed(x, rec') <=> Handed(x, rec)
  BY <1>4 DEF Handed
<1>6. run' \in RunRecords
  BY <1>1, <1>2, EnrollAssumption DEF CreateInvitation, RunRecords, Start, Resting, EnrollNames, Stale, Findings
<1>7. run'.op = "create" /\ run'.by = "desk" /\ run'.at = "prune" /\ run'.todo = Stale
  BY <1>1, <1>2 DEF CreateInvitation, RunRecords, Start, Resting
<1>8. StoreKept(rec')
  BY <1>1, <1>2, <1>4, <1>5 DEF StoreKept, RunKept, StoredRecords, EntryRecords
<1>9. RunKept(rec', run')
  BY <1>1, <1>2, <1>4, <1>5, <1>7, EnrollAssumption DEF StoreKept, RunKept, StoredRecords, EntryRecords, Stale, Findings
<1>10. PeersStay(rec, rec') /\ StaysShut(rec, run, rec', run')
  BY <1>1, <1>2, <1>4, <1>7 DEF PeersStay, StaysShut, IsClosing, StoredRecords, Resting
<1> QED BY <1>1, <1>2, <1>3, <1>6, <1>7, <1>8, <1>9, <1>10, StoreMoves

LEMMA StoreInvitationKeyStep ==
  ASSUME EnrollTyped, EnrollKept, StoreInvitationKey
  PROVE  EnrollTyped' /\ EnrollKept'
<1>1. /\ rec \in StoredRecords /\ run \in RunRecords /\ StoreKept(rec) /\ RunKept(rec, run)
      /\ UNCHANGED <<srv, crd>>
  BY StoreHas DEF StoreInvitationKey
<1>2. run.op = "create" /\ run.at = "prune"
  BY DEF StoreInvitationKey, Doing, Start
<1>3. rec' \in StoredRecords
  BY <1>1, <1>2, EnrollAssumption DEF StoreInvitationKey, StoredRecords, EntryRecords, Lives, Start
<1>4. /\ rec'.inv = rec.inv
      /\ rec'.made = TRUE
      /\ rec'.next = rec.next
      /\ rec'.pending = rec.pending
      /\ rec'.roots = rec.roots
      /\ rec'.peers = rec.peers
      /\ rec'.entries = rec.entries
  BY <1>1, <1>2 DEF StoreInvitationKey, StoredRecords, Start
<1>5. \A x \in Enrollments : Handed(x, rec') <=> Handed(x, rec)
  BY <1>4 DEF Handed
<1>6. run' \in RunRecords
  BY <1>1, <1>2, EnrollAssumption DEF StoreInvitationKey, RunRecords, Start, Resting, EnrollNames
<1>7. run'.op = "create" /\ run'.by = run.by /\ run'.at = "record" /\ run'.e = run.e
  BY <1>1, <1>2 DEF StoreInvitationKey, RunRecords, Start, Resting
<1>8. StoreKept(rec')
  BY <1>1, <1>2, <1>4, <1>5 DEF StoreKept, RunKept, StoredRecords, EntryRecords
<1>9. RunKept(rec', run')
  BY <1>1, <1>2, <1>4, <1>5, <1>7, EnrollAssumption DEF StoreKept, RunKept, StoredRecords, EntryRecords
<1>10. PeersStay(rec, rec') /\ StaysShut(rec, run, rec', run')
  BY <1>1, <1>2, <1>4, <1>7 DEF PeersStay, StaysShut, IsClosing, StoredRecords, Resting
<1> QED BY <1>1, <1>2, <1>3, <1>6, <1>7, <1>8, <1>9, <1>10, StoreMoves

LEMMA StoreInvitationRecordStep ==
  ASSUME EnrollTyped, EnrollKept, NEW ok \in BOOLEAN, StoreInvitationRecord(ok)
  PROVE  EnrollTyped' /\ EnrollKept'
<1>1. /\ rec \in StoredRecords /\ run \in RunRecords /\ StoreKept(rec) /\ RunKept(rec, run)
      /\ UNCHANGED <<srv, crd>>
  BY StoreHas DEF StoreInvitationRecord
<1>2. run.op = "create" /\ run.at = "record"
  BY DEF StoreInvitationRecord, Doing, Start
<1>3. rec' \in StoredRecords
  BY <1>1, <1>2, EnrollAssumption DEF StoreInvitationRecord, StoredRecords, EntryRecords, Lives, Start
<1>4. /\ rec'.inv = (IF ok THEN "live" ELSE rec.inv)
      /\ rec'.made = rec.made
      /\ rec'.next = rec.next
      /\ rec'.pending = rec.pending
      /\ rec'.roots = rec.roots
      /\ rec'.peers = rec.peers
      /\ rec'.entries = rec.entries
  BY <1>1, <1>2 DEF StoreInvitationRecord, StoredRecords, Start
<1>5. \A x \in Enrollments : Handed(x, rec') <=> Handed(x, rec)
  BY <1>4 DEF Handed
<1>6. run' \in RunRecords
  BY <1>1, <1>2, EnrollAssumption DEF StoreInvitationRecord, RunRecords, Start, Resting, EnrollNames
<1>7. run'.op = "none" /\ run'.by = "desk" /\ run'.at = "none"
  BY <1>1, <1>2 DEF StoreInvitationRecord, RunRecords, Start, Resting
<1>8. StoreKept(rec')
  BY <1>1, <1>2, <1>4, <1>5 DEF StoreKept, RunKept, StoredRecords, EntryRecords
<1>9. RunKept(rec', run')
  BY <1>1, <1>2, <1>4, <1>5, <1>7, EnrollAssumption DEF StoreKept, RunKept, StoredRecords, EntryRecords
<1>10. PeersStay(rec, rec') /\ StaysShut(rec, run, rec', run')
  BY <1>1, <1>2, <1>4, <1>7 DEF PeersStay, StaysShut, IsClosing, StoredRecords, Resting
<1> QED BY <1>1, <1>2, <1>3, <1>6, <1>7, <1>8, <1>9, <1>10, StoreMoves

LEMMA RevokeInvitationStep ==
  ASSUME EnrollTyped, EnrollKept, RevokeInvitation
  PROVE  EnrollTyped' /\ EnrollKept'
<1>1. /\ rec \in StoredRecords /\ run \in RunRecords /\ StoreKept(rec) /\ RunKept(rec, run)
      /\ UNCHANGED <<srv, crd>>
  BY StoreHas DEF RevokeInvitation
<1>2. run = Resting
  BY DEF RevokeInvitation, Doing, Start
<1>3. rec' \in StoredRecords
  BY <1>1, <1>2, EnrollAssumption DEF RevokeInvitation, StoredRecords, EntryRecords, Lives, Start
<1>4. /\ rec'.inv = rec.inv
      /\ rec'.made = rec.made
      /\ rec'.next = rec.next
      /\ rec'.pending = rec.pending
      /\ rec'.roots = rec.roots
      /\ rec'.peers = rec.peers
      /\ rec'.entries = rec.entries
  BY <1>1, <1>2 DEF RevokeInvitation, StoredRecords, Start
<1>5. \A x \in Enrollments : Handed(x, rec') <=> Handed(x, rec)
  BY <1>4 DEF Handed
<1>6. run' \in RunRecords
  BY <1>1, <1>2, EnrollAssumption DEF RevokeInvitation, RunRecords, Start, Resting, EnrollNames
<1>7. run'.op = "revokeInvitation" /\ run'.by = "desk" /\ run'.at = "record"
  BY <1>1, <1>2 DEF RevokeInvitation, RunRecords, Start, Resting
<1>8. StoreKept(rec')
  BY <1>1, <1>2, <1>4, <1>5 DEF StoreKept, RunKept, StoredRecords, EntryRecords
<1>9. RunKept(rec', run')
  BY <1>1, <1>2, <1>4, <1>5, <1>7, EnrollAssumption DEF StoreKept, RunKept, StoredRecords, EntryRecords
<1>10. PeersStay(rec, rec') /\ StaysShut(rec, run, rec', run')
  BY <1>1, <1>2, <1>4, <1>7 DEF PeersStay, StaysShut, IsClosing, StoredRecords, Resting
<1> QED BY <1>1, <1>2, <1>3, <1>6, <1>7, <1>8, <1>9, <1>10, StoreMoves

LEMMA RevokeInvitationRecordStep ==
  ASSUME EnrollTyped, EnrollKept, RevokeInvitationRecord
  PROVE  EnrollTyped' /\ EnrollKept'
<1>1. /\ rec \in StoredRecords /\ run \in RunRecords /\ StoreKept(rec) /\ RunKept(rec, run)
      /\ UNCHANGED <<srv, crd>>
  BY StoreHas DEF RevokeInvitationRecord
<1>2. run.op = "revokeInvitation" /\ run.at = "record"
  BY DEF RevokeInvitationRecord, Doing, Start
<1>3. rec' \in StoredRecords
  BY <1>1, <1>2, EnrollAssumption DEF RevokeInvitationRecord, StoredRecords, EntryRecords, Lives, Start
<1>4. /\ rec'.inv = "none"
      /\ rec'.made = rec.made
      /\ rec'.next = rec.next
      /\ rec'.pending = rec.pending
      /\ rec'.roots = rec.roots
      /\ rec'.peers = rec.peers
      /\ rec'.entries = rec.entries
  BY <1>1, <1>2 DEF RevokeInvitationRecord, StoredRecords, Start
<1>5. \A x \in Enrollments : Handed(x, rec') <=> Handed(x, rec)
  BY <1>4 DEF Handed
<1>6. run' \in RunRecords
  BY <1>1, <1>2, EnrollAssumption DEF RevokeInvitationRecord, RunRecords, Start, Resting, EnrollNames
<1>7. run'.op = "none" /\ run'.by = "desk" /\ run'.at = "none"
  BY <1>1, <1>2 DEF RevokeInvitationRecord, RunRecords, Start, Resting
<1>8. StoreKept(rec')
  BY <1>1, <1>2, <1>4, <1>5 DEF StoreKept, RunKept, StoredRecords, EntryRecords
<1>9. RunKept(rec', run')
  BY <1>1, <1>2, <1>4, <1>5, <1>7, EnrollAssumption DEF StoreKept, RunKept, StoredRecords, EntryRecords
<1>10. PeersStay(rec, rec') /\ StaysShut(rec, run, rec', run')
  BY <1>1, <1>2, <1>4, <1>7 DEF PeersStay, StaysShut, IsClosing, StoredRecords, Resting
<1> QED BY <1>1, <1>2, <1>3, <1>6, <1>7, <1>8, <1>9, <1>10, StoreMoves

LEMMA StoreRootStep ==
  ASSUME EnrollTyped, EnrollKept, StoreRoot
  PROVE  EnrollTyped' /\ EnrollKept'
<1>1. /\ rec \in StoredRecords /\ run \in RunRecords /\ StoreKept(rec) /\ RunKept(rec, run)
      /\ UNCHANGED <<srv, crd>>
  BY StoreHas DEF StoreRoot
<1>2. run.op = "authenticate" /\ run.at = "root"
  BY DEF StoreRoot, Doing, Start
<1>3. rec' \in StoredRecords
  <2>1. run.e \in Enrollments
    BY <1>1, <1>2 DEF RunKept
  <2>2. [rec EXCEPT !.roots = @ \cup {run.e}] \in StoredRecords
    BY <1>1, <2>1 DEF StoredRecords
  <2> QED BY <1>1, <1>2, <2>1, <2>2 DEF StoreRoot
<1>4. /\ rec'.inv = rec.inv
      /\ rec'.made = rec.made
      /\ rec'.next = rec.next
      /\ rec'.pending = rec.pending
      /\ rec'.roots = rec.roots \cup {run.e}
      /\ rec'.peers = rec.peers
      /\ rec'.entries = rec.entries
  BY <1>1, <1>2 DEF StoreRoot, StoredRecords, Start
<1>5. \A x \in Enrollments : Handed(x, rec') <=> Handed(x, rec)
  BY <1>4 DEF Handed
<1>6. run' \in RunRecords
  BY <1>1, <1>2, EnrollAssumption DEF StoreRoot, RunRecords, Start, Resting, EnrollNames
<1>7. run'.op = run.op /\ run'.by = run.by /\ run'.at = "pending" /\ run'.e = run.e
  BY <1>1, <1>2 DEF StoreRoot, RunRecords, Start, Resting
<1>8. StoreKept(rec')
  BY <1>1, <1>2, <1>4, <1>5 DEF StoreKept, RunKept, StoredRecords, EntryRecords
<1>9. RunKept(rec', run')
  BY <1>1, <1>2, <1>4, <1>5, <1>7, EnrollAssumption DEF StoreKept, RunKept, StoredRecords, EntryRecords
<1>10. PeersStay(rec, rec') /\ StaysShut(rec, run, rec', run')
  BY <1>1, <1>2, <1>4, <1>7 DEF PeersStay, StaysShut, IsClosing, StoredRecords, Resting
<1> QED BY <1>1, <1>2, <1>3, <1>6, <1>7, <1>8, <1>9, <1>10, StoreMoves

LEMMA RevokeKnownStep ==
  ASSUME EnrollTyped, EnrollKept, NEW e \in Enrollments, RevokeKnown(e)
  PROVE  EnrollTyped' /\ EnrollKept'
<1>1. /\ rec \in StoredRecords /\ run \in RunRecords /\ StoreKept(rec) /\ RunKept(rec, run)
      /\ UNCHANGED <<srv, crd>>
  BY StoreHas DEF RevokeKnown
<1>2. rec.entries[e].st = "none" /\ run = Resting /\ (rec.peers[e] # "none" \/ rec.pending[e] # "none")
  BY DEF RevokeKnown, Doing, Start
<1>3. rec' \in StoredRecords
  BY <1>1, <1>2, EnrollAssumption DEF RevokeKnown, StoredRecords, EntryRecords, Lives, Start
<1>4. /\ rec'.inv = rec.inv
      /\ rec'.made = rec.made
      /\ rec'.next = rec.next
      /\ rec'.pending = rec.pending
      /\ rec'.roots = rec.roots
      /\ rec'.peers = rec.peers
      /\ rec'.entries = rec.entries
  BY <1>1, <1>2 DEF RevokeKnown, StoredRecords, Start
<1>5. \A x \in Enrollments : Handed(x, rec') <=> Handed(x, rec)
  BY <1>4 DEF Handed
<1>6. run' \in RunRecords
  BY <1>1, <1>2, EnrollAssumption DEF RevokeKnown, RunRecords, Start, Resting, EnrollNames
<1>7. run'.op = "revoke" /\ run'.by = "desk" /\ run'.at = "record" /\ run'.e = e /\ "root" \in run'.todo /\ run'.todo \subseteq {"root", "inv"}
  BY <1>1, <1>2 DEF RevokeKnown, RunRecords, Start, Resting
<1>8. StoreKept(rec')
  BY <1>1, <1>2, <1>4, <1>5 DEF StoreKept, RunKept, StoredRecords, EntryRecords
<1>9. RunKept(rec', run')
  BY <1>1, <1>2, <1>4, <1>5, <1>7, EnrollAssumption DEF StoreKept, RunKept, StoredRecords, EntryRecords
<1>10. PeersStay(rec, rec') /\ StaysShut(rec, run, rec', run')
  BY <1>1, <1>2, <1>4, <1>7 DEF PeersStay, StaysShut, IsClosing, StoredRecords, Resting
<1> QED BY <1>1, <1>2, <1>3, <1>6, <1>7, <1>8, <1>9, <1>10, StoreMoves

LEMMA RecordRevocationStep ==
  ASSUME EnrollTyped, EnrollKept, RecordRevocation
  PROVE  EnrollTyped' /\ EnrollKept'
<1>1. /\ rec \in StoredRecords /\ run \in RunRecords /\ StoreKept(rec) /\ RunKept(rec, run)
      /\ UNCHANGED <<srv, crd>>
  BY StoreHas DEF RecordRevocation
<1>2. run.op = "revoke" /\ run.at = "record"
  BY DEF RecordRevocation, Doing, Start, RunKept
<1>3. rec' \in StoredRecords
  BY <1>1, <1>2, EnrollAssumption DEF RecordRevocation, StoredRecords, EntryRecords, Lives, Start, RunKept
<1>4. /\ rec'.inv = rec.inv
      /\ rec'.made = rec.made
      /\ rec'.next = rec.next
      /\ rec'.pending = rec.pending
      /\ rec'.roots = rec.roots
      /\ rec'.peers = rec.peers
      /\ rec'.entries = [rec.entries EXCEPT ![run.e] = [st |-> "some", refs |-> run.todo, tasks |-> TRUE, cleanup |-> TRUE]]
  BY <1>1, <1>2 DEF RecordRevocation, StoredRecords, Start, RunKept
<1>5. \A x \in Enrollments : Handed(x, rec') <=> Handed(x, rec)
  BY <1>4 DEF Handed
<1>6. run' \in RunRecords
  BY <1>1, <1>2, EnrollAssumption DEF RecordRevocation, RunRecords, Start, Resting, EnrollNames, RunKept
<1>7. run'.op = "revoke" /\ run'.by = run.by /\ run'.at = "close" /\ run'.e = run.e
  BY <1>1, <1>2 DEF RecordRevocation, RunRecords, Start, Resting, RunKept
<1>8. StoreKept(rec')
  BY <1>1, <1>2, <1>4, <1>5 DEF StoreKept, RunKept, StoredRecords, EntryRecords
<1>9. RunKept(rec', run')
  BY <1>1, <1>2, <1>4, <1>5, <1>7, EnrollAssumption DEF StoreKept, RunKept, StoredRecords, EntryRecords
<1>10. PeersStay(rec, rec') /\ StaysShut(rec, run, rec', run')
  BY <1>1, <1>2, <1>4, <1>7 DEF PeersStay, StaysShut, IsClosing, StoredRecords, Resting
<1> QED BY <1>1, <1>2, <1>3, <1>6, <1>7, <1>8, <1>9, <1>10, StoreMoves

LEMMA RetryCleanupStep ==
  ASSUME EnrollTyped, EnrollKept, NEW e \in Enrollments, RetryCleanup(e)
  PROVE  EnrollTyped' /\ EnrollKept'
<1>1. /\ rec \in StoredRecords /\ run \in RunRecords /\ StoreKept(rec) /\ RunKept(rec, run)
      /\ UNCHANGED <<srv, crd>>
  BY StoreHas DEF RetryCleanup
<1>2. rec.entries[e].st = "some" /\ run = Resting
  BY DEF RetryCleanup, Doing, Start
<1>3. rec' \in StoredRecords
  BY <1>1, <1>2, EnrollAssumption DEF RetryCleanup, StoredRecords, EntryRecords, Lives, Start
<1>4. /\ rec'.inv = rec.inv
      /\ rec'.made = rec.made
      /\ rec'.next = rec.next
      /\ rec'.pending = rec.pending
      /\ rec'.roots = rec.roots
      /\ rec'.peers = rec.peers
      /\ rec'.entries = rec.entries
  BY <1>1, <1>2 DEF RetryCleanup, StoredRecords, Start
<1>5. \A x \in Enrollments : Handed(x, rec') <=> Handed(x, rec)
  BY <1>4 DEF Handed
<1>6. run' \in RunRecords
  BY <1>1, <1>2, EnrollAssumption DEF RetryCleanup, RunRecords, Start, Resting, EnrollNames
<1>7. run'.op = "revoke" /\ run'.by = "desk" /\ run'.at = "close" /\ run'.e = e
  BY <1>1, <1>2 DEF RetryCleanup, RunRecords, Start, Resting
<1>8. StoreKept(rec')
  BY <1>1, <1>2, <1>4, <1>5 DEF StoreKept, RunKept, StoredRecords, EntryRecords
<1>9. RunKept(rec', run')
  BY <1>1, <1>2, <1>4, <1>5, <1>7, EnrollAssumption DEF StoreKept, RunKept, StoredRecords, EntryRecords
<1>10. PeersStay(rec, rec') /\ StaysShut(rec, run, rec', run')
  BY <1>1, <1>2, <1>4, <1>7 DEF PeersStay, StaysShut, IsClosing, StoredRecords, Resting
<1> QED BY <1>1, <1>2, <1>3, <1>6, <1>7, <1>8, <1>9, <1>10, StoreMoves

LEMMA CancelPeerTasksStep ==
  ASSUME EnrollTyped, EnrollKept, NEW ok \in BOOLEAN, CancelPeerTasks(ok)
  PROVE  EnrollTyped' /\ EnrollKept'
<1>1. /\ rec \in StoredRecords /\ run \in RunRecords /\ StoreKept(rec) /\ RunKept(rec, run)
      /\ UNCHANGED <<srv, crd>>
  BY StoreHas DEF CancelPeerTasks
<1>2. run.op = "revoke" /\ run.at = "tasks"
  BY DEF CancelPeerTasks, Doing, Start, RunKept
<1>3. rec' \in StoredRecords
  <2>1. run.e \in Enrollments
    BY <1>1, <1>2 DEF RunKept
  <2>2. rec.entries[run.e] \in EntryRecords
    BY <1>1, <2>1 DEF StoredRecords
  <2>3. [rec.entries[run.e] EXCEPT !.tasks = FALSE] \in EntryRecords
    BY <2>2 DEF EntryRecords
  <2>4. [rec.entries EXCEPT ![run.e].tasks = FALSE] \in [Enrollments -> EntryRecords]
    BY <1>1, <2>1, <2>3 DEF StoredRecords
  <2>5. [rec EXCEPT !.entries[run.e].tasks = FALSE] \in StoredRecords
    BY <1>1, <2>4 DEF StoredRecords
  <2> QED BY <1>1, <1>2, <2>1, <2>2, <2>3, <2>4, <2>5 DEF CancelPeerTasks
<1>4. /\ rec'.inv = rec.inv
      /\ rec'.made = rec.made
      /\ rec'.next = rec.next
      /\ rec'.pending = rec.pending
      /\ rec'.roots = rec.roots
      /\ rec'.peers = rec.peers
      /\ rec'.entries = (IF ok THEN [rec.entries EXCEPT ![run.e].tasks = FALSE] ELSE rec.entries)
  BY <1>1, <1>2 DEF CancelPeerTasks, StoredRecords, Start, RunKept
<1>5. \A x \in Enrollments : Handed(x, rec') <=> Handed(x, rec)
  BY <1>4 DEF Handed
<1>6. run' \in RunRecords
  BY <1>1, <1>2, EnrollAssumption DEF CancelPeerTasks, RunRecords, Start, Resting, EnrollNames, RunKept
<1>7. run'.op = "revoke" /\ run'.by = run.by /\ run'.at = "keys" /\ run'.e = run.e
  BY <1>1, <1>2 DEF CancelPeerTasks, RunRecords, Start, Resting, RunKept
<1>8. StoreKept(rec')
  BY <1>1, <1>2, <1>4, <1>5 DEF StoreKept, RunKept, StoredRecords, EntryRecords
<1>9. RunKept(rec', run')
  BY <1>1, <1>2, <1>4, <1>5, <1>7, EnrollAssumption DEF StoreKept, RunKept, StoredRecords, EntryRecords
<1>10. PeersStay(rec, rec') /\ StaysShut(rec, run, rec', run')
  BY <1>1, <1>2, <1>4, <1>7 DEF PeersStay, StaysShut, IsClosing, StoredRecords, Resting
<1> QED BY <1>1, <1>2, <1>3, <1>6, <1>7, <1>8, <1>9, <1>10, StoreMoves

LEMMA DeleteKeyStep ==
  ASSUME EnrollTyped, EnrollKept, NEW k \in {"root", "inv"}, NEW ok \in BOOLEAN, DeleteKey(k, ok)
  PROVE  EnrollTyped' /\ EnrollKept'
<1>1. /\ rec \in StoredRecords /\ run \in RunRecords /\ StoreKept(rec) /\ RunKept(rec, run)
      /\ UNCHANGED <<srv, crd>>
  BY StoreHas DEF DeleteKey
<1>2. run.op = "revoke" /\ run.at = "keys"
  BY DEF DeleteKey, Doing, Start, RunKept
<1>3. rec' \in StoredRecords
  <2>1. run.e \in Enrollments
    BY <1>1, <1>2 DEF RunKept
  <2>2. rec.entries[run.e] \in EntryRecords /\ rec.roots \ {run.e} \in SUBSET Enrollments
    BY <1>1, <2>1 DEF StoredRecords
  <2>3. [rec.entries[run.e] EXCEPT !.refs = @ \ {k}] \in EntryRecords
    BY <2>2 DEF EntryRecords
  <2>4. [rec.entries EXCEPT ![run.e].refs = @ \ {k}] \in [Enrollments -> EntryRecords]
    BY <1>1, <2>1, <2>3 DEF StoredRecords
  <2>5. [rec EXCEPT !.roots = @ \ {run.e}, !.entries[run.e].refs = @ \ {k}] \in StoredRecords
    BY <1>1, <2>2, <2>4 DEF StoredRecords
  <2>6. [rec EXCEPT !.key = FALSE, !.entries[run.e].refs = @ \ {k}] \in StoredRecords
    BY <1>1, <2>2, <2>4 DEF StoredRecords
  <2> QED BY <1>1, <1>2, <2>1, <2>2, <2>3, <2>4, <2>5, <2>6 DEF DeleteKey
<1>4. /\ rec'.inv = rec.inv
      /\ rec'.made = rec.made
      /\ rec'.next = rec.next
      /\ rec'.pending = rec.pending
      /\ rec'.roots = (IF ok /\ k = "root" THEN rec.roots \ {run.e} ELSE rec.roots)
      /\ rec'.peers = rec.peers
      /\ rec'.entries = (IF ok THEN [rec.entries EXCEPT ![run.e].refs = @ \ {k}] ELSE rec.entries)
  BY <1>1, <1>2 DEF DeleteKey, StoredRecords, Start, RunKept
<1>5. \A x \in Enrollments : Handed(x, rec') <=> Handed(x, rec)
  BY <1>4 DEF Handed
<1>6. run' \in RunRecords
  BY <1>1, <1>2, EnrollAssumption DEF DeleteKey, RunRecords, Start, Resting, EnrollNames, RunKept
<1>7. run'.op = "revoke" /\ run'.by = run.by /\ run'.at = "keys" /\ run'.e = run.e
  BY <1>1, <1>2 DEF DeleteKey, RunRecords, Start, Resting, RunKept
<1>8. StoreKept(rec')
  BY <1>1, <1>2, <1>4, <1>5 DEF StoreKept, RunKept, StoredRecords, EntryRecords
<1>9. RunKept(rec', run')
  BY <1>1, <1>2, <1>4, <1>5, <1>7, EnrollAssumption DEF StoreKept, RunKept, StoredRecords, EntryRecords
<1>10. PeersStay(rec, rec') /\ StaysShut(rec, run, rec', run')
  BY <1>1, <1>2, <1>4, <1>7 DEF PeersStay, StaysShut, IsClosing, StoredRecords, Resting
<1> QED BY <1>1, <1>2, <1>3, <1>6, <1>7, <1>8, <1>9, <1>10, StoreMoves

LEMMA FinishCleanupStep ==
  ASSUME EnrollTyped, EnrollKept, FinishCleanup
  PROVE  EnrollTyped' /\ EnrollKept'
<1>1. /\ rec \in StoredRecords /\ run \in RunRecords /\ StoreKept(rec) /\ RunKept(rec, run)
      /\ UNCHANGED <<srv, crd>>
  BY StoreHas DEF FinishCleanup
<1>2. run.op = "revoke" /\ run.at = "keys"
  BY DEF FinishCleanup, Doing, Start, RunKept
<1>3. rec' \in StoredRecords
  <2>1. run.e \in Enrollments
    BY <1>1, <1>2 DEF RunKept
  <2>2. (IF rec.pending[run.e] # "none" THEN "none" ELSE rec.inv) \in Lives /\ (IF rec.peers[run.e] = "cleanup" THEN "active" ELSE rec.peers[run.e]) \in {"none", "cleanup", "active"}
    BY <1>1, <2>1 DEF StoredRecords, Lives
  <2>3. [rec.pending EXCEPT ![run.e] = "none"] \in [Enrollments -> Lives]
    BY <1>1, <2>1 DEF StoredRecords, Lives
  <2>4. rec.entries[run.e] \in EntryRecords
    BY <1>1, <2>1 DEF StoredRecords
  <2>5. [rec.entries[run.e] EXCEPT !.cleanup = FALSE] \in EntryRecords
    BY <2>4 DEF EntryRecords
  <2>6. [rec.entries EXCEPT ![run.e].cleanup = FALSE] \in [Enrollments -> EntryRecords]
    BY <1>1, <2>1, <2>5 DEF StoredRecords
  <2>7. [rec.peers EXCEPT ![run.e] = IF rec.peers[run.e] = "cleanup" THEN "active" ELSE rec.peers[run.e]] \in [Enrollments -> {"none", "cleanup", "active"}]
    BY <1>1, <2>1, <2>2 DEF StoredRecords
  <2>8. [rec EXCEPT !.inv = IF rec.pending[run.e] # "none" THEN "none" ELSE rec.inv, !.pending[run.e] = "none", !.peers[run.e] = IF rec.peers[run.e] = "cleanup" THEN "active" ELSE rec.peers[run.e], !.entries[run.e].cleanup = FALSE] \in StoredRecords
    BY <1>1, <2>2, <2>3, <2>6, <2>7 DEF StoredRecords
  <2> QED BY <1>1, <1>2, <2>1, <2>2, <2>3, <2>4, <2>5, <2>6, <2>7, <2>8 DEF FinishCleanup
<1>4. /\ rec'.inv = (IF run.failed \/ rec.entries[run.e].refs # {} THEN rec.inv ELSE IF rec.pending[run.e] # "none" THEN "none" ELSE rec.inv)
      /\ rec'.made = rec.made
      /\ rec'.next = rec.next
      /\ rec'.pending = (IF run.failed \/ rec.entries[run.e].refs # {} THEN rec.pending ELSE [rec.pending EXCEPT ![run.e] = "none"])
      /\ rec'.roots = rec.roots
      /\ rec'.peers = (IF run.failed \/ rec.entries[run.e].refs # {} THEN rec.peers ELSE [rec.peers EXCEPT ![run.e] = IF rec.peers[run.e] = "cleanup" THEN "active" ELSE rec.peers[run.e]])
      /\ rec'.entries = (IF run.failed \/ rec.entries[run.e].refs # {} THEN rec.entries ELSE [rec.entries EXCEPT ![run.e].cleanup = FALSE])
  BY <1>1, <1>2 DEF FinishCleanup, StoredRecords, Start, RunKept
<1>5. \A x \in Enrollments : Handed(x, rec') <=> Handed(x, rec)
  BY <1>4 DEF Handed
<1>6. run' \in RunRecords
  BY <1>1, <1>2, EnrollAssumption DEF FinishCleanup, RunRecords, Start, Resting, EnrollNames, RunKept
<1>7. run'.op = "none" /\ run'.by = "desk" /\ run'.at = "none"
  BY <1>1, <1>2 DEF FinishCleanup, RunRecords, Start, Resting, RunKept
<1>8. StoreKept(rec')
  BY <1>1, <1>2, <1>4, <1>5 DEF StoreKept, RunKept, StoredRecords, EntryRecords
<1>9. RunKept(rec', run')
  BY <1>1, <1>2, <1>4, <1>5, <1>7, EnrollAssumption DEF StoreKept, RunKept, StoredRecords, EntryRecords
<1>10. PeersStay(rec, rec') /\ StaysShut(rec, run, rec', run')
  BY <1>1, <1>2, <1>4, <1>7 DEF PeersStay, StaysShut, IsClosing, StoredRecords, Resting
<1> QED BY <1>1, <1>2, <1>3, <1>6, <1>7, <1>8, <1>9, <1>10, StoreMoves

\* A mutation that ends without a write leaves nothing behind.
LEMMA RestIsKept ==
  ASSUME EnrollTyped, EnrollKept
  PROVE  /\ Resting \in RunRecords /\ RunKept(rec, Resting) /\ Resting.by = "desk"
         /\ run.at # "close" => StaysShut(rec, run, rec, Resting)
BY EnrollAssumption DEF Resting, RunRecords, EnrollNames, RunKept, StaysShut, IsClosing

LEMMA ThrowStep ==
  ASSUME EnrollTyped, EnrollKept, NEW k \in {"ERROR", "AUTH_FAILED", "ENROLLMENT_EXPIRED"}, Throws(k),
         run.at # "close", UNCHANGED <<rec, crd>>
  PROVE  EnrollTyped' /\ EnrollKept'
<1>1. run' = Resting /\ run'.by = "desk" /\ StaysShut(rec, run, rec, run') /\ rec' = rec
  BY RestIsKept DEF Throws
<1>2. rec' \in StoredRecords /\ run' \in RunRecords /\ StoreKept(rec') /\ RunKept(rec', run') /\ PeersStay(rec, rec')
  BY <1>1, StoreHas, RestIsKept
<1>3. CASE run.by = "desk"
  BY <1>1, <1>2, <1>3, StoreMoves DEF Throws
<1>4. CASE run.by # "desk"
  <2> DEFINE n == run.by
  <2>1. n \in Connections /\ run'.by # n
    BY <1>1, <1>4, StoreHas, EnrollAssumption DEF RunRecords
  <2>2. srv' = [srv EXCEPT ![n] = Answered(srv[n], k)]
    BY <1>4 DEF Throws, Reply
  <2> HIDE DEF n
  <2>3. Follows(n, srv[n], rec, Answered(srv[n], k), rec', run')
    BY <1>1, <1>2, <2>1, ConnHas, RefusalFollows
  <2> QED BY <1>1, <1>2, <2>1, <2>2, <2>3, ConnMoves
<1> QED BY <1>3, <1>4

LEMMA WriteFailsStep ==
  ASSUME EnrollTyped, EnrollKept, WriteFails
  PROVE  EnrollTyped' /\ EnrollKept'
<1>1. Throws("ERROR") /\ UNCHANGED <<rec, crd>> /\ run.at # "close"
  BY DEF WriteFails, Doing
<1> QED BY <1>1, ThrowStep

\* A mutation starts for a connection, whose request it keeps busy.
LEMMA StartFollows ==
  ASSUME NEW n \in Connections, NEW r \in PeerRecords, NEW p, NEW q, NEW u, NEW v,
         NEW a \in {"busy", "mark", "record", "prune"}, NEW e \in EnrollNames,
         ConnKept(n, r, p, u), PeersStay(p, q), StaysShut(p, u, q, v),
         r.at # "idle" \/ r.req # "none", a \in {"record", "prune"} => r.req = "hello",
         a = "mark" => IsPeer(r.e, q),
         Awaiting(n, [r EXCEPT !.at = a, !.named = e], v)
  PROVE  Follows(n, r, p, [r EXCEPT !.at = a, !.named = e], q, v)
<1> DEFINE s == [r EXCEPT !.at = a, !.named = e]
<1>1. s \in PeerRecords
  BY DEF PeerRecords
<1>2. /\ s.c = r.c /\ s.cut = r.cut /\ s.e = r.e /\ s.mode = r.mode /\ s.sess = r.sess /\ s.auth = r.auth
      /\ s.open = r.open /\ s.req = r.req /\ s.at = a /\ s.reply = r.reply
  BY DEF PeerRecords
<1>3. Awaiting(n, s, v)
  OBVIOUS
<1> HIDE DEF s
<1>4. Backed(r, q)
  BY BackIsKept DEF ConnKept
<1>5. Stepping(s) /\ Backed(s, q)
  BY <1>2, <1>4 DEF Stepping, ConnKept, Backed
<1> QED BY <1>1, <1>2, <1>3, <1>5, ConnSteps DEF s

LEMMA PruneStep ==
  ASSUME EnrollTyped, EnrollKept, NEW n \in Connections, Prune(n)
  PROVE  EnrollTyped' /\ EnrollKept'
<1>1. UNCHANGED <<rec, srv, crd>> /\ srv[n].at = "prune" /\ run = Resting
  BY DEF Prune, Start
<1>2. run' = [op |-> "prune", by |-> n, at |-> "prune", e |-> 0, todo |-> Stale, failed |-> FALSE]
  BY DEF Prune, Start
<1>3. run' \in RunRecords
  BY <1>2 DEF RunRecords, Stale, Findings, EnrollNames
<1>4. RunKept(rec', run')
  BY <1>1, <1>2 DEF RunKept, Stale
<1>5. StaysShut(rec, run, rec', run') /\ rec' = rec
  BY <1>1 DEF StaysShut, IsClosing, Resting
<1>6. Awaiting(n, srv[n], run')
  BY <1>1, <1>2 DEF Awaiting
<1>7. srv' = [srv EXCEPT ![n] = srv[n]]
  BY <1>1 DEF EnrollTyped
<1>8. Follows(n, srv[n], rec, srv[n], rec', run')
  BY <1>5, <1>6, ConnHas, StoreHas, ConnFollows
<1>9. run'.by = n
  BY <1>2
<1> QED BY <1>1, <1>3, <1>4, <1>5, <1>7, <1>8, <1>9, StoreHas, ConnMoves

LEMMA PrunedStep ==
  ASSUME EnrollTyped, EnrollKept, Pruned
  PROVE  EnrollTyped' /\ EnrollKept'
<1> DEFINE n == run.by
           r == srv[n]
           s == [r EXCEPT !.at = "record"]
<1>1. UNCHANGED <<rec, crd>> /\ run' = Resting /\ run.op = "prune" /\ run.at = "prune"
  BY DEF Pruned, Doing
<1>2. n \in Connections
  BY <1>1, StoreHas DEF RunKept
<1>3. srv' = [srv EXCEPT ![n] = s]
  BY <1>2 DEF Pruned, EnrollTyped
<1>4. r \in PeerRecords /\ ConnKept(n, r, rec, run) /\ r.at = "prune"
  BY <1>1, <1>2, ConnHas DEF ConnKept, Awaiting
<1>5. rec' \in StoredRecords /\ run' \in RunRecords /\ StoreKept(rec') /\ RunKept(rec', run') /\ PeersStay(rec, rec')
      /\ StaysShut(rec, run, rec', run') /\ run'.by = "desk"
  BY <1>1, StoreHas, RestIsKept
<1> HIDE DEF n, r
<1>6. s \in PeerRecords
  BY <1>4 DEF PeerRecords
<1>7. /\ s.c = r.c /\ s.cut = r.cut /\ s.e = r.e /\ s.mode = r.mode /\ s.sess = r.sess /\ s.auth = r.auth
      /\ s.open = r.open /\ s.req = r.req /\ s.at = "record" /\ s.reply = r.reply
  BY <1>4 DEF PeerRecords
<1> HIDE DEF s
<1>8. Backed(r, rec')
  BY <1>4, <1>5, BackIsKept DEF ConnKept
<1>9. Stepping(s) /\ Backed(s, rec') /\ Awaiting(n, s, run')
  BY <1>2, <1>4, <1>5, <1>7, <1>8, EnrollAssumption DEF Stepping, ConnKept, Backed, Awaiting
<1>10. Follows(n, r, rec, s, rec', run')
  BY <1>2, <1>4, <1>5, <1>6, <1>7, <1>9, ConnSteps
<1> QED BY <1>1, <1>2, <1>3, <1>5, <1>10, ConnMoves DEF r

LEMMA CommitStep ==
  ASSUME EnrollTyped, EnrollKept, NEW n \in Connections, Commit(n)
  PROVE  EnrollTyped' /\ EnrollKept'
<1> DEFINE r == srv[n]
           e == r.e
<1>1. UNCHANGED <<rec, crd>> /\ r.req = "commit" /\ r.at = "idle" /\ run = Resting /\ rec' = rec
  BY DEF Commit
<1>2. r \in PeerRecords /\ ConnKept(n, r, rec, run)
  BY ConnHas
<1>3. CASE srv' = [srv EXCEPT ![n] = [r EXCEPT !.at = "busy", !.named = e]] /\ Start("commit", n, "check", e, {})
  <2>1. run' = [op |-> "commit", by |-> n, at |-> "check", e |-> e, todo |-> {}, failed |-> FALSE]
    BY <1>3 DEF Start
  <2>2. e \in Enrollments
    BY <1>1, <1>2 DEF ConnKept, Stepping
  <2>3. run' \in RunRecords
    BY <2>1, <2>2 DEF RunRecords, EnrollNames
  <2>4. RunKept(rec', run')
    BY <2>1, <2>2 DEF RunKept
  <2>5. StaysShut(rec, run, rec', run')
    BY <1>1 DEF StaysShut, IsClosing, Resting
  <2> DEFINE s == [r EXCEPT !.at = "busy", !.named = e]
  <2>6. s.at = "busy" /\ s.req = "commit" /\ s.e = e
    BY <1>1, <1>2 DEF PeerRecords
  <2>7. Awaiting(n, s, run')
    BY <2>1, <2>6 DEF Awaiting
  <2>8. Follows(n, r, rec, s, rec', run')
    BY <1>1, <1>2, <2>2, <2>5, <2>7, StoreHas, StartFollows DEF EnrollNames
  <2>9. run'.by = n
    BY <2>1
  <2> QED BY <1>1, <1>3, <2>3, <2>4, <2>5, <2>8, <2>9, StoreHas, ConnMoves
<1>4. CASE Reply(n, "AUTH_FAILED") /\ UNCHANGED run
  BY <1>1, <1>4, RefuseStep
<1> QED BY <1>3, <1>4 DEF Commit

LEMMA AuthenticateStep ==
  ASSUME EnrollTyped, EnrollKept, NEW n \in Connections, Authenticate(n)
  PROVE  EnrollTyped' /\ EnrollKept'
<1> DEFINE r == srv[n]
<1>1. UNCHANGED crd /\ r.req = "authenticate" /\ r.at = "idle" /\ run = Resting
  BY DEF Authenticate
<1>2. r \in PeerRecords /\ ConnKept(n, r, rec, run)
  BY ConnHas
<1>3. CASE Reply(n, "AUTH_FAILED") /\ UNCHANGED <<run, rec>>
  BY <1>1, <1>3, RefuseStep
<1>4. CASE srv' = [srv EXCEPT ![n] = [r EXCEPT !.sess = "none", !.at = "mark"]] /\ UNCHANGED <<run, rec>>
           /\ r.sess = "reconnect"
  <2> DEFINE s == [r EXCEPT !.sess = "none", !.at = "mark"]
  <2>1. srv' = [srv EXCEPT ![n] = s]
    BY <1>4
  <2> HIDE DEF r
  <2>2. s \in PeerRecords
    BY <1>2 DEF PeerRecords
  <2>3. /\ s.c = r.c /\ s.cut = r.cut /\ s.e = r.e /\ s.mode = r.mode /\ s.sess = "none" /\ s.auth = r.auth
        /\ s.open = r.open /\ s.req = r.req /\ s.at = "mark" /\ s.reply = r.reply
    BY <1>2 DEF PeerRecords
  <2> HIDE DEF s
  <2>4. Stepping(s) /\ Backed(s, rec)
    BY <1>1, <1>2, <1>4, <2>3 DEF Stepping, Backed, ConnKept
  <2>5. Awaiting(n, s, run)
    BY <1>1, EnrollAssumption DEF Awaiting, Resting
  <2>6. Follows(n, r, rec, s, rec, run)
    BY <1>2, <2>2, <2>3, <2>4, <2>5, StoreHas, ConnSteps
  <2> QED BY <1>1, <1>4, <2>1, <2>6, SrvMoves DEF r
<1>5. CASE /\ r.sess \notin {"none", "reconnect"} /\ rec.next <= MaxEnrollments
           /\ Start("authenticate", n, "root", rec.next, {}) /\ rec' = [rec EXCEPT !.next = rec.next + 1]
           /\ srv' = [srv EXCEPT ![n].at = "busy", ![n].named = rec.next]
  <2> DEFINE e == rec.next
             s == [r EXCEPT !.at = "busy", !.named = e]
  <2>1. rec \in StoredRecords /\ StoreKept(rec) /\ e \in Enrollments /\ e \in Nat
    BY <1>5, StoreHas, EnrollAssumption DEF StoredRecords, Enrollments
  <2>2. rec.next + 1 \in 1..(MaxEnrollments + 1)
    BY <1>5, <2>1, EnrollAssumption
  <2>3. rec' \in StoredRecords
    BY <1>5, <2>2, <2>1 DEF StoredRecords
  <2>4. /\ rec'.inv = rec.inv /\ rec'.made = rec.made /\ rec'.next = e + 1 /\ rec'.pending = rec.pending
        /\ rec'.roots = rec.roots /\ rec'.peers = rec.peers /\ rec'.entries = rec.entries
    BY <1>5, <2>1 DEF StoredRecords
  <2>5. srv' = [srv EXCEPT ![n] = s]
    BY <1>5 DEF EnrollTyped
  <2>6. run' = [op |-> "authenticate", by |-> n, at |-> "root", e |-> e, todo |-> {}, failed |-> FALSE]
    BY <1>5 DEF Start
  <2>7. ~Handed(e, rec) /\ Handed(e, rec') /\ \A f \in Enrollments : Handed(f, rec) => Handed(f, rec')
    BY <2>1, <2>4, EnrollAssumption DEF Handed, Enrollments
  <2> HIDE DEF e
  <2>8. StoreKept(rec')
    <3>1. \A f \in Enrollments : ~Handed(f, rec') =>
            rec'.pending[f] = "none" /\ rec'.peers[f] = "none" /\ f \notin rec'.roots /\ rec'.entries[f].st = "none"
      <4>1. TAKE f \in Enrollments
      <4>2. HAVE ~Handed(f, rec')
      <4>3. ~Handed(f, rec)
        BY <2>7, <4>2
      <4> QED BY <2>1, <2>4, <4>3 DEF StoreKept
    <3> QED BY <2>1, <2>4, <3>1 DEF StoreKept
  <2>9. run' \in RunRecords
    BY <2>1, <2>6 DEF RunRecords, EnrollNames
  <2>10. RunKept(rec', run')
    BY <2>1, <2>4, <2>6, <2>7 DEF StoreKept, RunKept
  <2>11. PeersStay(rec, rec') /\ StaysShut(rec, run, rec', run')
    BY <1>1, <2>4 DEF PeersStay, StaysShut, IsClosing, Resting
  <2>12. r.mode = "enrollment"
    BY <1>2, <1>5 DEF ConnKept, Stepping, PeerRecords
  <2>13. s.at = "busy" /\ s.req = "authenticate" /\ s.mode = r.mode
    BY <1>1, <1>2 DEF PeerRecords
  <2>14. Awaiting(n, s, run')
    BY <2>6, <2>12, <2>13 DEF Awaiting
  <2>15. Follows(n, r, rec, s, rec', run')
    BY <1>1, <1>2, <2>1, <2>11, <2>14, StartFollows DEF EnrollNames
  <2>16. run'.by = n
    BY <2>6
  <2> QED BY <1>1, <2>3, <2>5, <2>8, <2>9, <2>10, <2>11, <2>15, <2>16, ConnMoves
<1> QED BY <1>3, <1>4, <1>5 DEF Authenticate

LEMMA StorePendingStep ==
  ASSUME EnrollTyped, EnrollKept, NEW ok \in BOOLEAN, StorePending(ok)
  PROVE  EnrollTyped' /\ EnrollKept'
<1> DEFINE n == run.by
           r == srv[n]
<1>1. UNCHANGED crd /\ run' = Resting /\ run.op = "authenticate" /\ run.at = "pending"
  BY DEF StorePending, Doing
<1>2. /\ rec \in StoredRecords /\ StoreKept(rec) /\ run.e \in Enrollments /\ n \in Connections
      /\ Handed(run.e, rec) /\ rec.entries[run.e].st = "none" /\ rec.peers[run.e] = "none"
  BY <1>1, StoreHas DEF RunKept
<1>3. r \in PeerRecords /\ ConnKept(n, r, rec, run)
  BY <1>2, ConnHas
<1>4. r.mode = "enrollment" /\ r.req = "authenticate"
  BY <1>1, <1>3 DEF ConnKept, Awaiting
<1>5. run' \in RunRecords /\ run'.by = "desk" /\ run'.op = "none" /\ run'.at = "none"
  BY <1>1, RestIsKept DEF Resting
<1>6. rec' = IF ok THEN [rec EXCEPT !.pending[run.e] = "live"] ELSE [rec EXCEPT !.roots = @ \ {run.e}]
  BY DEF StorePending
<1>7. rec' \in StoredRecords
  <2>1. [rec EXCEPT !.pending[run.e] = "live"] \in StoredRecords
    BY <1>2 DEF StoredRecords, Lives
  <2>2. [rec EXCEPT !.roots = @ \ {run.e}] \in StoredRecords
    BY <1>2 DEF StoredRecords
  <2> QED BY <1>6, <2>1, <2>2
<1>8. /\ rec'.inv = rec.inv /\ rec'.made = rec.made /\ rec'.next = rec.next
      /\ rec'.pending = (IF ok THEN [rec.pending EXCEPT ![run.e] = "live"] ELSE rec.pending)
      /\ rec'.roots = (IF ok THEN rec.roots ELSE rec.roots \ {run.e})
      /\ rec'.peers = rec.peers /\ rec'.entries = rec.entries
  BY <1>2, <1>6 DEF StoredRecords
<1>9. \A x \in Enrollments : Handed(x, rec') <=> Handed(x, rec)
  BY <1>8 DEF Handed
<1>10. StoreKept(rec')
  BY <1>2, <1>8, <1>9 DEF StoreKept, StoredRecords
<1>11. RunKept(rec', run')
  BY <1>5, EnrollAssumption DEF RunKept
<1>12. PeersStay(rec, rec') /\ StaysShut(rec, run, rec', run')
  BY <1>1, <1>8 DEF PeersStay, StaysShut, IsClosing
<1>13. CASE srv' = [srv EXCEPT ![n] = Answered([r EXCEPT !.of = run.e, !.e = run.e], "ok")]
  <2> DEFINE s == Answered([r EXCEPT !.of = run.e, !.e = run.e], "ok")
  <2> HIDE DEF r, n
  <2>1. s \in PeerRecords
    <3>1. run.e \in EnrollNames
      BY <1>2 DEF EnrollNames
    <3> QED BY <1>3, <3>1 DEF PeerRecords, Answered
  <2>2. /\ s.c = r.c /\ s.cut = r.cut /\ s.e = run.e /\ s.mode = r.mode /\ s.sess = r.sess /\ s.auth = r.auth
        /\ s.open = r.open /\ s.req = "none" /\ s.at = "idle" /\ s.reply = "ok"
    BY <1>3 DEF PeerRecords, Answered
  <2> HIDE DEF s
  <2>3. Stepping(s) /\ Awaiting(n, s, run') /\ Backed(s, rec')
    BY <1>2, <1>3, <1>4, <1>5, <2>2, EnrollAssumption DEF Stepping, Awaiting, Backed, ConnKept
  <2>4. Shut(r, rec', run')
    BY <1>3, <1>12, ShutIsKept DEF ConnKept
  <2>5. Shut(s, rec', run')
    BY <2>2, <2>4 DEF Shut
  <2>6. ASSUME NEW k \in CoordinatorRecords, Tied(k, r, rec) PROVE Tied(k, s, rec')
    BY <1>2, <1>4, <2>2, <2>6 DEF Tied
  <2>7. Follows(n, r, rec, s, rec', run')
    BY <2>1, <2>2, <2>3, <2>5, <2>6 DEF Follows, ConnKept
  <2> QED BY <1>1, <1>2, <1>5, <1>7, <1>10, <1>11, <1>12, <1>13, <2>7, ConnMoves DEF r, s
<1>14. ASSUME NEW k \in {"AUTH_FAILED", "ERROR"}, Reply(n, k) PROVE EnrollTyped' /\ EnrollKept'
  <2>1. srv' = [srv EXCEPT ![n] = Answered(r, k)]
    BY <1>14 DEF Reply
  <2>2. Follows(n, r, rec, Answered(r, k), rec', run')
    BY <1>2, <1>3, <1>5, <1>12, RefusalFollows, EnrollAssumption
  <2> QED BY <1>1, <1>2, <1>5, <1>7, <1>10, <1>11, <1>12, <2>1, <2>2, ConnMoves
<1> QED BY <1>13, <1>14 DEF StorePending

LEMMA CommitCheckStep ==
  ASSUME EnrollTyped, EnrollKept, CommitCheck
  PROVE  EnrollTyped' /\ EnrollKept'
<1> DEFINE e == run.e
<1>1. UNCHANGED crd /\ run.op = "commit" /\ run.at = "check"
  BY DEF CommitCheck, Doing
<1>2. rec \in StoredRecords /\ run \in RunRecords /\ StoreKept(rec) /\ RunKept(rec, run) /\ e \in Enrollments
  BY <1>1, StoreHas DEF RunKept
<1>3. CASE (Throws("ENROLLMENT_EXPIRED") \/ Throws("AUTH_FAILED")) /\ UNCHANGED rec
  BY <1>1, <1>3, ThrowStep
<1>4. CASE rec.peers[e] # "none" /\ run' = [run EXCEPT !.at = "clean"] /\ UNCHANGED <<rec, srv>>
  <2>1. run' \in RunRecords
    BY <1>2, <1>4 DEF RunRecords
  <2>2. run'.op = "commit" /\ run'.at = "clean" /\ run'.by = run.by /\ run'.e = e
    BY <1>1, <1>2, <1>4 DEF RunRecords
  <2>3. RunKept(rec', run')
    BY <1>1, <1>2, <1>4, <2>2 DEF RunKept
  <2>4. StaysShut(rec, run, rec', run')
    BY <1>1, <1>4 DEF StaysShut, IsClosing
  <2> QED BY <1>1, <1>4, <2>1, <2>2, <2>3, <2>4, StoreHas, StoreMoves
<1>5. CASE /\ rec.pending[e] = "live" /\ e \in rec.roots /\ rec.inv # "none"
           /\ rec' = CommitPeer(e) /\ run' = [run EXCEPT !.at = "clean"] /\ UNCHANGED srv
  <2>1. rec' = [rec EXCEPT !.peers[e] = "cleanup", !.inv = "none", !.pending[e] = "none"]
    BY <1>5 DEF CommitPeer
  <2>2. rec' \in StoredRecords
    BY <1>2, <2>1 DEF StoredRecords, Lives
  <2>3. /\ rec'.inv = "none" /\ rec'.made = rec.made /\ rec'.next = rec.next
        /\ rec'.pending = [rec.pending EXCEPT ![e] = "none"] /\ rec'.roots = rec.roots
        /\ rec'.peers = [rec.peers EXCEPT ![e] = "cleanup"] /\ rec'.entries = rec.entries
    BY <1>2, <2>1 DEF StoredRecords
  <2>4. \A x \in Enrollments : Handed(x, rec') <=> Handed(x, rec)
    BY <2>3 DEF Handed
  <2>5. Handed(e, rec)
    BY <1>2, <1>5 DEF StoreKept
  <2>6. \A x \in Enrollments : rec'.peers[x] # "none" <=> x = e
    BY <1>2, <1>5, <2>3 DEF StoreKept, StoredRecords
  <2>7. StoreKept(rec')
    BY <1>2, <1>5, <2>3, <2>4, <2>5, <2>6 DEF StoreKept, StoredRecords
  <2>8. run' \in RunRecords
    BY <1>2, <1>5 DEF RunRecords
  <2>9. run'.op = "commit" /\ run'.at = "clean" /\ run'.by = run.by /\ run'.e = e
    BY <1>1, <1>2, <1>5 DEF RunRecords
  <2>10. RunKept(rec', run')
    BY <1>1, <1>2, <2>6, <2>9 DEF RunKept
  <2>11. PeersStay(rec, rec') /\ StaysShut(rec, run, rec', run')
    BY <1>1, <1>2, <1>5, <2>3 DEF PeersStay, StaysShut, IsClosing, StoreKept
  <2> QED BY <1>1, <1>5, <2>2, <2>7, <2>8, <2>9, <2>10, <2>11, StoreMoves
<1>6. rec.pending[e] \in {"none", "live", "expired"}
  BY <1>2 DEF StoredRecords, Lives
<1> QED BY <1>3, <1>4, <1>5, <1>6 DEF CommitCheck

LEMMA CommitEndStep ==
  ASSUME EnrollTyped, EnrollKept, CommitEnd
  PROVE  EnrollTyped' /\ EnrollKept'
<1> DEFINE n == run.by
           r == srv[n]
<1>1. /\ UNCHANGED <<rec, crd>> /\ run' = Resting /\ run.op = "commit" /\ run.at = "clean"
      /\ rec.peers[run.e] = "active" /\ rec' = rec
  BY DEF CommitEnd, Doing
<1>2. n \in Connections /\ run.e \in Enrollments
  BY <1>1, StoreHas DEF RunKept
<1>3. r \in PeerRecords /\ ConnKept(n, r, rec, run) /\ r.at = "busy" /\ r.req = "commit" /\ r.e = run.e
  BY <1>1, <1>2, ConnHas DEF ConnKept, Awaiting
<1>4. rec' \in StoredRecords /\ run' \in RunRecords /\ StoreKept(rec') /\ RunKept(rec', run') /\ PeersStay(rec, rec')
      /\ StaysShut(rec, run, rec', run') /\ run'.by = "desk" /\ run'.by # n
  BY <1>1, <1>2, StoreHas, RestIsKept, EnrollAssumption
<1>5. CASE srv' = [srv EXCEPT ![n] = [r EXCEPT !.sess = "none", !.of = 0, !.at = "mark"]]
  <2> DEFINE s == [r EXCEPT !.sess = "none", !.of = 0, !.at = "mark"]
  <2>1. srv' = [srv EXCEPT ![n] = s]
    BY <1>5
  <2> HIDE DEF n, r
  <2>2. s \in PeerRecords
    BY <1>3 DEF PeerRecords, EnrollNames
  <2>3. /\ s.c = r.c /\ s.cut = r.cut /\ s.e = r.e /\ s.mode = r.mode /\ s.sess = "none" /\ s.auth = r.auth
        /\ s.open = r.open /\ s.req = r.req /\ s.at = "mark" /\ s.reply = r.reply
    BY <1>3 DEF PeerRecords
  <2> HIDE DEF s
  <2>4. IsPeer(s.e, rec')
    BY <1>1, <1>2, <1>3, <2>3 DEF IsPeer
  <2>5. Stepping(s) /\ Backed(s, rec') /\ Awaiting(n, s, run')
    BY <1>3, <1>4, <2>3, <2>4 DEF Stepping, ConnKept, Backed, Awaiting
  <2>6. Follows(n, r, rec, s, rec', run')
    BY <1>2, <1>3, <1>4, <2>2, <2>3, <2>5, ConnSteps
  <2> QED BY <1>1, <1>2, <1>4, <2>1, <2>6, ConnMoves DEF r
<1>6. CASE Reply(n, "AUTH_FAILED")
  <2>1. srv' = [srv EXCEPT ![n] = Answered(r, "AUTH_FAILED")]
    BY <1>6 DEF Reply
  <2>2. Follows(n, r, rec, Answered(r, "AUTH_FAILED"), rec', run')
    BY <1>2, <1>3, <1>4, RefusalFollows
  <2> QED BY <1>1, <1>2, <1>4, <2>1, <2>2, ConnMoves
<1> QED BY <1>5, <1>6 DEF CommitEnd

\* Every connection that is authenticated as the peer is shut at once.
LEMMA ClosePeerStep ==
  ASSUME EnrollTyped, EnrollKept, ClosePeer
  PROVE  EnrollTyped' /\ EnrollKept'
<1> DEFINE e == run.e
<1>1. UNCHANGED <<rec, crd>> /\ rec' = rec /\ srv' = WithoutPeer(e) /\ run.op = "revoke" /\ run.at = "close"
  BY DEF ClosePeer, Doing
<1>2. rec \in StoredRecords /\ run \in RunRecords /\ StoreKept(rec) /\ RunKept(rec, run) /\ e \in Enrollments
      /\ PeersStay(rec, rec)
  BY <1>1, StoreHas DEF RunKept
<1>3. run' = [run EXCEPT !.at = "tasks", !.todo = rec.entries[e].refs]
  BY DEF ClosePeer
<1>4. run' \in RunRecords
  <2>1. rec.entries[e].refs \in SUBSET (Findings \cup {"root", "inv"})
    BY <1>2 DEF StoredRecords, EntryRecords
  <2> QED BY <1>2, <1>3, <2>1 DEF RunRecords
<1>5. run'.op = "revoke" /\ run'.at = "tasks" /\ run'.by = run.by /\ run'.e = e
  BY <1>1, <1>2, <1>3 DEF RunRecords
<1>6. RunKept(rec', run')
  BY <1>1, <1>2, <1>5 DEF RunKept
<1>7. ASSUME NEW n \in Connections PROVE Follows(n, srv[n], rec, srv'[n], rec', run')
  <2> DEFINE r == srv[n]
  <2>1. r \in PeerRecords /\ ConnKept(n, r, rec, run)
    BY ConnHas
  <2>2. CASE ~(r.open /\ e \in {r.auth, r.named})
    <3>1. srv'[n] = r
      BY <1>1, <2>2 DEF WithoutPeer
    <3>2. r.auth # e
      BY <1>2, <2>1, <2>2, NoZero DEF ConnKept, Stepping
    <3>3. Shut(r, rec, run')
      BY <1>1, <1>5, <2>1, <3>2 DEF Shut, ConnKept, IsClosing
    <3>4. Awaiting(n, r, run')
      BY <1>1, <1>5, <2>1 DEF Awaiting, ConnKept
    <3> QED BY <1>1, <2>1, <3>1, <3>3, <3>4 DEF Follows, ConnKept
  <2>3. CASE r.open /\ e \in {r.auth, r.named}
    <3> DEFINE s == [DisposedPeer(r) EXCEPT !.cut = TRUE]
    <3>1. srv'[n] = s
      BY <1>1, <2>3 DEF WithoutPeer
    <3> HIDE DEF r
    <3>2. s \in PeerRecords
      BY <2>1, DisposedTyped
    <3>3. /\ s.c = r.c /\ s.cut /\ s.e = r.e /\ s.mode = r.mode /\ s.sess = "none" /\ s.auth = 0
          /\ s.at = r.at /\ s.reply = r.reply /\ s.req = IF r.at = "idle" THEN "none" ELSE r.req
      BY <2>1 DEF DisposedPeer, PeerRecords
    <3> HIDE DEF s
    <3>4. Stepping(s) /\ Backed(s, rec) /\ Awaiting(n, s, run')
      BY <1>1, <1>5, <2>1, <3>3 DEF Stepping, ConnKept, Backed, Awaiting
    <3>5. Shut(s, rec, run')
      BY <3>3, NoZero DEF Shut
    <3>6. ASSUME NEW k \in CoordinatorRecords, Tied(k, r, rec) PROVE Tied(k, s, rec)
      BY <3>3, <3>6 DEF Tied
    <3> QED BY <1>1, <3>1, <3>2, <3>3, <3>4, <3>5, <3>6 DEF Follows, ConnKept, r
  <2> QED BY <2>2, <2>3
<1>8. DOMAIN srv' = Connections /\ srv' = [n \in Connections |-> srv'[n]]
  BY <1>1 DEF WithoutPeer
<1> QED BY <1>1, <1>2, <1>4, <1>6, <1>7, <1>8, WorkerMoves

\* Whatever is in memory goes, what is stored stays.
LEMMA WorkerCrashStep ==
  ASSUME EnrollTyped, EnrollKept, WorkerCrash
  PROVE  EnrollTyped' /\ EnrollKept'
<1>1. /\ run' = Resting /\ rec' = [rec EXCEPT !.denied = {}] /\ crd' = crd
      /\ srv' = [n \in Connections |-> NoPeer]
  BY DEF WorkerCrash
<1>2. rec \in StoredRecords /\ StoreKept(rec) /\ \A c \in Coordinators : CoordKept(crd[c], rec)
  BY StoreHas DEF EnrollKept
<1>3. rec' \in StoredRecords
  BY <1>1, <1>2 DEF StoredRecords
<1>4. /\ rec'.inv = rec.inv /\ rec'.made = rec.made /\ rec'.next = rec.next /\ rec'.pending = rec.pending
      /\ rec'.roots = rec.roots /\ rec'.peers = rec.peers /\ rec'.entries = rec.entries
  BY <1>1, <1>2 DEF StoredRecords
<1>5. \A x \in Enrollments : Handed(x, rec') <=> Handed(x, rec)
  BY <1>4 DEF Handed
<1>6. StoreKept(rec')
  BY <1>2, <1>4, <1>5 DEF StoreKept
<1>7. run' \in RunRecords /\ RunKept(rec', run')
  BY <1>1, EnrollAssumption DEF Resting, RunRecords, RunKept, EnrollNames
<1>8. NoPeer \in PeerRecords
  BY DEF NoPeer, PeerRecords, EnrollNames
<1>9. ASSUME NEW n \in Connections PROVE ConnKept(n, NoPeer, rec', run')
  BY <1>1, NoZero, EnrollAssumption DEF NoPeer, ConnKept, Stepping, Awaiting, Backed, Shut, Resting
<1>10. \A c \in Coordinators : CoordKept(crd'[c], rec') /\ ~Linked(c)'
  <2>1. PeersStay(rec, rec')
    BY <1>4 DEF PeersStay
  <2>2. ASSUME NEW c \in Coordinators PROVE ~Linked(c)'
    BY <1>1 DEF Linked, NoPeer, EnrollTyped, CoordinatorRecords
  <2> QED BY <1>1, <1>2, <2>1, <2>2, CoordIsKept
<1>11. EnrollTyped'
  BY <1>1, <1>3, <1>7, <1>8 DEF EnrollTyped
<1> QED BY <1>1, <1>6, <1>7, <1>9, <1>10, <1>11 DEF EnrollKept

----------------------------------------------------------------------------
(* Enrollment: the coordinators *)

LEMMA CoordHas ==
  ASSUME EnrollTyped, EnrollKept, NEW c \in Coordinators
  PROVE  /\ crd[c] \in CoordinatorRecords /\ CoordKept(crd[c], rec)
         /\ Linked(c) => crd[c].conn \in Connections /\ Tied(crd[c], srv[crd[c].conn], rec)
BY DEF EnrollTyped, EnrollKept, Linked, CoordinatorRecords

\* One coordinator moves, and nobody else's connection with it.
LEMMA CoordMoves ==
  ASSUME EnrollTyped, EnrollKept, UNCHANGED <<rec, run>>, NEW c \in Coordinators, NEW k \in CoordinatorRecords,
         crd' = [crd EXCEPT ![c] = k], CoordKept(k, rec), srv' \in [Connections -> PeerRecords],
         \A n \in Connections : ConnKept(n, srv'[n], rec, run),
         \A d \in Coordinators \ {c} : Linked(d)' => Linked(d) /\ srv'[crd[d].conn] = srv[crd[d].conn],
         Linked(c)' => Tied(k, srv'[k.conn], rec)
  PROVE  EnrollTyped' /\ EnrollKept'
<1>1. crd' \in [Coordinators -> CoordinatorRecords] /\ crd'[c] = k /\ \A d \in Coordinators \ {c} : crd'[d] = crd[d]
  BY DEF EnrollTyped
<1>2. EnrollTyped'
  BY <1>1 DEF EnrollTyped
<1>3. ASSUME NEW d \in Coordinators
      PROVE  CoordKept(crd'[d], rec') /\ (Linked(d)' => Tied(crd'[d], srv'[crd'[d].conn], rec'))
  <2>1. CASE d = c
    BY <1>1, <2>1
  <2>2. CASE d # c
    BY <1>1, <2>2, CoordHas
  <2> QED BY <2>1, <2>2
<1> QED BY <1>2, <1>3, StoreHas DEF EnrollKept

\* It writes, and says nothing.
LEMMA CoordWrites ==
  ASSUME EnrollTyped, EnrollKept, UNCHANGED <<rec, run, srv>>, NEW c \in Coordinators, NEW k \in CoordinatorRecords,
         crd' = [crd EXCEPT ![c] = k], CoordKept(k, rec), k.conn = crd[c].conn,
         Linked(c) => Tied(k, srv[k.conn], rec)
  PROVE  EnrollTyped' /\ EnrollKept'
<1>1. crd'[c] = k /\ \A d \in Coordinators \ {c} : crd'[d] = crd[d]
  BY DEF EnrollTyped
<1>2. \A d \in Coordinators : Linked(d)' <=> Linked(d)
  BY <1>1 DEF Linked
<1>3. srv' \in [Connections -> PeerRecords] /\ \A n \in Connections : ConnKept(n, srv'[n], rec, run)
  BY DEF EnrollTyped, EnrollKept
<1> QED BY <1>2, <1>3, CoordMoves

\* It closes its connection.
LEMMA CoordCloses ==
  ASSUME EnrollTyped, EnrollKept, UNCHANGED <<rec, run>>, NEW c \in Coordinators, NEW k \in CoordinatorRecords,
         crd' = [crd EXCEPT ![c] = k], CoordKept(k, rec), k.conn = "none", CloseClient(c)
  PROVE  EnrollTyped' /\ EnrollKept'
<1> DEFINE m == crd[c].conn
<1>1. crd'[c] = k /\ \A d \in Coordinators \ {c} : crd'[d] = crd[d]
  BY DEF EnrollTyped
<1>2. ~Linked(c)'
  BY <1>1 DEF Linked
<1>3. CASE ~Linked(c)
  <2>1. srv' = srv
    BY <1>3 DEF CloseClient
  <2>2. \A d \in Coordinators \ {c} : Linked(d)' <=> Linked(d)
    BY <1>1, <2>1 DEF Linked
  <2>3. srv' \in [Connections -> PeerRecords] /\ \A n \in Connections : ConnKept(n, srv'[n], rec, run)
    BY <2>1 DEF EnrollTyped, EnrollKept
  <2> QED BY <1>2, <2>1, <2>2, <2>3, CoordMoves
<1>4. CASE Linked(c)
  <2> DEFINE r == srv[m]
             s == [r EXCEPT !.cut = TRUE]
  <2>1. m \in Connections /\ r \in PeerRecords /\ ConnKept(m, r, rec, run)
    BY <1>4, CoordHas, ConnHas
  <2>2. srv' = [srv EXCEPT ![m] = s]
    BY <1>4, <2>1 DEF CloseClient, EnrollTyped
  <2>3. s \in PeerRecords /\ s.cut
    BY <2>1 DEF PeerRecords
  <2>4. ConnKept(m, s, rec, run)
    BY <2>1 DEF PeerRecords, ConnKept, Stepping, Awaiting, Backed, Shut
  <2>5. srv' \in [Connections -> PeerRecords] /\ srv'[m] = s /\ \A n \in Connections \ {m} : srv'[n] = srv[n]
    BY <2>1, <2>2, <2>3 DEF EnrollTyped
  <2> HIDE DEF s, r, m
  <2>6. \A n \in Connections : ConnKept(n, srv'[n], rec, run)
    BY <2>4, <2>5, ConnHas
  <2>7. ASSUME NEW d \in Coordinators \ {c}, Linked(d)'
        PROVE  Linked(d) /\ srv'[crd[d].conn] = srv[crd[d].conn]
    <3>1. crd'[d] = crd[d] /\ crd[d].conn \in Connections
      BY <1>1, <2>7 DEF Linked, EnrollTyped, CoordinatorRecords
    <3>2. crd[d].conn # m
      BY <2>3, <2>5, <2>7, <3>1 DEF Linked
    <3> QED BY <2>5, <2>7, <3>1, <3>2 DEF Linked
  <2> QED BY <1>2, <2>5, <2>6, <2>7, CoordMoves
<1> QED BY <1>3, <1>4

\* It asks, where its last request has been answered.
LEMMA CoordAsks ==
  ASSUME EnrollTyped, EnrollKept, UNCHANGED <<rec, run>>, NEW c \in Coordinators, NEW k \in CoordinatorRecords,
         NEW req \in {"authenticate", "commit"}, Linked(c), srv[crd[c].conn].req = "none",
         req = "commit" => srv[crd[c].conn].e \in Enrollments,
         crd' = [crd EXCEPT ![c] = k], CoordKept(k, rec), k.conn = crd[c].conn, Request(crd[c].conn, req),
         Tied(k, [srv[crd[c].conn] EXCEPT !.req = req, !.reply = "none"], rec)
  PROVE  EnrollTyped' /\ EnrollKept'
<1> DEFINE m == crd[c].conn
           r == srv[m]
           s == [r EXCEPT !.req = req, !.reply = "none"]
<1>1. crd'[c] = k /\ \A d \in Coordinators \ {c} : crd'[d] = crd[d]
  BY DEF EnrollTyped
<1>2. m \in Connections /\ r \in PeerRecords /\ ConnKept(m, r, rec, run) /\ r.c = c
  BY CoordHas, ConnHas DEF Linked
<1>3. srv' = [srv EXCEPT ![m] = s]
  BY DEF Request
<1>4. s \in PeerRecords
  BY <1>2 DEF PeerRecords
<1>5. /\ s.c = c /\ s.cut = r.cut /\ s.e = r.e /\ s.mode = r.mode /\ s.sess = r.sess /\ s.auth = r.auth
      /\ s.open = r.open /\ s.req = req /\ s.at = r.at /\ s.reply = "none"
  BY <1>2 DEF PeerRecords
<1>6. r.at = "idle"
  BY <1>2 DEF ConnKept, Stepping
<1>7. srv' \in [Connections -> PeerRecords] /\ srv'[m] = s /\ \A n \in Connections \ {m} : srv'[n] = srv[n]
  BY <1>2, <1>3, <1>4 DEF EnrollTyped
<1>8. Tied(k, s, rec) /\ (req = "commit" => r.e \in Enrollments)
  OBVIOUS
<1> HIDE DEF s, r, m
<1>9. ConnKept(m, s, rec, run)
  BY <1>2, <1>5, <1>6, <1>8 DEF ConnKept, Stepping, Awaiting, Backed, Shut
<1>10. \A n \in Connections : ConnKept(n, srv'[n], rec, run)
  BY <1>7, <1>9, ConnHas
<1>11. ASSUME NEW d \in Coordinators \ {c}, Linked(d)'
       PROVE  Linked(d) /\ srv'[crd[d].conn] = srv[crd[d].conn]
  <2>1. crd'[d] = crd[d] /\ crd[d].conn \in Connections
    BY <1>1, <1>11 DEF Linked, EnrollTyped, CoordinatorRecords
  <2>2. crd[d].conn # m
    BY <1>5, <1>7, <1>11, <2>1 DEF Linked
  <2> QED BY <1>7, <1>11, <2>1, <2>2 DEF Linked
<1>12. k.conn = m
  BY DEF m
<1> QED BY <1>7, <1>8, <1>10, <1>11, <1>12, CoordMoves

LEMMA DialStep ==
  ASSUME EnrollTyped, EnrollKept, NEW c \in Coordinators, NEW n \in Connections, Dial(c, n)
  PROVE  EnrollTyped' /\ EnrollKept'
<1> DEFINE mode == IF crd[c].profile = "invited" THEN "enrollment" ELSE "reconnect"
           s == Accept(c, n, mode)
           k == [crd[c] EXCEPT !.conn = n, !.at = "hello"]
<1>1. /\ UNCHANGED <<rec, run>> /\ srv[n].at = "idle" /\ srv' = [srv EXCEPT ![n] = s]
      /\ crd' = [crd EXCEPT ![c] = k]
  BY DEF Dial, Unused, EnrollTyped
<1>2. crd[c] \in CoordinatorRecords /\ CoordKept(crd[c], rec) /\ srv[n] \in PeerRecords /\ ConnKept(n, srv[n], rec, run)
  BY CoordHas, ConnHas
<1>3. mode \in {"enrollment", "reconnect"} /\ crd[c].e \in EnrollNames
  BY <1>2 DEF CoordinatorRecords
<1>4. /\ k.profile = crd[c].profile /\ k.e = crd[c].e /\ k.keys = crd[c].keys /\ k.at = "hello" /\ k.conn = n
      /\ k \in CoordinatorRecords
  BY <1>2 DEF CoordinatorRecords
<1>5. /\ s.c = c /\ ~s.cut /\ s.e = k.e /\ s.mode = mode /\ s.sess = "none" /\ s.auth = 0
      /\ s.open /\ s.req = "hello" /\ s.at = "idle" /\ s.reply = "none"
  BY <1>4 DEF Accept, NoPeer
<1>6. s \in PeerRecords
  <2> HIDE DEF mode
  <2> QED BY <1>3 DEF Accept, NoPeer, PeerRecords, EnrollNames
<1>7. mode = IF k.profile = "invited" THEN "enrollment" ELSE "reconnect"
  BY <1>4
<1>8. crd'[c] = k /\ \A d \in Coordinators \ {c} : crd'[d] = crd[d]
  BY <1>1 DEF EnrollTyped
<1> HIDE DEF s, k, mode
<1>9. CoordKept(k, rec)
  BY <1>2, <1>4 DEF CoordKept
<1>10. Tied(k, s, rec)
  BY <1>4, <1>5, <1>7 DEF Tied
<1>11. run.by # n
  BY <1>1, <1>2 DEF ConnKept, Awaiting
<1>12. ConnKept(n, s, rec, run)
  BY <1>5, <1>7, <1>9, <1>11, NoZero DEF ConnKept, Stepping, Awaiting, Backed, Shut, CoordKept
<1>13. srv' \in [Connections -> PeerRecords] /\ srv'[n] = s /\ \A m \in Connections \ {n} : srv'[m] = srv[m]
  BY <1>1, <1>6 DEF EnrollTyped
<1>14. \A m \in Connections : ConnKept(m, srv'[m], rec, run)
  BY <1>12, <1>13, ConnHas
<1>15. ASSUME NEW d \in Coordinators \ {c}, Linked(d)'
       PROVE  Linked(d) /\ srv'[crd[d].conn] = srv[crd[d].conn]
  <2>1. crd'[d] = crd[d] /\ crd[d].conn \in Connections
    BY <1>8, <1>15 DEF Linked, EnrollTyped, CoordinatorRecords
  <2>2. crd[d].conn # n
    BY <1>5, <1>13, <1>15, <2>1 DEF Linked
  <2> QED BY <1>13, <1>15, <2>1, <2>2 DEF Linked
<1> QED BY <1>1, <1>4, <1>9, <1>10, <1>13, <1>14, <1>15, CoordMoves

LEMMA HangUpStep ==
  ASSUME EnrollTyped, EnrollKept, UNCHANGED <<rec, run>>, NEW c \in Coordinators, HangUp(c)
  PROVE  EnrollTyped' /\ EnrollKept'
<1> DEFINE k == [crd[c] EXCEPT !.at = "off", !.conn = "none"]
<1>1. crd' = [crd EXCEPT ![c] = k] /\ CloseClient(c)
  BY DEF HangUp, EnrollTyped
<1>2. /\ k \in CoordinatorRecords /\ k.profile = crd[c].profile /\ k.e = crd[c].e /\ k.keys = crd[c].keys
      /\ k.at = "off" /\ k.conn = "none"
  BY CoordHas DEF CoordinatorRecords
<1> HIDE DEF k
<1>3. CoordKept(k, rec)
  BY <1>2, CoordHas DEF CoordKept
<1> QED BY <1>1, <1>2, <1>3, CoordCloses

\* A request whose answer has come is followed by another one.
LEMMA AskStep ==
  ASSUME EnrollTyped, EnrollKept, UNCHANGED <<rec, run>>, NEW c \in Coordinators, Linked(c), Answer(c) # "none",
         NEW at, NEW req, AskWorker(c, at, req),
         \/ at = "authenticate" /\ req = "authenticate" /\ crd[c].at = "hello" /\ crd[c].profile = "invited"
         \/ at = "reconnect" /\ req = "authenticate" /\ crd[c].at = "hello" /\ crd[c].profile # "invited"
         \/ at = "commit" /\ req = "commit" /\ crd[c].at \in {"hello", "reconnect"} /\ crd[c].profile = "candidate"
  PROVE  EnrollTyped' /\ EnrollKept'
<1> DEFINE k == [crd[c] EXCEPT !.at = at]
           m == crd[c].conn
           r == srv[m]
           s == [r EXCEPT !.req = req, !.reply = "none"]
<1>1. crd' = [crd EXCEPT ![c] = k] /\ Request(m, req)
  BY DEF AskWorker, EnrollTyped
<1>2. /\ crd[c] \in CoordinatorRecords /\ CoordKept(crd[c], rec) /\ m \in Connections /\ Tied(crd[c], r, rec)
      /\ r \in PeerRecords /\ ConnKept(m, r, rec, run) /\ r.reply # "none"
  BY CoordHas, ConnHas DEF Linked, Answer
<1>3. /\ k \in CoordinatorRecords /\ k.profile = crd[c].profile /\ k.e = crd[c].e /\ k.keys = crd[c].keys
      /\ k.at = at /\ k.conn = m
  BY <1>2 DEF CoordinatorRecords
<1>4. r.req = "none"
  BY <1>2 DEF ConnKept, Stepping
<1>5. s.req = req /\ s.reply = "none" /\ s.mode = r.mode /\ s.e = r.e
  BY <1>2 DEF PeerRecords
<1> HIDE DEF k, s
<1>6. CoordKept(k, rec)
  BY <1>2, <1>3 DEF CoordKept
<1>7. req = "commit" => r.e \in Enrollments
  BY <1>2 DEF Tied, CoordKept
<1>8. Tied(k, s, rec)
  BY <1>2, <1>3, <1>5 DEF Tied
<1> QED BY <1>1, <1>3, <1>4, <1>6, <1>7, <1>8, CoordAsks DEF s

LEMMA RetryPendingCommitStep ==
  ASSUME EnrollTyped, EnrollKept, NEW c \in Coordinators, RetryPendingCommit(c)
  PROVE  EnrollTyped' /\ EnrollKept'
<1>1. CASE HangUp(c)
  BY <1>1, HangUpStep DEF RetryPendingCommit
<1>2. CASE AskWorker(c, "commit", "commit")
  BY <1>2, AskStep DEF RetryPendingCommit
<1> QED BY <1>1, <1>2 DEF RetryPendingCommit

LEMMA HelloOkStep ==
  ASSUME EnrollTyped, EnrollKept, NEW c \in Coordinators, HelloOk(c)
  PROVE  EnrollTyped' /\ EnrollKept'
<1>1. CASE crd[c].profile = "invited"
  BY <1>1, AskStep DEF HelloOk
<1>2. CASE crd[c].profile # "invited"
  BY <1>2, AskStep DEF HelloOk
<1> QED BY <1>1, <1>2

LEMMA StoreCredentialStep ==
  ASSUME EnrollTyped, EnrollKept, NEW c \in Coordinators, NEW ok \in BOOLEAN, StoreCredential(c, ok)
  PROVE  EnrollTyped' /\ EnrollKept'
<1> DEFINE r == srv[crd[c].conn]
           k == [crd[c] EXCEPT !.keys = @ \cup {"credential"}, !.at = "proof", !.e = r.e]
<1>1. CASE ~ok
  BY <1>1, HangUpStep DEF StoreCredential
<1>2. CASE ok
  <2>1. /\ UNCHANGED <<rec, run, srv>> /\ Linked(c) /\ crd[c].at = "authenticate" /\ Answer(c) = "ok"
        /\ crd' = [crd EXCEPT ![c] = k]
    BY <1>2 DEF StoreCredential, EnrollTyped
  <2>2. /\ crd[c] \in CoordinatorRecords /\ CoordKept(crd[c], rec) /\ crd[c].conn \in Connections
        /\ Tied(crd[c], r, rec) /\ ConnKept(crd[c].conn, r, rec, run) /\ r.reply = "ok"
    BY <2>1, CoordHas, ConnHas DEF Linked, Answer
  <2>3. r.e \in Enrollments /\ r.req = "none"
    BY <2>1, <2>2 DEF Tied, ConnKept, Stepping
  <2>4. k \in CoordinatorRecords
    BY <2>2, <2>3 DEF CoordinatorRecords, EnrollNames
  <2>5. /\ k.profile = crd[c].profile /\ k.e = r.e /\ k.keys = crd[c].keys \cup {"credential"} /\ k.at = "proof"
        /\ k.conn = crd[c].conn
    BY <2>2 DEF CoordinatorRecords
  <2> HIDE DEF k
  <2>6. CoordKept(k, rec)
    BY <2>1, <2>2, <2>3, <2>5 DEF CoordKept
  <2>7. Tied(k, r, rec)
    BY <2>3, <2>5 DEF Tied
  <2> QED BY <2>1, <2>4, <2>5, <2>6, <2>7, CoordWrites
<1> QED BY <1>1, <1>2

LEMMA StoreCommitProofStep ==
  ASSUME EnrollTyped, EnrollKept, NEW c \in Coordinators, StoreCommitProof(c)
  PROVE  EnrollTyped' /\ EnrollKept'
<1> DEFINE k == [crd[c] EXCEPT !.keys = @ \cup {"commit"}, !.at = "candidate"]
<1>1. UNCHANGED <<rec, run, srv>> /\ crd[c].at = "proof" /\ crd' = [crd EXCEPT ![c] = k]
  BY DEF StoreCommitProof, EnrollTyped
<1>2. crd[c] \in CoordinatorRecords /\ CoordKept(crd[c], rec)
  BY CoordHas
<1>3. k \in CoordinatorRecords
  BY <1>2 DEF CoordinatorRecords
<1>4. /\ k.profile = crd[c].profile /\ k.e = crd[c].e /\ k.keys = crd[c].keys \cup {"commit"} /\ k.at = "candidate"
      /\ k.conn = crd[c].conn
  BY <1>2 DEF CoordinatorRecords
<1> HIDE DEF k
<1>5. CoordKept(k, rec)
  BY <1>1, <1>2, <1>4 DEF CoordKept
<1>6. Linked(c) => Tied(k, srv[k.conn], rec)
  BY <1>1, <1>4, CoordHas DEF Tied
<1> QED BY <1>1, <1>3, <1>4, <1>5, <1>6, CoordWrites

LEMMA DeleteCandidateSecretsStep ==
  ASSUME EnrollTyped, EnrollKept, NEW c \in Coordinators, DeleteCandidateSecrets(c)
  PROVE  EnrollTyped' /\ EnrollKept'
<1> DEFINE k == [crd[c] EXCEPT !.keys = @ \ {"credential", "commit"}, !.at = "off", !.conn = "none", !.e = 0]
<1>1. UNCHANGED <<rec, run>> /\ CloseClient(c) /\ crd[c].at \in {"proof", "candidate"} /\ crd' = [crd EXCEPT ![c] = k]
  BY DEF DeleteCandidateSecrets, EnrollTyped
<1>2. crd[c] \in CoordinatorRecords /\ CoordKept(crd[c], rec)
  BY CoordHas
<1>3. k \in CoordinatorRecords
  BY <1>2 DEF CoordinatorRecords, EnrollNames
<1>4. k.profile = crd[c].profile /\ k.at = "off" /\ k.conn = "none"
  BY <1>2 DEF CoordinatorRecords
<1> HIDE DEF k
<1>5. CoordKept(k, rec)
  BY <1>1, <1>2, <1>4 DEF CoordKept
<1> QED BY <1>1, <1>3, <1>4, <1>5, CoordCloses

LEMMA StoreCandidateProfileStep ==
  ASSUME EnrollTyped, EnrollKept, NEW c \in Coordinators, NEW answer \in {"stored", "unknown"},
         StoreCandidateProfile(c, answer)
  PROVE  EnrollTyped' /\ EnrollKept'
<1>1. UNCHANGED <<rec, run>> /\ crd[c].at = "candidate" /\ crd[c] \in CoordinatorRecords /\ CoordKept(crd[c], rec)
  BY CoordHas DEF StoreCandidateProfile
<1>2. CASE answer = "unknown"
  <2> DEFINE k == [crd[c] EXCEPT !.profile = "candidate", !.at = "off", !.conn = "none"]
  <2>1. CloseClient(c) /\ crd' = [crd EXCEPT ![c] = k]
    BY <1>2 DEF StoreCandidateProfile, EnrollTyped
  <2>2. /\ k \in CoordinatorRecords /\ k.profile = "candidate" /\ k.at = "off" /\ k.conn = "none"
        /\ k.e = crd[c].e /\ k.keys = crd[c].keys
    BY <1>1 DEF CoordinatorRecords
  <2> HIDE DEF k
  <2>3. CoordKept(k, rec)
    BY <1>1, <2>2 DEF CoordKept
  <2> QED BY <1>1, <2>1, <2>2, <2>3, CoordCloses
<1>3. CASE answer # "unknown"
  <2> DEFINE k == [crd[c] EXCEPT !.profile = "candidate", !.at = "commit"]
             m == crd[c].conn
             s == [srv[m] EXCEPT !.req = "commit", !.reply = "none"]
  <2>1. crd' = [crd EXCEPT ![c] = k] /\ IF Linked(c) THEN Request(m, "commit") ELSE UNCHANGED srv
    BY <1>3 DEF StoreCandidateProfile, EnrollTyped
  <2>2. /\ k \in CoordinatorRecords /\ k.profile = "candidate" /\ k.at = "commit" /\ k.conn = m
        /\ k.e = crd[c].e /\ k.keys = crd[c].keys
    BY <1>1 DEF CoordinatorRecords
  <2> HIDE DEF k
  <2>3. CoordKept(k, rec)
    BY <1>1, <2>2 DEF CoordKept
  <2>4. CASE ~Linked(c)
    BY <1>1, <2>1, <2>2, <2>3, <2>4, CoordWrites
  <2>5. CASE Linked(c)
    <3>1. /\ m \in Connections /\ Tied(crd[c], srv[m], rec) /\ srv[m] \in PeerRecords
      BY <2>5, CoordHas, ConnHas
    <3>2. srv[m].req = "none" /\ srv[m].e = k.e /\ srv[m].e \in Enrollments
      BY <1>1, <2>2, <3>1 DEF Tied, CoordKept
    <3>3. s.req = "commit" /\ s.reply = "none" /\ s.mode = srv[m].mode /\ s.e = srv[m].e
      BY <3>1 DEF PeerRecords
    <3> HIDE DEF s
    <3>4. Tied(k, s, rec)
      BY <2>2, <3>2, <3>3 DEF Tied
    <3> QED BY <1>1, <2>1, <2>2, <2>3, <2>5, <3>2, <3>4, CoordAsks DEF s
  <2> QED BY <2>4, <2>5
<1> QED BY <1>2, <1>3

LEMMA ConfirmedStep ==
  ASSUME EnrollTyped, EnrollKept, NEW c \in Coordinators, Confirmed(c)
  PROVE  EnrollTyped' /\ EnrollKept'
<1> DEFINE at == IF crd[c].profile = "complete" THEN "online" ELSE "confirmed"
           k == [crd[c] EXCEPT !.at = at]
<1>1. /\ UNCHANGED <<rec, run, srv>> /\ Linked(c) /\ crd[c].at \in {"commit", "reconnect"} /\ Answer(c) = "ok"
      /\ crd' = [crd EXCEPT ![c] = k]
  BY DEF Confirmed, EnrollTyped
<1>2. /\ crd[c] \in CoordinatorRecords /\ CoordKept(crd[c], rec) /\ Tied(crd[c], srv[crd[c].conn], rec)
      /\ srv[crd[c].conn].reply = "ok"
  BY <1>1, CoordHas DEF Linked, Answer
<1>3. at \in {"online", "confirmed"}
  OBVIOUS
<1> HIDE DEF at
<1>4. /\ k \in CoordinatorRecords /\ k.profile = crd[c].profile /\ k.at = at /\ k.conn = crd[c].conn
      /\ k.e = crd[c].e /\ k.keys = crd[c].keys
  BY <1>2, <1>3 DEF CoordinatorRecords
<1> HIDE DEF k
<1>5. IsPeer(k.e, rec)
  BY <1>1, <1>2, <1>4 DEF Tied
<1>6. CoordKept(k, rec)
  BY <1>1, <1>2, <1>3, <1>4, <1>5 DEF CoordKept
<1>7. Tied(k, srv[k.conn], rec)
  BY <1>3, <1>4 DEF Tied
<1> QED BY <1>1, <1>4, <1>6, <1>7, CoordWrites

LEMMA DropEnrollmentSecretsStep ==
  ASSUME EnrollTyped, EnrollKept, NEW c \in Coordinators, DropEnrollmentSecrets(c)
  PROVE  EnrollTyped' /\ EnrollKept'
<1> DEFINE key == IF "commit" \in crd[c].keys THEN "commit" ELSE "pairing"
           k == [crd[c] EXCEPT !.keys = @ \ {key}]
<1>1. UNCHANGED <<rec, run, srv>> /\ crd[c].at = "confirmed" /\ crd' = [crd EXCEPT ![c] = k]
  BY DEF DropEnrollmentSecrets, EnrollTyped
<1>2. crd[c] \in CoordinatorRecords /\ CoordKept(crd[c], rec)
  BY CoordHas
<1>3. key # "credential"
  OBVIOUS
<1> HIDE DEF key
<1>4. /\ k \in CoordinatorRecords /\ k.profile = crd[c].profile /\ k.at = "confirmed" /\ k.conn = crd[c].conn
      /\ k.e = crd[c].e /\ k.keys = crd[c].keys \ {key}
  BY <1>1, <1>2 DEF CoordinatorRecords
<1> HIDE DEF k
<1>5. CoordKept(k, rec)
  BY <1>1, <1>2, <1>3, <1>4 DEF CoordKept
<1>6. Tied(k, srv[k.conn], rec)
  BY <1>4 DEF Tied
<1> QED BY <1>1, <1>4, <1>5, <1>6, CoordWrites

LEMMA StoreCompletedStep ==
  ASSUME EnrollTyped, EnrollKept, NEW c \in Coordinators, NEW ok \in BOOLEAN, StoreCompleted(c, ok)
  PROVE  EnrollTyped' /\ EnrollKept'
<1> DEFINE k == [crd[c] EXCEPT !.profile = "complete", !.at = "online"]
<1>1. CASE ~ok
  BY <1>1, HangUpStep DEF StoreCompleted
<1>2. CASE ok
  <2>1. UNCHANGED <<rec, run, srv>> /\ crd[c].at = "confirmed" /\ crd' = [crd EXCEPT ![c] = k]
    BY <1>2 DEF StoreCompleted, EnrollTyped
  <2>2. crd[c] \in CoordinatorRecords /\ CoordKept(crd[c], rec)
    BY CoordHas
  <2>3. /\ k \in CoordinatorRecords /\ k.profile = "complete" /\ k.at = "online" /\ k.conn = crd[c].conn
        /\ k.e = crd[c].e /\ k.keys = crd[c].keys
    BY <2>2 DEF CoordinatorRecords
  <2> HIDE DEF k
  <2>4. CoordKept(k, rec)
    BY <2>1, <2>2, <2>3 DEF CoordKept
  <2>5. Tied(k, srv[k.conn], rec)
    BY <2>3 DEF Tied
  <2> QED BY <2>1, <2>3, <2>4, <2>5, CoordWrites
<1> QED BY <1>1, <1>2

LEMMA CoordStep ==
  ASSUME EnrollTyped, EnrollKept, NEW c \in Coordinators,
         \/ RetryPendingCommit(c) \/ Refused(c) \/ HelloOk(c) \/ Lost(c) \/ StoreCommitProof(c)
         \/ DeleteCandidateSecrets(c) \/ Confirmed(c) \/ DropEnrollmentSecrets(c) \/ CoordinatorCrash(c)
         \/ \E answer \in {"stored", "unknown"} : StoreCandidateProfile(c, answer)
         \/ \E ok \in BOOLEAN : StoreCredential(c, ok) \/ StoreCompleted(c, ok)
  PROVE  EnrollTyped' /\ EnrollKept'
<1>1. CASE Refused(c) \/ Lost(c) \/ CoordinatorCrash(c)
  BY <1>1, HangUpStep DEF Refused, Lost, CoordinatorCrash
<1>2. CASE RetryPendingCommit(c) \/ HelloOk(c) \/ StoreCommitProof(c)
  BY <1>2, RetryPendingCommitStep, HelloOkStep, StoreCommitProofStep
<1>3. CASE DeleteCandidateSecrets(c) \/ Confirmed(c) \/ DropEnrollmentSecrets(c)
  BY <1>3, DeleteCandidateSecretsStep, ConfirmedStep, DropEnrollmentSecretsStep
<1>4. CASE \E answer \in {"stored", "unknown"} : StoreCandidateProfile(c, answer)
  BY <1>4, StoreCandidateProfileStep
<1>5. CASE \E ok \in BOOLEAN : StoreCredential(c, ok) \/ StoreCompleted(c, ok)
  BY <1>5, StoreCredentialStep, StoreCompletedStep
<1> QED BY <1>1, <1>2, <1>3, <1>4, <1>5

LEMMA ConnStep ==
  ASSUME EnrollTyped, EnrollKept, NEW n \in Connections,
         \/ DisposeConnection(n) \/ SessionExpires(n) \/ Hello(n) \/ Prune(n) \/ HelloRecord(n)
         \/ HelloKey(n) \/ Authenticate(n) \/ Commit(n) \/ Mark(n) \/ \E c \in Coordinators : Dial(c, n)
  PROVE  EnrollTyped' /\ EnrollKept'
<1>1. CASE DisposeConnection(n) \/ SessionExpires(n) \/ Hello(n) \/ Prune(n) \/ HelloRecord(n)
  BY <1>1, DisposeStep, SessionExpiresStep, HelloStep, PruneStep, HelloRecordStep
<1>2. CASE HelloKey(n) \/ Authenticate(n) \/ Commit(n) \/ Mark(n) \/ \E c \in Coordinators : Dial(c, n)
  BY <1>2, HelloKeyStep, AuthenticateStep, CommitStep, MarkStep, DialStep
<1> QED BY <1>1, <1>2

LEMMA MutationStep ==
  ASSUME EnrollTyped, EnrollKept,
         \/ InvitationExpires \/ WriteFails \/ PruneInvitation \/ CreateInvitation \/ StoreInvitationKey
         \/ RevokeInvitation \/ RevokeInvitationRecord \/ Pruned \/ StoreRoot \/ CommitCheck \/ CommitClean
         \/ CommitEnd \/ RecordRevocation \/ ClosePeer \/ FinishCleanup \/ WorkerCrash
         \/ \E ok \in BOOLEAN : \/ StoreInvitationRecord(ok) \/ StorePending(ok) \/ CancelPeerTasks(ok)
                                \/ \E k \in {"root", "inv"} : DeleteKey(k, ok)
         \/ \E e \in Enrollments :
              PendingExpires(e) \/ PrunePending(e) \/ PrunePeer(e) \/ RevokeKnown(e) \/ RetryCleanup(e)
  PROVE  EnrollTyped' /\ EnrollKept'
<1>1. CASE InvitationExpires \/ WriteFails \/ PruneInvitation \/ CreateInvitation \/ StoreInvitationKey
  BY <1>1, InvitationExpiresStep, WriteFailsStep, PruneInvitationStep, CreateInvitationStep, StoreInvitationKeyStep
<1>2. CASE RevokeInvitation \/ RevokeInvitationRecord \/ Pruned \/ StoreRoot \/ CommitCheck \/ CommitClean
  BY <1>2, RevokeInvitationStep, RevokeInvitationRecordStep, PrunedStep, StoreRootStep, CommitCheckStep,
     CommitCleanStep
<1>3. CASE CommitEnd \/ RecordRevocation \/ ClosePeer \/ FinishCleanup \/ WorkerCrash
  BY <1>3, CommitEndStep, RecordRevocationStep, ClosePeerStep, FinishCleanupStep, WorkerCrashStep
<1>4. CASE \E ok \in BOOLEAN : \/ StoreInvitationRecord(ok) \/ StorePending(ok) \/ CancelPeerTasks(ok)
                               \/ \E k \in {"root", "inv"} : DeleteKey(k, ok)
  BY <1>4, StoreInvitationRecordStep, StorePendingStep, CancelPeerTasksStep, DeleteKeyStep
<1>5. CASE \E e \in Enrollments :
             PendingExpires(e) \/ PrunePending(e) \/ PrunePeer(e) \/ RevokeKnown(e) \/ RetryCleanup(e)
  BY <1>5, PendingExpiresStep, PrunePendingStep, PrunePeerStep, RevokeKnownStep, RetryCleanupStep
<1> QED BY <1>1, <1>2, <1>3, <1>4, <1>5

LEMMA EnrollStep ==
  ASSUME EnrollTyped, EnrollKept, [EnrollNext]_enrollVars
  PROVE  EnrollTyped' /\ EnrollKept'
<1>1. CASE \E n \in Connections :
             \/ DisposeConnection(n) \/ SessionExpires(n) \/ Hello(n) \/ Prune(n) \/ HelloRecord(n)
             \/ HelloKey(n) \/ Authenticate(n) \/ Commit(n) \/ Mark(n) \/ \E c \in Coordinators : Dial(c, n)
  BY <1>1, ConnStep
<1>2. CASE \E c \in Coordinators :
             \/ RetryPendingCommit(c) \/ Refused(c) \/ HelloOk(c) \/ Lost(c) \/ StoreCommitProof(c)
             \/ DeleteCandidateSecrets(c) \/ Confirmed(c) \/ DropEnrollmentSecrets(c) \/ CoordinatorCrash(c)
             \/ \E answer \in {"stored", "unknown"} : StoreCandidateProfile(c, answer)
             \/ \E ok \in BOOLEAN : StoreCredential(c, ok) \/ StoreCompleted(c, ok)
  BY <1>2, CoordStep
<1>3. CASE
         \/ InvitationExpires \/ WriteFails \/ PruneInvitation \/ CreateInvitation \/ StoreInvitationKey
         \/ RevokeInvitation \/ RevokeInvitationRecord \/ Pruned \/ StoreRoot \/ CommitCheck \/ CommitClean
         \/ CommitEnd \/ RecordRevocation \/ ClosePeer \/ FinishCleanup \/ WorkerCrash
         \/ \E ok \in BOOLEAN : \/ StoreInvitationRecord(ok) \/ StorePending(ok) \/ CancelPeerTasks(ok)
                                \/ \E k \in {"root", "inv"} : DeleteKey(k, ok)
         \/ \E e \in Enrollments :
              PendingExpires(e) \/ PrunePending(e) \/ PrunePeer(e) \/ RevokeKnown(e) \/ RetryCleanup(e)
  BY <1>3, MutationStep
<1>4. CASE UNCHANGED enrollVars
  BY <1>4 DEF enrollVars, EnrollTyped, EnrollKept, Linked
<1> QED BY <1>1, <1>2, <1>3, <1>4 DEF EnrollNext

LEMMA EnrollStart ==
  ASSUME NEW invited \in SUBSET Coordinators, EnrollInitFor(invited, 0)
  PROVE  EnrollTyped /\ EnrollKept
<1>1. rec = NoRecords /\ run = Resting /\ srv = [n \in Connections |-> NoPeer]
      /\ crd = [c \in Coordinators |-> IF c \in invited THEN NewCoordinator ELSE [NewCoordinator EXCEPT !.keys = {}]]
  BY DEF EnrollInitFor
<1>2. rec \in StoredRecords
  <2>1. NoEntry \in EntryRecords /\ 1 \in 1..(MaxEnrollments + 1)
    BY EnrollAssumption DEF NoEntry, EntryRecords
  <2> HIDE DEF NoEntry
  <2> QED BY <1>1, <2>1 DEF NoRecords, StoredRecords, Lives
<1>3. StoreKept(rec)
  BY <1>1 DEF NoRecords, NoEntry, StoreKept
<1>4. run \in RunRecords /\ RunKept(rec, run)
  BY <1>1, EnrollAssumption DEF Resting, RunRecords, RunKept, EnrollNames
<1>5. NoPeer \in PeerRecords
  BY DEF NoPeer, PeerRecords, EnrollNames
<1>6. ASSUME NEW n \in Connections PROVE ConnKept(n, NoPeer, rec, run)
  BY <1>1, NoZero, EnrollAssumption DEF NoPeer, ConnKept, Stepping, Awaiting, Backed, Shut, Resting
<1>7. ASSUME NEW k \in {NewCoordinator, [NewCoordinator EXCEPT !.keys = {}]}
      PROVE  k \in CoordinatorRecords /\ CoordKept(k, rec) /\ k.conn = "none"
  BY DEF NewCoordinator, CoordinatorRecords, CoordKept, EnrollNames
<1>8. \A c \in Coordinators : crd[c] \in {NewCoordinator, [NewCoordinator EXCEPT !.keys = {}]}
  BY <1>1
<1>9. crd \in [Coordinators -> CoordinatorRecords] /\ \A c \in Coordinators : CoordKept(crd[c], rec) /\ ~Linked(c)
  BY <1>1, <1>7, <1>8 DEF Linked
<1> QED BY <1>1, <1>2, <1>3, <1>4, <1>5, <1>6, <1>9 DEF EnrollTyped, EnrollKept

LEMMA EnrollSafe ==
  ASSUME EnrollTyped, EnrollKept
  PROVE  PairingSound
<1>1. NotStranded
  <2>1. ASSUME NEW c \in Coordinators, crd[c].profile # "invited",
               ~(crd[c].profile = "candidate" /\ {"commit", "credential"} \subseteq crd[c].keys)
        PROVE  /\ rec.peers[crd[c].e] # "none" /\ "credential" \in crd[c].keys
               /\ Allowed(crd[c].e) => crd[c].e \in rec.roots
    <3>1. IsPeer(crd[c].e, rec) /\ "credential" \in crd[c].keys
      BY <2>1, CoordHas DEF CoordKept, CoordinatorRecords
    <3> QED BY <3>1, StoreHas DEF IsPeer, Allowed, StoreKept
  <2> QED BY <2>1 DEF NotStranded
<1>2. OnePeerPerInvitation
  <2> DEFINE S == {e \in Enrollments : rec.peers[e] # "none"}
  <2>1. \A e, f \in S : e = f
    BY StoreHas DEF StoreKept
  <2>2. CASE S = {}
    <3>1. Cardinality(S) = 0
      BY <2>2, FS_EmptySet
    <3> QED BY <3>1 DEF OnePeerPerInvitation
  <2>3. ASSUME NEW x \in S PROVE Cardinality(S) <= 1
    <3>1. S = {x}
      BY <2>1, <2>3
    <3>2. Cardinality({x}) = 1
      BY FS_Singleton
    <3> QED BY <3>1, <3>2
  <2> QED BY <2>2, <2>3 DEF OnePeerPerInvitation
<1>3. RevokedIsShut
  <2>1. ASSUME NEW e \in Enrollments, rec.entries[e].st = "some"
        PROVE  /\ ~IsClosing(run, e) => \A n \in Connections : srv[n].auth # e
               /\ ~rec.entries[e].cleanup => e \notin rec.roots /\ rec.pending[e] = "none"
    BY <2>1, ConnHas, StoreHas DEF ConnKept, Shut, StoreKept
  <2> QED BY <2>1 DEF RevokedIsShut, IsClosing
<1> QED BY <1>1, <1>2, <1>3 DEF PairingSound

\* Whatever is lost, crashes, expires or is revoked while coordinators pair
\* over one invitation and retry: one of them becomes a peer, none is left
\* without the means to finish or to come back, and a peer that was revoked
\* is shut out for good.
THEOREM PairingHeld == EnrollSpec => []PairingSound
<1>1. (\E invited \in SUBSET Coordinators : EnrollInitFor(invited, 0)) => EnrollTyped /\ EnrollKept
  BY EnrollStart
<1>2. EnrollTyped /\ EnrollKept /\ [EnrollNext]_enrollVars => (EnrollTyped /\ EnrollKept)'
  BY EnrollStep
<1>3. EnrollTyped /\ EnrollKept => PairingSound
  BY EnrollSafe
<1> QED BY <1>1, <1>2, <1>3, PTL DEF EnrollSpec
====
