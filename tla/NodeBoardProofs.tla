---------------------------- MODULE NodeBoardProofs ----------------------------
(***************************************************************************)
(* The type invariant of NodeBoard for every set of nodes and pages: above  *)
(* all that keep_alive_loop, which awaits its broadcasts, is never in two of*)
(* them.                                                                    *)
(***************************************************************************)
EXTENDS NodeBoard, TLAPS

Busy == {"beat", "told", "end", "tell"}

TaskOK(t) == DOMAIN t = {"msg", "size", "left", "loop"} /\ t.loop \in BOOLEAN

OneLoop(ts) == \A i, j \in DOMAIN ts : ts[i].loop /\ ts[j].loop => i = j

(* The broadcasts under way, and where the loop is while it is in one.      *)
TasksOK(ts, pc) ==
  /\ ts \in Seq({ts[i] : i \in DOMAIN ts})
  /\ \A i \in DOMAIN ts : TaskOK(ts[i]) /\ (ts[i].loop => pc \in Busy)
  /\ OneLoop(ts)

IInv == TypeOK /\ TasksOK(tasks, kpc)

-----------------------------------------------------------------------------
(* Sequences of broadcasts.                                                 *)

LEMMA SeqExtends ==
  ASSUME NEW S, NEW s \in Seq(S), NEW e, TRUE
  PROVE  /\ s \in Seq({s[i] : i \in DOMAIN s})
         /\ DOMAIN Append(s, e) = 1..Len(s) + 1 /\ DOMAIN s = 1..Len(s) /\ Len(s) \in Nat
         /\ \A i \in DOMAIN s : Append(s, e)[i] = s[i]
         /\ Append(s, e)[Len(s) + 1] = e
         /\ Append(s, e) \in Seq({Append(s, e)[i] : i \in DOMAIN Append(s, e)})
<1>1. s \in Seq(S \cup {e}) /\ Append(s, e) \in Seq(S \cup {e})
  OBVIOUS
<1>2. ASSUME NEW T, NEW t \in Seq(T) PROVE t \in Seq({t[i] : i \in DOMAIN t})
  <2>1. Len(t) \in Nat /\ DOMAIN t = 1..Len(t) /\ t = [i \in 1..Len(t) |-> t[i]]
    OBVIOUS
  <2>2. t \in [1..Len(t) -> {t[i] : i \in DOMAIN t}]
    BY <2>1
  <2> QED BY <2>1, <2>2
<1>3. Append(s, e) \in Seq({Append(s, e)[i] : i \in DOMAIN Append(s, e)})
  BY <1>1, <1>2
<1>4. s \in Seq({s[i] : i \in DOMAIN s})
  BY <1>1, <1>2
<1> QED BY <1>3, <1>4

(* A broadcast begins: one of the loop only when it is in no other.         *)
LEMMA BeginOK ==
  ASSUME TasksOK(tasks, kpc), NEW msg, NEW loop \in BOOLEAN, NEW pc, Begin(msg, loop),
         LoopSends => pc \in Busy /\ ~loop, loop => pc \in Busy
  PROVE  TasksOK(tasks', pc)
<1> DEFINE new == [msg |-> msg, size |-> Cardinality(clients), left |-> clients, loop |-> loop]
<1>1. CASE tasks' = tasks
  BY <1>1 DEF TasksOK, LoopSends
<1>2. CASE tasks' = Append(tasks, new)
  <2> HIDE DEF new
  <2>1. /\ tasks' \in Seq({tasks'[i] : i \in DOMAIN tasks'})
        /\ DOMAIN tasks' = 1..Len(tasks) + 1 /\ DOMAIN tasks = 1..Len(tasks) /\ Len(tasks) \in Nat
        /\ \A i \in DOMAIN tasks : tasks'[i] = tasks[i]
        /\ tasks'[Len(tasks) + 1] = new
    BY <1>2, SeqExtends DEF TasksOK
  <2>2. TaskOK(new) /\ new.loop = loop
    BY DEF TaskOK, new
  <2>3. \A i \in DOMAIN tasks' : i \in DOMAIN tasks \/ i = Len(tasks) + 1
    BY <2>1
  <2>4. \A i \in DOMAIN tasks' : TaskOK(tasks'[i]) /\ (tasks'[i].loop => pc \in Busy)
    BY <2>1, <2>2, <2>3 DEF TasksOK, LoopSends
  <2>5. OneLoop(tasks')
    BY <2>1, <2>2, <2>3 DEF TasksOK, LoopSends, OneLoop
  <2> QED BY <2>1, <2>4, <2>5 DEF TasksOK
<1> QED BY <1>1, <1>2 DEF Begin

(* The messages still to be sent change, or a broadcast goes.               *)
LEMMA SameLoopsOK ==
  ASSUME NEW ts, NEW us, NEW pc, TasksOK(ts, pc), us \in Seq({us[i] : i \in DOMAIN us}),
         DOMAIN us = DOMAIN ts,
         \A i \in DOMAIN us : TaskOK(us[i]) /\ us[i].loop = ts[i].loop
  PROVE  TasksOK(us, pc)
BY DEF TasksOK, OneLoop

(* A broadcast that has ended is taken out.                                 *)
LEMMA RestOK ==
  ASSUME TasksOK(tasks, kpc), NEW i \in DOMAIN tasks, NEW pc,
         tasks[i].loop \/ pc = kpc
  PROVE  TasksOK(Rest(i), pc)
<1> DEFINE us == Rest(i)
           at(j) == IF j < i THEN j ELSE j + 1
<1>1. DOMAIN tasks = 1..Len(tasks) /\ Len(tasks) \in Nat /\ i \in 1..Len(tasks)
  BY DEF TasksOK
<1>2. us = [j \in 1..Len(tasks) - 1 |-> tasks[at(j)]]
  BY DEF Rest
<1>3. \A j \in 1..Len(tasks) - 1 : at(j) \in DOMAIN tasks /\ at(j) # i
  BY <1>1
<1>4. \A j, k \in 1..Len(tasks) - 1 : at(j) = at(k) => j = k
  BY <1>1
<1>5. Len(tasks) - 1 \in Nat
  BY <1>1
<1> HIDE DEF at, us
<1>6. DOMAIN us = 1..Len(tasks) - 1 /\ \A j \in DOMAIN us : us[j] = tasks[at(j)]
  BY <1>2
<1>7. us \in Seq({us[j] : j \in DOMAIN us})
  <2>1. us \in [1..Len(tasks) - 1 -> {us[j] : j \in DOMAIN us}]
    BY <1>2, <1>6
  <2> QED BY <2>1, <1>5
<1>8. \A j \in DOMAIN us : TaskOK(us[j]) /\ (us[j].loop => pc \in Busy)
  BY <1>3, <1>6 DEF TasksOK, OneLoop
<1>9. OneLoop(us)
  <2>1. OneLoop(tasks)
    BY DEF TasksOK
  <2>2. SUFFICES ASSUME NEW j \in DOMAIN us, NEW k \in DOMAIN us, us[j].loop, us[k].loop
                 PROVE  j = k
    BY DEF OneLoop
  <2>3. /\ j \in 1..Len(tasks) - 1 /\ us[j] = tasks[at(j)] /\ at(j) \in DOMAIN tasks
        /\ k \in 1..Len(tasks) - 1 /\ us[k] = tasks[at(k)] /\ at(k) \in DOMAIN tasks
    BY <1>3, <1>6
  <2>4. at(j) = at(k)
    BY <2>1, <2>2, <2>3 DEF OneLoop
  <2>5. QED
    BY <1>4, <2>3, <2>4
<1>10. TasksOK(us, pc)
  BY <1>7, <1>8, <1>9 DEF TasksOK
<1> QED BY <1>10 DEF us

-----------------------------------------------------------------------------
(* Tables of nodes.                                                         *)

Entry == [status : Statuses, heard : Times]
TableOK(t) == DOMAIN t \subseteq Nodes /\ t \in [DOMAIN t -> Entry]

LEMMA OnlineOK == \A when : Online(when) \in Statuses
BY DEF Online, Statuses

LEMMA RefreshedOK ==
  ASSUME TypeOK
  PROVE  TableOK(Refreshed)
<1>1. \A n \in Nodes : db[n] # "absent" => db[n] \in Times
  BY DEF TypeOK
<1>2. \A n \in Nodes : StatusOf(n, db[n]) \in Statuses
  BY OnlineOK DEF StatusOf
<1> QED BY <1>1, <1>2 DEF TableOK, Refreshed, Entry

LEMMA PutOK ==
  ASSUME NEW t, TableOK(t), NEW n \in Nodes, NEW e \in Entry
  PROVE  TableOK(Put(t, n, e))
BY DEF TableOK, Put

LEMMA SetStatusOK ==
  ASSUME NEW t, TableOK(t), NEW n \in DOMAIN t, NEW s \in Statuses
  PROVE  TableOK([t EXCEPT ![n].status = s])
BY DEF TableOK, Entry

LEMMA AgeOK ==
  ASSUME NEW t, TableOK(t), NEW n
  PROVE  TableOK(IF n \in DOMAIN t THEN [t EXCEPT ![n].heard = Aged(@)] ELSE t)
BY DEF TableOK, Entry, Aged, Times

LEMMA RecomputedOK ==
  ASSUME NEW t, TableOK(t), NEW act
  PROVE  TableOK(Recomputed(t, act))
<1>1. \A n \in DOMAIN t : t[n] \in Entry
  BY DEF TableOK
<1>2. \A n \in DOMAIN t :
        [t[n] EXCEPT !.status = Online(IF act[n] # None THEN act[n] ELSE t[n].heard)] \in Entry
  BY <1>1, OnlineOK DEF Entry
<1> QED BY <1>2 DEF TableOK, Recomputed

LEMMA EmptyOK == TableOK(Empty)
BY DEF TableOK, Empty

-----------------------------------------------------------------------------
(* The invariant is kept.                                                   *)

(* What a step leaves alone keeps its type.                                 *)
Core == /\ link \in {"up", "broken", "down"}
        /\ db \in [Nodes -> Times \cup {"absent"}]
        /\ activity \in [Nodes -> {None, "fresh", "old"}]
        /\ TableOK(nodes) /\ TableOK(kwork) /\ TableOK(rtable)
        /\ rx \in Nodes \cup {None} /\ rpc \in {"mark", "swap", "enter"}
        /\ rpc # "mark" => rx # None
        /\ opening \subseteq clients /\ clients \subseteq Pages
        /\ kpc \in Busy \cup {"sleep", "swap", "sweep", "dead"}
        /\ TasksOK(tasks, kpc)

LEMMA CoreIsIInv == Core <=> IInv
BY DEF Core, IInv, TypeOK, TableOK, Entry, TasksOK, OneLoop, Busy

LEMMA InitOK == Init => Core
<1> SUFFICES ASSUME Init PROVE Core
  OBVIOUS
<1>1. db \in [Nodes -> Times \cup {"absent"}] /\ activity \in [Nodes -> {None, "fresh", "old"}]
  BY DEF Init, Times
<1>2. \A n \in Nodes : db[n] # "absent" => db[n] \in Times /\ StatusOf(n, db[n]) \in Statuses
  BY <1>1, OnlineOK DEF StatusOf
<1>3. TableOK(nodes)
  BY <1>2 DEF Init, TableOK, Refreshed, Entry
<1>4. TasksOK(tasks, kpc)
  BY DEF Init, TasksOK, OneLoop
<1> QED BY <1>1, <1>3, <1>4, EmptyOK DEF Init, Core, Busy

LEMMA EnteredOK ==
  ASSUME Core, NEW n \in Nodes, NEW heard \in Times, Entered(n, heard)
  PROVE  /\ db' \in [Nodes -> Times \cup {"absent"}]
         /\ activity' \in [Nodes -> {None, "fresh", "old"}]
         /\ TableOK(nodes') /\ UNCHANGED <<link, rx, rpc, rtable>>
<1>1. db' \in [Nodes -> Times \cup {"absent"}]
  BY DEF Core, Entered
<1>2. activity' \in [Nodes -> {None, "fresh", "old"}]
  BY DEF Core, Entered, Times
<1>3. [status |-> Online(activity'[n]), heard |-> heard] \in Entry
  BY OnlineOK DEF Entry
<1>4. TableOK(nodes')
  BY <1>3, PutOK DEF Core, Entered
<1> QED BY <1>1, <1>2, <1>4 DEF Entered, readerVars

LEMMA ReaderOK ==
  ASSUME Core, Reader \/ \E n \in Nodes : OnReceivePacket(n)
  PROVE  Core'
<1>1. ASSUME NEW n \in Nodes, OnReceivePacket(n) PROVE Core'
  <2>1. /\ activity' \in [Nodes -> {None, "fresh", "old"}] /\ db' = db
        /\ db \in [Nodes -> Times \cup {"absent"}]
    BY <1>1 DEF OnReceivePacket, Core
  <2>2. rpc' \in {"mark", "swap", "enter"} /\ rx' \in Nodes /\ rx' # None
    BY <1>1, BoardAssumption DEF OnReceivePacket
  <2>3. TableOK(rtable')
    <3>1. CASE n \in DOMAIN nodes
      BY <1>1, <3>1 DEF OnReceivePacket, Core
    <3>2. CASE n \notin DOMAIN nodes
      <4>1. rtable' = Refreshed'
        BY <1>1, <3>2 DEF OnReceivePacket
      <4>2. \A m \in Nodes : db'[m] # "absent" => db'[m] \in Times
        BY <2>1
      <4>3. \A m \in Nodes : StatusOf(m, db[m])' \in Statuses
        BY OnlineOK DEF StatusOf
      <4> QED BY <4>1, <4>2, <4>3 DEF TableOK, Refreshed, Entry
    <3> QED BY <3>1, <3>2
  <2> QED BY <1>1, <2>1, <2>2, <2>3 DEF OnReceivePacket, Core, pageVars, loopVars
<1>2. CASE ReaderSwap
  BY <1>2, EmptyOK DEF ReaderSwap, Core, pageVars, loopVars
<1>3. CASE EnterSender
  <2>1. TableOK(nodes')
    <3>1. rx \in Nodes /\ [status |-> "online", heard |-> "never"] \in Entry
      BY <1>3 DEF EnterSender, Core, Entry, Statuses, Times
    <3> QED BY <1>3, <3>1, PutOK DEF EnterSender, Core
  <2> QED BY <1>3, <2>1 DEF EnterSender, Core, pageVars, loopVars
<1>4. CASE MarkOnline
  <2>1. TableOK(nodes')
    <3>1. CASE rx \in DOMAIN nodes
      <4>1. nodes' = [nodes EXCEPT ![rx].status = "online"]
        BY <1>4, <3>1 DEF MarkOnline
      <4>2. TableOK(nodes) /\ "online" \in Statuses
        BY DEF Core, Statuses
      <4> QED BY <3>1, <4>1, <4>2, SetStatusOK
    <3>2. CASE rx \notin DOMAIN nodes
      BY <1>4, <3>2 DEF MarkOnline, Core
    <3> QED BY <3>1, <3>2
  <2> QED BY <1>4, <2>1 DEF MarkOnline, Core, pageVars, loopVars
<1> QED BY <1>1, <1>2, <1>3, <1>4 DEF Reader

(* A new node is entered, in the middle of an iteration of the loop or not. *)
LEMMA EntersOK ==
  ASSUME Core, NEW n \in Nodes, NEW heard \in Times,
         OnNodeUpdated(n, heard) \/ CheckRaises(n, heard) \/ RefreshRaises(n, heard)
  PROVE  Core'
<1>1. Entered(n, heard) /\ UNCHANGED <<clients, opening, tasks, kwork>>
  BY DEF OnNodeUpdated, CheckRaises, RefreshRaises, pageVars, loopVars
<1>2. TasksOK(tasks', kpc') /\ kpc' \in Busy \cup {"sleep", "swap", "sweep", "dead"}
  <2>1. CASE OnNodeUpdated(n, heard)
    BY <2>1 DEF OnNodeUpdated, Core, pageVars, loopVars
  <2>2. CASE CheckRaises(n, heard)
    BY <2>2 DEF CheckRaises, Core, TasksOK, Busy, pageVars, Goto
  <2>3. CASE RefreshRaises(n, heard)
    BY <2>3 DEF RefreshRaises, Core, TasksOK, LoopSends, pageVars, Goto
  <2> QED BY <2>1, <2>2, <2>3
<1> QED BY <1>1, <1>2, EnteredOK DEF Core

LEMMA BroadcastOK ==
  ASSUME Core, \/ StartCall
               \/ \E i \in DOMAIN tasks : EndBroadcast(i) \/ \E p \in Pages : Send(i, p)
               \/ \E p \in Pages : Join(p) \/ SendTable(p) \/ Leave(p)
  PROVE  Core'
<1>1. CASE StartCall
  <2>1. PICK msg : Begin(msg, FALSE)
    BY <1>1 DEF StartCall
  <2>2. LoopSends => kpc \in Busy
    BY DEF Core, TasksOK, LoopSends
  <2>3. TasksOK(tasks', kpc)
    BY <2>1, <2>2, BeginOK DEF Core
  <2> QED BY <1>1, <2>3 DEF StartCall, Core, tableVars, readerVars, loopVars
<1>2. ASSUME NEW i \in DOMAIN tasks, EndBroadcast(i) PROVE Core'
  <2>1. tasks[i].loop \/ kpc' = kpc
    BY <1>2 DEF EndBroadcast
  <2>2. tasks' = Rest(i)
    BY <1>2 DEF EndBroadcast
  <2>3. TasksOK(tasks', kpc')
    BY <2>1, <2>2, RestOK DEF Core
  <2>4. kpc' \in Busy \cup {"sleep", "swap", "sweep", "dead"}
    BY <1>2 DEF EndBroadcast, Core
  <2> QED BY <1>2, <2>3, <2>4 DEF EndBroadcast, Core, tableVars, readerVars
<1>3. ASSUME NEW i \in DOMAIN tasks, NEW p \in Pages, Send(i, p) PROVE Core'
  <2>1. tasks' = [tasks EXCEPT ![i].left = @ \ {p}]
    BY <1>3 DEF Send
  <2>2. TasksOK(tasks', kpc)
    <3>1. /\ tasks \in Seq({tasks[j] : j \in DOMAIN tasks}) /\ DOMAIN tasks = 1..Len(tasks)
          /\ Len(tasks) \in Nat
      BY DEF Core, TasksOK
    <3>2. tasks' = [j \in 1..Len(tasks) |-> tasks'[j]] /\ DOMAIN tasks' = 1..Len(tasks)
      BY <2>1, <3>1
    <3>3. tasks' \in Seq({tasks'[j] : j \in DOMAIN tasks'})
      BY <3>1, <3>2
    <3>4. \A j \in DOMAIN tasks : TaskOK(tasks[j])
      BY DEF Core, TasksOK
    <3>5. \A j \in DOMAIN tasks' : TaskOK(tasks'[j]) /\ tasks'[j].loop = tasks[j].loop
      BY <2>1, <3>4 DEF TaskOK
    <3> QED BY <3>1, <3>2, <3>3, <3>5, SameLoopsOK DEF Core
  <2> QED BY <1>3, <2>2 DEF Send, Core, tableVars, readerVars, loopVars
<1>4. ASSUME NEW p \in Pages, Join(p) PROVE Core'
  <2>1. PICK visited \in SUBSET {p} :
          tasks' = [i \in DOMAIN tasks |-> [tasks[i] EXCEPT !.left = (@ \ {p}) \cup visited]]
    BY <1>4 DEF Join
  <2>2. TasksOK(tasks', kpc)
    <3>1. /\ tasks \in Seq({tasks[j] : j \in DOMAIN tasks}) /\ DOMAIN tasks = 1..Len(tasks)
          /\ Len(tasks) \in Nat
      BY DEF Core, TasksOK
    <3>2. tasks' = [j \in 1..Len(tasks) |-> tasks'[j]] /\ DOMAIN tasks' = 1..Len(tasks)
      BY <2>1, <3>1
    <3>3. tasks' \in Seq({tasks'[j] : j \in DOMAIN tasks'})
      BY <3>1, <3>2
    <3>4. \A j \in DOMAIN tasks : TaskOK(tasks[j])
      BY DEF Core, TasksOK
    <3>5. \A j \in DOMAIN tasks' : TaskOK(tasks'[j]) /\ tasks'[j].loop = tasks[j].loop
      BY <2>1, <3>4 DEF TaskOK
    <3> QED BY <3>1, <3>2, <3>3, <3>5, SameLoopsOK DEF Core
  <2> QED BY <1>4, <2>2 DEF Join, Core, tableVars, readerVars, loopVars
<1>5. ASSUME NEW p \in Pages, SendTable(p) \/ Leave(p) PROVE Core'
  BY <1>5 DEF SendTable, Leave, Core, tableVars, readerVars, loopVars
<1> QED BY <1>1, <1>2, <1>3, <1>4, <1>5

(* The loop is in none of the broadcasts: it may go anywhere.               *)
LEMMA GotoOK ==
  ASSUME Core, ~LoopSends, NEW pc, tasks' = tasks
  PROVE  TasksOK(tasks', pc)
BY DEF Core, TasksOK, LoopSends

LEMMA TellOK ==
  ASSUME Core, ~LoopSends, NEW pc \in Busy, NEW msg, Begin(msg, TRUE)
  PROVE  TasksOK(tasks', pc)
BY BeginOK DEF Core

LEMMA NotBusyOK == Core /\ kpc \notin Busy => ~LoopSends
BY DEF Core, TasksOK, LoopSends

LEMMA LoopOK ==
  ASSUME Core, KeepAlive
  PROVE  Core'
<1>1. CASE Check
  <2>1. TasksOK(tasks', kpc')
    <3>1. "beat" \in Busy /\ kpc' = "beat" /\ ~LoopSends /\ Begin([kind |-> "beat"], TRUE)
      BY <1>1 DEF Check, Goto, Busy
    <3> QED BY <3>1, TellOK
  <2>2. TableOK(nodes')
    BY <1>1, RecomputedOK, EmptyOK DEF Check, Core, readerVars
  <2>3. /\ link' \in {"up", "broken", "down"} /\ kpc' \in Busy
        /\ activity' \in [Nodes -> {None, "fresh", "old"}]
    BY <1>1 DEF Check, Core, readerVars, Goto, Busy
  <2> QED BY <1>1, <2>1, <2>2, <2>3 DEF Check, Core, readerVars
<1>2. CASE SkipRefresh
  <2>1. TasksOK(tasks', kpc') /\ kpc' \in Busy \cup {"sleep"}
    <3>1. CASE kchanged
      <4>1. "tell" \in Busy /\ kpc' = "tell" /\ ~LoopSends /\ Begin(Snapshot, TRUE)
        BY <1>2, <3>1 DEF SkipRefresh, Tell, Busy
      <4> QED BY <4>1, TellOK
    <3>2. CASE ~kchanged
      BY <1>2, <3>2, GotoOK DEF SkipRefresh, Goto
    <3> QED BY <3>1, <3>2
  <2> QED BY <1>2, <2>1 DEF SkipRefresh, Core, tableVars, readerVars
<1>3. CASE Refresh
  <2>1. TableOK(kwork')
    BY <1>3, RefreshedOK, CoreIsIInv DEF Refresh, IInv
  <2>2. TasksOK(tasks', kpc') /\ kpc' = "swap"
    BY <1>3, GotoOK DEF Refresh, Goto, pageVars
  <2> QED BY <1>3, <2>1, <2>2 DEF Refresh, Core, tableVars, readerVars, pageVars
<1>4. CASE Swap
  <2>1. ~LoopSends
    BY <1>4, NotBusyOK DEF Swap, Busy
  <2>2. TasksOK(tasks', kpc') /\ kpc' \in Busy \cup {"sweep"}
    <3>1. CASE kpc' = "told" /\ Begin([kind |-> "nodes", table |-> Table(kwork)], TRUE)
      <4>1. "told" \in Busy
        BY DEF Busy
      <4> QED BY <2>1, <3>1, <4>1, TellOK
    <3>2. CASE kpc' = "sweep" /\ tasks' = tasks
      BY <2>1, <3>2, GotoOK
    <3> QED BY <1>4, <3>1, <3>2 DEF Swap, Goto
  <2>3. TableOK(nodes') /\ TableOK(kwork')
    BY <1>4, EmptyOK DEF Swap, Core, readerVars
  <2> QED BY <1>4, <2>2, <2>3 DEF Swap, Core, readerVars
<1>5. CASE AfterTold
  <2>1. TasksOK(tasks', kpc') /\ kpc' = "sweep"
    BY <1>5, GotoOK DEF AfterTold, Goto, pageVars
  <2> QED BY <1>5, <2>1 DEF AfterTold, Core, tableVars, readerVars, pageVars
<1>6. CASE AfterSweep
  <2>1. ~LoopSends
    BY <1>6, NotBusyOK DEF AfterSweep, Busy
  <2>2. TasksOK(tasks', kpc') /\ kpc' \in Busy \cup {"sleep"}
    <3>1. CASE kmissed \/ kchanged
      <4>1. "end" \in Busy /\ kpc' = "end" /\ Begin(Snapshot, TRUE)
        BY <1>6, <3>1 DEF AfterSweep, Tell, Busy
      <4> QED BY <2>1, <4>1, TellOK
    <3>2. CASE ~(kmissed \/ kchanged)
      BY <1>6, <2>1, <3>2, GotoOK DEF AfterSweep, Goto
    <3> QED BY <3>1, <3>2
  <2> QED BY <1>6, <2>2 DEF AfterSweep, Core, tableVars, readerVars
<1>7. CASE EndOfBeat
  <2>1. TasksOK(tasks', kpc') /\ kpc' = "sleep"
    BY <1>7, GotoOK DEF EndOfBeat, Goto, pageVars
  <2> QED BY <1>7, <2>1 DEF EndOfBeat, Core, tableVars, readerVars, pageVars
<1> QED BY <1>1, <1>2, <1>3, <1>4, <1>5, <1>6, <1>7 DEF KeepAlive

LEMMA SurroundingsOK ==
  ASSUME Core, \/ \E n \in Nodes : SweepMiss(n) \/ Age(n)
               \/ SweepRaises \/ LinkBreaks \/ Connect
  PROVE  Core'
<1>1. ASSUME NEW n \in Nodes, SweepMiss(n) PROVE Core'
  <2>1. TableOK(nodes')
    <3>1. CASE n \in DOMAIN nodes
      <4>1. nodes' = [nodes EXCEPT ![n].status = "offline"]
        BY <1>1, <3>1 DEF SweepMiss
      <4>2. TableOK(nodes) /\ "offline" \in Statuses
        BY DEF Core, Statuses
      <4> QED BY <3>1, <4>1, <4>2, SetStatusOK
    <3>2. CASE n \notin DOMAIN nodes
      BY <1>1, <3>2 DEF SweepMiss, Core, readerVars
    <3> QED BY <3>1, <3>2
  <2>2. activity' \in [Nodes -> {None, "fresh", "old"}]
    BY <1>1 DEF SweepMiss, Core, readerVars
  <2> QED BY <1>1, <2>1, <2>2 DEF SweepMiss, Core, readerVars, pageVars
<1>2. ASSUME NEW n \in Nodes, Age(n) PROVE Core'
  <2>1. TableOK(nodes') /\ TableOK(kwork') /\ TableOK(rtable')
    BY <1>2, AgeOK DEF Age, Core
  <2>2. activity' \in [Nodes -> {None, "fresh", "old"}] /\ db' \in [Nodes -> Times \cup {"absent"}]
    BY <1>2 DEF Age, Core, Aged, Times
  <2> QED BY <1>2, <2>1, <2>2 DEF Age, Core, pageVars
<1>3. CASE LinkBreaks
  BY <1>3 DEF LinkBreaks, Core, readerVars, pageVars, loopVars
<1>4. CASE Connect
  <2>1. TableOK(nodes')
    BY <1>4, RefreshedOK, CoreIsIInv DEF Connect, IInv
  <2> QED BY <1>4, <2>1 DEF Connect, Core, readerVars, pageVars, loopVars
<1>5. CASE SweepRaises
  <2>1. TasksOK(tasks', kpc') /\ kpc' = "sleep"
    BY <1>5, NotBusyOK, GotoOK DEF SweepRaises, Goto, pageVars, Busy
  <2> QED BY <1>5, <2>1 DEF SweepRaises, Core, tableVars, readerVars, pageVars
<1> QED BY <1>1, <1>2, <1>3, <1>4, <1>5

LEMMA NextOK == Core /\ [Next]_vars => Core'
<1> SUFFICES ASSUME Core, [Next]_vars PROVE Core'
  OBVIOUS
<1>1. ASSUME NEW n \in Nodes, NEW heard \in {"never", "fresh", "old"},
             OnNodeUpdated(n, heard) \/ CheckRaises(n, heard) \/ RefreshRaises(n, heard)
      PROVE  Core'
  BY <1>1, EntersOK DEF Times
<1>2. ASSUME NEW n \in Nodes, OnReceivePacket(n) \/ SweepMiss(n) \/ Age(n) PROVE Core'
  BY <1>2, ReaderOK, SurroundingsOK
<1>3. CASE Reader
  BY <1>3, ReaderOK
<1>4. CASE StartCall \/ KeepAlive \/ SweepRaises \/ LinkBreaks \/ Connect
  BY <1>4, BroadcastOK, LoopOK, SurroundingsOK
<1>5. CASE \/ \E i \in DOMAIN tasks : EndBroadcast(i) \/ \E p \in Pages : Send(i, p)
           \/ \E p \in Pages : Join(p) \/ SendTable(p) \/ Leave(p)
  BY <1>5, BroadcastOK
<1>6. CASE UNCHANGED vars
  BY <1>6 DEF Core, vars, tableVars, readerVars, pageVars, loopVars
<1> QED BY <1>1, <1>2, <1>3, <1>4, <1>5, <1>6 DEF Next

-----------------------------------------------------------------------------
(* Every variable of the gateway's table stays in its type, and             *)
(* keep_alive_loop, which awaits each broadcast_json it calls, is never in  *)
(* two of them: the broadcasts of the loop, unlike those the reader thread  *)
(* schedules, do not overtake each other.                                   *)
THEOREM TypeCorrect == Spec => []TypeOK
<1>1. Init => Core
  BY InitOK
<1>2. Core /\ [Next]_vars => Core'
  BY NextOK
<1>3. Core => TypeOK
  BY CoreIsIInv DEF IInv
<1> QED BY <1>1, <1>2, <1>3, PTL DEF Spec
=================================================================================
