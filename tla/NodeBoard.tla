------------------------------- MODULE NodeBoard -------------------------------
(***************************************************************************)
(* The gateway's table of alarm nodes (self.nodes) and what the open pages  *)
(* show of it.  The serial reader thread enters what it hears, the keep-    *)
(* alive loop recomputes, refreshes and sweeps, and either has the table    *)
(* broadcast: a task that walks over the set of clients and may be suspended*)
(* at each of them, while clients join and leave.                           *)
(*                                                                         *)
(* Times are told apart by ONLINE_WINDOW_SECONDS only: fresh or old.  Which *)
(* commands time out is left open (see CommandDelivery); the gateway's own  *)
(* node, exclusions, names and positions are left out.                      *)
(***************************************************************************)
EXTENDS Integers, Sequences, FiniteSets

CONSTANTS
  Nodes, Pages,
  MaxEvents    \* bound: packets, node updates, ageings, misses, visits and lost links

None == "none"

ASSUME BoardAssumption == MaxEvents \in Nat /\ None \notin Nodes

VARIABLES
  link,        \* conn.iface: "up", "broken": not isConnected, "down": None
  db,          \* iface.nodesByNum: lastHeard of a node, or "absent"
  nodes,       \* self.nodes: [status, heard (raw.lastHeard)] of the known nodes
  activity,    \* node_activity
  rx,          \* reader thread: the sender it is about to mark online, or None
  rpc,         \* what it does next: "mark", "swap" or "enter"
  rtable,      \* the table it has built for a sender it did not know
  clients,     \* self.clients
  opening,     \* those whose handler has not sent them the table yet
  shown,       \* per page: the status of each node it shows
  calls,       \* coroutines the reader thread has scheduled
  tasks,       \* broadcasts under way: [msg, size, left, loop]
  kpc, kconn, kchanged, kcount, kwork, kmissed,   \* keep_alive_loop
  events,      \* how many of them there were
  spoilt       \* history: something after which a page may stay behind

loopVars   == <<kpc, kconn, kchanged, kcount, kwork, kmissed>>
readerVars == <<rx, rpc, rtable>>
tableVars  == <<link, db, nodes, activity, readerVars>>
pageVars   == <<clients, opening, shown, tasks>>
vars       == <<tableVars, pageVars, calls, loopVars, events, spoilt>>

Event == events < MaxEvents /\ events' = events + 1

Empty == [n \in {} |-> None]

Online(when)  == IF when = "fresh" THEN "online" ELSE "offline"
Put(f, n, e)  == [m \in DOMAIN f \cup {n} |-> IF m = n THEN e ELSE f[m]]
Table(t)      == [n \in DOMAIN t |-> t[n].status]

(* Mutant of StatusOf: lastHeard counts for more than what was heard.       *)
StatusByDatabase(n, heard) == Online(IF heard = "never" THEN activity[n] ELSE heard)

(* The rule of _recompute_node_statuses and _normalize_node.                *)
StatusOf(n, heard) == Online(IF activity[n] # None THEN activity[n] ELSE heard)

(* _refresh_nodes_from_interface builds a new table.                        *)
Refreshed == [n \in {n \in Nodes : db[n] # "absent"} |->
                [status |-> StatusOf(n, db[n]), heard |-> db[n]]]

(* broadcast_nodes and broadcast_node_update.  The latter is handed the very*)
(* object that is in the table, unless another takes its place there.       *)
Snapshot      == [kind |-> "nodes", table |-> Table(nodes)]
NodesCall     == [kind |-> "nodes"]
NodeCall(n)   == [kind |-> "node", node |-> n, own |-> FALSE, status |-> None]
Detached(replaced) == [i \in DOMAIN calls |->
  IF calls[i].kind = "node" /\ ~calls[i].own /\ calls[i].node \in replaced \cap DOMAIN nodes
  THEN [calls[i] EXCEPT !.own = TRUE, !.status = nodes[calls[i].node].status] ELSE calls[i]]

Apply(msg, page) ==
  CASE msg.kind = "nodes" -> msg.table
    [] msg.kind = "node"  -> Put(page, msg.node, msg.status)
    [] msg.kind = "beat"  -> page

(* broadcast_json: nothing is to be done, nor waited for, without clients.  *)
Begin(msg, loop) ==
  tasks' = IF clients = {} THEN tasks
           ELSE Append(tasks, [msg |-> msg, size |-> Cardinality(clients),
                               left |-> clients, loop |-> loop])

(* No coroutine runs while the loop is in _refresh_nodes_from_interface.    *)
LoopFree  == kpc # "swap"
LoopSends == \E i \in DOMAIN tasks : tasks[i].loop

-----------------------------------------------------------------------------
(* A gateway has connected and told the pages that were open.               *)
Init ==
  /\ link = "up" /\ db \in [Nodes -> {"absent", "never", "fresh"}]
  /\ activity = [n \in Nodes |-> None] /\ nodes = Refreshed
  /\ rx = None /\ rpc = "mark" /\ rtable = Empty
  /\ clients \in SUBSET Pages /\ opening = {}
  /\ shown = [p \in Pages |-> IF p \in clients THEN Table(nodes) ELSE Empty]
  /\ calls = <<>> /\ tasks = <<>>
  /\ kpc = "sleep" /\ kconn = FALSE /\ kchanged = FALSE /\ kcount = 0 /\ kwork = Empty
  /\ kmissed = FALSE
  /\ events = 0 /\ spoilt = FALSE

-----------------------------------------------------------------------------
(* The reader thread; the library keeps nodesByNum.                         *)

(* _on_node_updated; the library only ever moves lastHeard forward.         *)
Entered(n, heard) ==
  /\ heard \in CASE db[n] = "fresh" -> {"fresh"} [] db[n] = "old" -> {"old", "fresh"}
                 [] OTHER -> {"never", "old", "fresh"}
  /\ db' = [db EXCEPT ![n] = heard]
  /\ activity' = [activity EXCEPT ![n] = IF heard = "never" THEN "fresh" ELSE heard]
  /\ nodes' = Put(nodes, n, [status |-> Online(activity'[n]), heard |-> heard])
  /\ calls' = Append(Detached({n}), NodeCall(n))
  /\ UNCHANGED <<link, readerVars>>

OnNodeUpdated(n, heard) ==
  /\ link # "down" /\ rx = None /\ Event
  /\ Entered(n, heard) /\ spoilt' = (spoilt \/ kpc = "swap")
  /\ UNCHANGED <<pageVars, loopVars>>

(* _on_receive_packet: for a sender that is not in the table a new table is *)
(* built from the interface's nodes, takes the place of the old one, and the*)
(* sender is entered by its id if it is in neither.                         *)
OnReceivePacket(n) ==
  /\ link # "down" /\ rx = None /\ Event
  /\ activity' = [activity EXCEPT ![n] = "fresh"]
  /\ rx' = n /\ UNCHANGED db
  /\ IF n \in DOMAIN nodes THEN rpc' = "mark" /\ UNCHANGED rtable
     ELSE rpc' = "swap" /\ rtable' = Refreshed'
  /\ UNCHANGED <<link, nodes, calls, pageVars, loopVars, spoilt>>

ReaderSwap ==
  /\ rpc = "swap" /\ rpc' = "enter"
  /\ nodes' = rtable /\ rtable' = Empty /\ calls' = Detached(Nodes)
  /\ UNCHANGED <<link, db, activity, rx, pageVars, loopVars, events, spoilt>>

EnterSender ==
  /\ rpc = "enter" /\ rpc' = "mark"
  /\ IF rx \in DOMAIN nodes THEN UNCHANGED <<nodes, calls, rx, spoilt>>
     ELSE /\ nodes' = Put(nodes, rx, [status |-> "online", heard |-> "never"])
          /\ calls' = Append(calls, NodesCall) /\ rx' = None
          /\ spoilt' = (spoilt \/ kpc = "swap")
  /\ UNCHANGED <<link, db, activity, rtable, pageVars, loopVars, events>>

(* Mutant of MarkOnline: the pages are not told.                            *)
MarkOnlineSilently ==
  /\ rx # None /\ rpc = "mark" /\ rx' = None
  /\ IF rx \in DOMAIN nodes THEN nodes' = [nodes EXCEPT ![rx].status = "online"]
     ELSE UNCHANGED nodes
  /\ UNCHANGED <<link, db, activity, rpc, rtable, calls, pageVars, loopVars, events, spoilt>>

(* A sender that was found in the table; a KeyError if the loop has since   *)
(* put a table without it in its place.                                     *)
MarkOnline ==
  /\ rx # None /\ rpc = "mark" /\ rx' = None
  /\ IF rx \in DOMAIN nodes
     THEN /\ nodes' = [nodes EXCEPT ![rx].status = "online"]
          /\ calls' = Append(calls, NodesCall)
     ELSE UNCHANGED <<nodes, calls>>
  /\ UNCHANGED <<link, db, activity, rpc, rtable, pageVars, loopVars, events, spoilt>>

Reader == ReaderSwap \/ EnterSender \/ MarkOnline

-----------------------------------------------------------------------------
(* The event loop: scheduled coroutines and broadcasts.                     *)

StartCall ==
  /\ LoopFree /\ calls # <<>> /\ calls' = Tail(calls)
  /\ LET c   == Head(calls)
         now == IF c.kind = "node" /\ ~c.own /\ c.node \in DOMAIN nodes
                THEN nodes[c.node].status ELSE "offline"
     IN IF c.kind = "nodes" THEN Begin(Snapshot, FALSE) /\ UNCHANGED spoilt
        ELSE /\ Begin([kind |-> "node", node |-> c.node,
                       status |-> IF c.own THEN c.status ELSE now], FALSE)
             /\ spoilt' = (spoilt \/ (c.own /\ (c.node \notin DOMAIN nodes \/
                                               nodes[c.node].status # c.status)))
  /\ UNCHANGED <<tableVars, clients, opening, shown, loopVars, events>>

Rest(i) == [j \in 1..Len(tasks) - 1 |-> IF j < i THEN tasks[j] ELSE tasks[j + 1]]

(* A page gets the messages in the order their broadcasts began.            *)
Send(i, p) ==
  /\ LoopFree /\ p \in tasks[i].left \cap clients /\ tasks[i].size = Cardinality(clients)
  /\ \A j \in 1..i - 1 : p \notin tasks[j].left
  /\ shown' = [shown EXCEPT ![p] = Apply(tasks[i].msg, @)]
  /\ tasks' = [tasks EXCEPT ![i].left = @ \ {p}]
  /\ UNCHANGED <<tableVars, clients, opening, calls, loopVars, events, spoilt>>

(* The set is iterated to its end, or has changed its size: RuntimeError.   *)
EndBroadcast(i) ==
  /\ LoopFree
  /\ \/ /\ tasks[i].size = Cardinality(clients) /\ tasks[i].left \cap clients = {}
        /\ UNCHANGED <<kpc, spoilt>>
     \/ /\ tasks[i].size # Cardinality(clients)
        /\ spoilt' = (spoilt \/ tasks[i].left \cap clients # {} \/ tasks[i].loop)
        /\ kpc' = IF ~tasks[i].loop THEN kpc
                  ELSE IF kpc \in {"beat", "tell"} THEN "dead" ELSE "sleep"
  /\ tasks' = Rest(i)
  /\ UNCHANGED <<tableVars, clients, opening, shown, calls, kconn, kchanged, kcount, kwork,
                 kmissed, events>>

(* websocket_handler: added at once, sent the table a few awaits later.  An *)
(* iteration under way that finds the size it began with may visit it.      *)
Join(p) ==
  /\ LoopFree /\ p \notin clients /\ Event
  /\ clients' = clients \cup {p} /\ opening' = opening \cup {p}
  /\ shown' = [shown EXCEPT ![p] = Empty]
  /\ \E visited \in SUBSET {p} :
       /\ tasks' = [i \in DOMAIN tasks |-> [tasks[i] EXCEPT !.left = (@ \ {p}) \cup visited]]
       /\ spoilt' = (spoilt \/ (visited # {} /\ tasks # <<>>))
  /\ UNCHANGED <<tableVars, calls, loopVars>>

SendTable(p) ==
  /\ LoopFree /\ p \in opening /\ opening' = opening \ {p}
  /\ shown' = [shown EXCEPT ![p] = Table(nodes)]
  /\ UNCHANGED <<tableVars, clients, tasks, calls, loopVars, events, spoilt>>

Leave(p) ==
  /\ LoopFree /\ p \in clients /\ Event
  /\ clients' = clients \ {p} /\ opening' = opening \ {p}
  /\ UNCHANGED <<tableVars, shown, tasks, calls, loopVars, spoilt>>

-----------------------------------------------------------------------------
(* keep_alive_loop.                                                         *)

Goto(pc) == kpc' = pc
Tell(pc) == kpc' = pc /\ Begin(Snapshot, TRUE)

Recomputed(t, act) == [n \in DOMAIN t |->
  [t[n] EXCEPT !.status = Online(IF act[n] # None THEN act[n] ELSE t[n].heard)]]

(* disconnect_if_missing (the closed interface's table is dropped without   *)
(* telling the pages), _recompute_node_statuses, and KEEP_ALIVE begins.     *)
Check ==
  /\ kpc = "sleep" /\ ~LoopSends
  /\ LET gone == link = "broken"
         now  == IF gone THEN Empty ELSE Recomputed(nodes, activity)
     IN /\ link' = IF gone THEN "down" ELSE link
        /\ activity' = IF gone THEN [n \in Nodes |-> None] ELSE activity
        /\ nodes' = now
        /\ kchanged' = (~gone /\ now # nodes)
        /\ spoilt' = (spoilt \/ gone)
  /\ kconn' = (link = "up") /\ kmissed' = FALSE
  /\ Goto("beat") /\ Begin([kind |-> "beat"], TRUE)
  /\ UNCHANGED <<db, readerVars, clients, opening, shown, calls, kcount, kwork, events>>

(* The reader thread enters a new node while the statuses are recomputed:   *)
(* the iteration raises outside any try block.                              *)
CheckRaises(n, heard) ==
  /\ kpc = "sleep" /\ link = "up" /\ rx = None /\ n \notin DOMAIN nodes
  /\ Event /\ Entered(n, heard)
  /\ Goto("dead") /\ spoilt' = TRUE
  /\ UNCHANGED <<pageVars, kconn, kchanged, kcount, kwork, kmissed>>

Refreshes == kconn /\ link # "down"

SkipRefresh ==
  /\ kpc = "beat" /\ ~LoopSends /\ ~Refreshes
  /\ IF kchanged THEN Tell("tell") ELSE Goto("sleep") /\ UNCHANGED tasks
  /\ UNCHANGED <<tableVars, clients, opening, shown, calls, kconn, kchanged, kcount, kwork,
                 kmissed, events, spoilt>>

(* The new table is built; the reader thread, and nobody else, may change   *)
(* the old one until it is replaced.                                        *)
Refresh ==
  /\ kpc = "beat" /\ ~LoopSends /\ Refreshes
  /\ kwork' = Refreshed /\ kcount' = Cardinality(DOMAIN nodes)
  /\ Goto("swap")
  /\ UNCHANGED <<tableVars, pageVars, calls, kconn, kchanged, kmissed, events, spoilt>>

(* The reader thread enters a new node while dictionaries are iterated: the *)
(* rest of the round is skipped, and a change of statuses is never told.    *)
RefreshRaises(n, heard) ==
  /\ kpc = "beat" /\ ~LoopSends /\ Refreshes /\ rx = None
  /\ db[n] = "absent" \/ n \notin DOMAIN nodes
  /\ Event /\ Entered(n, heard)
  /\ Goto("sleep") /\ spoilt' = (spoilt \/ kchanged)
  /\ UNCHANGED <<pageVars, kconn, kchanged, kcount, kwork, kmissed>>

Swap ==
  /\ kpc = "swap"
  /\ nodes' = kwork /\ kwork' = Empty /\ calls' = Detached(Nodes)
  /\ IF Cardinality(DOMAIN kwork) # kcount \/ kchanged
     THEN Goto("told") /\ Begin([kind |-> "nodes", table |-> Table(kwork)], TRUE)
     ELSE Goto("sweep") /\ UNCHANGED tasks
  /\ UNCHANGED <<link, db, activity, readerVars, clients, opening, shown, kconn, kchanged, kcount,
                 kmissed, events, spoilt>>

(* Mutant of AfterTold: the broadcast is not awaited.                       *)
AfterToldAtOnce ==
  /\ kpc = "told" /\ Goto("sweep")
  /\ UNCHANGED <<tableVars, pageVars, calls, kconn, kchanged, kcount, kwork, kmissed, events, spoilt>>

AfterTold ==
  /\ kpc = "told" /\ ~LoopSends /\ Goto("sweep")
  /\ UNCHANGED <<tableVars, pageVars, calls, kconn, kchanged, kcount, kwork, kmissed, events, spoilt>>

(* A command to n is missed: n is offline whatever was heard of it before.  *)
SweepMiss(n) ==
  /\ kpc = "sweep" /\ Event
  /\ kmissed' = TRUE /\ spoilt' = (spoilt \/ rx = n \/ n \in DOMAIN rtable)
  /\ IF n \in DOMAIN nodes
     THEN /\ nodes' = [nodes EXCEPT ![n].status = "offline"]
          /\ activity' = [activity EXCEPT ![n] = None]
     ELSE UNCHANGED <<nodes, activity>>
  /\ UNCHANGED <<link, db, readerVars, pageVars, calls, kpc, kconn, kchanged, kcount, kwork>>

(* A report, a retry or a lookup of the sweep raises (see CommandDelivery): *)
(* the nodes it has marked offline are not told of.                         *)
SweepRaises ==
  /\ kpc = "sweep" /\ Goto("sleep") /\ spoilt' = (spoilt \/ kmissed)
  /\ UNCHANGED <<tableVars, pageVars, calls, kconn, kchanged, kcount, kwork, kmissed, events>>

AfterSweep ==
  /\ kpc = "sweep"
  /\ IF kmissed \/ kchanged THEN Tell("end") ELSE Goto("sleep") /\ UNCHANGED tasks
  /\ UNCHANGED <<tableVars, clients, opening, shown, calls, kconn, kchanged, kcount, kwork,
                 kmissed, events, spoilt>>

EndOfBeat ==
  /\ kpc \in {"tell", "end"} /\ ~LoopSends /\ Goto("sleep")
  /\ UNCHANGED <<tableVars, pageVars, calls, kconn, kchanged, kcount, kwork, kmissed, events, spoilt>>

KeepAlive == Check \/ SkipRefresh \/ Refresh \/ Swap \/ AfterTold \/ AfterSweep \/ EndOfBeat

-----------------------------------------------------------------------------
(* The surroundings.                                                        *)

Aged(when) == IF when = "fresh" THEN "old" ELSE when

(* ONLINE_WINDOW_SECONDS have passed since n was heard.                     *)
Age(n) ==
  /\ Event
  /\ "fresh" \in {activity[n], db[n]}
  /\ activity' = [activity EXCEPT ![n] = Aged(@)] /\ db' = [db EXCEPT ![n] = Aged(@)]
  /\ nodes' = IF n \in DOMAIN nodes THEN [nodes EXCEPT ![n].heard = Aged(@)] ELSE nodes
  /\ kwork' = IF n \in DOMAIN kwork THEN [kwork EXCEPT ![n].heard = Aged(@)] ELSE kwork
  /\ rtable' = IF n \in DOMAIN rtable THEN [rtable EXCEPT ![n].heard = Aged(@)] ELSE rtable
  /\ spoilt' = (spoilt \/ kpc \in {"beat", "swap"} \/ rx = n \/ n \in DOMAIN rtable)
  /\ UNCHANGED <<link, rx, rpc, pageVars, calls, kpc, kconn, kchanged, kcount, kmissed>>

LinkBreaks ==
  /\ link = "up" /\ Event /\ link' = "broken"
  /\ UNCHANGED <<db, nodes, activity, readerVars, pageVars, calls, loopVars, spoilt>>

(* connect_port, and auto_connect_loop has the table broadcast.             *)
Connect ==
  /\ LoopFree /\ link = "down" /\ link' = "up"
  /\ nodes' = Refreshed /\ calls' = Append(Detached(Nodes), NodesCall)
  /\ UNCHANGED <<db, activity, readerVars, pageVars, loopVars, events, spoilt>>

Next ==
  \/ \E n \in Nodes, heard \in {"never", "fresh", "old"} :
       OnNodeUpdated(n, heard) \/ CheckRaises(n, heard) \/ RefreshRaises(n, heard)
  \/ \E n \in Nodes : OnReceivePacket(n) \/ SweepMiss(n) \/ Age(n)
  \/ Reader \/ StartCall \/ KeepAlive \/ SweepRaises \/ LinkBreaks \/ Connect
  \/ \E i \in DOMAIN tasks : EndBroadcast(i) \/ \E p \in Pages : Send(i, p)
  \/ \E p \in Pages : Join(p) \/ SendTable(p) \/ Leave(p)

Spec == Init /\ [][Next]_vars

(* Threads and coroutines that are ready are run, in spite of the moments   *)
(* the loop is busy replacing the table (strong fairness), and the pages    *)
(* read what they are sent; nothing is assumed of nodes, visitors or link.  *)
Fairness ==
  /\ WF_vars(Reader) /\ WF_vars(KeepAlive) /\ SF_vars(StartCall)
  /\ SF_vars(tasks # <<>> /\ (EndBroadcast(1) \/ \E p \in Pages : Send(1, p)))
  /\ SF_vars(\E p \in Pages : SendTable(p))

FairSpec == Spec /\ Fairness

-----------------------------------------------------------------------------
(* Properties.                                                              *)

Times    == {"never", "fresh", "old"}
Statuses == {"online", "offline"}

(* Every variable stays in its type, and the keep-alive loop is never in    *)
(* more than one broadcast.                                                 *)
TypeOK ==
  /\ link \in {"up", "broken", "down"}
  /\ db \in [Nodes -> Times \cup {"absent"}]
  /\ activity \in [Nodes -> {None, "fresh", "old"}]
  /\ \A t \in {nodes, kwork, rtable} : /\ DOMAIN t \subseteq Nodes
                                       /\ t \in [DOMAIN t -> [status : Statuses, heard : Times]]
  /\ rx \in Nodes \cup {None} /\ rpc \in {"mark", "swap", "enter"}
  /\ rpc # "mark" => rx # None
  /\ opening \subseteq clients /\ clients \subseteq Pages
  /\ \A i, j \in DOMAIN tasks : tasks[i].loop /\ tasks[j].loop => i = j
  /\ kpc \in {"sleep", "beat", "swap", "told", "sweep", "end", "tell", "dead"}

(* A node that was heard within the window ends up online, whatever table   *)
(* the reader thread, the refresh and the sweep wrote it to and in whatever *)
(* order, as long as the loop lives.                                        *)
HeardIsOnline == \A n \in Nodes :
  <>[](link = "up" /\ kpc # "dead" /\ n \in DOMAIN nodes /\ activity[n] = "fresh")
    => <>[](n \in DOMAIN nodes => nodes[n].status = "online")

(* Every page ends up showing the table, unless one of these happened       *)
(* (spoilt): a page came or went during a broadcast that had it left; a node*)
(* aged during a KEEP_ALIVE, while a new table was built, or while the      *)
(* reader thread was about to mark it online, or was missed then; an update *)
(* or a new sender came while the table was replaced, or an update was told *)
(* after a later table; a refresh raised when changed statuses were to be   *)
(* told, or a sweep when missed nodes were; the link was lost; the loop has *)
(* died.                                                                    *)
InStep == \A p \in clients : shown[p] = Table(nodes)
PagesCatchUp == <>spoilt \/ <>[]InStep

(* MapDashboard.js: the pages show the nodes the gateway has.               *)
PagesInStep == <>[]InStep
=================================================================================
