------------------------------ MODULE AppControl ------------------------------
(***************************************************************************)
(* Application control of forwarded traffic (qfappd): the nftables rules   *)
(* it installs in the kernel (nftgen.rs), one NFQUEUE with its worker and  *)
(* bounded flow table (daemon.rs run_queue, worker.rs, flowtable.rs), the  *)
(* policy reload (daemon.rs spawn_policy_reload) and start, stop and crash *)
(* of the daemon.  `fanout` gives a flow to one queue and workers share    *)
(* only the policy handle, so one worker stands for all of them.           *)
(***************************************************************************)
EXTENDS AppPolicy, Sequences

CONSTANTS
  Flows,
  Policies,     \* policies the daemon may find; the invalid ones are refused
  NoTable,      \* the nftables table is not installed
  MaxPackets,   \* classify.max_packets
  MaxEntries,   \* capacity of the worker's flow table
  MaxQueue      \* bound: packets the kernel holds for the worker

ASSUME ControlAssumption ==
  /\ MaxPackets \in Nat \ {0} /\ MaxEntries \in Nat \ {0} /\ MaxQueue \in Nat \ {0}
  /\ NoTable \notin Policies
  /\ IsFiniteSet(Flows)
  /\ \A p \in Policies : IsFiniteSet(p.bindings) /\ \A b \in p.bindings : b.id \in Nat

VARIABLES
  daemon,   \* "down", "up" or "stopping"
  rules,    \* the bindings chain: the policy it was rendered from, or NoTable
  policy,   \* the handle workers read
  reload,   \* NoTable, or the policy between nft reload and policy.store
  lastErr,  \* policy_last_error is set
  ct,       \* flow -> its conntrack mark
  queue,    \* packets waiting for the worker
  lru,      \* the flow table, least recently seen first
  pkts,     \* packets an entry of the table has seen
  judge,    \* history: flow -> the action that queued and the one that judged
  passed,   \* history: packets of the connection forwarded undecided, up to MaxPackets
  leaked,   \* history: flows with a packet forwarded after the flow was blocked
  broken    \* history: what happened around the decisions

kernel  == <<rules, ct, queue>>
worker  == <<lru, pkts>>
control == <<daemon, policy, reload, lastErr>>
ghosts  == <<judge, passed, leaked>>
vars    == <<control, kernel, worker, ghosts, broken>>

Valid == {p \in Policies : ValidPolicy(p)} \cup {EmptyPolicy}
Names == UNION {DOMAIN p.actions : p \in Valid}
NoAction == "none"
NoMark == [classified |-> FALSE, block |-> FALSE, app |-> Unknown, action |-> 0]
Mark   == [classified : BOOLEAN, block : BOOLEAN, app : Apps \cup {Unknown},
           action : 0..MaxActionId]
\* A packet carries its flow and ACTION_ID; `by` and `from` are history: the
\* action the binding named and the policy the binding was rendered from.
Packet == [flow : Flows, action : 1..MaxActionId, by : Names, from : Valid]
NoJudge == [bound |-> NoAction, used |-> NoAction]

\* "queued": a flow was decided while another packet of it was in the queue.
\* "reload": a packet queued under one policy was decided under another.
\* "evicted": the table lost an undecided flow.  "reused": a connection ended
\* while the worker still knew it.  "unread": the worker passed a packet on
\* without inspecting it.
Troubles == {"queued", "reload", "evicted", "reused", "unread"}

TypeOK ==
  /\ daemon \in {"down", "up", "stopping"}
  /\ rules \in Valid \cup {NoTable} /\ policy \in Valid
  /\ reload \in Valid \cup {NoTable} /\ lastErr \in BOOLEAN
  /\ ct \in [Flows -> Mark]
  /\ queue \in Seq(Packet) /\ Len(queue) <= MaxQueue
  /\ lru \in Seq(Flows)
  /\ pkts \in [Flows -> 0..MaxPackets]
  /\ judge \in [Flows -> [bound : Names \cup {NoAction}, used : Names \cup {NoAction}]]
  /\ passed \in [Flows -> 0..MaxPackets] /\ leaked \subseteq Flows
  /\ broken \subseteq Troubles

Init ==
  /\ daemon = "down" /\ rules = NoTable
  /\ policy = EmptyPolicy /\ reload = NoTable /\ lastErr = FALSE
  /\ ct = [f \in Flows |-> NoMark] /\ queue = <<>>
  /\ lru = <<>> /\ pkts = [f \in Flows |-> 0]
  /\ judge = [f \in Flows |-> NoJudge] /\ passed = [f \in Flows |-> 0]
  /\ leaked = {} /\ broken = {}

InTable(f) == \E i \in 1..Len(lru) : lru[i] = f
Queued(f) == \E i \in 1..Len(queue) : queue[i].flow = f
Breaks(what, cond) == broken' = IF cond THEN broken \cup {what} ELSE broken
-----------------------------------------------------------------------------
(* The kernel                                                              *)

Matching(f) == {b \in rules.bindings : f \in b.match}

\* Mutant: the bindings come before the fast paths.
EnqueueNoFastPath(f) ==
  /\ rules # NoTable /\ daemon # "down" /\ Len(queue) < MaxQueue
  /\ Matching(f) # {}
  /\ LET b == FirstOf(Matching(f))
     IN  queue' = Append(queue, [flow |-> f, action |-> ActionId(rules, b.action),
                                 by |-> b.action, from |-> rules])
  /\ UNCHANGED <<control, rules, ct, worker, ghosts, broken>>

\* A packet of an unclassified flow meets the first binding that matches: its
\* ACTION_ID goes into the packet mark and the packet into the queue.  A full
\* queue, or one nobody listens to, lets the packet by or drops it
\* (fail_mode), and the fast paths drop or accept the packets of a classified
\* flow; none of these changes a thing.
Enqueue(f) ==
  /\ rules # NoTable /\ daemon # "down" /\ Len(queue) < MaxQueue
  /\ ~ct[f].classified
  /\ Matching(f) # {}
  /\ LET b == FirstOf(Matching(f))
     IN  queue' = Append(queue, [flow |-> f, action |-> ActionId(rules, b.action),
                                 by |-> b.action, from |-> rules])
  /\ UNCHANGED <<control, rules, ct, worker, ghosts, broken>>

\* The reinjected verdict packet: qf_persist copies its mark into the
\* conntrack mark.  With the table gone nothing is persisted.
Persist(f, mark) ==
  ct' = IF rules = NoTable THEN ct ELSE [ct EXCEPT ![f] = mark]

\* Conntrack forgets a connection; its addresses and ports may be used again.
Close(f) ==
  /\ ct' = [ct EXCEPT ![f] = NoMark]
  /\ judge' = [judge EXCEPT ![f] = NoJudge]
  /\ passed' = [passed EXCEPT ![f] = 0]
  /\ Breaks("reused", InTable(f) \/ Queued(f))
  /\ leaked' = leaked \ {f}
  /\ UNCHANGED <<control, rules, queue, worker>>
-----------------------------------------------------------------------------
(* The worker: one step from recv to the verdict                           *)

\* decide: no such action means allow.
Decide(p, id, app) ==
  \E n \in ActionAt(p, id) : VerdictOf(p.actions[n], app) = "block"

Used(p, id) == IF ActionAt(p, id) = {} THEN NoAction
               ELSE CHOOSE n \in ActionAt(p, id) : TRUE

\* A packet of f was forwarded.
Forwarded(f) == leaked' = IF ct[f].block THEN leaked \cup {f} ELSE leaked

\* The entry is touched, or created after the least recent one was evicted.
Evicts(f) == ~InTable(f) /\ Len(lru) = MaxEntries
Position(f) == CHOOSE i \in 1..Len(lru) : lru[i] = f
Without(f) ==
  IF InTable(f)
  THEN [i \in 1..(Len(lru) - 1) |-> IF i < Position(f) THEN lru[i] ELSE lru[i + 1]]
  ELSE lru

Released(f) == IF Evicts(f) THEN Tail(lru) ELSE Without(f)
Touch(f) == Append(Released(f), f)
Seen(f) == (IF InTable(f) THEN pkts[f] ELSE 0) + 1

\* Mutant: the budget is looked at one packet late.
StillClassifyingOneMore(f) ==
  /\ Seen(f) <= MaxPackets
  /\ lru' = Touch(f)
  /\ pkts' = [pkts EXCEPT ![f] = Seen(f)]
  /\ passed' = [passed EXCEPT ![f] = IF @ < MaxPackets THEN @ + 1 ELSE @]
  /\ Forwarded(f)
  /\ Breaks("evicted", Evicts(f))
  /\ UNCHANGED <<ct, judge>>

\* Mutant: packets are not counted.
StillClassifyingNoCount(f) ==
  /\ Seen(f) < MaxPackets
  /\ lru' = Touch(f)
  /\ pkts' = [pkts EXCEPT ![f] = 0]
  /\ passed' = [passed EXCEPT ![f] = IF @ < MaxPackets THEN @ + 1 ELSE @]
  /\ Forwarded(f)
  /\ Breaks("evicted", Evicts(f))
  /\ UNCHANGED <<ct, judge>>

\* Still classifying: the packet is accepted with its mark as it is.
StillClassifying(f) ==
  /\ Seen(f) < MaxPackets
  /\ lru' = Touch(f)
  /\ pkts' = [pkts EXCEPT ![f] = Seen(f)]
  /\ passed' = [passed EXCEPT ![f] = IF @ < MaxPackets THEN @ + 1 ELSE @]
  /\ Forwarded(f)
  /\ Breaks("evicted", Evicts(f))
  /\ UNCHANGED <<ct, judge>>

\* Final: nDPI is certain, or the budget of packets or bytes is spent and it
\* gives its best guess, Unknown among them.  The flow leaves the table; the
\* verdict is that of the ACTION_ID in the packet under the policy of this
\* moment, and a block drops the packet in forward_verdict while the table is there.
Finalize(pkt, app) ==
  LET f == pkt.flow
  IN  /\ lru' = Released(f)
      /\ pkts' = [pkts EXCEPT ![f] = 0]
      /\ Persist(f, [classified |-> TRUE, block |-> Decide(policy, pkt.action, app),
                     app |-> app, action |-> pkt.action])
      /\ judge' = [judge EXCEPT ![f] = [bound |-> pkt.by, used |-> Used(policy, pkt.action)]]
      /\ passed' = [passed EXCEPT ![f] = 0]
      /\ IF rules # NoTable /\ Decide(policy, pkt.action, app)
         THEN UNCHANGED leaked ELSE Forwarded(f)
      /\ broken' = broken \cup (IF Evicts(f) THEN {"evicted"} ELSE {})
                          \cup (IF pkt.from # policy THEN {"reload"} ELSE {})
                          \cup (IF \E i \in 2..Len(queue) : queue[i].flow = f
                                THEN {"queued"} ELSE {})

\* No TCP or UDP header, or no memory for a new flow: the packet is accepted.
NotInspected(f) ==
  /\ Forwarded(f)
  /\ broken' = broken \cup {"unread"}
  /\ UNCHANGED <<ct, worker, judge, passed>>

HandlePacket ==
  /\ daemon # "down" /\ queue # <<>>
  /\ \/ StillClassifying(Head(queue).flow)
     \/ \E app \in Apps \cup {Unknown} : Finalize(Head(queue), app)
     \/ NotInspected(Head(queue).flow)
  /\ queue' = Tail(queue)
  /\ UNCHANGED <<control, rules>>

\* Idle entries are evicted, the least recently seen first.
Sweep ==
  /\ daemon # "down"
  /\ \E n \in 1..Len(lru) : lru' = SubSeq(lru, n + 1, Len(lru))
  /\ broken' = broken \cup {"evicted"}
  /\ UNCHANGED <<control, kernel, pkts, ghosts>>
-----------------------------------------------------------------------------
(* Policy reload                                                           *)

\* Mutant: the workers get a policy nft has refused.
ReloadStoredFirst ==
  /\ daemon # "down" /\ reload = NoTable
  /\ lastErr' = TRUE
  /\ \E p \in Valid : policy' = p
  /\ UNCHANGED <<daemon, reload, kernel, worker, ghosts, broken>>

\* An unreadable or invalid policy is refused, and so is one nft rejects:
\* what was in force stays in force.
ReloadRejected ==
  /\ daemon # "down" /\ reload = NoTable
  /\ lastErr' = TRUE
  /\ UNCHANGED <<daemon, policy, reload, kernel, worker, ghosts, broken>>

\* The bindings chain is replaced first, in one transaction ...
ReloadBindings(p) ==
  /\ daemon = "up" /\ reload = NoTable
  /\ ValidPolicy(p)
  /\ rules' = p
  /\ reload' = p
  /\ UNCHANGED <<daemon, policy, lastErr, ct, queue, worker, ghosts, broken>>

\* Mutant: flows that have their verdict are judged again.
StorePolicyRejudges ==
  /\ daemon # "down" /\ reload # NoTable
  /\ policy' = reload
  /\ reload' = NoTable /\ lastErr' = FALSE
  /\ ct' = [f \in Flows |-> [ct[f] EXCEPT !.block =
               ct[f].classified /\ Decide(reload, ct[f].action, ct[f].app)]]
  /\ UNCHANGED <<daemon, rules, queue, worker, ghosts, broken>>

\* ... and then the policy the workers read.
StorePolicy ==
  /\ daemon # "down" /\ reload # NoTable
  /\ policy' = reload
  /\ reload' = NoTable /\ lastErr' = FALSE
  /\ UNCHANGED <<daemon, kernel, worker, ghosts, broken>>
-----------------------------------------------------------------------------
(* Lifecycle                                                               *)

\* Without a valid policy the daemon starts with an empty one.
Start(p) ==
  /\ daemon = "down"
  /\ policy' = IF ValidPolicy(p) THEN p ELSE EmptyPolicy
  /\ rules' = policy'
  /\ lastErr' = ~ValidPolicy(p)
  /\ reload' = NoTable
  /\ daemon' = "up"
  /\ lru' = <<>> /\ pkts' = [f \in Flows |-> 0]
  /\ UNCHANGED <<ct, queue, ghosts, broken>>

\* SIGTERM: the table goes first, so that no more packets are queued; a reload
\* between its two steps still stores its policy.
Stop ==
  /\ daemon = "up"
  /\ daemon' = "stopping"
  /\ rules' = NoTable
  /\ UNCHANGED <<policy, reload, lastErr, ct, queue, worker, ghosts, broken>>

\* The worker sees the shutdown flag; its queue is unbound, and what is left
\* in it is dropped.
WorkerExit ==
  /\ daemon = "stopping"
  /\ daemon' = "down"
  /\ queue' = <<>> /\ reload' = NoTable
  /\ lru' = <<>> /\ pkts' = [f \in Flows |-> 0]
  /\ passed' = [f \in Flows |-> 0]
  /\ UNCHANGED <<policy, lastErr, rules, ct, judge, leaked, broken>>

\* A crash leaves the table, whose queue nobody listens to any more.
Crash ==
  /\ daemon # "down"
  /\ daemon' = "down"
  /\ queue' = <<>> /\ reload' = NoTable
  /\ lru' = <<>> /\ pkts' = [f \in Flows |-> 0]
  /\ passed' = [f \in Flows |-> 0]
  /\ UNCHANGED <<policy, lastErr, rules, ct, judge, leaked, broken>>
-----------------------------------------------------------------------------
Next ==
  \/ \E f \in Flows : Enqueue(f) \/ Close(f)
  \/ HandlePacket \/ Sweep
  \/ ReloadRejected \/ StorePolicy
  \/ \E p \in Policies : ReloadBindings(p) \/ Start(p)
  \/ Stop \/ WorkerExit \/ Crash

Spec == Init /\ [][Next]_vars

\* The worker thread keeps receiving; traffic, operators and crashes are free.
FairSpec == Spec /\ WF_vars(HandlePacket)
-----------------------------------------------------------------------------
\* A verdict is final: while no other packet of a flow waits when it is
\* decided, its conntrack mark never changes until the connection is gone, across
\* reloads, restarts and crashes of the daemon.
VerdictSticks ==
  [][\A f \in Flows : "queued" \notin broken' /\ ct[f].classified
                        => ct'[f] \in {ct[f], NoMark}]_vars

\* No packet that went through the worker is forwarded once its flow is
\* blocked.  (With the table removed by a stop all traffic passes, by design.)
BlockedIsDropped == "queued" \notin broken => leaked = {}

\* A flow is judged by the action whose binding queued its packet, whatever
\* ids the actions have, unless the policy was replaced in between.
JudgedAsBound ==
  "reload" \notin broken => \A f \in Flows : judge[f].used = judge[f].bound

\* The bounded flow table holds a flow once and undecided flows only: a
\* classified one leaves with its verdict, which is reached before max_packets
\* packets of a connection have been forwarded, unless its entry was evicted or
\* left over from another one.
TableSound ==
  /\ Len(lru) <= MaxEntries
  /\ \A i, j \in 1..Len(lru) : lru[i] = lru[j] => i = j
  /\ "queued" \notin broken => \A i \in 1..Len(lru) : ~ct[lru[i]].classified
  /\ broken \cap {"evicted", "reused"} = {}
       => \A f \in Flows : passed[f] < MaxPackets

\* Kernel and workers agree: outside a reload the bindings chain was rendered
\* from the policy the workers read, also after a rejected reload.
RulesAgree == daemon = "up" /\ reload = NoTable => rules = policy

\* No flow is sent to userspace for ever (FairSpec): one whose packets keep
\* being queued is classified again and again at most by being forgotten.
FlowsGetDecided ==
  \A f \in Flows :
    []<><<Enqueue(f)>>_vars
      => []<>(ct[f].classified \/ daemon # "up" \/ broken \cap {"evicted", "reused", "unread"} # {})
=============================================================================
