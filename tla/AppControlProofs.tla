--------------------------- MODULE AppControlProofs ---------------------------
(***************************************************************************)
(* Proofs about AppControl for every set of flows, every set of policies   *)
(* and every bound: kernel and workers agree on the policy outside a       *)
(* reload, a verdict is final as long as no flow is decided with more of   *)
(* its packets in the queue, a flow is judged by the action that queued    *)
(* it, and the flow table keeps its bounds.                                *)
(***************************************************************************)
EXTENDS AppControl, FiniteSetTheorems, WellFoundedInduction, SequenceTheorems, TLAPS

-----------------------------------------------------------------------------
(* The ACTION_IDs of a compiled policy (policy.rs, `compile`), for any     *)
(* policy that validation accepts.                                         *)

\* What the parser yields: finitely many bindings, whose ids are numbers.
Parsed(p) == IsFiniteSet(p.bindings) /\ \A b \in p.bindings : b.id \in Nat

\* Some binding of a non-empty set has the least id.
LEMMA LeastBinding ==
  ASSUME NEW S, S # {}, \A b \in S : b.id \in Nat
  PROVE  FirstOf(S) \in S /\ \A c \in S : FirstOf(S).id <= c.id
<1> DEFINE T == {b.id : b \in S}
<1>1. T \subseteq Nat /\ T # {}
  OBVIOUS
<1>2. PICK x \in T : \A y \in T : ~(<<y, x>> \in OpToRel(<, Nat))
  BY <1>1, NatLessThanWellFounded, WFMin
<1>3. \A y \in T : ~(y < x)
  BY <1>1, <1>2 DEF OpToRel
<1>4. PICK b \in S : b.id = x
  BY <1>2
<1>5. \A c \in S : b.id <= c.id
  BY <1>3, <1>4
<1> QED BY <1>5 DEF FirstOf

\* The names that are bound are finitely many.
LEMMA BoundFinite ==
  ASSUME NEW p, Parsed(p)
  PROVE  IsFiniteSet(BoundNames(p))
<1> DEFINE f == [b \in p.bindings |-> b.action]
<1>1. f \in Surjection(p.bindings, BoundNames(p))
  BY DEF Surjection, BoundNames
<1> QED BY <1>1, FS_Surjection DEF Parsed

\* A bound action has a first binding; two have different ones.
LEMMA FirstIds ==
  ASSUME NEW p, Parsed(p), ValidPolicy(p)
  PROVE  /\ \A n \in BoundNames(p) :
              /\ FirstId(p, n) \in Nat
              /\ \E b \in p.bindings : b.action = n /\ b.id = FirstId(p, n)
              /\ \A b \in p.bindings : b.action = n => FirstId(p, n) <= b.id
         /\ \A m, n \in BoundNames(p) : FirstId(p, m) = FirstId(p, n) => m = n
<1>1. ASSUME NEW n \in BoundNames(p)
      PROVE  /\ FirstId(p, n) \in Nat
             /\ \E b \in p.bindings : b.action = n /\ b.id = FirstId(p, n)
             /\ \A b \in p.bindings : b.action = n => FirstId(p, n) <= b.id
  <2> DEFINE S == {b \in p.bindings : b.action = n}
  <2>1. S # {} /\ \A b \in S : b.id \in Nat
    BY DEF BoundNames, Parsed
  <2>2. FirstOf(S) \in S /\ \A c \in S : FirstOf(S).id <= c.id
    BY <2>1, LeastBinding
  <2> QED BY <2>1, <2>2 DEF FirstId
<1>2. ASSUME NEW m \in BoundNames(p), NEW n \in BoundNames(p), FirstId(p, m) = FirstId(p, n)
      PROVE  m = n
  BY <1>1, <1>2 DEF ValidPolicy
<1> QED BY <1>1, <1>2

\* The actions bound before n.
Before(p, n) == {m \in BoundNames(p) : FirstId(p, m) < FirstId(p, n)}

\* The id of an action is its place among the bound ones, counted from 1.
LEMMA ActionIdCounts ==
  ASSUME NEW p, Parsed(p), ValidPolicy(p), NEW n \in BoundNames(p)
  PROVE  /\ Cardinality(Before(p, n)) \in Nat
         /\ ActionId(p, n) = Cardinality(Before(p, n)) + 1
         /\ ActionId(p, n) \in 1..MaxActionId
<1>1. IsFiniteSet(BoundNames(p))
  BY BoundFinite
<1>2. Before(p, n) \in SUBSET BoundNames(p)
  BY DEF Before
<1>3. IsFiniteSet(Before(p, n)) /\ Cardinality(Before(p, n)) \in Nat
  BY <1>1, <1>2, FS_Subset, FS_CardinalityType
<1> DEFINE A == {b.action : b \in {c \in p.bindings : c.id <= FirstId(p, n)}}
<1>4. A = Before(p, n) \cup {n}
  <2>1. ASSUME NEW m \in A PROVE m \in Before(p, n) \cup {n}
    <3>1. PICK b \in p.bindings : b.id <= FirstId(p, n) /\ b.action = m
      OBVIOUS
    <3>2. m \in BoundNames(p) /\ FirstId(p, m) <= b.id /\ b.id \in Nat
      BY <3>1, FirstIds DEF BoundNames, Parsed
    <3>3. FirstId(p, m) \in Nat /\ FirstId(p, n) \in Nat
      BY <3>2, FirstIds
    <3>4. CASE FirstId(p, m) = FirstId(p, n)
      BY <3>2, <3>4, FirstIds
    <3>5. CASE FirstId(p, m) < FirstId(p, n)
      BY <3>2, <3>5 DEF Before
    <3> QED BY <3>1, <3>2, <3>3, <3>4, <3>5
  <2>2. ASSUME NEW m \in Before(p, n) \cup {n} PROVE m \in A
    <3>1. m \in BoundNames(p) /\ FirstId(p, m) <= FirstId(p, n)
      <4>1. FirstId(p, n) \in Nat
        BY FirstIds
      <4>2. CASE m = n
        BY <4>1, <4>2
      <4>3. CASE m \in Before(p, n)
        <5>1. m \in BoundNames(p) /\ FirstId(p, m) < FirstId(p, n)
          BY <4>3 DEF Before
        <5>2. FirstId(p, m) \in Nat
          BY <5>1, FirstIds
        <5> QED BY <4>1, <5>1, <5>2
      <4> QED BY <2>2, <4>2, <4>3
    <3>2. PICK b \in p.bindings : b.action = m /\ b.id = FirstId(p, m)
      BY <3>1, FirstIds
    <3> QED BY <3>1, <3>2
  <2> QED BY <2>1, <2>2
<1>5. n \notin Before(p, n)
  BY FirstIds DEF Before
<1>6. Cardinality(Before(p, n) \cup {n}) = Cardinality(Before(p, n)) + 1
  BY <1>3, <1>5, FS_AddElement
<1>7. ActionId(p, n) = Cardinality(Before(p, n)) + 1
  BY <1>4, <1>6 DEF ActionId
<1>8. Cardinality(Before(p, n) \cup {n}) <= Cardinality(BoundNames(p))
  <2>1. Before(p, n) \cup {n} \in SUBSET BoundNames(p)
    BY <1>2
  <2> QED BY <1>1, <2>1, FS_Subset
<1>9. Cardinality(BoundNames(p)) \in Nat /\ Cardinality(BoundNames(p)) <= MaxActionId
  BY <1>1, FS_CardinalityType DEF ValidPolicy
<1> QED BY <1>3, <1>6, <1>7, <1>8, <1>9, PolicyAssumption

\* ACTION_IDs are stable names (policy.rs, `compile` and `CompiledPolicy::action`):
\* looking up the id of a bound action gives that action and no other.
THEOREM ActionIdsName ==
  ASSUME NEW p, Parsed(p), ValidPolicy(p), NEW n \in BoundNames(p)
  PROVE  ActionAt(p, ActionId(p, n)) = {n}
<1>1. IsFiniteSet(BoundNames(p))
  BY BoundFinite
<1>2. ASSUME NEW m \in BoundNames(p), NEW k \in BoundNames(p), FirstId(p, m) < FirstId(p, k)
      PROVE  Cardinality(Before(p, m)) < Cardinality(Before(p, k))
  <2>1. Before(p, m) \cup {m} \in SUBSET Before(p, k)
    <3>1. FirstId(p, m) \in Nat /\ FirstId(p, k) \in Nat
      BY FirstIds
    <3>2. ASSUME NEW j \in Before(p, m) PROVE j \in Before(p, k)
      <4>1. j \in BoundNames(p) /\ FirstId(p, j) < FirstId(p, m)
        BY DEF Before
      <4>2. FirstId(p, j) \in Nat
        BY <4>1, FirstIds
      <4> QED BY <1>2, <3>1, <4>1, <4>2 DEF Before
    <3>3. m \in Before(p, k)
      BY <1>2 DEF Before
    <3> QED BY <3>2, <3>3
  <2>2. Before(p, m) \in SUBSET BoundNames(p) /\ Before(p, k) \in SUBSET BoundNames(p)
    BY DEF Before
  <2>3. IsFiniteSet(Before(p, m)) /\ IsFiniteSet(Before(p, k))
    BY <1>1, <2>2, FS_Subset
  <2>4. m \notin Before(p, m)
    BY FirstIds DEF Before
  <2>5. Cardinality(Before(p, m) \cup {m}) = Cardinality(Before(p, m)) + 1
    BY <2>3, <2>4, FS_AddElement
  <2>6. Cardinality(Before(p, m) \cup {m}) <= Cardinality(Before(p, k))
    BY <2>1, <2>3, FS_Subset
  <2>7. Cardinality(Before(p, m)) \in Nat /\ Cardinality(Before(p, k)) \in Nat
    BY ActionIdCounts
  <2> QED BY <2>5, <2>6, <2>7
<1>3. ActionAt(p, ActionId(p, n)) = {m \in BoundNames(p) : Cardinality(Before(p, m)) + 1 = ActionId(p, n)}
  BY DEF ActionAt, Before
<1>4. ActionId(p, n) = Cardinality(Before(p, n)) + 1
  BY ActionIdCounts
<1>5. ASSUME NEW m \in BoundNames(p), Cardinality(Before(p, m)) + 1 = Cardinality(Before(p, n)) + 1
      PROVE  m = n
  <2>1. Cardinality(Before(p, m)) \in Nat /\ Cardinality(Before(p, n)) \in Nat
    BY ActionIdCounts
  <2>2. ~(FirstId(p, m) < FirstId(p, n)) /\ ~(FirstId(p, n) < FirstId(p, m))
    BY <1>2, <1>5, <2>1
  <2>3. FirstId(p, m) \in Nat /\ FirstId(p, n) \in Nat
    BY FirstIds
  <2>4. FirstId(p, m) = FirstId(p, n)
    BY <2>2, <2>3
  <2> QED BY <2>4, FirstIds
<1> QED BY <1>3, <1>4, <1>5

-----------------------------------------------------------------------------
(* The daemon, the kernel and the flows.                                   *)

\* Packets as Enqueue makes them from a flow and the rules in force.
Made(f, r) ==
  LET b == FirstOf({c \in r.bindings : f \in c.match})
  IN  [flow |-> f, action |-> ActionId(r, b.action), by |-> b.action, from |-> r]

\* Their ACTION_ID is the one their policy gives to the action that queued them.
Packets == {p \in Packet : /\ p.by \in BoundNames(p.from)
                           /\ p.action = ActionId(p.from, p.by)}

\* What the proofs need of the types.
Shape ==
  /\ rules \in Valid \cup {NoTable}
  /\ DOMAIN ct = Flows
  /\ queue \in Seq(Packets)

\* The bindings chain follows the reload, and the handle follows the chain.
ReloadInv ==
  daemon = "up" => rules = IF reload = NoTable THEN policy ELSE reload

\* A blocked flow is a classified one.
BlockInv == \A f \in Flows : ct[f].block => ct[f].classified

\* A classified flow has no packet left on its way to the worker.
NoneLeft ==
  "queued" \notin broken => \A f \in Flows : ct[f].classified => ~Queued(f)

\* A packet in the queue is of a known flow.
LEMMA PacketFlow == \A p \in Packets : p.flow \in Flows
BY DEF Packets, Packet

\* The policies in force are ones the parser yields and validation accepts.
LEMMA ValidParsed == \A p \in Valid : Parsed(p) /\ ValidPolicy(p)
<1>1. ASSUME NEW p \in Policies, ValidPolicy(p) PROVE Parsed(p) /\ ValidPolicy(p)
  BY <1>1, ControlAssumption DEF Parsed
<1>2. Parsed(EmptyPolicy) /\ ValidPolicy(EmptyPolicy)
  <2>1. EmptyPolicy.bindings = {} /\ BoundNames(EmptyPolicy) = {}
    BY DEF EmptyPolicy, BoundNames
  <2>2. IsFiniteSet({}) /\ Cardinality({}) = 0
    BY FS_EmptySet
  <2> QED BY <2>1, <2>2, PolicyAssumption DEF Parsed, ValidPolicy
<1> QED BY <1>1, <1>2 DEF Valid

\* The first binding that matches makes a packet with an ACTION_ID of its policy.
LEMMA MadePacket ==
  ASSUME NEW f \in Flows, NEW r \in Valid, {c \in r.bindings : f \in c.match} # {}
  PROVE  Made(f, r) \in Packets /\ Made(f, r).flow = f
<1> DEFINE S == {c \in r.bindings : f \in c.match}
           b == FirstOf(S)
<1>1. Parsed(r) /\ ValidPolicy(r)
  BY ValidParsed
<1>2. b \in S
  <2>1. \A c \in S : c.id \in Nat
    BY <1>1 DEF Parsed
  <2> QED BY <2>1, LeastBinding
<1>3. b.action \in BoundNames(r)
  BY <1>2 DEF BoundNames
<1>4. ActionId(r, b.action) \in 1..MaxActionId
  BY <1>1, <1>3, ActionIdCounts
<1>5. b.action \in Names
  BY <1>1, <1>3 DEF ValidPolicy, Names
<1> HIDE DEF b
<1>6. Made(f, r) = [flow |-> f, action |-> ActionId(r, b.action), by |-> b.action, from |-> r]
  BY DEF Made, b
<1> QED BY <1>3, <1>4, <1>5, <1>6 DEF Packets, Packet

\* What has gone wrong stays on record.
LEMMA BrokenGrows == [Next]_vars => broken \subseteq broken'
BY DEF Next, vars, Enqueue, Close, HandlePacket, StillClassifying, Finalize, NotInspected,
       Breaks, Sweep, ReloadRejected, StorePolicy, ReloadBindings, Start, Stop, WorkerExit, Crash

\* The invariants hold when the system starts.
LEMMA InitShape == Init => Shape /\ BlockInv /\ NoneLeft
BY DEF Init, Shape, BlockInv, NoneLeft, NoMark

\* Every step keeps the shape of rules, marks and queue.
LEMMA NextShape == Shape /\ [Next]_vars => Shape'
<1> SUFFICES ASSUME Shape, [Next]_vars PROVE Shape'
  OBVIOUS
<1> USE DEF Shape
<1>1. ASSUME NEW f \in Flows, Enqueue(f) PROVE Shape'
  <2>1. Made(f, rules) \in Packets
    BY <1>1, MadePacket DEF Enqueue, Matching
  <2>2. queue' = Append(queue, Made(f, rules))
    BY <1>1 DEF Enqueue, Made, Matching
  <2> QED BY <1>1, <2>1, <2>2 DEF Enqueue
<1>2. ASSUME NEW f \in Flows, Close(f) PROVE Shape'
  BY <1>2 DEF Close
<1>3. CASE HandlePacket
  <2>1. queue' \in Seq(Packets) /\ UNCHANGED rules /\ Head(queue) \in Packets
    BY <1>3 DEF HandlePacket
  <2>2. DOMAIN ct' = Flows
    BY <1>3, <2>1 DEF HandlePacket, StillClassifying, Finalize, Persist, NotInspected
  <2> QED BY <2>1, <2>2
<1>4. CASE Sweep
  BY <1>4 DEF Sweep, kernel
<1>5. CASE ReloadRejected
  BY <1>5 DEF ReloadRejected, kernel
<1>6. CASE StorePolicy
  BY <1>6 DEF StorePolicy, kernel
<1>7. ASSUME NEW p \in Policies, ReloadBindings(p) PROVE Shape'
  BY <1>7 DEF ReloadBindings, Valid
<1>8. ASSUME NEW p \in Policies, Start(p) PROVE Shape'
  BY <1>8 DEF Start, Valid
<1>9. CASE Stop
  BY <1>9 DEF Stop
<1>10. CASE WorkerExit
  BY <1>10 DEF WorkerExit
<1>11. CASE Crash
  BY <1>11 DEF Crash
<1>12. CASE UNCHANGED vars
  BY <1>12 DEF vars, kernel
<1> QED
  BY <1>1, <1>2, <1>3, <1>4, <1>5, <1>6, <1>7, <1>8, <1>9, <1>10, <1>11, <1>12 DEF Next

\* A reload changes the chain first and the handle after it, both to one policy.
LEMMA NextReload == ReloadInv /\ [Next]_vars => ReloadInv'
<1> SUFFICES ASSUME ReloadInv, [Next]_vars PROVE ReloadInv'
  OBVIOUS
<1> USE DEF ReloadInv
<1>1. ASSUME NEW f \in Flows, Enqueue(f) \/ Close(f) PROVE ReloadInv'
  BY <1>1 DEF Enqueue, Close, control
<1>2. CASE HandlePacket \/ Sweep
  BY <1>2 DEF HandlePacket, Sweep, control, kernel
<1>3. CASE ReloadRejected \/ StorePolicy
  BY <1>3 DEF ReloadRejected, StorePolicy, kernel
<1>4. ASSUME NEW p \in Policies, ReloadBindings(p) PROVE ReloadInv'
  BY <1>4, ControlAssumption DEF ReloadBindings
<1>5. ASSUME NEW p \in Policies, Start(p) PROVE ReloadInv'
  BY <1>5 DEF Start
<1>6. CASE Stop \/ WorkerExit \/ Crash
  BY <1>6 DEF Stop, WorkerExit, Crash
<1>7. CASE UNCHANGED vars
  BY <1>7 DEF vars, control, kernel
<1> QED
  BY <1>1, <1>2, <1>3, <1>4, <1>5, <1>6, <1>7 DEF Next

\* The conntrack mark changes only when a connection ends or is decided.
LEMMA NextBlock == Shape /\ BlockInv /\ [Next]_vars => BlockInv'
<1> SUFFICES ASSUME Shape, BlockInv, [Next]_vars PROVE BlockInv'
  OBVIOUS
<1> USE DEF BlockInv, Shape
<1>1. ASSUME NEW f \in Flows, Close(f) PROVE BlockInv'
  BY <1>1 DEF Close, NoMark
<1>2. CASE HandlePacket
  <2> DEFINE p == Head(queue)
  <2>1. p \in Packets
    BY <1>2 DEF HandlePacket
  <2>2. p.flow \in Flows
    BY <2>1, PacketFlow
  <2>3. ASSUME NEW app \in Apps \cup {Unknown}, Finalize(p, app) PROVE BlockInv'
    <3>1. CASE rules = NoTable
      BY <2>3, <3>1 DEF Finalize, Persist
    <3>2. CASE rules # NoTable
      <4>1. \A g \in Flows : g # p.flow => ct'[g] = ct[g]
        BY <2>2, <2>3, <3>2 DEF Finalize, Persist
      <4>2. ct'[p.flow].classified
        BY <2>2, <2>3, <3>2 DEF Finalize, Persist
      <4> QED BY <4>1, <4>2
    <3> QED BY <3>1, <3>2
  <2>4. CASE StillClassifying(p.flow) \/ NotInspected(p.flow)
    BY <2>4 DEF StillClassifying, NotInspected
  <2> QED BY <1>2, <2>3, <2>4 DEF HandlePacket
<1>3. CASE UNCHANGED ct
  BY <1>3
<1>4. \/ UNCHANGED ct
      \/ HandlePacket
      \/ \E f \in Flows : Close(f)
  BY DEF Next, vars, kernel, Enqueue, Sweep, ReloadRejected, StorePolicy,
         ReloadBindings, Start, Stop, WorkerExit, Crash
<1> QED BY <1>1, <1>2, <1>3, <1>4

\* No packet of a classified flow is queued, and a flow decided with others of
\* its packets in the queue is on record in `broken`.
LEMMA NextLeft == Shape /\ NoneLeft /\ [Next]_vars => NoneLeft'
<1> SUFFICES ASSUME Shape, NoneLeft, [Next]_vars, "queued" \notin broken',
                    NEW g \in Flows, ct'[g].classified, Queued(g)'
             PROVE  FALSE
  BY DEF NoneLeft
<1> USE DEF Shape
<1>1. "queued" \notin broken
  BY BrokenGrows
<1>2. ct[g].classified => ~Queued(g)
  BY <1>1 DEF NoneLeft
<1>3. ASSUME NEW f \in Flows, Enqueue(f) PROVE FALSE
  <2>0. Made(f, rules) \in Packets
    BY <1>3, MadePacket DEF Enqueue, Matching
  <2>1. queue' = Append(queue, Made(f, rules))
    BY <1>3 DEF Enqueue, Made, Matching
  <2>2. Made(f, rules).flow = f
    BY DEF Made
  <2>3. UNCHANGED ct /\ ~ct[f].classified
    BY <1>3 DEF Enqueue
  <2>4. g # f
    BY <2>3
  <2>5. Queued(g)
    BY <2>0, <2>1, <2>2, <2>4 DEF Queued
  <2> QED BY <1>2, <2>3, <2>5
<1>4. ASSUME NEW f \in Flows, Close(f) PROVE FALSE
  BY <1>2, <1>4 DEF Close, NoMark, Queued
<1>5. CASE HandlePacket
  <2> DEFINE p == Head(queue)
  <2>1. /\ queue # <<>> /\ queue' = Tail(queue)
        /\ p \in Packets
    BY <1>5 DEF HandlePacket
  <2>2. p.flow \in Flows
    BY <2>1, PacketFlow
  <2>3. \E i \in 2..Len(queue) : queue[i].flow = g
    BY <2>1 DEF Queued
  <2>4. Queued(g)
    BY <2>3 DEF Queued
  <2>5. ASSUME NEW app \in Apps \cup {Unknown}, Finalize(p, app) PROVE FALSE
    <3>1. g # p.flow
      BY <2>3, <2>5 DEF Finalize
    <3>2. ct'[g] = ct[g]
      BY <2>2, <2>5, <3>1 DEF Finalize, Persist
    <3> QED BY <1>2, <2>4, <3>2
  <2>6. CASE StillClassifying(p.flow) \/ NotInspected(p.flow)
    BY <1>2, <2>4, <2>6 DEF StillClassifying, NotInspected
  <2> QED BY <1>5, <2>5, <2>6 DEF HandlePacket
<1>6. CASE UNCHANGED ct /\ (UNCHANGED queue \/ queue' = <<>>)
  BY <1>2, <1>6 DEF Queued
<1>7. \/ UNCHANGED ct /\ (UNCHANGED queue \/ queue' = <<>>)
      \/ HandlePacket
      \/ \E f \in Flows : Enqueue(f) \/ Close(f)
  BY DEF Next, vars, kernel, Sweep, ReloadRejected, StorePolicy,
         ReloadBindings, Start, Stop, WorkerExit, Crash
<1> QED BY <1>3, <1>4, <1>5, <1>6, <1>7

\* Agreement of kernel and workers (daemon.rs, spawn_policy_reload): outside a
\* reload the bindings chain in the kernel comes from the policy workers read.
THEOREM Agreement == Spec => []RulesAgree
<1>1. Init => ReloadInv
  BY DEF Init, ReloadInv
<1>2. ReloadInv => RulesAgree
  BY DEF ReloadInv, RulesAgree
<1> QED BY <1>1, <1>2, NextReload, PTL DEF Spec

\* A verdict is final (worker.rs, finalize): a step changes the mark of a
\* classified flow only by ending the connection, unless a flow was decided
\* with more of its packets in the queue.
THEOREM VerdictFinal == Spec => VerdictSticks
<1> DEFINE Inv == Shape /\ NoneLeft
<1>1. Init => Inv
  BY InitShape
<1>2. Inv /\ [Next]_vars => Inv'
  BY NextShape, NextLeft
<1>3. ASSUME Inv, [Next]_vars
      PROVE  [\A f \in Flows : "queued" \notin broken' /\ ct[f].classified
                => ct'[f] \in {ct[f], NoMark}]_vars
  <2> SUFFICES ASSUME NEW g \in Flows, "queued" \notin broken', ct[g].classified
               PROVE  ct'[g] \in {ct[g], NoMark}
    OBVIOUS
  <2> USE <1>3 DEF Shape
  <2>1. "queued" \notin broken
    BY BrokenGrows
  <2>2. ~Queued(g)
    BY <2>1 DEF NoneLeft
  <2>3. ASSUME NEW f \in Flows, Close(f) PROVE ct'[g] \in {ct[g], NoMark}
    BY <2>3 DEF Close
  <2>4. CASE HandlePacket
    <3> DEFINE p == Head(queue)
    <3>1. p \in Packets /\ queue # <<>> /\ p = queue[1] /\ Len(queue) \in Nat \ {0}
      BY <2>4 DEF HandlePacket
    <3>2. p.flow # g
      BY <2>2, <3>1 DEF Queued
    <3>3. p.flow \in Flows
      BY <3>1, PacketFlow
    <3>4. ct'[g] = ct[g]
      BY <2>4, <3>2, <3>3 DEF HandlePacket, StillClassifying, Finalize, Persist, NotInspected
    <3> QED BY <3>4
  <2>5. \/ UNCHANGED ct
        \/ HandlePacket
        \/ \E f \in Flows : Close(f)
    BY DEF Next, vars, kernel, Enqueue, Sweep, ReloadRejected, StorePolicy,
           ReloadBindings, Start, Stop, WorkerExit, Crash
  <2> QED BY <2>3, <2>4, <2>5
<1> QED BY <1>1, <1>2, <1>3, PTL DEF Spec, VerdictSticks

\* A block takes effect (nftgen.rs fast paths, worker.rs finalize): nothing of
\* a flow is forwarded after the packet that blocked it.
THEOREM BlockPromise == Spec => []BlockedIsDropped
<1> DEFINE Inv == Shape /\ BlockInv /\ NoneLeft /\ BlockedIsDropped
<1>1. Init => Inv
  BY InitShape DEF Init, BlockedIsDropped
<1>2. ASSUME Inv, [Next]_vars PROVE Inv'
  <2>1. Shape' /\ BlockInv' /\ NoneLeft'
    BY <1>2, NextShape, NextBlock, NextLeft
  <2>2. BlockedIsDropped'
    <3> SUFFICES ASSUME "queued" \notin broken' PROVE leaked' = {}
      BY DEF BlockedIsDropped
    <3> USE <1>2 DEF Shape
    <3>1. "queued" \notin broken
      BY BrokenGrows
    <3>2. leaked = {}
      BY <3>1 DEF BlockedIsDropped
    <3>3. ASSUME NEW f \in Flows, Close(f) PROVE leaked' = {}
      BY <3>2, <3>3 DEF Close
    <3>4. CASE HandlePacket
      <4> DEFINE p == Head(queue)
      <4>1. p \in Packets /\ p = queue[1] /\ Len(queue) \in Nat \ {0}
        BY <3>4 DEF HandlePacket
      <4>2. p.flow \in Flows /\ Queued(p.flow)
        BY <4>1, PacketFlow DEF Queued
      <4>3. ~ct[p.flow].block
        BY <3>1, <4>2 DEF NoneLeft, BlockInv
      <4> QED BY <3>2, <3>4, <4>3 DEF HandlePacket, StillClassifying, Finalize, NotInspected, Forwarded
    <3>5. \/ UNCHANGED leaked
          \/ HandlePacket
          \/ \E f \in Flows : Close(f)
      BY DEF Next, vars, ghosts, Enqueue, Sweep, ReloadRejected, StorePolicy,
             ReloadBindings, Start, Stop, WorkerExit, Crash
    <3> QED BY <3>2, <3>3, <3>4, <3>5
  <2> QED BY <2>1, <2>2
<1> QED BY <1>1, <1>2, PTL DEF Spec
-----------------------------------------------------------------------------
(* The flow table                                                          *)

Distinct(s) == \A i, j \in 1..Len(s) : s[i] = s[j] => i = j

\* The table is bounded and holds a flow once.
EntryInv == Len(lru) <= MaxEntries /\ Distinct(lru)

\* `s` is the table without f: every entry of it was there, and unless the table
\* was full and f not in it, all others still are.
Rest(s, f) ==
  /\ s \in Seq(Flows) /\ Len(s) < MaxEntries /\ Distinct(s)
  /\ \A i \in 1..Len(s) : s[i] # f /\ \E j \in 1..Len(lru) : s[i] = lru[j]
  /\ ~Evicts(f) => \A j \in 1..Len(lru) :
       lru[j] # f => \E i \in 1..Len(s) : s[i] = lru[j]

\* Releasing an entry makes room and takes out f and at most one other flow.
LEMMA ReleasedRest ==
  ASSUME lru \in Seq(Flows), EntryInv, NEW f
  PROVE  Rest(Released(f), f)
<1>0. MaxEntries \in Nat \ {0} /\ Len(lru) \in Nat /\ \A i \in 1..Len(lru) : lru[i] \in Flows
  BY ControlAssumption
<1>1. CASE Evicts(f)
  <2>1. lru # <<>> /\ Released(f) = Tail(lru) /\ ~InTable(f)
    BY <1>0, <1>1 DEF Evicts, Released
  <2> DEFINE s == Tail(lru)
  <2>2. /\ s \in Seq(Flows) /\ Len(s) = Len(lru) - 1
        /\ \A i \in 1..Len(s) : s[i] = lru[i + 1]
    BY <2>1, HeadTailProperties
  <2> HIDE DEF s
  <2>3. Distinct(s)
    BY <1>0, <2>2 DEF Distinct, EntryInv
  <2>4. \A i \in 1..Len(s) : s[i] # f /\ \E j \in 1..Len(lru) : s[i] = lru[j]
    BY <1>0, <2>1, <2>2 DEF InTable
  <2>5. Len(s) < MaxEntries
    BY <1>0, <2>2 DEF EntryInv
  <2>6. Rest(s, f)
    BY <1>1, <2>2, <2>3, <2>4, <2>5 DEF Rest
  <2> QED BY <2>1, <2>6 DEF s
<1>2. CASE ~Evicts(f) /\ InTable(f)
  <2> DEFINE k == Position(f)
             s == [i \in 1..(Len(lru) - 1) |-> IF i < k THEN lru[i] ELSE lru[i + 1]]
  <2>1. Released(f) = s
    BY <1>2 DEF Released, Without
  <2>2. k \in 1..Len(lru) /\ lru[k] = f
    BY <1>2 DEF InTable, Position
  <2> HIDE DEF k
  <2>3. Len(lru) - 1 \in Nat
    BY <1>0, <2>2
  <2>4. \A i \in 1..(Len(lru) - 1) : s[i] \in Flows
    BY <1>0, <2>2
  <2>5. s \in Seq(Flows) /\ Len(s) = Len(lru) - 1
    <3>1. s \in [1..(Len(lru) - 1) -> Flows]
      BY <2>4
    <3>2. s \in Seq(Flows)
      BY <2>3, <3>1, SeqDef
    <3>3. DOMAIN s = 1..(Len(lru) - 1)
      OBVIOUS
    <3> QED BY <2>3, <3>2, <3>3
  <2>6. \A i \in 1..Len(s) : s[i] = IF i < k THEN lru[i] ELSE lru[i + 1]
    BY <2>5
  <2> HIDE DEF s
  <2>7. Distinct(s)
    BY <1>0, <2>2, <2>5, <2>6 DEF Distinct, EntryInv
  <2>8. \A i \in 1..Len(s) : s[i] # f /\ \E j \in 1..Len(lru) : s[i] = lru[j]
    BY <1>0, <2>2, <2>5, <2>6 DEF Distinct, EntryInv
  <2>9. ASSUME NEW j \in 1..Len(lru), lru[j] # f PROVE \E i \in 1..Len(s) : s[i] = lru[j]
    <3>1. CASE j < k
      BY <1>0, <2>2, <2>5, <2>6, <3>1
    <3>2. CASE j > k
      <4>1. j - 1 \in 1..Len(s) /\ s[j - 1] = lru[j]
        BY <1>0, <2>2, <2>5, <2>6, <3>2
      <4> QED BY <4>1
    <3> QED BY <1>0, <2>2, <2>9, <3>1, <3>2
  <2>10. Len(s) < MaxEntries
    BY <1>0, <2>5 DEF EntryInv
  <2> QED BY <2>1, <2>5, <2>7, <2>8, <2>9, <2>10 DEF Rest
<1>3. CASE ~Evicts(f) /\ ~InTable(f)
  <2>1. Released(f) = lru
    BY <1>3 DEF Released, Without
  <2>2. Len(lru) < MaxEntries
    BY <1>0, <1>3 DEF Evicts, EntryInv
  <2>3. \A i \in 1..Len(lru) : lru[i] # f
    BY <1>3 DEF InTable
  <2> QED BY <2>1, <2>2, <2>3 DEF Rest, EntryInv
<1> QED BY <1>1, <1>2, <1>3

\* A touched flow is the most recent entry of the table.
LEMMA TouchedTable ==
  ASSUME NEW f \in Flows, NEW s, Rest(s, f)
  PROVE  /\ Append(s, f) \in Seq(Flows)
         /\ Len(Append(s, f)) = Len(s) + 1 /\ Len(Append(s, f)) <= MaxEntries
         /\ Distinct(Append(s, f))
         /\ \A i \in 1..Len(s) : Append(s, f)[i] = s[i]
         /\ Append(s, f)[Len(s) + 1] = f
<1>1. s \in Seq(Flows) /\ Len(s) \in Nat /\ Len(s) < MaxEntries /\ Distinct(s)
  BY DEF Rest
<1> DEFINE t == Append(s, f)
<1>2. /\ t \in Seq(Flows) /\ Len(t) = Len(s) + 1
      /\ \A i \in 1..Len(s) : t[i] = s[i]
      /\ t[Len(s) + 1] = f
  BY <1>1, AppendProperties
<1> HIDE DEF t
<1>3. Distinct(t)
  BY <1>1, <1>2 DEF Distinct, Rest
<1>4. Len(t) <= MaxEntries
  BY <1>1, <1>2, ControlAssumption
<1> QED BY <1>2, <1>3, <1>4 DEF t

\* A packet is handled: the table is the old one, one without the packet's flow,
\* or one with the flow as its newest entry.
LEMMA HandledTable ==
  ASSUME lru \in Seq(Flows), EntryInv, Shape, HandlePacket
  PROVE  /\ Head(queue) \in Packets /\ Head(queue).flow \in Flows
         /\ queue # <<>> /\ queue' = Tail(queue)
         /\ lru' \in Seq(Flows) /\ EntryInv'
<1>1. queue # <<>> /\ queue' = Tail(queue) /\ Head(queue) \in Packets
  BY DEF HandlePacket, Shape
<1> DEFINE f == Head(queue).flow
<1>2. f \in Flows
  BY <1>1, PacketFlow
<1> HIDE DEF f
<1>3. Rest(Released(f), f)
  BY ReleasedRest
<1>4. lru' = Touch(f) \/ lru' = Released(f) \/ lru' = lru
  BY DEF HandlePacket, StillClassifying, Finalize, NotInspected, worker, f
<1>5. ASSUME lru' = Touch(f) PROVE lru' \in Seq(Flows) /\ EntryInv'
  BY <1>2, <1>3, <1>5, TouchedTable DEF Touch, EntryInv, Distinct
<1>6. ASSUME lru' = Released(f) PROVE lru' \in Seq(Flows) /\ EntryInv'
  BY <1>3, <1>6, ControlAssumption DEF Rest, EntryInv, Distinct
<1> QED BY <1>1, <1>2, <1>4, <1>5, <1>6 DEF EntryInv, f

\* The sweep keeps the most recent entries.
LEMMA SweptTable ==
  ASSUME lru \in Seq(Flows), EntryInv, Sweep
  PROVE  lru' \in Seq(Flows) /\ EntryInv' /\ \A i \in 1..Len(lru') : \E j \in 1..Len(lru) : lru'[i] = lru[j]
<1>1. PICK n \in 1..Len(lru) : lru' = SubSeq(lru, n + 1, Len(lru))
  BY DEF Sweep
<1>2. Len(lru) \in Nat /\ n \in Nat /\ \A i \in (n + 1)..Len(lru) : lru[i] \in Flows
  BY ElementOfSeq
<1>3. /\ lru' \in Seq(Flows) /\ Len(lru') = Len(lru) - n
      /\ \A i \in 1..Len(lru') : lru'[i] = lru[n + i]
  BY <1>1, <1>2, SubSeqProperties
<1>4. Distinct(lru')
  BY <1>2, <1>3 DEF Distinct, EntryInv
<1>5. Len(lru') <= MaxEntries
  BY <1>2, <1>3, ControlAssumption DEF EntryInv
<1>6. \A i \in 1..Len(lru') : n + i \in 1..Len(lru)
  BY <1>2, <1>3
<1> QED BY <1>3, <1>4, <1>5, <1>6 DEF EntryInv

\* The action that judges is an action of the policy, or none.
LEMMA UsedNamed == \A p \in Valid : \A id : Used(p, id) \in Names \cup {NoAction}
<1> SUFFICES ASSUME NEW p \in Valid, NEW id PROVE Used(p, id) \in Names \cup {NoAction}
  OBVIOUS
<1>1. ValidPolicy(p)
  BY ValidParsed
<1>2. ActionAt(p, id) \subseteq Names
  BY <1>1 DEF ActionAt, ValidPolicy, Names
<1> QED BY <1>2 DEF Used

\* What an invariant proof starts from: types, the shape of queued packets, and
\* the bounds of the table.
Typed == TypeOK /\ Shape /\ EntryInv

\* The verdict the worker gives, and the budget it counts, have their types.
LEMMA HandledTyped ==
  ASSUME Typed, HandlePacket
  PROVE  TypeOK'
<1> DEFINE p == Head(queue)
<1>1. /\ p \in Packets /\ p.flow \in Flows /\ queue # <<>> /\ queue' = Tail(queue)
      /\ lru' \in Seq(Flows)
  BY HandledTable DEF Typed, TypeOK
<1>2. p.by \in Names /\ p.action \in 0..MaxActionId
  BY <1>1 DEF Packets, Packet
<1>3. UNCHANGED <<daemon, rules, policy, reload, lastErr>>
  BY DEF HandlePacket, control
<1>4. queue' \in Seq(Packet) /\ Len(queue') <= MaxQueue
  <2>1. queue \in Seq(Packet) /\ Len(queue) <= MaxQueue /\ MaxQueue \in Nat
    BY ControlAssumption DEF Typed, TypeOK
  <2> QED BY <1>1, <2>1, HeadTailProperties
<1> HIDE DEF p
<1> DEFINE Rem == /\ ct' \in [Flows -> Mark]
                  /\ pkts' \in [Flows -> 0..MaxPackets]
                  /\ judge' \in [Flows -> [bound : Names \cup {NoAction}, used : Names \cup {NoAction}]]
                  /\ passed' \in [Flows -> 0..MaxPackets] /\ leaked' \subseteq Flows
                  /\ broken' \subseteq Troubles
<1>5. /\ ct \in [Flows -> Mark] /\ pkts \in [Flows -> 0..MaxPackets]
      /\ judge \in [Flows -> [bound : Names \cup {NoAction}, used : Names \cup {NoAction}]]
      /\ passed \in [Flows -> 0..MaxPackets] /\ leaked \subseteq Flows
      /\ broken \subseteq Troubles /\ policy \in Valid
      /\ MaxPackets \in Nat \ {0}
  BY ControlAssumption DEF Typed, TypeOK
<1>6. ASSUME StillClassifying(p.flow) PROVE Rem
  <2>1. UNCHANGED <<ct, judge>> /\ leaked' \subseteq Flows /\ broken' \subseteq Troubles
    BY <1>1, <1>5, <1>6 DEF StillClassifying, Forwarded, Breaks, Troubles
  <2>2. Seen(p.flow) \in 0..MaxPackets
    BY <1>1, <1>5, <1>6 DEF StillClassifying, Seen
  <2>3. pkts' \in [Flows -> 0..MaxPackets]
    BY <1>1, <1>5, <1>6, <2>2 DEF StillClassifying
  <2>4. passed' \in [Flows -> 0..MaxPackets]
    BY <1>1, <1>5, <1>6 DEF StillClassifying
  <2> QED BY <1>5, <2>1, <2>3, <2>4
<1>7. ASSUME NEW app \in Apps \cup {Unknown}, Finalize(p, app) PROVE Rem
  <2> DEFINE m == [classified |-> TRUE, block |-> Decide(policy, p.action, app),
                   app |-> app, action |-> p.action]
  <2>1. m \in Mark
    <3>1. Decide(policy, p.action, app) \in BOOLEAN
      BY DEF Decide
    <3> QED BY <1>2, <1>7, <3>1 DEF Mark
  <2>2. ct' = IF rules = NoTable THEN ct ELSE [ct EXCEPT ![p.flow] = m]
    BY <1>7 DEF Finalize, Persist
  <2> HIDE DEF m
  <2>3. ct' \in [Flows -> Mark]
    BY <1>1, <1>5, <2>1, <2>2
  <2>4. pkts' \in [Flows -> 0..MaxPackets] /\ passed' \in [Flows -> 0..MaxPackets]
    BY <1>1, <1>5, <1>7 DEF Finalize
  <2>5. Used(policy, p.action) \in Names \cup {NoAction}
    BY <1>5, UsedNamed
  <2>6. judge' \in [Flows -> [bound : Names \cup {NoAction}, used : Names \cup {NoAction}]]
    BY <1>1, <1>2, <1>5, <1>7, <2>5 DEF Finalize
  <2>7. leaked' \subseteq Flows /\ broken' \subseteq Troubles
    BY <1>1, <1>5, <1>7 DEF Finalize, Forwarded, Troubles
  <2> QED BY <2>3, <2>4, <2>6, <2>7
<1>8. ASSUME NotInspected(p.flow) PROVE Rem
  BY <1>1, <1>5, <1>8 DEF NotInspected, Forwarded, Troubles, worker
<1>9. Rem
  BY <1>6, <1>7, <1>8 DEF HandlePacket, p
<1> HIDE DEF Rem
<1>10. TypeOK /\ Rem
  BY <1>9 DEF Typed
<1> QED BY <1>1, <1>3, <1>4, <1>10 DEF TypeOK, Rem

\* Every step keeps the types, the shape and the bounds of the table.
LEMMA NextTyped == Typed /\ [Next]_vars => Typed'
<1> SUFFICES ASSUME Typed, [Next]_vars PROVE Typed'
  OBVIOUS
<1>0. TypeOK /\ EntryInv /\ Shape /\ Shape' /\ lru \in Seq(Flows)
  BY NextShape DEF Typed, TypeOK
<1>1. ASSUME NEW f \in Flows, Enqueue(f) PROVE TypeOK' /\ EntryInv'
  <2>1. Made(f, rules) \in Packets /\ queue' = Append(queue, Made(f, rules)) /\ Len(queue) < MaxQueue
    BY <1>0, <1>1, MadePacket DEF Enqueue, Matching, Shape, Made
  <2>2. Made(f, rules) \in Packet
    BY <2>1 DEF Packets
  <2>3. queue' \in Seq(Packet) /\ Len(queue') <= MaxQueue
    <3>1. queue \in Seq(Packet) /\ Len(queue) \in Nat /\ MaxQueue \in Nat
      BY <1>0, ControlAssumption DEF TypeOK
    <3> QED BY <2>1, <2>2, <3>1, AppendProperties
  <2> QED BY <1>0, <1>1, <2>3 DEF Enqueue, TypeOK, EntryInv, control, worker, ghosts
<1>2. ASSUME NEW f \in Flows, Close(f) PROVE TypeOK' /\ EntryInv'
  <2>1. NoMark \in Mark
    BY PolicyAssumption DEF NoMark, Mark
  <2>2. ct' \in [Flows -> Mark] /\ passed' \in [Flows -> 0..MaxPackets]
    BY <1>0, <1>2, <2>1, ControlAssumption DEF Close, TypeOK
  <2>3. judge' \in [Flows -> [bound : Names \cup {NoAction}, used : Names \cup {NoAction}]]
    BY <1>0, <1>2 DEF Close, TypeOK, NoJudge
  <2>4. broken' \subseteq Troubles /\ leaked' \subseteq Flows
    BY <1>0, <1>2 DEF Close, TypeOK, Breaks, Troubles
  <2> QED BY <1>0, <1>2, <2>2, <2>3, <2>4 DEF Close, TypeOK, EntryInv, control, worker
<1>3. ASSUME HandlePacket PROVE TypeOK' /\ EntryInv'
  BY <1>0, <1>3, HandledTable, HandledTyped DEF Typed
<1>4. ASSUME Sweep PROVE TypeOK' /\ EntryInv'
  BY <1>0, <1>4, SweptTable DEF Sweep, TypeOK, control, kernel, ghosts, Troubles
<1>5. ASSUME ReloadRejected PROVE TypeOK' /\ EntryInv'
  BY <1>0, <1>5 DEF ReloadRejected, TypeOK, EntryInv, Distinct, kernel, worker, ghosts
<1>6. ASSUME StorePolicy PROVE TypeOK' /\ EntryInv'
  BY <1>0, <1>6 DEF StorePolicy, TypeOK, EntryInv, Distinct, kernel, worker, ghosts
<1>7. ASSUME NEW p \in Policies, ReloadBindings(p) PROVE TypeOK' /\ EntryInv'
  <2>1. p \in Valid
    BY <1>7 DEF ReloadBindings, Valid
  <2> QED BY <1>0, <1>7, <2>1 DEF ReloadBindings, TypeOK, EntryInv, worker, ghosts
<1> DEFINE Fresh == lru' = <<>> /\ pkts' = [f \in Flows |-> 0]
<1>F. Fresh => lru' \in Seq(Flows) /\ pkts' \in [Flows -> 0..MaxPackets] /\ EntryInv'
  BY ControlAssumption DEF EntryInv, Distinct
<1>8. ASSUME NEW p \in Policies, Start(p) PROVE TypeOK' /\ EntryInv'
  <2>1. policy' \in Valid /\ rules' = policy' /\ reload' = NoTable /\ daemon' = "up"
    BY <1>8 DEF Start, Valid
  <2>2. lastErr' \in BOOLEAN
    <3>1. lastErr' = ~ValidPolicy(p)
      BY <1>8 DEF Start
    <3> QED BY <3>1, Zenon
  <2>3. Fresh /\ UNCHANGED <<ct, queue, ghosts, broken>>
    BY <1>8 DEF Start
  <2> HIDE DEF Fresh
  <2> QED BY <1>0, <1>F, <2>1, <2>2, <2>3 DEF TypeOK, ghosts
<1>9. ASSUME Stop PROVE TypeOK' /\ EntryInv'
  BY <1>0, <1>9 DEF Stop, TypeOK, EntryInv, Distinct, worker, ghosts
<1>10. ASSUME WorkerExit \/ Crash PROVE TypeOK' /\ EntryInv'
  <2>1. Fresh /\ daemon' = "down" /\ queue' = <<>> /\ reload' = NoTable
    BY <1>10 DEF WorkerExit, Crash
  <2>2. passed' \in [Flows -> 0..MaxPackets]
    BY <1>10, ControlAssumption DEF WorkerExit, Crash
  <2>3. UNCHANGED <<policy, lastErr, rules, ct, judge, leaked, broken>>
    BY <1>10 DEF WorkerExit, Crash
  <2>4. queue' \in Seq(Packet) /\ Len(queue') <= MaxQueue
    BY <2>1, ControlAssumption
  <2> HIDE DEF Fresh
  <2> QED BY <1>0, <1>F, <2>1, <2>2, <2>3, <2>4 DEF TypeOK
<1>11. ASSUME UNCHANGED vars PROVE TypeOK' /\ EntryInv'
  BY <1>0, <1>11 DEF vars, control, kernel, worker, ghosts, TypeOK, EntryInv, Distinct
<1> QED
  BY <1>0, <1>1, <1>2, <1>3, <1>4, <1>5, <1>6, <1>7, <1>8, <1>9, <1>10, <1>11 DEF Next, Typed

\* The types hold when the system starts.
LEMMA InitTyped == Init => Typed
<1> SUFFICES ASSUME Init PROVE Typed
  OBVIOUS
<1>1. NoMark \in Mark
  BY PolicyAssumption DEF NoMark, Mark
<1>2. EmptyPolicy \in Valid
  BY DEF Valid
<1>3. Len(lru) <= MaxEntries /\ Distinct(lru)
  BY ControlAssumption DEF Init, Distinct
<1>4. judge \in [Flows -> [bound : Names \cup {NoAction}, used : Names \cup {NoAction}]]
  BY DEF Init, NoJudge
<1>5. lastErr \in BOOLEAN
  BY Zenon DEF Init
<1>6. queue \in Seq(Packet) /\ Len(queue) <= MaxQueue
  BY ControlAssumption DEF Init
<1> QED BY <1>1, <1>2, <1>3, <1>4, <1>5, <1>6, InitShape, ControlAssumption
        DEF Init, Typed, TypeOK, EntryInv

\* Types (policy.rs, worker.rs, flowtable.rs): every ACTION_ID in a packet or in
\* a mark fits the mark layout, counters stay within their budgets and the queue
\* holds packets of policies that were in force, whatever the policies are.
THEOREM TypeCorrect == Spec => []TypeOK
<1>1. Typed => TypeOK
  BY DEF Typed
<1> QED BY <1>1, InitTyped, NextTyped, PTL DEF Spec

\* Judged by the action that queued it (policy.rs `action`, worker.rs `decide`):
\* the worker finds under the ACTION_ID of a packet the action whose binding
\* queued it, unless the policy was replaced in between.
THEOREM JudgedByBound == Spec => []JudgedAsBound
<1> DEFINE Inv == Typed /\ JudgedAsBound
<1>1. Init => Inv
  BY InitTyped DEF Init, JudgedAsBound, NoJudge
<1>2. ASSUME Inv, [Next]_vars PROVE JudgedAsBound'
  <2> SUFFICES ASSUME "reload" \notin broken', NEW g \in Flows
               PROVE  judge'[g].used = judge'[g].bound
    BY DEF JudgedAsBound
  <2>1. "reload" \notin broken /\ judge[g].used = judge[g].bound
    BY <1>2, BrokenGrows DEF JudgedAsBound
  <2>2. /\ judge \in [Flows -> [bound : Names \cup {NoAction}, used : Names \cup {NoAction}]]
        /\ policy \in Valid /\ lru \in Seq(Flows) /\ EntryInv /\ Shape
    BY <1>2 DEF Typed, TypeOK
  <2>3. ASSUME NEW f \in Flows, Close(f) PROVE judge'[g].used = judge'[g].bound
    BY <2>1, <2>2, <2>3 DEF Close, NoJudge
  <2>4. CASE HandlePacket
    <3> DEFINE p == Head(queue)
    <3>1. p \in Packets /\ p.flow \in Flows
      BY <2>2, <2>4, HandledTable
    <3> HIDE DEF p
    <3>2. ASSUME NEW app \in Apps \cup {Unknown}, Finalize(p, app)
          PROVE  judge'[g].used = judge'[g].bound
      <4>1. p.from = policy
        BY <3>2 DEF Finalize
      <4>2. p.by \in BoundNames(policy) /\ p.action = ActionId(policy, p.by)
        BY <3>1, <4>1 DEF Packets
      <4>3. ActionAt(policy, p.action) = {p.by}
        BY <2>2, <4>2, ValidParsed, ActionIdsName
      <4>4. Used(policy, p.action) = p.by
        BY <4>3 DEF Used
      <4>5. judge' = [judge EXCEPT ![p.flow] = [bound |-> p.by, used |-> p.by]]
        BY <3>2, <4>4 DEF Finalize
      <4> QED BY <2>1, <2>2, <3>1, <4>5
    <3>3. CASE StillClassifying(p.flow) \/ NotInspected(p.flow)
      BY <2>1, <3>3 DEF StillClassifying, NotInspected
    <3> QED BY <2>4, <3>2, <3>3 DEF HandlePacket, p
  <2>5. \/ UNCHANGED judge
        \/ HandlePacket
        \/ \E f \in Flows : Close(f)
    BY <1>2 DEF Next, vars, ghosts, Enqueue, Sweep, ReloadRejected, StorePolicy,
           ReloadBindings, Start, Stop, WorkerExit, Crash
  <2> QED BY <2>1, <2>3, <2>4, <2>5
<1> QED BY <1>1, <1>2, NextTyped, PTL DEF Spec

\* The entries of the table are undecided flows.
OpenInv == "queued" \notin broken => \A i \in 1..Len(lru) : ~ct[lru[i]].classified

\* An entry has seen what was forwarded of its connection, and what has no entry
\* was forwarded nothing of; a stopped daemon has no table.
BudgetInv ==
  /\ \A f \in Flows : pkts[f] < MaxPackets
  /\ daemon = "down" => lru = <<>>
  /\ broken \cap {"evicted", "reused"} = {}
       => \A f \in Flows : IF InTable(f) THEN passed[f] <= pkts[f] ELSE passed[f] = 0

\* A flow enters the table with a packet of the queue, which no classified flow
\* has, and leaves it with its verdict.
LEMMA NextOpen == Typed /\ NoneLeft /\ OpenInv /\ [Next]_vars => OpenInv'
<1> SUFFICES ASSUME Typed, NoneLeft, OpenInv, [Next]_vars, "queued" \notin broken',
                    NEW i \in 1..Len(lru')
             PROVE  ~ct'[lru'[i]].classified
  BY DEF OpenInv
<1>1. /\ "queued" \notin broken /\ \A j \in 1..Len(lru) : ~ct[lru[j]].classified
  BY BrokenGrows DEF OpenInv
<1>2. lru \in Seq(Flows) /\ EntryInv /\ Shape /\ DOMAIN ct = Flows /\ queue \in Seq(Packets)
  BY DEF Typed, TypeOK, Shape
<1>3. ASSUME NEW f \in Flows, Close(f) PROVE ~ct'[lru'[i]].classified
  <2>1. lru' = lru /\ ct' = [ct EXCEPT ![f] = NoMark]
    BY <1>3 DEF Close, worker
  <2>2. lru[i] \in Flows
    BY <1>2, <2>1, ElementOfSeq
  <2> QED BY <1>1, <1>2, <2>1, <2>2 DEF NoMark
<1>4. CASE HandlePacket
  <2> DEFINE p == Head(queue)
             f == p.flow
  <2>1. f \in Flows /\ queue # <<>>
    BY <1>2, <1>4, HandledTable
  <2>2. Queued(f)
    <3>1. p = queue[1] /\ 1 \in 1..Len(queue)
      BY <1>2, <2>1
    <3> QED BY <3>1 DEF Queued
  <2>3. ~ct[f].classified
    BY <1>1, <2>1, <2>2 DEF NoneLeft
  <2>4. Rest(Released(f), f)
    BY <1>2, ReleasedRest
  <2> HIDE DEF f
  <2>5. CASE StillClassifying(f)
    <3>1. lru' = Append(Released(f), f) /\ ct' = ct
      BY <2>5 DEF StillClassifying, Touch
    <3>2. /\ Len(lru') = Len(Released(f)) + 1 /\ Len(Released(f)) \in Nat
          /\ \A j \in 1..Len(Released(f)) : lru'[j] = Released(f)[j]
          /\ lru'[Len(Released(f)) + 1] = f
      BY <2>1, <2>4, <3>1, TouchedTable DEF Rest
    <3>3. CASE i = Len(Released(f)) + 1
      BY <2>3, <3>1, <3>2, <3>3
    <3>4. CASE i \in 1..Len(Released(f))
      BY <1>1, <2>4, <3>1, <3>2, <3>4 DEF Rest
    <3> QED BY <3>2, <3>3, <3>4
  <2>6. ASSUME NEW app \in Apps \cup {Unknown}, Finalize(p, app) PROVE ~ct'[lru'[i]].classified
    <3>1. lru' = Released(f)
      BY <2>6 DEF Finalize, f
    <3>2. PICK j \in 1..Len(lru) : lru'[i] = lru[j] /\ lru[j] # f
      BY <2>4, <3>1 DEF Rest
    <3>3. lru[j] \in Flows
      BY <1>2, <3>2, ElementOfSeq
    <3>4. ct'[lru[j]] = ct[lru[j]]
      BY <1>2, <2>6, <3>2, <3>3 DEF Finalize, Persist, f
    <3> QED BY <1>1, <3>2, <3>4
  <2>7. CASE NotInspected(f)
    BY <1>1, <2>7 DEF NotInspected, worker
  <2> QED BY <1>4, <2>5, <2>6, <2>7 DEF HandlePacket, f
<1>5. CASE Sweep
  BY <1>1, <1>2, <1>5, SweptTable DEF Sweep, kernel
<1>6. CASE UNCHANGED ct /\ (UNCHANGED lru \/ lru' = <<>>)
  BY <1>1, <1>6
<1>7. \/ UNCHANGED ct /\ (UNCHANGED lru \/ lru' = <<>>)
      \/ HandlePacket \/ Sweep
      \/ \E f \in Flows : Close(f)
  BY DEF Next, vars, kernel, worker, Enqueue, ReloadRejected, StorePolicy,
         ReloadBindings, Start, Stop, WorkerExit, Crash
<1> QED BY <1>3, <1>4, <1>5, <1>6, <1>7

\* The number of packets forwarded of a connection follows the entry of its flow.
LEMMA NextBudget == Typed /\ BudgetInv /\ [Next]_vars => BudgetInv'
<1> SUFFICES ASSUME Typed, BudgetInv, [Next]_vars PROVE BudgetInv'
  OBVIOUS
<1>0. /\ pkts \in [Flows -> 0..MaxPackets] /\ passed \in [Flows -> 0..MaxPackets]
      /\ MaxPackets \in Nat \ {0} /\ lru \in Seq(Flows) /\ EntryInv /\ Shape
  BY ControlAssumption DEF Typed, TypeOK
<1>1. broken \subseteq broken'
  BY BrokenGrows
<1>2. ASSUME NEW f \in Flows, Close(f) PROVE BudgetInv'
  <2>1. UNCHANGED <<daemon, lru, pkts>> /\ passed' = [passed EXCEPT ![f] = 0]
    BY <1>2 DEF Close, control, worker
  <2> QED BY <1>0, <1>1, <2>1 DEF BudgetInv, InTable
<1>3. CASE HandlePacket
  <2> DEFINE p == Head(queue)
             f == p.flow
  <2>1. f \in Flows /\ daemon # "down" /\ daemon' = daemon
    BY <1>0, <1>3, HandledTable DEF HandlePacket, control
  <2>2. Rest(Released(f), f)
    BY <1>0, ReleasedRest
  <2> HIDE DEF f
  <2>3. CASE StillClassifying(f)
    <3>1. /\ Seen(f) < MaxPackets /\ lru' = Append(Released(f), f)
          /\ pkts' = [pkts EXCEPT ![f] = Seen(f)]
          /\ passed' = [passed EXCEPT ![f] = IF @ < MaxPackets THEN @ + 1 ELSE @]
          /\ Evicts(f) => "evicted" \in broken'
      BY <2>3 DEF StillClassifying, Touch, Breaks
    <3>2. Seen(f) \in Nat
      BY <1>0, <2>1 DEF Seen
    <3>3. \A g \in Flows : pkts'[g] < MaxPackets
      BY <1>0, <2>1, <3>1, <3>2 DEF BudgetInv
    <3>4. /\ Len(lru') = Len(Released(f)) + 1 /\ Len(Released(f)) \in Nat
          /\ \A j \in 1..Len(Released(f)) : lru'[j] = Released(f)[j]
          /\ lru'[Len(Released(f)) + 1] = f
      BY <2>1, <2>2, <3>1, TouchedTable DEF Rest
    <3>5. ASSUME broken' \cap {"evicted", "reused"} = {}, NEW g \in Flows
          PROVE  IF InTable(g)' THEN passed'[g] <= pkts'[g] ELSE passed'[g] = 0
      <4>1. /\ ~Evicts(f)
            /\ IF InTable(g) THEN passed[g] <= pkts[g] ELSE passed[g] = 0
        BY <1>1, <3>1, <3>5 DEF BudgetInv
      <4>2. CASE g = f
        <5>1. InTable(g)'
          BY <3>4, <4>2 DEF InTable
        <5>2. passed'[g] <= pkts'[g]
          BY <1>0, <2>1, <3>1, <3>2, <4>1, <4>2 DEF Seen
        <5> QED BY <5>1, <5>2
      <4>3. CASE g # f
        <5>1. passed'[g] = passed[g] /\ pkts'[g] = pkts[g]
          BY <1>0, <2>1, <3>1, <4>3
        <5>2. InTable(g) <=> \E i \in 1..Len(Released(f)) : Released(f)[i] = g
          BY <2>2, <4>1, <4>3 DEF Rest, InTable
        <5>3. InTable(g)' <=> \E i \in 1..Len(Released(f)) : Released(f)[i] = g
          BY <3>4, <4>3 DEF InTable
        <5> QED BY <4>1, <5>1, <5>2, <5>3
      <4> QED BY <4>2, <4>3
    <3> QED BY <2>1, <3>3, <3>5 DEF BudgetInv
  <2>4. ASSUME NEW app \in Apps \cup {Unknown}, Finalize(p, app) PROVE BudgetInv'
    <3>1. /\ lru' = Released(f) /\ pkts' = [pkts EXCEPT ![f] = 0]
          /\ passed' = [passed EXCEPT ![f] = 0]
          /\ Evicts(f) => "evicted" \in broken'
      BY <2>4 DEF Finalize, f
    <3>2. \A g \in Flows : pkts'[g] < MaxPackets
      BY <1>0, <2>1, <3>1 DEF BudgetInv
    <3>3. ASSUME broken' \cap {"evicted", "reused"} = {}, NEW g \in Flows
          PROVE  IF InTable(g)' THEN passed'[g] <= pkts'[g] ELSE passed'[g] = 0
      <4>1. /\ ~Evicts(f)
            /\ IF InTable(g) THEN passed[g] <= pkts[g] ELSE passed[g] = 0
        BY <1>1, <3>1, <3>3 DEF BudgetInv
      <4>2. CASE g = f
        BY <1>0, <2>1, <3>1, <4>2
      <4>3. CASE g # f
        <5>1. passed'[g] = passed[g] /\ pkts'[g] = pkts[g]
          BY <1>0, <2>1, <3>1, <4>3
        <5>2. InTable(g) <=> \E i \in 1..Len(Released(f)) : Released(f)[i] = g
          BY <2>2, <4>1, <4>3 DEF Rest, InTable
        <5>3. InTable(g)' <=> \E i \in 1..Len(Released(f)) : Released(f)[i] = g
          BY <3>1 DEF InTable
        <5> QED BY <4>1, <5>1, <5>2, <5>3
      <4> QED BY <4>2, <4>3
    <3> QED BY <2>1, <3>2, <3>3 DEF BudgetInv
  <2>5. CASE NotInspected(f)
    BY <1>1, <2>1, <2>5 DEF NotInspected, worker, BudgetInv, InTable
  <2> QED BY <1>3, <2>3, <2>4, <2>5 DEF HandlePacket, f
<1>4. CASE Sweep
  BY <1>4 DEF Sweep, control, BudgetInv
<1>5. ASSUME NEW p \in Policies, Start(p) PROVE BudgetInv'
  <2>1. lru = <<>> /\ lru' = lru /\ pkts' = [f \in Flows |-> 0] /\ daemon' = "up"
    BY <1>5 DEF Start, BudgetInv
  <2>2. UNCHANGED <<passed, broken>>
    BY <1>5 DEF Start, ghosts
  <2> QED BY <1>0, <2>1, <2>2 DEF BudgetInv, InTable
<1>6. CASE WorkerExit \/ Crash
  BY <1>0, <1>6 DEF WorkerExit, Crash, BudgetInv, InTable
<1>7. CASE UNCHANGED <<lru, pkts, passed, broken>> /\ (daemon' = daemon \/ daemon' # "down")
  BY <1>7 DEF BudgetInv, InTable
<1>8. \/ UNCHANGED <<lru, pkts, passed, broken>> /\ (daemon' = daemon \/ daemon' # "down")
      \/ HandlePacket \/ Sweep \/ WorkerExit \/ Crash
      \/ \E f \in Flows : Close(f)
      \/ \E p \in Policies : Start(p)
  BY DEF Next, vars, control, worker, ghosts, Enqueue, ReloadRejected, StorePolicy,
         ReloadBindings, Stop
<1> QED BY <1>2, <1>3, <1>4, <1>5, <1>6, <1>7, <1>8

\* The flow table (flowtable.rs, worker.rs handle_packet): bounded, a flow once,
\* undecided flows only, and a verdict within the budget of packets.
THEOREM TableKept == Spec => []TableSound
<1> DEFINE Inv == Typed /\ NoneLeft /\ OpenInv /\ BudgetInv
<1>1. Init => Inv
  BY InitTyped, InitShape, ControlAssumption DEF Init, OpenInv, BudgetInv, InTable
<1>2. Inv /\ [Next]_vars => Inv'
  BY NextTyped, NextLeft, NextOpen, NextBudget DEF Typed
<1>3. ASSUME Inv PROVE TableSound
  <2>1. Len(lru) <= MaxEntries /\ \A i, j \in 1..Len(lru) : lru[i] = lru[j] => i = j
    BY <1>3 DEF Typed, EntryInv, Distinct
  <2>2. "queued" \notin broken => \A i \in 1..Len(lru) : ~ct[lru[i]].classified
    BY <1>3 DEF OpenInv
  <2>3. ASSUME broken \cap {"evicted", "reused"} = {}, NEW f \in Flows
        PROVE  passed[f] < MaxPackets
    <3>1. /\ pkts[f] < MaxPackets
          /\ IF InTable(f) THEN passed[f] <= pkts[f] ELSE passed[f] = 0
      BY <1>3, <2>3 DEF BudgetInv
    <3>2. pkts[f] \in Nat /\ passed[f] \in Nat /\ MaxPackets \in Nat \ {0}
      BY <1>3, ControlAssumption DEF Typed, TypeOK
    <3> QED BY <3>1, <3>2
  <2> QED BY <2>1, <2>2, <2>3 DEF TableSound
<1> QED BY <1>1, <1>2, <1>3, PTL DEF Spec
=============================================================================
