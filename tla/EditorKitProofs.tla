-------------------------- MODULE EditorKitProofs --------------------------
(***************************************************************************)
(* The diff that all editors share against the parser that all share, for  *)
(* every schema, every configuration and every row: what is written reads  *)
(* back, nothing else changes, and nothing is deleted that is not there.   *)
(***************************************************************************)
EXTENDS EditorKit, SequenceTheorems, TLAPS

-----------------------------------------------------------------------------
(* Paths                                                                   *)

\* A path above another is its prefix.
LEMMA UnderPrefix ==
  ASSUME NEW V, NEW p \in Seq(V), NEW q \in Seq(V)
  PROVE  Under(p, q) <=> Len(p) <= Len(q) /\ \A i \in 1..Len(p) : p[i] = q[i]
<1>0. Len(p) \in Nat /\ Len(q) \in Nat
  OBVIOUS
<1>1. ASSUME Len(p) <= Len(q)
      PROVE  /\ SubSeq(q, 1, Len(p)) \in Seq(V) /\ Len(SubSeq(q, 1, Len(p))) = Len(p)
             /\ \A i \in 1..Len(p) : SubSeq(q, 1, Len(p))[i] = q[i]
  <2>1. \A i \in 1..Len(p) : q[i] \in V
    BY <1>0, <1>1
  <2> QED BY <1>0, <1>1, <2>1, SubSeqProperties
<1>2. ASSUME Len(p) <= Len(q), \A i \in 1..Len(p) : p[i] = q[i] PROVE SubSeq(q, 1, Len(p)) = p
  <2> DEFINE r == SubSeq(q, 1, Len(p))
  <2>1. r \in Seq(V) /\ Len(r) = Len(p) /\ \A i \in 1..Len(p) : r[i] = p[i]
    BY <1>1, <1>2
  <2> HIDE DEF r
  <2>2. r = p
    BY <2>1, SeqEqual
  <2> QED BY <2>2 DEF r
<1> QED BY <1>1, <1>2 DEF Under

\* Being above is an order in which the paths above one path are in a row.
LEMMA UnderOrder ==
  ASSUME NEW V, NEW p \in Seq(V), NEW q \in Seq(V), NEW r \in Seq(V)
  PROVE  /\ Under(p, p)
         /\ Under(p, q) /\ Under(q, p) => p = q
         /\ Under(p, q) /\ Under(q, r) => Under(p, r)
         /\ Under(p, r) /\ Under(q, r) => Under(p, q) \/ Under(q, p)
<1>0. Len(p) \in Nat /\ Len(q) \in Nat /\ Len(r) \in Nat
  OBVIOUS
<1>1. Under(p, p)
  BY <1>0, UnderPrefix
<1>2. ASSUME Under(p, q), Under(q, p) PROVE p = q
  <2>1. Len(p) = Len(q) /\ \A i \in 1..Len(p) : p[i] = q[i]
    BY <1>0, <1>2, UnderPrefix
  <2> QED BY <2>1, SeqEqual
<1>3. ASSUME Under(p, q), Under(q, r) PROVE Under(p, r)
  <2>1. Len(p) <= Len(q) /\ Len(q) <= Len(r) /\ \A i \in 1..Len(p) : p[i] = q[i]
    BY <1>3, UnderPrefix
  <2>2. \A i \in 1..Len(q) : q[i] = r[i]
    BY <1>3, UnderPrefix
  <2>3. Len(p) <= Len(r) /\ \A i \in 1..Len(p) : p[i] = r[i]
    BY <1>0, <2>1, <2>2
  <2> QED BY <2>3, UnderPrefix
<1>4. ASSUME Under(p, r), Under(q, r) PROVE Under(p, q) \/ Under(q, p)
  <2>1. /\ \A i \in 1..Len(p) : p[i] = r[i]
        /\ \A i \in 1..Len(q) : q[i] = r[i]
    BY <1>4, UnderPrefix
  <2>2. CASE Len(p) <= Len(q)
    <3>1. \A i \in 1..Len(p) : p[i] = q[i]
      BY <1>0, <2>1, <2>2
    <3> QED BY <2>2, <3>1, UnderPrefix
  <2>3. CASE Len(q) <= Len(p)
    <3>1. \A i \in 1..Len(q) : q[i] = p[i]
      BY <1>0, <2>1, <2>3
    <3> QED BY <2>3, <3>1, UnderPrefix
  <2> QED BY <1>0, <2>2, <2>3
<1> QED BY <1>1, <1>2, <1>3, <1>4

Comparable(p, q) == Under(p, q) \/ Under(q, p)

\* What is below paths that are apart is apart.
LEMMA StayApart ==
  ASSUME NEW V, NEW x \in Seq(V), NEW y \in Seq(V), NEW p \in Seq(V), NEW q \in Seq(V),
         ~Comparable(x, y), Under(x, p), Under(y, q)
  PROVE  ~Comparable(p, q)
<1>1. ASSUME Under(p, q) PROVE FALSE
  <2>1. Under(x, q)
    BY <1>1, UnderOrder
  <2> QED BY <2>1, UnderOrder DEF Comparable
<1>2. ASSUME Under(q, p) PROVE FALSE
  <2>1. Under(y, p)
    BY <1>2, UnderOrder
  <2> QED BY <2>1, UnderOrder DEF Comparable
<1> QED BY <1>1, <1>2 DEF Comparable

\* The nodes a `set` creates are the ones above its path.
LEMMA NodesAbove ==
  ASSUME NEW V, NEW p \in Seq(V)
  PROVE  /\ Nodes(p) \subseteq Seq(V)
         /\ \A q \in Seq(V) : q \in Nodes(p) <=> Len(q) >= 2 /\ Under(q, p)
<1>0. Len(p) \in Nat
  OBVIOUS
<1>1. ASSUME NEW i \in 2..Len(p)
      PROVE  SubSeq(p, 1, i) \in Seq(V) /\ Len(SubSeq(p, 1, i)) = i
  <2>1. \A j \in 1..i : p[j] \in V
    BY <1>0
  <2> QED BY <1>0, <2>1, SubSeqProperties
<1>2. Nodes(p) \subseteq Seq(V)
  BY <1>1 DEF Nodes
<1>3. ASSUME NEW q \in Nodes(p) PROVE Len(q) >= 2 /\ Under(q, p)
  <2>1. PICK i \in 2..Len(p) : q = SubSeq(p, 1, i)
    BY DEF Nodes
  <2>2. Len(q) = i
    BY <1>1, <2>1
  <2> QED BY <1>0, <2>1, <2>2 DEF Under
<1>4. ASSUME NEW q \in Seq(V), Len(q) >= 2, Under(q, p) PROVE q \in Nodes(p)
  <2>1. Len(q) \in 2..Len(p) /\ SubSeq(p, 1, Len(q)) = q
    BY <1>0, <1>4 DEF Under
  <2> QED BY <2>1 DEF Nodes
<1> QED BY <1>2, <1>3, <1>4

Front(p) == SubSeq(p, 1, Len(p) - 1)

\* The nodes one and two steps below a base.
LEMMA Below ==
  ASSUME NEW V, NEW b \in Seq(V), NEW f \in V, NEW v \in V
  PROVE  /\ b \o <<f>> \in Seq(V) /\ Len(b \o <<f>>) = Len(b) + 1
         /\ b \o <<f, v>> \in Seq(V) /\ Len(b \o <<f, v>>) = Len(b) + 2
         /\ Under(b, b \o <<f>>) /\ Under(b, b \o <<f, v>>) /\ Under(b \o <<f>>, b \o <<f, v>>)
         /\ ~Under(b \o <<f>>, b) /\ ~Under(b \o <<f, v>>, b) /\ ~Under(b \o <<f, v>>, b \o <<f>>)
<1>1. /\ b \o <<f>> \in Seq(V) /\ Len(b \o <<f>>) = Len(b) + 1
      /\ b \o <<f, v>> \in Seq(V) /\ Len(b \o <<f, v>>) = Len(b) + 2
      /\ Len(b) \in Nat
  OBVIOUS
<1>2. /\ \A i \in 1..Len(b) : (b \o <<f>>)[i] = b[i]
      /\ \A i \in 1..Len(b) : (b \o <<f, v>>)[i] = b[i]
      /\ \A i \in 1..(Len(b) + 1) : (b \o <<f>>)[i] = (b \o <<f, v>>)[i]
  OBVIOUS
<1>3. /\ Under(b, b \o <<f>>) /\ Under(b, b \o <<f, v>>) /\ Under(b \o <<f>>, b \o <<f, v>>)
      /\ ~Under(b \o <<f>>, b) /\ ~Under(b \o <<f, v>>, b) /\ ~Under(b \o <<f, v>>, b \o <<f>>)
  <2> DEFINE x == b \o <<f>>  y == b \o <<f, v>>
  <2>1. /\ x \in Seq(V) /\ y \in Seq(V) /\ Len(x) = Len(b) + 1 /\ Len(y) = Len(b) + 2 /\ Len(b) \in Nat
        /\ \A i \in 1..Len(b) : x[i] = b[i] /\ y[i] = b[i]
        /\ \A i \in 1..(Len(b) + 1) : x[i] = y[i]
    BY <1>1, <1>2
  <2> HIDE DEF x, y
  <2>2. Under(b, x) /\ Under(b, y) /\ ~Under(x, b) /\ ~Under(y, b)
    BY <2>1, UnderPrefix
  <2>3. Under(x, y) /\ ~Under(y, x)
    BY <2>1, UnderPrefix
  <2> QED BY <2>2, <2>3 DEF x, y
<1> QED BY <1>1, <1>3

\* A value is one step below its node.
LEMMA ValueFront ==
  ASSUME NEW V, NEW b \in Seq(V), NEW f \in V, NEW v \in V
  PROVE  Front(b \o <<f, v>>) = b \o <<f>>
<1>1. Under(b \o <<f>>, b \o <<f, v>>)
  BY Below
<1>2. Len(b \o <<f, v>>) = Len(b) + 2 /\ Len(b \o <<f>>) = Len(b) + 1 /\ Len(b) \in Nat
  OBVIOUS
<1> QED BY <1>1, <1>2 DEF Front, Under

\* Different children of a base are apart ...
LEMMA ChildrenApart ==
  ASSUME NEW V, NEW b \in Seq(V), NEW f \in V, NEW g \in V
  PROVE  /\ Under(b \o <<f>>, b \o <<g>>) <=> f = g
         /\ Comparable(b \o <<f>>, b \o <<g>>) <=> f = g
<1>1. Under(b \o <<f>>, b \o <<g>>) <=> f = g
  BY DEF Under
<1>2. Under(b \o <<g>>, b \o <<f>>) <=> f = g
  BY DEF Under
<1> QED BY <1>1, <1>2 DEF Comparable

\* ... a value is below its node only ...
LEMMA NodeAndValue ==
  ASSUME NEW V, NEW b \in Seq(V), NEW f \in V, NEW g \in V, NEW w \in V
  PROVE  /\ Under(b \o <<f>>, b \o <<g, w>>) <=> f = g
         /\ ~Under(b \o <<g, w>>, b \o <<f>>)
         /\ Comparable(b \o <<g, w>>, b \o <<f>>) <=> f = g
<1>1. Under(b \o <<f>>, b \o <<g, w>>) <=> f = g
  BY DEF Under
<1>2. ~Under(b \o <<g, w>>, b \o <<f>>)
  BY DEF Under
<1> QED BY <1>1, <1>2 DEF Comparable

\* ... and different values are apart.
LEMMA Values ==
  ASSUME NEW V, NEW b \in Seq(V), NEW f \in V, NEW g \in V, NEW v \in V, NEW w \in V
  PROVE  /\ Under(b \o <<f, v>>, b \o <<g, w>>) <=> f = g /\ v = w
         /\ Comparable(b \o <<f, v>>, b \o <<g, w>>) <=> f = g /\ v = w
<1> DEFINE x == b \o <<f, v>>
           y == b \o <<g, w>>
<1>1. x \in Seq(V) /\ y \in Seq(V) /\ Len(x) = Len(b) + 2 /\ Len(y) = Len(b) + 2 /\ Len(b) \in Nat
  OBVIOUS
<1>2. /\ x[Len(b) + 1] = f /\ x[Len(b) + 2] = v /\ y[Len(b) + 1] = g /\ y[Len(b) + 2] = w
      /\ \A i \in 1..Len(b) : x[i] = b[i] /\ y[i] = b[i]
  OBVIOUS
<1> HIDE DEF x, y
<1>3. Under(x, y) <=> \A i \in 1..(Len(b) + 2) : x[i] = y[i]
  BY <1>1, UnderPrefix
<1>4. Under(y, x) <=> \A i \in 1..(Len(b) + 2) : x[i] = y[i]
  BY <1>1, UnderPrefix
<1>5. (\A i \in 1..(Len(b) + 2) : x[i] = y[i]) <=> f = g /\ v = w
  BY <1>1, <1>2
<1> QED BY <1>3, <1>4, <1>5 DEF Comparable, x, y

-----------------------------------------------------------------------------
(* Configurations and commits                                              *)

\* What is below base b, seen from b.
LEMMA AtBelow ==
  ASSUME NEW V, NEW t \in SUBSET Seq(V), NEW b \in Seq(V)
  PROVE  /\ At(t, b) \subseteq Seq(V) \ {<<>>}
         /\ \A x \in Seq(V) \ {<<>>} : x \in At(t, b) <=> b \o x \in t
<1>0. Len(b) \in Nat
  OBVIOUS
<1>1. ASSUME NEW q \in t, Len(q) > Len(b), SubSeq(q, 1, Len(b)) = b
      PROVE  /\ SubSeq(q, Len(b) + 1, Len(q)) \in Seq(V) \ {<<>>}
             /\ b \o SubSeq(q, Len(b) + 1, Len(q)) = q
  <2> DEFINE x == SubSeq(q, Len(b) + 1, Len(q))
  <2>1. q \in Seq(V) /\ Len(q) \in Nat
    OBVIOUS
  <2>2. \A i \in (Len(b) + 1)..Len(q) : q[i] \in V
    BY <1>0, <2>1
  <2>3. /\ x \in Seq(V) /\ Len(x) = Len(q) - Len(b)
        /\ \A i \in 1..(Len(q) - Len(b)) : x[i] = q[Len(b) + i]
    BY <1>0, <1>1, <2>1, <2>2, SubSeqProperties
  <2>4. \A i \in 1..Len(b) : b[i] = q[i]
    BY <1>0, <1>1, <2>1, UnderPrefix DEF Under
  <2> HIDE DEF x
  <2>5. /\ b \o x \in Seq(V) /\ Len(b \o x) = Len(q)
        /\ \A i \in 1..Len(q) : (b \o x)[i] = IF i <= Len(b) THEN b[i] ELSE x[i - Len(b)]
    BY <1>0, <2>1, <2>3, ConcatProperties
  <2>6. \A i \in 1..Len(q) : (b \o x)[i] = q[i]
    BY <1>0, <2>1, <2>3, <2>4, <2>5
  <2>7. b \o x = q
    BY <2>1, <2>5, <2>6, SeqEqual
  <2>8. x # <<>>
    BY <1>0, <1>1, <2>1, <2>3
  <2> QED BY <2>3, <2>7, <2>8 DEF x
<1>2. ASSUME NEW x \in Seq(V) \ {<<>>}
      PROVE  LET q == b \o x
             IN  Len(q) > Len(b) /\ SubSeq(q, 1, Len(b)) = b /\ SubSeq(q, Len(b) + 1, Len(q)) = x
  <2> DEFINE q == b \o x
             y == SubSeq(q, Len(b) + 1, Len(q))
  <2>1. /\ q \in Seq(V) /\ Len(q) = Len(b) + Len(x) /\ Len(x) \in Nat \ {0}
        /\ \A i \in 1..(Len(b) + Len(x)) : q[i] = IF i <= Len(b) THEN b[i] ELSE x[i - Len(b)]
    BY <1>0, ConcatProperties
  <2> HIDE DEF q
  <2>2. Under(b, q)
    <3>1. Len(b) <= Len(q) /\ \A i \in 1..Len(b) : b[i] = q[i]
      BY <1>0, <2>1
    <3> QED BY <2>1, <3>1, UnderPrefix
  <2>3. \A i \in (Len(b) + 1)..Len(q) : q[i] \in V
    BY <1>0, <2>1
  <2>4. /\ y \in Seq(V) /\ Len(y) = Len(x)
        /\ \A i \in 1..Len(x) : y[i] = q[Len(b) + i]
    BY <1>0, <2>1, <2>3, SubSeqProperties
  <2>5. \A i \in 1..Len(x) : y[i] = x[i]
    BY <1>0, <2>1, <2>4
  <2>6. y = x
    BY <2>4, <2>5, SeqEqual
  <2> QED BY <1>0, <2>1, <2>2, <2>6 DEF Under, q
<1>3. At(t, b) \subseteq Seq(V) \ {<<>>}
  BY <1>1 DEF At
<1>4. ASSUME NEW x \in Seq(V) \ {<<>>}, x \in At(t, b) PROVE b \o x \in t
  BY <1>1, <1>4 DEF At
<1>5. ASSUME NEW x \in Seq(V) \ {<<>>}, b \o x \in t PROVE x \in At(t, b)
  BY <1>2, <1>5 DEF At
<1> QED BY <1>3, <1>4, <1>5

\* The nodes and the values an editor reads at a base.
LEMMA ReadBelow ==
  ASSUME NEW V, NEW t \in SUBSET Seq(V), NEW b \in Seq(V), NEW f \in V
  PROVE  /\ Kids(At(t, b), f) \subseteq V
         /\ \A v \in V : v \in Kids(At(t, b), f) <=> b \o <<f, v>> \in t
         /\ <<f>> \in At(t, b) <=> b \o <<f>> \in t
<1>1. <<f>> \in Seq(V) \ {<<>>}
  OBVIOUS
<1>2. <<f>> \in At(t, b) <=> b \o <<f>> \in t
  BY <1>1, AtBelow
<1>3. ASSUME NEW v \in V PROVE v \in Kids(At(t, b), f) <=> b \o <<f, v>> \in t
  <2>1. <<f, v>> \in Seq(V) \ {<<>>} /\ Len(<<f, v>>) = 2 /\ <<f, v>>[1] = f /\ <<f, v>>[2] = v
    OBVIOUS
  <2>2. <<f, v>> \in At(t, b) <=> b \o <<f, v>> \in t
    BY <2>1, AtBelow
  <2>3. ASSUME NEW q \in At(t, b), Len(q) = 2, q[1] = f, q[2] = v PROVE q = <<f, v>>
    <3>1. q \in Seq(V)
      BY AtBelow
    <3>2. Len(q) = Len(<<f, v>>) /\ \A i \in 1..Len(q) : q[i] = <<f, v>>[i]
      BY <2>1, <2>3
    <3> QED BY <2>1, <3>1, <3>2, SeqEqual
  <2>4. v \in Kids(At(t, b), f) <=> <<f, v>> \in At(t, b)
    BY <2>1, <2>3 DEF Kids
  <2> QED BY <2>2, <2>4
<1>4. Kids(At(t, b), f) \subseteq V
  <2>1. ASSUME NEW q \in At(t, b), Len(q) = 2 PROVE q[2] \in V
    <3>1. q \in Seq(V)
      BY AtBelow
    <3> QED BY <2>1, <3>1, ElementOfSeq
  <2> QED BY <2>1 DEF Kids
<1> QED BY <1>2, <1>3, <1>4

\* Looking below a base in two goes.
LEMMA AtAt ==
  ASSUME NEW V, NEW t \in SUBSET Seq(V), NEW b \in Seq(V), NEW x \in Seq(V) \ {<<>>}
  PROVE  At(At(t, b), x) = At(t, b \o x)
<1>1. At(t, b) \in SUBSET Seq(V) /\ b \o x \in Seq(V)
  BY AtBelow, ConcatProperties
<1>2. At(At(t, b), x) \subseteq Seq(V) \ {<<>>} /\ At(t, b \o x) \subseteq Seq(V) \ {<<>>}
  BY <1>1, AtBelow
<1>3. ASSUME NEW y \in Seq(V) \ {<<>>} PROVE y \in At(At(t, b), x) <=> y \in At(t, b \o x)
  <2>1. y \in At(At(t, b), x) <=> x \o y \in At(t, b)
    BY <1>1, AtBelow
  <2>2. x \o y \in Seq(V) \ {<<>>}
    <3>1. x \o y \in Seq(V) /\ Len(x \o y) = Len(x) + Len(y) /\ Len(x) \in Nat \ {0} /\ Len(y) \in Nat
      BY ConcatProperties
    <3> QED BY <3>1
  <2>3. x \o y \in At(t, b) <=> b \o (x \o y) \in t
    BY <2>2, AtBelow
  <2>4. b \o (x \o y) = (b \o x) \o y
    BY ConcatAssociative
  <2>5. y \in At(t, b \o x) <=> (b \o x) \o y \in t
    BY <1>1, AtBelow
  <2> QED BY <2>1, <2>3, <2>4, <2>5
<1> QED BY <1>2, <1>3

\* A batch whose paths are over V.
IsBatch(c, V) == c.del \subseteq Seq(V) /\ c.put \subseteq Seq(V) /\ c.add \subseteq Seq(V)

\* A commit yields paths again.
LEMMA CommitPaths ==
  ASSUME NEW V, NEW t \in SUBSET Seq(V), NEW c, IsBatch(c, V)
  PROVE  Commit(t, c) \subseteq Seq(V)
<1>1. \A p \in c.put \cup c.add : Nodes(p) \subseteq Seq(V)
  BY NodesAbove DEF IsBatch
<1> QED BY <1>1 DEF Commit

\* What is there after a commit without late deletes.
LEMMA CommitNode ==
  ASSUME NEW V, NEW t \in SUBSET Seq(V), NEW c, IsBatch(c, V), c.late = {},
         NEW q \in Seq(V), Len(q) >= 2
  PROVE  q \in Commit(t, c)
           <=> \/ /\ q \in t
                  /\ \A p \in c.del : ~Under(p, q)
                  /\ \A p \in c.put : ~Under(Front(p), q)
               \/ \E p \in c.put \cup c.add : Under(q, p)
<1>1. \A p \in c.put \cup c.add : q \in Nodes(p) <=> Under(q, p)
  BY NodesAbove DEF IsBatch
<1> QED BY <1>1 DEF Commit, Front

\* A commit, of any batch, leaves no node without the ones above it (the
\* configuration stays a tree).
THEOREM CommitRooted ==
  ASSUME NEW V, NEW t \in SUBSET Seq(V), NEW c, IsBatch(c, V), c.late \subseteq Seq(V), Rooted(t)
  PROVE  Rooted(Commit(t, c))
<1> DEFINE kept == {q \in t : \A p \in c.del : ~Under(p, q)}
           rest == {q \in kept : \A p \in c.put : ~Under(Front(p), q)}
           done == rest \cup UNION {Nodes(p) : p \in c.put \cup c.add}
<1>1. Commit(t, c) = {q \in done : \A p \in c.late : ~Under(p, q)}
  BY DEF Commit, Front
<1>2. \A p \in c.put : Front(p) \in Seq(V)
  BY SubSeqProperties DEF IsBatch, Front
<1>3. done \subseteq Seq(V)
  BY NodesAbove DEF IsBatch
<1>4. ASSUME NEW q \in Commit(t, c), NEW r \in Nodes(q) PROVE r \in Commit(t, c)
  <2>1. q \in Seq(V) /\ q \in done /\ \A p \in c.late : ~Under(p, q)
    BY <1>1, <1>3
  <2>2. r \in Seq(V) /\ Len(r) >= 2 /\ Under(r, q)
    BY <2>1, NodesAbove
  <2>3. \A p \in c.late : ~Under(p, r)
    BY <2>1, <2>2, UnderOrder
  <2>4. CASE q \in rest
    <3>1. q \in t /\ (\A p \in c.del : ~Under(p, q)) /\ (\A p \in c.put : ~Under(Front(p), q))
      BY <2>4
    <3>2. r \in t
      BY <3>1 DEF Rooted
    <3>3. \A p \in c.del : ~Under(p, r)
      BY <2>1, <2>2, <3>1, UnderOrder DEF IsBatch
    <3>4. \A p \in c.put : ~Under(Front(p), r)
      BY <1>2, <2>1, <2>2, <3>1, UnderOrder
    <3> QED BY <1>1, <2>3, <3>2, <3>3, <3>4
  <2>5. ASSUME NEW p \in c.put \cup c.add, q \in Nodes(p) PROVE r \in Commit(t, c)
    <3>1. p \in Seq(V) /\ Under(q, p)
      BY <2>1, <2>5, NodesAbove DEF IsBatch
    <3>2. r \in Nodes(p)
      BY <2>1, <2>2, <3>1, UnderOrder, NodesAbove
    <3>3. r \in done
      BY <3>2
    <3> QED BY <1>1, <2>3, <3>3
  <2> QED BY <2>1, <2>4, <2>5
<1> QED BY <1>4 DEF Rooted

\* The path one step up.
LEMMA FrontAbove ==
  ASSUME NEW V, NEW p \in Seq(V), p # <<>>, NEW q \in Seq(V)
  PROVE  /\ Front(p) \in Seq(V) /\ Under(Front(p), p)
         /\ Under(q, p) => q = p \/ Under(q, Front(p))
<1>0. Len(p) \in Nat \ {0} /\ Len(q) \in Nat
  OBVIOUS
<1>1. /\ Front(p) \in Seq(V) /\ Len(Front(p)) = Len(p) - 1
      /\ \A i \in 1..(Len(p) - 1) : Front(p)[i] = p[i]
  <2>1. 1 \in Int /\ Len(p) - 1 \in Int /\ \A i \in 1..(Len(p) - 1) : p[i] \in V
    BY <1>0
  <2>2. /\ Front(p) \in Seq(V)
        /\ Len(Front(p)) = IF 1 <= Len(p) - 1 THEN Len(p) - 1 - 1 + 1 ELSE 0
        /\ \A i \in 1..(Len(p) - 1 - 1 + 1) : Front(p)[i] = p[1 + i - 1]
    BY <2>1, SubSeqProperties DEF Front
  <2>3. \A i \in 1..(Len(p) - 1) : Front(p)[i] = p[i]
    BY <1>0, <2>2
  <2>4. Len(Front(p)) = Len(p) - 1
    <3>1. CASE Len(p) = 1
      BY <2>2, <3>1
    <3>2. CASE 1 <= Len(p) - 1
      BY <1>0, <2>2, <3>2
    <3>3. \A n \in Nat \ {0} : n = 1 \/ 1 <= n - 1
      OBVIOUS
    <3> QED BY <1>0, <3>1, <3>2, <3>3, Zenon
  <2> QED BY <2>2, <2>3, <2>4
<1>2. Under(Front(p), p)
  <2>1. Len(Front(p)) <= Len(p) /\ \A i \in 1..Len(Front(p)) : Front(p)[i] = p[i]
    BY <1>0, <1>1
  <2> QED BY <1>1, <2>1, UnderPrefix
<1>3. ASSUME Under(q, p), q # p PROVE Under(q, Front(p))
  <2>1. Len(q) <= Len(p) /\ \A i \in 1..Len(q) : q[i] = p[i]
    BY <1>3, UnderPrefix
  <2>2. Len(q) # Len(p)
    BY <1>3, <2>1, SeqEqual
  <2>3. Len(q) <= Len(Front(p)) /\ \A i \in 1..Len(q) : q[i] = Front(p)[i]
    BY <1>0, <1>1, <2>1, <2>2
  <2> QED BY <1>1, <2>3, UnderPrefix
<1> QED BY <1>1, <1>2, <1>3

-----------------------------------------------------------------------------
(* The flat fields                                                         *)

\* The fields a diff deletes, sets and switches on.
Dropped(s, live, u) ==
  {g \in s.leaf : u[g] = None /\ live[g] # None} \cup {g \in s.flag : live[g] /\ ~u[g]}
Written(s, live, u) ==
  {g \in s.leaf \cup DOMAIN s.pick : u[g] # None /\ u[g] # live[g]} \cup {g \in s.secret : u[g] # None}
Raised(s, live, u) == {g \in s.flag : u[g] /\ ~live[g]}

\* The commands of a diff, in these terms.
IsDel(p, b, s, live, u) ==
  \/ \E f \in Dropped(s, live, u) : p = b \o <<f>>
  \/ \E f \in s.multi : \E v \in live[f] \ u[f] : p = b \o <<f, v>>
IsPut(p, b, s, live, u) == \E f \in Written(s, live, u) : p = b \o <<f, u[f]>>
IsAdd(p, b, s, live, u) ==
  \/ \E f \in s.multi : \E v \in u[f] \ live[f] : p = b \o <<f, v>>
  \/ \E f \in Raised(s, live, u) : p = b \o <<f>>

\* A batch has the parts it is made of.
LEMMA BatchParts ==
  ASSUME NEW D, NEW P, NEW A
  PROVE  /\ Batch(D, P, A).del = D /\ Batch(D, P, A).put = P
         /\ Batch(D, P, A).add = A /\ Batch(D, P, A).late = {}
BY DEF Batch, NoCommands

\* A diff sends these commands and no others.
LEMMA FlatParts ==
  ASSUME NEW b, NEW s, NEW live, NEW u
  PROVE  /\ \A p : p \in FlatDiff(b, s, live, u).del <=> IsDel(p, b, s, live, u)
         /\ \A p : p \in FlatDiff(b, s, live, u).put <=> IsPut(p, b, s, live, u)
         /\ \A p : p \in FlatDiff(b, s, live, u).add <=> IsAdd(p, b, s, live, u)
         /\ FlatDiff(b, s, live, u).late = {}
<1> DEFINE D1 == {b \o <<f>> : f \in Dropped(s, live, u)}
           D2 == UNION {{b \o <<f, v>> : v \in live[f] \ u[f]} : f \in s.multi}
           P == {b \o <<f, u[f]>> : f \in Written(s, live, u)}
           A1 == UNION {{b \o <<f, v>> : v \in u[f] \ live[f]} : f \in s.multi}
           A2 == {b \o <<f>> : f \in Raised(s, live, u)}
<1>1. /\ FlatDiff(b, s, live, u).del = D1 \cup D2
      /\ FlatDiff(b, s, live, u).put = P
      /\ FlatDiff(b, s, live, u).add = A2 \cup A1
      /\ FlatDiff(b, s, live, u).late = {}
  <2>1. FlatDiff(b, s, live, u) = Batch(D1 \cup D2, P, A2 \cup A1)
    BY DEF FlatDiff, Dropped, Written, Raised
  <2> HIDE DEF D1, D2, P, A1, A2
  <2> QED BY <2>1, BatchParts
<1>2. ASSUME NEW p PROVE p \in D1 <=> \E f \in Dropped(s, live, u) : p = b \o <<f>>
  OBVIOUS
<1>3. ASSUME NEW p PROVE p \in P <=> \E f \in Written(s, live, u) : p = b \o <<f, u[f]>>
  OBVIOUS
<1>4. ASSUME NEW p PROVE p \in A2 <=> \E f \in Raised(s, live, u) : p = b \o <<f>>
  OBVIOUS
<1>5. ASSUME NEW p PROVE p \in D2 <=> \E f \in s.multi : \E v \in live[f] \ u[f] : p = b \o <<f, v>>
  <2>1. ASSUME p \in D2 PROVE \E f \in s.multi : \E v \in live[f] \ u[f] : p = b \o <<f, v>>
    BY <2>1
  <2>2. ASSUME NEW f \in s.multi, NEW v \in live[f] \ u[f], p = b \o <<f, v>> PROVE p \in D2
    BY <2>2
  <2> QED BY <2>1, <2>2
<1>6. ASSUME NEW p PROVE p \in A1 <=> \E f \in s.multi : \E v \in u[f] \ live[f] : p = b \o <<f, v>>
  <2>1. ASSUME p \in A1 PROVE \E f \in s.multi : \E v \in u[f] \ live[f] : p = b \o <<f, v>>
    BY <2>1
  <2>2. ASSUME NEW f \in s.multi, NEW v \in u[f] \ live[f], p = b \o <<f, v>> PROVE p \in A1
    BY <2>2
  <2> QED BY <2>1, <2>2
<1> HIDE DEF D1, D2, P, A1, A2
<1>7. \A p : p \in D1 \cup D2 <=> IsDel(p, b, s, live, u)
  BY <1>2, <1>5 DEF IsDel
<1>8. \A p : p \in P <=> IsPut(p, b, s, live, u)
  BY <1>3 DEF IsPut
<1>9. \A p : p \in A2 \cup A1 <=> IsAdd(p, b, s, live, u)
  BY <1>4, <1>6 DEF IsAdd
<1> QED BY <1>1, <1>7, <1>8, <1>9

\* The fields of a schema are nodes, and those of a row have their types.
FlatTyped(s, u, V) ==
  /\ \A f \in s.leaf \cup s.secret : u[f] \in V
  /\ \A f \in DOMAIN s.pick : u[f] \in V \ {None}
  /\ \A f \in s.multi : u[f] \subseteq V
  /\ \A f \in s.flag : u[f] \in BOOLEAN

\* A path that meets none of the fields below base b.
Away(p, b, s) == \A f \in Flat(s) : ~Comparable(p, b \o <<f>>)

\* Below base b, batch c is the diff of the flat fields and nothing else.
Includes(c, b, s, live, u) ==
  LET d == FlatDiff(b, s, live, u)
  IN  /\ c.late = {}
      /\ d.del \subseteq c.del /\ \A p \in c.del \ d.del : Away(p, b, s)
      /\ d.put \subseteq c.put /\ \A p \in c.put \ d.put : p # <<>> /\ Away(Front(p), b, s)
      /\ d.add \subseteq c.add /\ \A p \in c.add \ d.add : Away(p, b, s) \/ Under(p, b)

\* Such a batch, for a row u of a schema over V.
Setting(V, b, s, live, u, c) ==
  /\ b \in Seq(V) /\ b # <<>> /\ Flat(s) \subseteq V
  /\ FlatTyped(s, u, V) /\ \A f \in s.multi : live[f] \subseteq V
  /\ IsBatch(c, V) /\ Includes(c, b, s, live, u)

\* What its commands do to the node of field f and to value w of it.
NodeEffects(b, s, live, u, c, f) ==
  /\ (\E p \in c.del : Under(p, b \o <<f>>)) <=> f \in Dropped(s, live, u)
  /\ (\E p \in c.put : Under(Front(p), b \o <<f>>)) <=> f \in Written(s, live, u)
  /\ (\E p \in c.put : Under(b \o <<f>>, p)) <=> f \in Written(s, live, u)
  /\ (\E p \in c.add : Under(b \o <<f>>, p))
       <=> f \in Raised(s, live, u) \/ (f \in s.multi /\ u[f] \ live[f] # {})
ValueEffects(b, s, live, u, c, f, w) ==
  /\ (\E p \in c.del : Under(p, b \o <<f, w>>))
       <=> f \in Dropped(s, live, u) \/ (f \in s.multi /\ w \in live[f] \ u[f])
  /\ (\E p \in c.put : Under(Front(p), b \o <<f, w>>)) <=> f \in Written(s, live, u)
  /\ (\E p \in c.put : Under(b \o <<f, w>>, p)) <=> f \in Written(s, live, u) /\ w = u[f]
  /\ (\E p \in c.add : Under(b \o <<f, w>>, p)) <=> f \in s.multi /\ w \in u[f] \ live[f]

\* No command outside the diff interferes, and no two of the diff do.
LEMMA Meets ==
  ASSUME NEW V, NEW b, NEW s, NEW live, NEW u, NEW c, Setting(V, b, s, live, u, c),
         NEW f \in Flat(s), NEW w \in V
  PROVE  NodeEffects(b, s, live, u, c, f) /\ ValueEffects(b, s, live, u, c, f, w)
<1>0. /\ b \in Seq(V) /\ b # <<>> /\ Flat(s) \subseteq V
      /\ FlatTyped(s, u, V) /\ (\A g \in s.multi : live[g] \subseteq V)
      /\ IsBatch(c, V) /\ Includes(c, b, s, live, u)
  BY DEF Setting
<1> DEFINE x == b \o <<f>>
           y == b \o <<f, w>>
           D == Dropped(s, live, u)
           W == Written(s, live, u)
           R == Raised(s, live, u)
           d == FlatDiff(b, s, live, u)
<1>1. f \in V /\ x \in Seq(V) /\ y \in Seq(V) /\ Under(x, y) /\ Under(b, x) /\ ~Under(x, b) /\ ~Under(y, b)
  BY <1>0, Below
<1>2. D \subseteq Flat(s) /\ W \subseteq Flat(s) /\ R \subseteq Flat(s) /\ s.multi \subseteq Flat(s)
  BY DEF Dropped, Written, Raised, Flat
<1>3. \A g \in W : g \in V /\ u[g] \in V
  BY <1>0, <1>2 DEF Written, FlatTyped
<1>4. \A g \in s.multi : g \in V /\ u[g] \subseteq V /\ live[g] \subseteq V
  BY <1>0, <1>2 DEF FlatTyped
<1>5. ASSUME NEW p
      PROVE  /\ p \in d.del <=> \/ \E g \in D : p = b \o <<g>>
                                \/ \E g \in s.multi : \E v \in live[g] \ u[g] : p = b \o <<g, v>>
             /\ p \in d.put <=> \E g \in W : p = b \o <<g, u[g]>>
             /\ p \in d.add <=> \/ \E g \in s.multi : \E v \in u[g] \ live[g] : p = b \o <<g, v>>
                                \/ \E g \in R : p = b \o <<g>>
  <2>1. /\ p \in d.del <=> IsDel(p, b, s, live, u)
        /\ p \in d.put <=> IsPut(p, b, s, live, u)
        /\ p \in d.add <=> IsAdd(p, b, s, live, u)
    BY FlatParts
  <2> QED BY <2>1, Zenon DEF IsDel, IsPut, IsAdd
<1> HIDE DEF x, y, D, W, R, d
<1>6. /\ d.del \subseteq c.del /\ d.put \subseteq c.put /\ d.add \subseteq c.add
      /\ \A p \in c.del \ d.del : Away(p, b, s)
      /\ \A p \in c.put \ d.put : p # <<>> /\ Away(Front(p), b, s)
      /\ \A p \in c.add \ d.add : Away(p, b, s) \/ Under(p, b)
  BY <1>0 DEF Includes, d
<1>7. c.del \subseteq Seq(V) /\ c.put \subseteq Seq(V) /\ c.add \subseteq Seq(V)
  BY <1>0 DEF IsBatch
<1>8. ASSUME NEW p \in Seq(V), Away(p, b, s)
      PROVE  ~Under(p, x) /\ ~Under(x, p) /\ ~Under(p, y) /\ ~Under(y, p)
  <2>1. ~Under(p, x) /\ ~Under(x, p)
    BY <1>8 DEF Away, Comparable, x
  <2>2. ~Under(p, y)
    BY <1>0, <1>1, <2>1, UnderOrder
  <2>3. ~Under(y, p)
    BY <1>0, <1>1, <2>1, UnderOrder
  <2> QED BY <2>1, <2>2, <2>3
<1>9. ASSUME NEW p \in c.put \ d.put
      PROVE  ~Under(Front(p), x) /\ ~Under(Front(p), y) /\ ~Under(x, p) /\ ~Under(y, p)
  <2>1. p \in Seq(V) /\ p # <<>> /\ Away(Front(p), b, s)
    BY <1>6, <1>7
  <2>2. Front(p) \in Seq(V)
    BY <2>1, FrontAbove
  <2>3. ~Under(Front(p), x) /\ ~Under(x, Front(p)) /\ ~Under(Front(p), y) /\ ~Under(y, Front(p))
    BY <1>8, <2>1, <2>2
  <2>4. p # x
    BY <1>1, <2>1, <2>3, FrontAbove
  <2>5. p # y
    BY <1>1, <2>1, <2>3, FrontAbove
  <2> QED BY <1>1, <2>1, <2>3, <2>4, <2>5, FrontAbove
<1>10. ASSUME NEW p \in c.add \ d.add PROVE ~Under(x, p) /\ ~Under(y, p)
  <2>1. CASE Away(p, b, s)
    BY <1>7, <1>8, <2>1
  <2>2. CASE Under(p, b)
    <3>1. p \in Seq(V)
      BY <1>7
    <3> QED BY <1>0, <1>1, <2>2, <3>1, UnderOrder
  <2> QED BY <1>6, <2>1, <2>2
\* One command at a time: a field, or a value of one, against x and y.
<1>11. ASSUME NEW g \in V PROVE
         /\ Under(b \o <<g>>, x) <=> g = f
         /\ Under(b \o <<g>>, y) <=> g = f
         /\ Under(x, b \o <<g>>) <=> g = f
         /\ ~Under(y, b \o <<g>>)
  <2>1. Under(b \o <<g>>, b \o <<f>>) <=> g = f
    BY <1>0, <1>1, ChildrenApart
  <2>2. Under(b \o <<f>>, b \o <<g>>) <=> g = f
    BY <1>0, <1>1, ChildrenApart
  <2>3. Under(b \o <<g>>, b \o <<f, w>>) <=> g = f
    BY <1>0, <1>1, NodeAndValue
  <2>4. ~Under(b \o <<f, w>>, b \o <<g>>)
    BY <1>0, <1>1, NodeAndValue
  <2> QED BY <2>1, <2>2, <2>3, <2>4 DEF x, y
<1>12. ASSUME NEW g \in V, NEW v \in V PROVE
         /\ ~Under(b \o <<g, v>>, x)
         /\ Under(b \o <<g, v>>, y) <=> g = f /\ v = w
         /\ Under(x, b \o <<g, v>>) <=> g = f
         /\ Under(y, b \o <<g, v>>) <=> g = f /\ v = w
         /\ Front(b \o <<g, v>>) = b \o <<g>>
  <2>1. ~Under(b \o <<g, v>>, b \o <<f>>)
    BY <1>0, <1>1, NodeAndValue
  <2>2. Under(b \o <<g, v>>, b \o <<f, w>>) <=> g = f /\ v = w
    BY <1>0, <1>1, Values
  <2>3. Under(b \o <<f>>, b \o <<g, v>>) <=> g = f
    BY <1>0, <1>1, NodeAndValue
  <2>4. Under(b \o <<f, w>>, b \o <<g, v>>) <=> g = f /\ v = w
    BY <1>0, <1>1, Values
  <2>5. Front(b \o <<g, v>>) = b \o <<g>>
    BY <1>0, ValueFront
  <2> QED BY <2>1, <2>2, <2>3, <2>4, <2>5 DEF x, y
<1>13. \A p \in c.del : Under(p, x) <=> \E g \in D : g = f /\ p = b \o <<g>>
  <2>1. ASSUME NEW g \in D PROVE Under(b \o <<g>>, x) <=> g = f
    BY <1>0, <1>2, <1>11
  <2>2. ASSUME NEW g \in s.multi, NEW v \in live[g] \ u[g] PROVE ~Under(b \o <<g, v>>, x)
    BY <1>4, <1>12
  <2>3. ASSUME NEW p \in c.del \ d.del PROVE ~Under(p, x)
    BY <1>6, <1>7, <1>8
  <2>4. ASSUME NEW p \in d.del PROVE Under(p, x) <=> \E g \in D : g = f /\ p = b \o <<g>>
    <3>1. CASE \E g \in D : p = b \o <<g>>
      <4>1. PICK g \in D : p = b \o <<g>>
        BY <3>1
      <4>2. ASSUME NEW h \in D, h = f, p = b \o <<h>> PROVE Under(p, x)
        BY <2>1, <4>2
      <4> QED BY <2>1, <4>1, <4>2
    <3>2. CASE \E g \in s.multi : \E v \in live[g] \ u[g] : p = b \o <<g, v>>
      <4>1. ~Under(p, x)
        BY <2>2, <3>2
      <4> QED BY <2>1, <4>1
    <3> QED BY <1>5, <3>1, <3>2
  <2>5. ASSUME NEW g \in D PROVE b \o <<g>> \in d.del
    BY <1>5
  <2> QED BY <2>3, <2>4, <2>5
<1>14. (\E p \in c.del : Under(p, x)) <=> f \in D
  <2>1. f \in D => b \o <<f>> \in c.del
    BY <1>5, <1>6
  <2> QED BY <1>13, <2>1
<1>15. (\E p \in c.del : Under(p, y)) <=> f \in D \/ (f \in s.multi /\ w \in live[f] \ u[f])
  <2>1. ASSUME NEW g \in D PROVE Under(b \o <<g>>, y) <=> g = f
    BY <1>0, <1>2, <1>11
  <2>2. ASSUME NEW g \in s.multi, NEW v \in live[g] \ u[g] PROVE Under(b \o <<g, v>>, y) <=> g = f /\ v = w
    BY <1>4, <1>12
  <2>3. ASSUME NEW p \in c.del \ d.del PROVE ~Under(p, y)
    BY <1>6, <1>7, <1>8
  <2>4. ASSUME NEW p \in c.del, Under(p, y) PROVE f \in D \/ (f \in s.multi /\ w \in live[f] \ u[f])
    <3>1. p \in d.del
      BY <2>3, <2>4
    <3>2. CASE \E g \in D : p = b \o <<g>>
      BY <2>1, <2>4, <3>2
    <3>3. CASE \E g \in s.multi : \E v \in live[g] \ u[g] : p = b \o <<g, v>>
      BY <2>2, <2>4, <3>3
    <3> QED BY <1>5, <3>1, <3>2, <3>3
  <2>5. ASSUME f \in D PROVE \E p \in c.del : Under(p, y)
    <3>1. b \o <<f>> \in c.del
      BY <1>5, <1>6, <2>5
    <3> QED BY <2>1, <2>5, <3>1
  <2>6. ASSUME f \in s.multi, w \in live[f] \ u[f] PROVE \E p \in c.del : Under(p, y)
    <3>1. b \o <<f, w>> \in c.del
      BY <1>5, <1>6, <2>6
    <3> QED BY <2>2, <2>6, <3>1
  <2> QED BY <2>4, <2>5, <2>6
<1>16. ASSUME NEW p \in c.put
       PROVE  /\ Under(Front(p), x) <=> f \in W /\ p = b \o <<f, u[f]>>
              /\ Under(Front(p), y) <=> f \in W /\ p = b \o <<f, u[f]>>
              /\ Under(x, p) <=> f \in W /\ p = b \o <<f, u[f]>>
              /\ Under(y, p) <=> f \in W /\ w = u[f] /\ p = b \o <<f, u[f]>>
  <2>1. CASE p \in d.put
    <3>1. PICK g \in W : p = b \o <<g, u[g]>>
      BY <1>5, <2>1
    <3>2. g \in V /\ u[g] \in V
      BY <1>3
    <3>3. /\ Front(p) = b \o <<g>>
          /\ Under(x, p) <=> g = f
          /\ Under(y, p) <=> g = f /\ u[g] = w
      BY <1>12, <3>1, <3>2
    <3>4. (Under(Front(p), x) <=> g = f) /\ (Under(Front(p), y) <=> g = f)
      BY <1>11, <3>2, <3>3
    <3>5. f \in W /\ p = b \o <<f, u[f]>> => f = g
      <4>1. SUFFICES ASSUME f \in W, b \o <<g, u[g]>> = b \o <<f, u[f]>> PROVE f = g
        BY <3>1
      <4>2. u[f] \in V
        BY <1>3, <4>1
      <4>3. b \o <<f, u[f]>> \in Seq(V)
        BY <1>1, <4>2, <1>0, Below
      <4>4. Under(b \o <<f, u[f]>>, b \o <<f, u[f]>>)
        BY <1>0, <4>3, UnderOrder
      <4> QED BY <1>0, <1>1, <3>2, <4>1, <4>2, <4>4, Values
    <3> QED BY <3>1, <3>3, <3>4, <3>5
  <2>2. CASE p \notin d.put
    <3>1. ~(f \in W /\ p = b \o <<f, u[f]>>)
      BY <1>5, <2>2
    <3> QED BY <1>9, <2>2, <3>1
  <2> QED BY <2>1, <2>2
<1>17. f \in W => b \o <<f, u[f]>> \in c.put
  BY <1>5, <1>6
<1>18. (\E p \in c.add : Under(x, p)) <=> f \in R \/ (f \in s.multi /\ u[f] \ live[f] # {})
  <2>1. ASSUME NEW g \in R PROVE Under(x, b \o <<g>>) <=> g = f
    BY <1>0, <1>2, <1>11
  <2>2. ASSUME NEW g \in s.multi, NEW v \in u[g] \ live[g] PROVE Under(x, b \o <<g, v>>) <=> g = f
    BY <1>4, <1>12
  <2>3. ASSUME NEW p \in c.add, Under(x, p) PROVE f \in R \/ (f \in s.multi /\ u[f] \ live[f] # {})
    <3>1. p \in d.add
      BY <1>10, <2>3
    <3>2. CASE \E g \in R : p = b \o <<g>>
      BY <2>1, <2>3, <3>2
    <3>3. CASE \E g \in s.multi : \E v \in u[g] \ live[g] : p = b \o <<g, v>>
      BY <2>2, <2>3, <3>3
    <3> QED BY <1>5, <3>1, <3>2, <3>3
  <2>4. ASSUME f \in R PROVE \E p \in c.add : Under(x, p)
    <3>1. b \o <<f>> \in c.add
      BY <1>5, <1>6, <2>4
    <3> QED BY <2>1, <2>4, <3>1
  <2>5. ASSUME f \in s.multi, NEW v \in u[f] \ live[f] PROVE \E p \in c.add : Under(x, p)
    <3>1. b \o <<f, v>> \in c.add
      BY <1>5, <1>6, <2>5
    <3> QED BY <2>2, <2>5, <3>1
  <2> QED BY <2>3, <2>4, <2>5
<1>19. (\E p \in c.add : Under(y, p)) <=> f \in s.multi /\ w \in u[f] \ live[f]
  <2>1. ASSUME NEW g \in R PROVE ~Under(y, b \o <<g>>)
    BY <1>0, <1>2, <1>11
  <2>2. ASSUME NEW g \in s.multi, NEW v \in u[g] \ live[g] PROVE Under(y, b \o <<g, v>>) <=> g = f /\ v = w
    BY <1>4, <1>12
  <2>3. ASSUME NEW p \in c.add, Under(y, p) PROVE f \in s.multi /\ w \in u[f] \ live[f]
    <3>1. p \in d.add
      BY <1>10, <2>3
    <3>2. CASE \E g \in R : p = b \o <<g>>
      BY <2>1, <2>3, <3>2
    <3>3. CASE \E g \in s.multi : \E v \in u[g] \ live[g] : p = b \o <<g, v>>
      BY <2>2, <2>3, <3>3
    <3> QED BY <1>5, <3>1, <3>2, <3>3
  <2>4. ASSUME f \in s.multi, w \in u[f] \ live[f] PROVE \E p \in c.add : Under(y, p)
    <3>1. b \o <<f, w>> \in c.add
      BY <1>5, <1>6, <2>4
    <3> QED BY <2>2, <2>4, <3>1
  <2> QED BY <2>3, <2>4
<1> QED BY <1>14, <1>15, <1>16, <1>17, <1>18, <1>19 DEF x, y, D, W, R, NodeEffects, ValueEffects

\* Row live has what t has at base b.  (A pick that is None is one of a row
\* that is not there: it differs from every entry.)
Reads(t, b, s, live) ==
  /\ \A f \in s.leaf : live[f] = Str(At(t, b), f, None)
  /\ \A f \in DOMAIN s.pick : live[f] \in {None, Str(At(t, b), f, s.pick[f])}
  /\ \A f \in s.multi : live[f] = Kids(At(t, b), f)
  /\ \A f \in s.flag : live[f] = (<<f>> \in At(t, b))

\* Field f of c, the part of a configuration at a base, against C, what a
\* commit made of it: its node and its values.
NodeAfter(c, C, s, live, u, f) ==
  <<f>> \in C <=> \/ <<f>> \in c /\ f \notin Dropped(s, live, u)
                  \/ f \in Written(s, live, u)
                  \/ f \in Raised(s, live, u)
                  \/ f \in s.multi /\ u[f] \ live[f] # {}
ValueAfter(c, C, s, live, u, f, w) ==
  w \in Kids(C, f) <=> \/ /\ w \in Kids(c, f)
                          /\ f \notin Dropped(s, live, u) /\ f \notin Written(s, live, u)
                          /\ ~(f \in s.multi /\ w \in live[f] \ u[f])
                       \/ f \in Written(s, live, u) /\ w = u[f]
                       \/ f \in s.multi /\ w \in u[f] \ live[f]

\* What is at the node of a field after a commit, and what its values are.
LEMMA FieldAfter ==
  ASSUME NEW V, NEW t \in SUBSET Seq(V), NEW b, NEW s, NEW live, NEW u, NEW c,
         Setting(V, b, s, live, u, c), NEW f \in Flat(s)
  PROVE  /\ NodeAfter(At(t, b), At(Commit(t, c), b), s, live, u, f)
         /\ \A w \in V : ValueAfter(At(t, b), At(Commit(t, c), b), s, live, u, f, w)
         /\ Kids(At(t, b), f) \subseteq V /\ Kids(At(Commit(t, c), b), f) \subseteq V
<1> DEFINE T == Commit(t, c)
<1>1. b \in Seq(V) /\ b # <<>> /\ IsBatch(c, V) /\ c.late = {} /\ f \in V
  BY DEF Setting, Includes
<1>2. Len(b) \in Nat \ {0} /\ T \in SUBSET Seq(V)
  BY <1>1, CommitPaths
<1> HIDE DEF T
<1>3. /\ Kids(At(T, b), f) \subseteq V /\ (\A v \in V : v \in Kids(At(T, b), f) <=> b \o <<f, v>> \in T)
      /\ <<f>> \in At(T, b) <=> b \o <<f>> \in T
  BY <1>1, <1>2, ReadBelow
<1>6. /\ Kids(At(t, b), f) \subseteq V /\ (\A v \in V : v \in Kids(At(t, b), f) <=> b \o <<f, v>> \in t)
      /\ <<f>> \in At(t, b) <=> b \o <<f>> \in t
  BY <1>1, ReadBelow
<1>4. ASSUME NEW w \in V
      PROVE  b \o <<f, w>> \in T
               <=> \/ /\ b \o <<f, w>> \in t
                      /\ f \notin Dropped(s, live, u) /\ f \notin Written(s, live, u)
                      /\ ~(f \in s.multi /\ w \in live[f] \ u[f])
                   \/ f \in Written(s, live, u) /\ w = u[f]
                   \/ f \in s.multi /\ w \in u[f] \ live[f]
  <2>1. b \o <<f, w>> \in Seq(V) /\ Len(b \o <<f, w>>) >= 2
    BY <1>1, <1>2, Below
  <2>2. b \o <<f, w>> \in T
           <=> \/ /\ b \o <<f, w>> \in t
                  /\ ~\E p \in c.del : Under(p, b \o <<f, w>>)
                  /\ ~\E p \in c.put : Under(Front(p), b \o <<f, w>>)
               \/ \E p \in c.put : Under(b \o <<f, w>>, p)
               \/ \E p \in c.add : Under(b \o <<f, w>>, p)
    BY <1>1, <2>1, CommitNode DEF T
  <2>3. /\ (\E p \in c.del : Under(p, b \o <<f, w>>))
             <=> f \in Dropped(s, live, u) \/ (f \in s.multi /\ w \in live[f] \ u[f])
        /\ (\E p \in c.put : Under(Front(p), b \o <<f, w>>)) <=> f \in Written(s, live, u)
        /\ (\E p \in c.put : Under(b \o <<f, w>>, p)) <=> f \in Written(s, live, u) /\ w = u[f]
        /\ (\E p \in c.add : Under(b \o <<f, w>>, p)) <=> f \in s.multi /\ w \in u[f] \ live[f]
    BY Meets DEF ValueEffects
  <2> QED BY <2>2, <2>3
<1>5. b \o <<f>> \in T
        <=> \/ b \o <<f>> \in t /\ f \notin Dropped(s, live, u)
            \/ f \in Written(s, live, u) \/ f \in Raised(s, live, u)
            \/ f \in s.multi /\ u[f] \ live[f] # {}
  <2>0. PICK w : w \in V
    BY <1>1
  <2>1. b \o <<f>> \in Seq(V) /\ Len(b \o <<f>>) >= 2
    BY <1>1, <1>2, Below
  <2>2. b \o <<f>> \in T
           <=> \/ /\ b \o <<f>> \in t
                  /\ ~\E p \in c.del : Under(p, b \o <<f>>)
                  /\ ~\E p \in c.put : Under(Front(p), b \o <<f>>)
               \/ \E p \in c.put : Under(b \o <<f>>, p)
               \/ \E p \in c.add : Under(b \o <<f>>, p)
    BY <1>1, <2>1, CommitNode DEF T
  <2>3. /\ (\E p \in c.del : Under(p, b \o <<f>>)) <=> f \in Dropped(s, live, u)
        /\ (\E p \in c.put : Under(Front(p), b \o <<f>>)) <=> f \in Written(s, live, u)
        /\ (\E p \in c.put : Under(b \o <<f>>, p)) <=> f \in Written(s, live, u)
        /\ (\E p \in c.add : Under(b \o <<f>>, p))
             <=> f \in Raised(s, live, u) \/ (f \in s.multi /\ u[f] \ live[f] # {})
    BY <2>0, Meets DEF NodeEffects
  <2> QED BY <2>2, <2>3
<1>7. NodeAfter(At(t, b), At(T, b), s, live, u, f)
  BY <1>3, <1>5, <1>6 DEF NodeAfter
<1>8. \A w \in V : ValueAfter(At(t, b), At(T, b), s, live, u, f, w)
  BY <1>3, <1>4, <1>6 DEF ValueAfter
<1> QED BY <1>3, <1>6, <1>7, <1>8 DEF T

\* A commit of a diff against what is there makes the flat fields those of u.
LEMMA FlatReadsBack ==
  ASSUME NEW V, NEW t \in SUBSET Seq(V), NEW b, NEW s, FlatApart(s), NEW live, NEW u, NEW c,
         Setting(V, b, s, live, u, c), Reads(t, b, s, live), NEW f \in Flat(s) \ s.secret
  PROVE  FlatRow(At(Commit(t, c), b), s)[f] = u[f]
<1> DEFINE C == At(Commit(t, c), b)
           D == f \in Dropped(s, live, u)
           W == f \in Written(s, live, u)
<1>1. f \in V /\ FlatTyped(s, u, V)
  BY DEF Setting
<1>2. /\ NodeAfter(At(t, b), C, s, live, u, f)
      /\ \A w \in V : ValueAfter(At(t, b), C, s, live, u, f, w)
      /\ Kids(At(t, b), f) \subseteq V /\ Kids(C, f) \subseteq V
  BY FieldAfter
<1>3. SUFFICES FlatRow(C, s)[f] = u[f]
  OBVIOUS
<1> HIDE DEF C
<1>4. CASE f \in s.leaf
  <2>1. f \notin s.multi /\ f \notin s.flag /\ f \notin s.secret /\ f \notin DOMAIN s.pick /\ u[f] \in V
    BY <1>1, <1>4 DEF FlatApart, FlatTyped
  <2>2. FlatRow(C, s)[f] = Str(C, f, None) /\ live[f] = Str(At(t, b), f, None)
    BY <1>4, <2>1 DEF FlatRow, Flat, Reads
  <2>3. (D <=> u[f] = None /\ live[f] # None) /\ (W <=> u[f] # None /\ u[f] # live[f])
    BY <1>4, <2>1 DEF Dropped, Written
  <2>4. CASE D
    <3>1. Kids(C, f) = {}
      BY <1>2, <2>1, <2>3, <2>4 DEF ValueAfter
    <3> QED BY <2>2, <2>3, <2>4, <3>1 DEF Str
  <2>5. CASE W
    <3>1. Kids(C, f) = {u[f]}
      BY <1>2, <2>1, <2>3, <2>5 DEF ValueAfter
    <3> QED BY <2>2, <3>1 DEF Str
  <2>6. CASE ~D /\ ~W
    <3>1. Kids(C, f) = Kids(At(t, b), f)
      BY <1>2, <2>1, <2>6 DEF ValueAfter
    <3>2. u[f] = live[f]
      BY <2>3, <2>6
    <3> QED BY <2>2, <3>1, <3>2 DEF Str
  <2> QED BY <2>4, <2>5, <2>6
<1>5. CASE f \in DOMAIN s.pick
  <2>1. /\ f \notin s.multi /\ f \notin s.flag /\ f \notin s.secret /\ f \notin s.leaf
        /\ u[f] \in V /\ u[f] # None
    BY <1>1, <1>5 DEF FlatApart, FlatTyped
  <2>2. FlatRow(C, s)[f] = Str(C, f, s.pick[f]) /\ live[f] \in {None, Str(At(t, b), f, s.pick[f])}
    BY <1>5, <2>1 DEF FlatRow, Flat, Reads
  <2>3. ~D /\ (W <=> u[f] # live[f])
    BY <1>5, <2>1 DEF Dropped, Written
  <2>4. CASE W
    <3>1. Kids(C, f) = {u[f]}
      BY <1>2, <2>1, <2>3, <2>4 DEF ValueAfter
    <3> QED BY <2>2, <3>1 DEF Str
  <2>5. CASE ~W
    <3>1. Kids(C, f) = Kids(At(t, b), f)
      BY <1>2, <2>1, <2>3, <2>5 DEF ValueAfter
    <3>2. u[f] = Str(At(t, b), f, s.pick[f])
      BY <2>1, <2>2, <2>3, <2>5
    <3> QED BY <2>2, <3>1, <3>2 DEF Str
  <2> QED BY <2>4, <2>5
<1>6. CASE f \in s.multi
  <2>1. /\ f \notin s.leaf /\ f \notin s.flag /\ f \notin s.secret /\ f \notin DOMAIN s.pick
        /\ u[f] \subseteq V
    BY <1>1, <1>6 DEF FlatApart, FlatTyped
  <2>2. FlatRow(C, s)[f] = Kids(C, f) /\ live[f] = Kids(At(t, b), f)
    BY <1>6, <2>1 DEF FlatRow, Flat, Reads
  <2>3. ~D /\ ~W
    BY <2>1 DEF Dropped, Written
  <2>4. Kids(C, f) = u[f]
    BY <1>2, <1>6, <2>1, <2>2, <2>3 DEF ValueAfter
  <2> QED BY <2>2, <2>4
<1>7. CASE f \in s.flag
  <2>1. /\ f \notin s.leaf /\ f \notin s.multi /\ f \notin s.secret /\ f \notin DOMAIN s.pick
        /\ u[f] \in BOOLEAN
    BY <1>1, <1>7 DEF FlatApart, FlatTyped
  <2>2. FlatRow(C, s)[f] = (<<f>> \in C) /\ live[f] = (<<f>> \in At(t, b))
    BY <1>7, <2>1 DEF FlatRow, Flat, Reads
  <2>3. (D <=> live[f] /\ ~u[f]) /\ ~W /\ (f \in Raised(s, live, u) <=> u[f] /\ ~live[f])
    BY <1>7, <2>1 DEF Dropped, Written, Raised
  <2>4. <<f>> \in C <=> u[f]
    BY <1>2, <2>1, <2>2, <2>3 DEF NodeAfter
  <2> QED BY <2>1, <2>2, <2>4
<1> QED BY <1>4, <1>5, <1>6, <1>7 DEF Flat

-----------------------------------------------------------------------------
(* The nodes with fields of their own                                      *)

\* The diff of sub-node k of field n.
SubLive(s, n, live, k) == IF k \in DOMAIN live THEN live[k] ELSE Blank(SubSchema(s, n))
SubFlat(b, s, n, live, u, k) == FlatDiff(SubBase(b, s, n, k), SubSchema(s, n), SubLive(s, n, live, k), u[k])

\* The commands of a whole diff: those of its flat fields, those of its
\* sub-nodes, and those that remove and create sub-nodes.
IsDiffDel(p, b, s, live, u) ==
  \/ p \in FlatDiff(b, s, live, u).del
  \/ \E n \in Subs(s) : \E k \in DOMAIN u[n] : p \in SubFlat(b, s, n, live[n], u[n], k).del
  \/ \E n \in Subs(s) : \E k \in DOMAIN live[n] \ DOMAIN u[n] : p = SubBase(b, s, n, k)
IsDiffPut(p, b, s, live, u) ==
  \/ p \in FlatDiff(b, s, live, u).put
  \/ \E n \in Subs(s) : \E k \in DOMAIN u[n] : p \in SubFlat(b, s, n, live[n], u[n], k).put
IsDiffAdd(p, b, s, live, u) ==
  \/ p \in FlatDiff(b, s, live, u).add
  \/ \E n \in Subs(s) : \E k \in DOMAIN u[n] : p \in SubFlat(b, s, n, live[n], u[n], k).add
  \/ \E n \in Subs(s) : \E k \in DOMAIN u[n] \ DOMAIN live[n] : p = SubBase(b, s, n, k)

\* A merge has the commands of its batches.
LEMMA BothParts ==
  ASSUME NEW S
  PROVE  /\ \A p : p \in BothOf(S).del <=> \E c \in S : p \in c.del
         /\ \A p : p \in BothOf(S).put <=> \E c \in S : p \in c.put
         /\ \A p : p \in BothOf(S).add <=> \E c \in S : p \in c.add
         /\ BothOf(S).late = UNION {c.late : c \in S}
BY DEF BothOf

\* The diff of one field of sub-nodes.
LEMMA SubParts ==
  ASSUME NEW b, NEW s, NEW n, NEW live, NEW u, NEW p
  PROVE  LET d == SubDiff(b, s, n, live, u)
         IN  /\ p \in d.del <=> \/ \E k \in DOMAIN u : p \in SubFlat(b, s, n, live, u, k).del
                                \/ \E k \in DOMAIN live \ DOMAIN u : p = SubBase(b, s, n, k)
             /\ p \in d.put <=> \E k \in DOMAIN u : p \in SubFlat(b, s, n, live, u, k).put
             /\ p \in d.add <=> \/ \E k \in DOMAIN u : p \in SubFlat(b, s, n, live, u, k).add
                                \/ \E k \in DOMAIN u \ DOMAIN live : p = SubBase(b, s, n, k)
             /\ d.late = {}
<1> DEFINE d == SubDiff(b, s, n, live, u)
           F == {SubFlat(b, s, n, live, u, k) : k \in DOMAIN u}
           A == {SubBase(b, s, n, k) : k \in DOMAIN u \ DOMAIN live}
           D == {SubBase(b, s, n, k) : k \in DOMAIN live \ DOMAIN u}
<1>1. d = BothOf(F \cup {Adds(A), Deletes(D)})
  BY DEF SubDiff, SubFlat, SubLive
<1>2. /\ Adds(A).del = {} /\ Adds(A).put = {} /\ Adds(A).add = A /\ Adds(A).late = {}
      /\ Deletes(D).del = D /\ Deletes(D).put = {} /\ Deletes(D).add = {} /\ Deletes(D).late = {}
  BY DEF Adds, Deletes, NoCommands
<1>3. /\ \A c : c \in F <=> \E k \in DOMAIN u : c = SubFlat(b, s, n, live, u, k)
      /\ p \in A <=> \E k \in DOMAIN u \ DOMAIN live : p = SubBase(b, s, n, k)
      /\ p \in D <=> \E k \in DOMAIN live \ DOMAIN u : p = SubBase(b, s, n, k)
  OBVIOUS
<1>4. \A c \in F : c.late = {}
  BY FlatParts DEF SubFlat
<1> HIDE DEF d, F, A, D
<1>5. /\ p \in d.del <=> (\E c \in F : p \in c.del) \/ p \in D
      /\ p \in d.put <=> \E c \in F : p \in c.put
      /\ p \in d.add <=> (\E c \in F : p \in c.add) \/ p \in A
  BY <1>1, <1>2, BothParts
<1>6. d.late = {}
  BY <1>1, <1>2, <1>4, BothParts
<1>7. /\ p \in d.del <=> \/ \E k \in DOMAIN u : p \in SubFlat(b, s, n, live, u, k).del
                         \/ \E k \in DOMAIN live \ DOMAIN u : p = SubBase(b, s, n, k)
      /\ p \in d.put <=> \E k \in DOMAIN u : p \in SubFlat(b, s, n, live, u, k).put
      /\ p \in d.add <=> \/ \E k \in DOMAIN u : p \in SubFlat(b, s, n, live, u, k).add
                         \/ \E k \in DOMAIN u \ DOMAIN live : p = SubBase(b, s, n, k)
  BY <1>3, <1>5
<1> QED BY <1>6, <1>7 DEF d

\* The whole diff.
LEMMA DiffParts ==
  ASSUME NEW b, NEW s, NEW live, NEW u
  PROVE  /\ \A p : p \in Diff(b, s, live, u).del <=> IsDiffDel(p, b, s, live, u)
         /\ \A p : p \in Diff(b, s, live, u).put <=> IsDiffPut(p, b, s, live, u)
         /\ \A p : p \in Diff(b, s, live, u).add <=> IsDiffAdd(p, b, s, live, u)
         /\ Diff(b, s, live, u).late = {}
<1> DEFINE d == Diff(b, s, live, u)
           f == FlatDiff(b, s, live, u)
           F == {SubDiff(b, s, n, live[n], u[n]) : n \in Subs(s)}
<1>1. d = BothOf({f} \cup F)
  BY DEF Diff
<1>2. \A c : c \in F <=> \E n \in Subs(s) : c = SubDiff(b, s, n, live[n], u[n])
  OBVIOUS
<1>3. f.late = {} /\ \A c \in F : c.late = {}
  <2>1. \A n \in Subs(s) : SubDiff(b, s, n, live[n], u[n]).late = {}
    BY SubParts
  <2> QED BY <1>2, <2>1, FlatParts
<1> HIDE DEF d, f, F
<1>4. ASSUME NEW p
      PROVE  /\ p \in d.del <=> p \in f.del \/ \E n \in Subs(s) : p \in SubDiff(b, s, n, live[n], u[n]).del
             /\ p \in d.put <=> p \in f.put \/ \E n \in Subs(s) : p \in SubDiff(b, s, n, live[n], u[n]).put
             /\ p \in d.add <=> p \in f.add \/ \E n \in Subs(s) : p \in SubDiff(b, s, n, live[n], u[n]).add
  <2>1. /\ p \in d.del <=> p \in f.del \/ \E c \in F : p \in c.del
        /\ p \in d.put <=> p \in f.put \/ \E c \in F : p \in c.put
        /\ p \in d.add <=> p \in f.add \/ \E c \in F : p \in c.add
    BY <1>1, BothParts
  <2> QED BY <1>2, <2>1
<1>5. d.late = {}
  BY <1>1, <1>3, BothParts
<1>6. ASSUME NEW p PROVE p \in d.del <=> IsDiffDel(p, b, s, live, u)
  BY <1>4, SubParts DEF IsDiffDel, f
<1>7. ASSUME NEW p PROVE p \in d.put <=> IsDiffPut(p, b, s, live, u)
  BY <1>4, SubParts DEF IsDiffPut, f
<1>8. ASSUME NEW p PROVE p \in d.add <=> IsDiffAdd(p, b, s, live, u)
  BY <1>4, SubParts DEF IsDiffAdd, f
<1> QED BY <1>5, <1>6, <1>7, <1>8 DEF d

\* Key k can be one of the sub-nodes of field n: a gate has only one.
Keyed(s, n, k, V) == k \in V /\ (n \in DOMAIN s.gates => k = None)

\* Schemas, rows to be written and rows to be compared with, over names V.
SchemaOver(s, V) ==
  Apart(s) /\ Fields(s) \subseteq V /\ \A n \in Subs(s) : Flat(SubSchema(s, n)) \subseteq V
RowOver(s, u, V) ==
  /\ FlatTyped(s, u, V)
  /\ \A n \in Subs(s) : \A k \in DOMAIN u[n] : Keyed(s, n, k, V) /\ FlatTyped(SubSchema(s, n), u[n][k], V)
LiveOver(s, live, V) ==
  /\ \A f \in s.multi : live[f] \subseteq V
  /\ \A n \in Subs(s) : \A k \in DOMAIN live[n] :
       Keyed(s, n, k, V) /\ \A f \in SubSchema(s, n).multi : live[n][k][f] \subseteq V
Over(V, b, s, live, u) ==
  b \in Seq(V) /\ b # <<>> /\ SchemaOver(s, V) /\ LiveOver(s, live, V) /\ RowOver(s, u, V)

\* The schemas of sub-nodes.
LEMMA SubSchemas ==
  ASSUME NEW V, NEW s, SchemaOver(s, V), NEW n \in Subs(s)
  PROVE  /\ n \in V /\ n \notin Flat(s) /\ FlatApart(SubSchema(s, n)) /\ Flat(SubSchema(s, n)) \subseteq V
         /\ n \in DOMAIN s.tags <=> n \notin DOMAIN s.gates
BY DEF SchemaOver, Apart, Fields, Subs, SubSchema

\* What an absent sub-node counts as has no values.
LEMMA BlankFlat ==
  ASSUME NEW s, FlatApart(s)
  PROVE  /\ \A f \in s.leaf : Blank(s)[f] = None
         /\ \A f \in DOMAIN s.pick : Blank(s)[f] = IF f \in s.quiet THEN s.pick[f] ELSE None
         /\ \A f \in s.multi : Blank(s)[f] = {}
         /\ \A f \in s.flag : Blank(s)[f] = FALSE
<1>1. ASSUME NEW f \in s.leaf PROVE Blank(s)[f] = None
  BY DEF Blank, FlatApart, Fields, Flat
<1>2. ASSUME NEW f \in DOMAIN s.pick PROVE Blank(s)[f] = IF f \in s.quiet THEN s.pick[f] ELSE None
  BY DEF Blank, FlatApart, Fields, Flat
<1>3. ASSUME NEW f \in s.multi PROVE Blank(s)[f] = {}
  BY DEF Blank, FlatApart, Fields, Flat
<1>4. ASSUME NEW f \in s.flag PROVE Blank(s)[f] = FALSE
  BY DEF Blank, FlatApart, Fields, Flat
<1> QED BY <1>1, <1>2, <1>3, <1>4

\* Different sub-nodes are apart, and apart from the flat fields.
LEMMA SubApart ==
  ASSUME NEW V, NEW b \in Seq(V), NEW s, SchemaOver(s, V), NEW n \in Subs(s), NEW k, Keyed(s, n, k, V)
  PROVE  /\ SubBase(b, s, n, k) \in Seq(V) \ {<<>>} /\ Len(SubBase(b, s, n, k)) > Len(b)
         /\ \A f \in Flat(s) : ~Comparable(SubBase(b, s, n, k), b \o <<f>>)
         /\ \A m \in Subs(s) : \A j : Keyed(s, m, j, V) /\ Comparable(SubBase(b, s, n, k), SubBase(b, s, m, j))
                                   => n = m /\ k = j
<1>0. Len(b) \in Nat
  OBVIOUS
<1>1. /\ n \in V /\ n \notin Flat(s) /\ k \in V /\ Flat(s) \subseteq V
      /\ n \in DOMAIN s.tags <=> n \notin DOMAIN s.gates
  BY SubSchemas DEF Keyed, SchemaOver, Fields
<1>2. SubBase(b, s, n, k) \in Seq(V) /\ Len(SubBase(b, s, n, k)) > Len(b)
  <2>1. CASE n \in DOMAIN s.tags
    BY <1>0, <1>1, <2>1, Below DEF SubBase
  <2>2. CASE n \notin DOMAIN s.tags
    BY <1>0, <1>1, <2>2, Below DEF SubBase
  <2> QED BY <2>1, <2>2
<1>3. SubBase(b, s, n, k) # <<>>
  BY <1>0, <1>2
<1>4. ASSUME NEW f \in Flat(s) PROVE ~Comparable(SubBase(b, s, n, k), b \o <<f>>)
  <2>1. f \in V /\ f # n
    BY <1>1
  <2>2. CASE n \in DOMAIN s.tags
    BY <1>1, <2>1, <2>2, NodeAndValue DEF SubBase
  <2>3. CASE n \notin DOMAIN s.tags
    BY <1>1, <2>1, <2>3, ChildrenApart DEF SubBase
  <2> QED BY <2>2, <2>3
<1>5. ASSUME NEW m \in Subs(s), NEW j, Keyed(s, m, j, V), Comparable(SubBase(b, s, n, k), SubBase(b, s, m, j))
      PROVE  n = m /\ k = j
  <2>1. m \in V /\ j \in V /\ (m \in DOMAIN s.tags <=> m \notin DOMAIN s.gates)
    BY <1>5, SubSchemas DEF Keyed
  <2>2. CASE n \in DOMAIN s.tags /\ m \in DOMAIN s.tags
    BY <1>1, <1>5, <2>1, <2>2, Values DEF SubBase
  <2>3. CASE n \in DOMAIN s.tags /\ m \notin DOMAIN s.tags
    <3>1. Comparable(b \o <<n, k>>, b \o <<m>>)
      BY <1>5, <2>3 DEF SubBase
    <3> QED BY <1>1, <2>1, <2>3, <3>1, NodeAndValue
  <2>4. CASE n \notin DOMAIN s.tags /\ m \in DOMAIN s.tags
    <3>1. Comparable(b \o <<m, j>>, b \o <<n>>)
      BY <1>5, <2>4 DEF SubBase, Comparable
    <3> QED BY <1>1, <2>1, <2>4, <3>1, NodeAndValue
  <2>5. CASE n \notin DOMAIN s.tags /\ m \notin DOMAIN s.tags
    <3>1. n = m
      BY <1>1, <1>5, <2>1, <2>5, ChildrenApart DEF SubBase
    <3>2. k = None /\ j = None
      BY <1>1, <1>5, <2>1, <2>5 DEF Keyed
    <3> QED BY <3>1, <3>2
  <2> QED BY <2>2, <2>3, <2>4, <2>5
<1> QED BY <1>2, <1>3, <1>4, <1>5

\* The commands of batch d are about the flat fields below base b.
Within(V, b, s, d) ==
  /\ \A p \in d.del \cup d.add : p \in Seq(V) /\ \E f \in Flat(s) : Under(b \o <<f>>, p)
  /\ \A p \in d.put : p \in Seq(V) /\ p # <<>> /\ \E f \in Flat(s) : Front(p) = b \o <<f>>

\* A flat diff is about its fields.
LEMMA FlatWithin ==
  ASSUME NEW V, NEW b \in Seq(V), NEW s, Flat(s) \subseteq V,
         NEW live, \A f \in s.multi : live[f] \subseteq V, NEW u, FlatTyped(s, u, V)
  PROVE  Within(V, b, s, FlatDiff(b, s, live, u))
<1> DEFINE d == FlatDiff(b, s, live, u)
<1>1. ASSUME NEW f \in Flat(s), NEW v \in V
      PROVE  /\ b \o <<f>> \in Seq(V) /\ b \o <<f, v>> \in Seq(V) /\ b \o <<f, v>> # <<>>
             /\ Under(b \o <<f>>, b \o <<f>>) /\ Under(b \o <<f>>, b \o <<f, v>>)
             /\ Front(b \o <<f, v>>) = b \o <<f>>
  <2>1. f \in V /\ Len(b) \in Nat
    OBVIOUS
  <2>2. b \o <<f>> \in Seq(V) /\ b \o <<f, v>> \in Seq(V) /\ Len(b \o <<f, v>>) = Len(b) + 2
    BY <2>1
  <2>3. Under(b \o <<f>>, b \o <<f, v>>)
    BY <2>1, Below
  <2>6. Front(b \o <<f, v>>) = b \o <<f>>
    BY <2>1, ValueFront
  <2>4. Under(b \o <<f>>, b \o <<f>>)
    BY <2>2, UnderOrder
  <2>5. b \o <<f, v>> # <<>>
    BY <2>1, <2>2
  <2> QED BY <2>2, <2>3, <2>4, <2>5, <2>6
<1>2. /\ Dropped(s, live, u) \subseteq Flat(s) /\ Raised(s, live, u) \subseteq Flat(s) /\ s.multi \subseteq Flat(s)
      /\ \A f \in Written(s, live, u) : f \in Flat(s) /\ u[f] \in V
      /\ \A f \in s.multi : u[f] \subseteq V
  BY DEF Dropped, Raised, Written, Flat, FlatTyped
<1>3. ASSUME NEW f \in Flat(s) PROVE b \o <<f>> \in Seq(V) /\ Under(b \o <<f>>, b \o <<f>>)
  <2>1. f \in V
    OBVIOUS
  <2> QED BY <1>1, <2>1
<1>4. ASSUME NEW p \in d.del PROVE p \in Seq(V) /\ \E f \in Flat(s) : Under(b \o <<f>>, p)
  <2>1. IsDel(p, b, s, live, u)
    BY FlatParts
  <2>2. CASE \E f \in Dropped(s, live, u) : p = b \o <<f>>
    BY <1>2, <1>3, <2>2
  <2>3. CASE \E f \in s.multi : \E v \in live[f] \ u[f] : p = b \o <<f, v>>
    BY <1>1, <1>2, <2>3
  <2> QED BY <2>1, <2>2, <2>3 DEF IsDel
<1>5. ASSUME NEW p \in d.add PROVE p \in Seq(V) /\ \E f \in Flat(s) : Under(b \o <<f>>, p)
  <2>1. IsAdd(p, b, s, live, u)
    BY FlatParts
  <2>2. CASE \E f \in Raised(s, live, u) : p = b \o <<f>>
    BY <1>2, <1>3, <2>2
  <2>3. CASE \E f \in s.multi : \E v \in u[f] \ live[f] : p = b \o <<f, v>>
    BY <1>1, <1>2, <2>3
  <2> QED BY <2>1, <2>2, <2>3 DEF IsAdd
<1>6. ASSUME NEW p \in d.put PROVE p \in Seq(V) /\ p # <<>> /\ \E f \in Flat(s) : Front(p) = b \o <<f>>
  <2>1. IsPut(p, b, s, live, u)
    BY FlatParts
  <2> QED BY <1>1, <1>2, <2>1 DEF IsPut
<1> QED BY <1>4, <1>5, <1>6 DEF Within

\* What the diff of a sub-node is about.
LEMMA SubOver ==
  ASSUME NEW V, NEW b, NEW s, NEW live, NEW u, Over(V, b, s, live, u), NEW n \in Subs(s), NEW k \in DOMAIN u[n]
  PROVE  /\ SubBase(b, s, n, k) \in Seq(V) /\ SubBase(b, s, n, k) # <<>> /\ Keyed(s, n, k, V)
         /\ FlatApart(SubSchema(s, n)) /\ Flat(SubSchema(s, n)) \subseteq V
         /\ FlatTyped(SubSchema(s, n), u[n][k], V)
         /\ \A f \in SubSchema(s, n).multi : SubLive(s, n, live[n], k)[f] \subseteq V
<1>1. b \in Seq(V) /\ SchemaOver(s, V) /\ LiveOver(s, live, V) /\ RowOver(s, u, V)
  BY DEF Over
<1>2. Keyed(s, n, k, V) /\ FlatTyped(SubSchema(s, n), u[n][k], V)
  BY <1>1 DEF RowOver
<1>3. FlatApart(SubSchema(s, n)) /\ Flat(SubSchema(s, n)) \subseteq V
  BY <1>1, SubSchemas
<1>4. SubBase(b, s, n, k) \in Seq(V) /\ SubBase(b, s, n, k) # <<>>
  BY <1>1, <1>2, SubApart
<1>5. ASSUME NEW f \in SubSchema(s, n).multi PROVE SubLive(s, n, live[n], k)[f] \subseteq V
  <2>1. CASE k \in DOMAIN live[n]
    BY <1>1, <2>1 DEF SubLive, LiveOver
  <2>2. CASE k \notin DOMAIN live[n]
    BY <1>3, <2>2, BlankFlat DEF SubLive
  <2> QED BY <2>1, <2>2
<1> QED BY <1>2, <1>3, <1>4, <1>5

\* The commands of a sub-node are strictly below it.
LEMMA SubWithin ==
  ASSUME NEW V, NEW b, NEW s, NEW live, NEW u, Over(V, b, s, live, u), NEW n \in Subs(s), NEW k \in DOMAIN u[n]
  PROVE  LET d == SubFlat(b, s, n, live[n], u[n], k)
             x == SubBase(b, s, n, k)
         IN  /\ \A p \in d.del \cup d.add : p \in Seq(V) /\ Under(x, p) /\ ~Under(p, x)
             /\ \A p \in d.put : /\ p \in Seq(V) /\ p # <<>> /\ Under(x, p)
                               /\ Front(p) \in Seq(V) /\ Under(x, Front(p)) /\ ~Under(Front(p), x)
<1> DEFINE d == SubFlat(b, s, n, live[n], u[n], k)
           x == SubBase(b, s, n, k)
           S == SubSchema(s, n)
<1>1. x \in Seq(V) /\ Flat(S) \subseteq V /\ FlatTyped(S, u[n][k], V)
      /\ \A f \in S.multi : SubLive(s, n, live[n], k)[f] \subseteq V
  BY SubOver
<1>2. d = FlatDiff(x, S, SubLive(s, n, live[n], k), u[n][k])
  BY DEF SubFlat
<1> HIDE DEF d, x, S
<1>3. /\ \A p \in d.del \cup d.add : p \in Seq(V) /\ \E f \in Flat(S) : Under(x \o <<f>>, p)
      /\ \A p \in d.put : p \in Seq(V) /\ p # <<>> /\ \E f \in Flat(S) : Front(p) = x \o <<f>>
  <2>1. Within(V, x, S, d)
    BY <1>1, <1>2, FlatWithin
  <2> QED BY <2>1 DEF Within
<1>4. ASSUME NEW f \in Flat(S)
      PROVE  x \o <<f>> \in Seq(V) /\ Under(x, x \o <<f>>) /\ ~Under(x \o <<f>>, x)
  <2>1. f \in V
    BY <1>1
  <2> QED BY <1>1, <2>1, Below
<1>5. ASSUME NEW p \in d.del \cup d.add PROVE p \in Seq(V) /\ Under(x, p) /\ ~Under(p, x)
  <2>1. PICK f \in Flat(S) : Under(x \o <<f>>, p)
    BY <1>3
  <2>2. p \in Seq(V) /\ x \o <<f>> \in Seq(V)
    BY <1>3, <1>4
  <2>3. Under(x, p)
    BY <1>1, <1>4, <2>1, <2>2, UnderOrder
  <2>4. ASSUME Under(p, x) PROVE FALSE
    <3>1. Under(x \o <<f>>, x)
      BY <1>1, <2>1, <2>2, <2>4, UnderOrder
    <3> QED BY <1>4, <3>1
  <2> QED BY <2>2, <2>3, <2>4
<1>6. ASSUME NEW p \in d.put
      PROVE  /\ p \in Seq(V) /\ p # <<>> /\ Under(x, p)
             /\ Front(p) \in Seq(V) /\ Under(x, Front(p)) /\ ~Under(Front(p), x)
  <2>1. /\ p \in Seq(V) /\ p # <<>>
        /\ Front(p) \in Seq(V) /\ Under(x, Front(p)) /\ ~Under(Front(p), x)
    BY <1>3, <1>4
  <2>2. Under(Front(p), p)
    BY <2>1, FrontAbove
  <2>3. Under(x, p)
    BY <1>1, <2>1, <2>2, UnderOrder
  <2> QED BY <2>1, <2>3
<1> QED BY <1>5, <1>6 DEF d, x

\* A diff is a batch.
LEMMA DiffIsBatch ==
  ASSUME NEW V, NEW b, NEW s, NEW live, NEW u, Over(V, b, s, live, u)
  PROVE  IsBatch(Diff(b, s, live, u), V) /\ Diff(b, s, live, u).late = {}
<1> DEFINE c == Diff(b, s, live, u)
<1>1. b \in Seq(V) /\ b # <<>> /\ SchemaOver(s, V) /\ LiveOver(s, live, V) /\ RowOver(s, u, V)
  BY DEF Over
<1>2. Flat(s) \subseteq V /\ FlatTyped(s, u, V) /\ \A f \in s.multi : live[f] \subseteq V
  BY <1>1 DEF SchemaOver, Fields, RowOver, LiveOver
<1>3. /\ FlatDiff(b, s, live, u).del \subseteq Seq(V) /\ FlatDiff(b, s, live, u).put \subseteq Seq(V)
      /\ FlatDiff(b, s, live, u).add \subseteq Seq(V)
  BY <1>1, <1>2, FlatWithin DEF Within
<1>4. ASSUME NEW n \in Subs(s), NEW k \in DOMAIN u[n]
      PROVE  /\ SubFlat(b, s, n, live[n], u[n], k).del \subseteq Seq(V)
             /\ SubFlat(b, s, n, live[n], u[n], k).put \subseteq Seq(V)
             /\ SubFlat(b, s, n, live[n], u[n], k).add \subseteq Seq(V)
             /\ SubBase(b, s, n, k) \in Seq(V)
  BY SubWithin, SubOver
<1>5. ASSUME NEW n \in Subs(s), NEW k \in DOMAIN live[n] PROVE SubBase(b, s, n, k) \in Seq(V)
  <2>1. Keyed(s, n, k, V)
    BY <1>1 DEF LiveOver
  <2> QED BY <1>1, <2>1, SubApart
<1>6. \A p \in c.del : p \in Seq(V)
  BY <1>3, <1>4, <1>5, DiffParts DEF IsDiffDel
<1>7. \A p \in c.put : p \in Seq(V)
  BY <1>3, <1>4, DiffParts DEF IsDiffPut
<1>8. \A p \in c.add : p \in Seq(V)
  BY <1>3, <1>4, DiffParts DEF IsDiffAdd
<1> QED BY <1>6, <1>7, <1>8, DiffParts DEF IsBatch

\* The flat fields meet no command but their own ...
LEMMA FlatIncluded ==
  ASSUME NEW V, NEW b, NEW s, NEW live, NEW u, Over(V, b, s, live, u)
  PROVE  Setting(V, b, s, live, u, Diff(b, s, live, u))
<1> DEFINE c == Diff(b, s, live, u)
           d == FlatDiff(b, s, live, u)
<1>1. b \in Seq(V) /\ b # <<>> /\ SchemaOver(s, V) /\ LiveOver(s, live, V) /\ RowOver(s, u, V)
  BY DEF Over
<1>2. Flat(s) \subseteq V /\ FlatTyped(s, u, V) /\ \A f \in s.multi : live[f] \subseteq V
  BY <1>1 DEF SchemaOver, Fields, RowOver, LiveOver
<1>3. IsBatch(c, V) /\ c.late = {}
  BY DiffIsBatch
<1>4. d.del \subseteq c.del /\ d.put \subseteq c.put /\ d.add \subseteq c.add
  BY DiffParts DEF IsDiffDel, IsDiffPut, IsDiffAdd
\* What is below a sub-node is away from the flat fields.
<1>5. ASSUME NEW n \in Subs(s), NEW k, Keyed(s, n, k, V), NEW p \in Seq(V), Under(SubBase(b, s, n, k), p)
      PROVE  Away(p, b, s)
  <2>1. SUFFICES ASSUME NEW f \in Flat(s) PROVE ~Comparable(p, b \o <<f>>)
    BY DEF Away
  <2>2. SubBase(b, s, n, k) \in Seq(V) /\ ~Comparable(SubBase(b, s, n, k), b \o <<f>>)
    BY <1>1, <1>5, SubApart
  <2>3. b \o <<f>> \in Seq(V)
    BY <1>1, <1>2
  <2>4. Under(b \o <<f>>, b \o <<f>>)
    BY <2>3, UnderOrder
  <2> QED BY <1>5, <2>2, <2>3, <2>4, StayApart
<1>6. ASSUME NEW n \in Subs(s), NEW k, Keyed(s, n, k, V) PROVE Away(SubBase(b, s, n, k), b, s)
  <2>1. SubBase(b, s, n, k) \in Seq(V)
    BY <1>1, <1>6, SubApart
  <2>2. Under(SubBase(b, s, n, k), SubBase(b, s, n, k))
    BY <2>1, UnderOrder
  <2> QED BY <1>5, <1>6, <2>1, <2>2
<1>7. /\ \A n \in Subs(s) : \A k \in DOMAIN u[n] : Keyed(s, n, k, V)
      /\ \A n \in Subs(s) : \A k \in DOMAIN live[n] : Keyed(s, n, k, V)
  BY <1>1 DEF RowOver, LiveOver
<1>8. ASSUME NEW n \in Subs(s), NEW k \in DOMAIN u[n]
      PROVE  /\ \A p \in SubFlat(b, s, n, live[n], u[n], k).del : Away(p, b, s)
             /\ \A p \in SubFlat(b, s, n, live[n], u[n], k).add : Away(p, b, s)
             /\ \A p \in SubFlat(b, s, n, live[n], u[n], k).put : p # <<>> /\ Away(Front(p), b, s)
  BY <1>5, <1>7, SubWithin
<1>9. \A p \in c.del \ d.del : Away(p, b, s)
  BY <1>6, <1>7, <1>8, DiffParts DEF IsDiffDel
<1>10. \A p \in c.put \ d.put : p # <<>> /\ Away(Front(p), b, s)
  BY <1>8, DiffParts DEF IsDiffPut
<1>11. \A p \in c.add \ d.add : Away(p, b, s)
  BY <1>6, <1>7, <1>8, DiffParts DEF IsDiffAdd
<1>12. Includes(c, b, s, live, u)
  BY <1>3, <1>4, <1>9, <1>10, <1>11 DEF Includes
<1> QED BY <1>1, <1>2, <1>3, <1>12 DEF Setting

\* ... nor do those of a sub-node.
LEMMA SubIncluded ==
  ASSUME NEW V, NEW b, NEW s, NEW live, NEW u, Over(V, b, s, live, u), NEW n \in Subs(s), NEW k \in DOMAIN u[n]
  PROVE  Setting(V, SubBase(b, s, n, k), SubSchema(s, n), SubLive(s, n, live[n], k), u[n][k], Diff(b, s, live, u))
<1> DEFINE c == Diff(b, s, live, u)
           d == SubFlat(b, s, n, live[n], u[n], k)
           x == SubBase(b, s, n, k)
           S == SubSchema(s, n)
<1>1. b \in Seq(V) /\ b # <<>> /\ SchemaOver(s, V) /\ LiveOver(s, live, V) /\ RowOver(s, u, V)
  BY DEF Over
<1>2. x \in Seq(V) /\ x # <<>> /\ Keyed(s, n, k, V) /\ Flat(S) \subseteq V /\ FlatTyped(S, u[n][k], V)
      /\ \A f \in S.multi : SubLive(s, n, live[n], k)[f] \subseteq V
  BY SubOver
<1>3. IsBatch(c, V) /\ c.late = {}
  BY DiffIsBatch
<1>4. d.del \subseteq c.del /\ d.put \subseteq c.put /\ d.add \subseteq c.add
  BY DiffParts DEF IsDiffDel, IsDiffPut, IsDiffAdd
<1>5. d = FlatDiff(x, S, SubLive(s, n, live[n], k), u[n][k])
  BY DEF SubFlat
\* What is below a node apart from x is away from its fields.
<1>6. ASSUME NEW y \in Seq(V), ~Comparable(y, x), NEW p \in Seq(V), Under(y, p)
      PROVE  Away(p, x, S)
  <2>1. SUFFICES ASSUME NEW f \in Flat(S) PROVE ~Comparable(p, x \o <<f>>)
    BY DEF Away
  <2>2. f \in V
    BY <1>2
  <2>3. x \o <<f>> \in Seq(V) /\ Under(x, x \o <<f>>)
    BY <1>2, <2>2, Below
  <2> QED BY <1>2, <1>6, <2>3, StayApart
<1>7. /\ \A m \in Subs(s) : \A j \in DOMAIN u[m] : Keyed(s, m, j, V)
      /\ \A m \in Subs(s) : \A j \in DOMAIN live[m] : Keyed(s, m, j, V)
  BY <1>1 DEF RowOver, LiveOver
<1>8. ASSUME NEW m \in Subs(s), NEW j, Keyed(s, m, j, V), ~(m = n /\ j = k)
      PROVE  /\ SubBase(b, s, m, j) \in Seq(V) /\ ~Comparable(SubBase(b, s, m, j), x)
             /\ Away(SubBase(b, s, m, j), x, S)
  <2>1. SubBase(b, s, m, j) \in Seq(V) /\ ~Comparable(SubBase(b, s, m, j), x)
    BY <1>1, <1>2, <1>8, SubApart
  <2>2. Under(SubBase(b, s, m, j), SubBase(b, s, m, j))
    BY <2>1, UnderOrder
  <2> QED BY <1>6, <2>1, <2>2
<1>9. /\ \A p \in FlatDiff(b, s, live, u).del : Away(p, x, S)
      /\ \A p \in FlatDiff(b, s, live, u).add : Away(p, x, S)
      /\ \A p \in FlatDiff(b, s, live, u).put : p # <<>> /\ Away(Front(p), x, S)
  <2>1. Flat(s) \subseteq V /\ FlatTyped(s, u, V) /\ \A f \in s.multi : live[f] \subseteq V
    BY <1>1 DEF SchemaOver, Fields, RowOver, LiveOver
  <2>2. ASSUME NEW f \in Flat(s)
        PROVE  b \o <<f>> \in Seq(V) /\ ~Comparable(b \o <<f>>, x) /\ Under(b \o <<f>>, b \o <<f>>)
    <3>1. ~Comparable(x, b \o <<f>>)
      BY <1>1, <1>2, SubApart
    <3>2. b \o <<f>> \in Seq(V)
      BY <1>1, <2>1
    <3>3. Under(b \o <<f>>, b \o <<f>>)
      BY <3>2, UnderOrder
    <3> QED BY <3>1, <3>2, <3>3 DEF Comparable
  <2>3. /\ \A p \in FlatDiff(b, s, live, u).del \cup FlatDiff(b, s, live, u).add :
             p \in Seq(V) /\ \E f \in Flat(s) : Under(b \o <<f>>, p)
        /\ \A p \in FlatDiff(b, s, live, u).put : p # <<>> /\ \E f \in Flat(s) : Front(p) = b \o <<f>>
    <3>1. Within(V, b, s, FlatDiff(b, s, live, u))
      BY <1>1, <2>1, FlatWithin
    <3> QED BY <3>1 DEF Within
  <2> QED BY <1>6, <2>2, <2>3
<1>10. ASSUME NEW m \in Subs(s), NEW j \in DOMAIN u[m], ~(m = n /\ j = k)
      PROVE  /\ \A p \in SubFlat(b, s, m, live[m], u[m], j).del : Away(p, x, S)
             /\ \A p \in SubFlat(b, s, m, live[m], u[m], j).add : Away(p, x, S)
             /\ \A p \in SubFlat(b, s, m, live[m], u[m], j).put : p # <<>> /\ Away(Front(p), x, S)
  <2>1. SubBase(b, s, m, j) \in Seq(V) /\ ~Comparable(SubBase(b, s, m, j), x)
    BY <1>7, <1>8, <1>10
  <2> QED BY <1>6, <2>1, SubWithin
<1>11. \A p \in c.del \ d.del : Away(p, x, S)
  <2>1. SUFFICES ASSUME NEW p, IsDiffDel(p, b, s, live, u), p \notin d.del PROVE Away(p, x, S)
    BY DiffParts
  <2>2. CASE \E m \in Subs(s) : \E j \in DOMAIN u[m] : p \in SubFlat(b, s, m, live[m], u[m], j).del
    BY <1>10, <2>1, <2>2
  <2>3. CASE \E m \in Subs(s) : \E j \in DOMAIN live[m] \ DOMAIN u[m] : p = SubBase(b, s, m, j)
    BY <1>7, <1>8, <2>3
  <2> QED BY <1>9, <2>1, <2>2, <2>3 DEF IsDiffDel
<1>12. \A p \in c.put \ d.put : p # <<>> /\ Away(Front(p), x, S)
  <2>1. SUFFICES ASSUME NEW p, IsDiffPut(p, b, s, live, u), p \notin d.put PROVE p # <<>> /\ Away(Front(p), x, S)
    BY DiffParts
  <2>2. CASE \E m \in Subs(s) : \E j \in DOMAIN u[m] : p \in SubFlat(b, s, m, live[m], u[m], j).put
    BY <1>10, <2>1, <2>2
  <2> QED BY <1>9, <2>1, <2>2 DEF IsDiffPut
<1>13. \A p \in c.add \ d.add : Away(p, x, S) \/ Under(p, x)
  <2>1. SUFFICES ASSUME NEW p, IsDiffAdd(p, b, s, live, u), p \notin d.add PROVE Away(p, x, S) \/ Under(p, x)
    BY DiffParts
  <2>2. CASE \E m \in Subs(s) : \E j \in DOMAIN u[m] : p \in SubFlat(b, s, m, live[m], u[m], j).add
    BY <1>10, <2>1, <2>2
  <2>3. CASE \E m \in Subs(s) : \E j \in DOMAIN u[m] \ DOMAIN live[m] : p = SubBase(b, s, m, j)
    <3>1. Under(x, x)
      BY <1>2, UnderOrder
    <3> QED BY <1>7, <1>8, <2>3, <3>1
  <2> QED BY <1>9, <2>1, <2>2, <2>3 DEF IsDiffAdd
<1>14. Includes(c, x, S, SubLive(s, n, live[n], k), u[n][k])
  BY <1>3, <1>4, <1>5, <1>11, <1>12, <1>13 DEF Includes
<1> QED BY <1>2, <1>3, <1>14 DEF Setting

-----------------------------------------------------------------------------
(* Rows                                                                    *)

\* A configuration that has a node below b of length two or more has b.
LEMMA RootedAbove ==
  ASSUME NEW V, NEW t \in SUBSET Seq(V), Rooted(t), NEW x \in Seq(V), Len(x) >= 2, NEW q \in t, Under(x, q)
  PROVE  x \in t
<1>1. q \in Seq(V)
  OBVIOUS
<1>2. x \in Nodes(q)
  BY <1>1, NodesAbove
<1> QED BY <1>2 DEF Rooted

\* Row r has the flat fields of configuration t at base b, and its sub-nodes.
HasFlat(t, b, s, r) == \A f \in Flat(s) : r[f] = FlatRow(At(t, b), s)[f]
SameSubs(V, t, b, s, r) ==
  \A n \in Subs(s) : \A k : k \in DOMAIN r[n] <=> Keyed(s, n, k, V) /\ SubBase(b, s, n, k) \in t
SubsHaveFlat(t, b, s, r) ==
  \A n \in Subs(s) : \A k \in DOMAIN r[n] : HasFlat(t, SubBase(b, s, n, k), SubSchema(s, n), r[n][k])

\* So has the row a page parses.
LEMMA RowParts ==
  ASSUME NEW V, None \in V, NEW t \in SUBSET Seq(V), NEW b \in Seq(V), NEW s, SchemaOver(s, V)
  PROVE  /\ HasFlat(t, b, s, Row(t, b, s)) /\ SameSubs(V, t, b, s, Row(t, b, s))
         /\ SubsHaveFlat(t, b, s, Row(t, b, s))
<1> DEFINE c == At(t, b)
           Keys(n) == IF n \in DOMAIN s.tags THEN Kids(c, n) ELSE {k \in {None} : <<n>> \in c}
<1>1. Row(t, b, s) = [f \in Fields(s) |->
        IF f \in Flat(s) THEN FlatRow(c, s)[f]
        ELSE [k \in Keys(f) |-> FlatRow(At(c, SubBase(<<>>, s, f, k)), SubSchema(s, f))]]
  BY DEF Row
<1>2. ASSUME NEW n \in Subs(s), NEW k PROVE k \in Keys(n) <=> Keyed(s, n, k, V) /\ SubBase(b, s, n, k) \in t
  <2>1. n \in V /\ (n \in DOMAIN s.tags <=> n \notin DOMAIN s.gates)
    BY SubSchemas
  <2>2. /\ Kids(c, n) \subseteq V /\ (\A v \in V : v \in Kids(c, n) <=> b \o <<n, v>> \in t)
        /\ <<n>> \in c <=> b \o <<n>> \in t
    BY <2>1, ReadBelow
  <2> HIDE DEF c
  <2>3. CASE n \in DOMAIN s.tags
    BY <2>1, <2>2, <2>3 DEF Keyed, SubBase
  <2>4. CASE n \notin DOMAIN s.tags
    BY <2>1, <2>2, <2>4 DEF Keyed, SubBase
  <2> QED BY <2>3, <2>4
<1>8. \A x \in Seq(V) \ {<<>>} : At(c, x) = At(t, b \o x)
  BY AtAt
<1>3. ASSUME NEW n \in Subs(s), NEW k \in V PROVE At(c, SubBase(<<>>, s, n, k)) = At(t, SubBase(b, s, n, k))
  <2> HIDE DEF c
  <2>1. n \in V
    BY SubSchemas
  <2>2. CASE n \in DOMAIN s.tags
    <3>1. <<n, k>> \in Seq(V) \ {<<>>} /\ <<>> \o <<n, k>> = <<n, k>>
      BY <2>1
    <3>2. At(c, <<n, k>>) = At(t, b \o <<n, k>>)
      BY <1>8, <3>1
    <3> QED BY <2>2, <3>1, <3>2 DEF SubBase
  <2>3. CASE n \notin DOMAIN s.tags
    <3>1. <<n>> \in Seq(V) \ {<<>>} /\ <<>> \o <<n>> = <<n>>
      BY <2>1
    <3>2. At(c, <<n>>) = At(t, b \o <<n>>)
      BY <1>8, <3>1
    <3> QED BY <2>3, <3>1, <3>2 DEF SubBase
  <2> QED BY <2>2, <2>3
<1> HIDE DEF c, Keys
<1>4. ASSUME NEW f \in Flat(s) PROVE Row(t, b, s)[f] = FlatRow(c, s)[f]
  BY <1>1 DEF Fields
<1>5. ASSUME NEW n \in Subs(s)
      PROVE  Row(t, b, s)[n] = [k \in Keys(n) |-> FlatRow(At(c, SubBase(<<>>, s, n, k)), SubSchema(s, n))]
  <2>1. n \in Fields(s) /\ n \notin Flat(s)
    BY SubSchemas DEF Fields, Subs
  <2> QED BY <1>1, <2>1
<1>6. ASSUME NEW n \in Subs(s), NEW k
      PROVE  k \in DOMAIN Row(t, b, s)[n] <=> Keyed(s, n, k, V) /\ SubBase(b, s, n, k) \in t
  BY <1>2, <1>5
<1>7. ASSUME NEW n \in Subs(s), NEW k \in DOMAIN Row(t, b, s)[n]
      PROVE  Row(t, b, s)[n][k] = FlatRow(At(t, SubBase(b, s, n, k)), SubSchema(s, n))
  <2>1. k \in V
    BY <1>6 DEF Keyed
  <2>2. k \in Keys(n)
    BY <1>5
  <2>3. Row(t, b, s)[n][k] = FlatRow(At(c, SubBase(<<>>, s, n, k)), SubSchema(s, n))
    BY <1>5, <2>2
  <2> QED BY <1>3, <2>1, <2>3
<1> QED BY <1>4, <1>6, <1>7 DEF c, HasFlat, SameSubs, SubsHaveFlat

\* Row live has what t has at base b, sub-nodes included.
Matches(t, b, s, live) ==
  /\ Reads(t, b, s, live)
  /\ \A n \in Subs(s) : \A k \in DOMAIN live[n] : Reads(t, SubBase(b, s, n, k), SubSchema(s, n), live[n][k])

\* The flat fields of a parsed row are those of the configuration.
LEMMA FlatRowReads ==
  ASSUME NEW V, NEW t \in SUBSET Seq(V), NEW b \in Seq(V), NEW s, FlatApart(s), Flat(s) \subseteq V,
         NEW r, HasFlat(t, b, s, r)
  PROVE  Reads(t, b, s, r) /\ \A f \in s.multi : r[f] \subseteq V
<1> DEFINE c == At(t, b)
<1>0. \A f \in Flat(s) : r[f] = FlatRow(c, s)[f]
  BY DEF HasFlat
<1>1. ASSUME NEW f \in s.multi PROVE Kids(c, f) \subseteq V
  <2>1. f \in V
    BY DEF Flat
  <2> QED BY <2>1, ReadBelow
<1> HIDE DEF c
<1>2. ASSUME NEW f \in s.leaf PROVE r[f] = Str(c, f, None)
  <2>1. f \notin DOMAIN s.pick /\ f \notin s.secret /\ f \notin s.multi /\ f \notin s.flag
    BY DEF FlatApart
  <2> QED BY <1>0, <2>1 DEF FlatRow, Flat
<1>3. ASSUME NEW f \in DOMAIN s.pick PROVE r[f] = Str(c, f, s.pick[f])
  <2>1. f \notin s.leaf /\ f \notin s.secret /\ f \notin s.multi /\ f \notin s.flag
    BY DEF FlatApart
  <2> QED BY <1>0, <2>1 DEF FlatRow, Flat
<1>4. ASSUME NEW f \in s.multi PROVE r[f] = Kids(c, f)
  <2>1. f \notin s.leaf /\ f \notin s.secret /\ f \notin DOMAIN s.pick /\ f \notin s.flag
    BY DEF FlatApart
  <2> QED BY <1>0, <2>1 DEF FlatRow, Flat
<1>5. ASSUME NEW f \in s.flag PROVE r[f] = (<<f>> \in c)
  <2>1. f \notin s.leaf /\ f \notin s.secret /\ f \notin DOMAIN s.pick /\ f \notin s.multi
    BY DEF FlatApart
  <2> QED BY <1>0, <2>1 DEF FlatRow, Flat
<1> QED BY <1>1, <1>2, <1>3, <1>4, <1>5 DEF Reads, c

\* An absent object counts as a blank row.
LEMMA BlankReads ==
  ASSUME NEW V, NEW t \in SUBSET Seq(V), Rooted(t), NEW b \in Seq(V), Len(b) >= 2, b \notin t,
         NEW s, FlatApart(s), Flat(s) \subseteq V
  PROVE  Reads(t, b, s, Blank(s))
<1>1. At(t, b) = {}
  <2>1. ASSUME NEW y \in At(t, b) PROVE FALSE
    <3>1. y \in Seq(V) \ {<<>>} /\ b \o y \in t
      BY AtBelow
    <3>2. Len(b) <= Len(b \o y) /\ \A i \in 1..Len(b) : b[i] = (b \o y)[i]
      BY <3>1
    <3>3. Under(b, b \o y)
      BY <3>1, <3>2, UnderPrefix
    <3> QED BY <3>1, <3>3, RootedAbove
  <2> QED BY <2>1
<1>2. ASSUME NEW f PROVE Kids(At(t, b), f) = {} /\ <<f>> \notin At(t, b) /\ \A z : Str(At(t, b), f, z) = z
  BY <1>1 DEF Kids, Str
<1>3. /\ \A f \in s.leaf : Blank(s)[f] = None
      /\ \A f \in DOMAIN s.pick : Blank(s)[f] \in {None, s.pick[f]}
      /\ \A f \in s.multi : Blank(s)[f] = {}
      /\ \A f \in s.flag : Blank(s)[f] = FALSE
  BY BlankFlat
<1>4. \A f \in s.leaf : Blank(s)[f] = Str(At(t, b), f, None)
  BY <1>2, <1>3
<1>5. ASSUME NEW f \in DOMAIN s.pick PROVE Blank(s)[f] \in {None, Str(At(t, b), f, s.pick[f])}
  <2>1. Str(At(t, b), f, s.pick[f]) = s.pick[f]
    BY <1>2
  <2> QED BY <1>3, <2>1
<1>6. \A f \in s.multi : Blank(s)[f] = Kids(At(t, b), f)
  BY <1>2, <1>3
<1>7. ASSUME NEW f \in s.flag PROVE Blank(s)[f] = (<<f>> \in At(t, b))
  <2>1. Blank(s)[f] = FALSE /\ <<f>> \notin At(t, b)
    BY <1>2, <1>3
  <2>2. (<<f>> \in At(t, b)) = FALSE
    BY <2>1
  <2> QED BY <2>1, <2>2
<1> QED BY <1>4, <1>5, <1>6, <1>7 DEF Reads

\* The row a page parsed matches the configuration it was parsed from.
LEMMA RowMatches ==
  ASSUME NEW V, None \in V, NEW t \in SUBSET Seq(V), NEW b \in Seq(V), NEW s, SchemaOver(s, V)
  PROVE  LiveOver(s, Row(t, b, s), V) /\ Matches(t, b, s, Row(t, b, s)) /\ SameSubs(V, t, b, s, Row(t, b, s))
<1> DEFINE r == Row(t, b, s)
<1>1. HasFlat(t, b, s, r) /\ SameSubs(V, t, b, s, r) /\ SubsHaveFlat(t, b, s, r)
  BY RowParts
<1> HIDE DEF r
<1>2. Reads(t, b, s, r) /\ \A f \in s.multi : r[f] \subseteq V
  <2>1. FlatApart(s) /\ Flat(s) \subseteq V
    BY DEF SchemaOver, Apart, Fields
  <2> QED BY <1>1, <2>1, FlatRowReads
<1>3. ASSUME NEW n \in Subs(s), NEW k \in DOMAIN r[n]
      PROVE  /\ Keyed(s, n, k, V) /\ Reads(t, SubBase(b, s, n, k), SubSchema(s, n), r[n][k])
             /\ \A f \in SubSchema(s, n).multi : r[n][k][f] \subseteq V
  <2>1. Keyed(s, n, k, V)
    BY <1>1 DEF SameSubs
  <2>2. SubBase(b, s, n, k) \in Seq(V) /\ FlatApart(SubSchema(s, n)) /\ Flat(SubSchema(s, n)) \subseteq V
    BY <2>1, SubApart, SubSchemas
  <2>3. HasFlat(t, SubBase(b, s, n, k), SubSchema(s, n), r[n][k])
    BY <1>1 DEF SubsHaveFlat
  <2> QED BY <2>1, <2>2, <2>3, FlatRowReads
<1> QED BY <1>1, <1>2, <1>3 DEF LiveOver, Matches, r

\* What the diff of a sub-node compares with is what t has there.
LEMMA SubReads ==
  ASSUME NEW V, NEW t \in SUBSET Seq(V), Rooted(t), NEW b, NEW s, NEW live, NEW u, Over(V, b, s, live, u),
         Matches(t, b, s, live), SameSubs(V, t, b, s, live), NEW n \in Subs(s), NEW k \in DOMAIN u[n]
  PROVE  Reads(t, SubBase(b, s, n, k), SubSchema(s, n), SubLive(s, n, live[n], k))
<1>1. CASE k \in DOMAIN live[n]
  BY <1>1 DEF Matches, SubLive
<1>2. CASE k \notin DOMAIN live[n]
  <2>1. /\ SubBase(b, s, n, k) \in Seq(V) /\ Keyed(s, n, k, V)
        /\ FlatApart(SubSchema(s, n)) /\ Flat(SubSchema(s, n)) \subseteq V
    BY SubOver
  <2>2. SubBase(b, s, n, k) \notin t
    BY <1>2, <2>1 DEF SameSubs
  <2>3. b \in Seq(V) /\ b # <<>> /\ SchemaOver(s, V)
    BY DEF Over
  <2>4. Len(b) \in Nat \ {0} /\ Len(SubBase(b, s, n, k)) > Len(b) /\ Len(SubBase(b, s, n, k)) \in Nat
    BY <2>1, <2>3, SubApart
  <2>5. Len(SubBase(b, s, n, k)) >= 2
    BY <2>4
  <2> QED BY <1>2, <2>1, <2>2, <2>5, BlankReads DEF SubLive
<1> QED BY <1>1, <1>2

-----------------------------------------------------------------------------
(* What a save does                                                        *)

\* A path that is there or not after a commit of a whole diff: sub-nodes.
LEMMA SubNodeAfter ==
  ASSUME NEW V, NEW t \in SUBSET Seq(V), NEW b, NEW s, NEW live, NEW u, Over(V, b, s, live, u),
         SameSubs(V, t, b, s, live), NEW n \in Subs(s), NEW k, Keyed(s, n, k, V)
  PROVE  SubBase(b, s, n, k) \in Commit(t, Diff(b, s, live, u)) <=> k \in DOMAIN u[n]
<1> DEFINE c == Diff(b, s, live, u)
           x == SubBase(b, s, n, k)
<1>1. b \in Seq(V) /\ b # <<>> /\ SchemaOver(s, V) /\ LiveOver(s, live, V) /\ RowOver(s, u, V)
  BY DEF Over
<1>2. x \in Seq(V) /\ Len(x) >= 2 /\ Under(x, x)
  <2>1. x \in Seq(V) /\ Len(x) > Len(b) /\ Len(b) \in Nat \ {0} /\ Len(x) \in Nat
    BY <1>1, SubApart
  <2>2. Under(x, x)
    BY <2>1, UnderOrder
  <2> QED BY <2>1, <2>2
<1>3. IsBatch(c, V) /\ c.late = {}
  BY DiffIsBatch
<1>4. x \in Commit(t, c)
        <=> \/ /\ x \in t
               /\ \A p \in c.del : ~Under(p, x)
               /\ \A p \in c.put : ~Under(Front(p), x)
            \/ \E p \in c.put \cup c.add : Under(x, p)
  BY <1>2, <1>3, CommitNode
<1>5. x \in t <=> k \in DOMAIN live[n]
  BY DEF SameSubs
\* What is below a node apart from x says nothing of x.
<1>6. ASSUME NEW y \in Seq(V), ~Comparable(y, x), NEW p \in Seq(V), Under(y, p)
      PROVE  ~Under(p, x) /\ ~Under(x, p)
  BY <1>2, <1>6, StayApart DEF Comparable
<1>7. /\ \A m \in Subs(s) : \A j \in DOMAIN u[m] : Keyed(s, m, j, V)
      /\ \A m \in Subs(s) : \A j \in DOMAIN live[m] : Keyed(s, m, j, V)
  BY <1>1 DEF RowOver, LiveOver
<1>8. ASSUME NEW m \in Subs(s), NEW j, Keyed(s, m, j, V), ~(m = n /\ j = k)
      PROVE  /\ SubBase(b, s, m, j) \in Seq(V) /\ ~Comparable(SubBase(b, s, m, j), x)
             /\ ~Under(SubBase(b, s, m, j), x) /\ ~Under(x, SubBase(b, s, m, j))
  BY <1>1, <1>8, SubApart DEF Comparable
<1>9. /\ \A p \in FlatDiff(b, s, live, u).del : ~Under(p, x)
      /\ \A p \in FlatDiff(b, s, live, u).add : ~Under(x, p)
      /\ \A p \in FlatDiff(b, s, live, u).put : ~Under(Front(p), x) /\ ~Under(x, p)
  <2>1. Flat(s) \subseteq V /\ FlatTyped(s, u, V) /\ \A f \in s.multi : live[f] \subseteq V
    BY <1>1 DEF SchemaOver, Fields, RowOver, LiveOver
  <2>2. ASSUME NEW f \in Flat(s)
        PROVE  b \o <<f>> \in Seq(V) /\ ~Comparable(b \o <<f>>, x) /\ Under(b \o <<f>>, b \o <<f>>)
    <3>1. ~Comparable(x, b \o <<f>>)
      BY <1>1, SubApart
    <3>2. b \o <<f>> \in Seq(V)
      BY <1>1, <2>1
    <3>3. Under(b \o <<f>>, b \o <<f>>)
      BY <3>2, UnderOrder
    <3> QED BY <3>1, <3>2, <3>3 DEF Comparable
  <2>3. Within(V, b, s, FlatDiff(b, s, live, u))
    BY <1>1, <2>1, FlatWithin
  <2>4. ASSUME NEW p \in FlatDiff(b, s, live, u).del \cup FlatDiff(b, s, live, u).add
        PROVE  ~Under(p, x) /\ ~Under(x, p)
    <3>1. p \in Seq(V) /\ \E f \in Flat(s) : Under(b \o <<f>>, p)
      BY <2>3 DEF Within
    <3> QED BY <1>6, <2>2, <3>1
  <2>5. ASSUME NEW p \in FlatDiff(b, s, live, u).put PROVE ~Under(Front(p), x) /\ ~Under(x, p)
    <3>1. p \in Seq(V) /\ p # <<>> /\ \E f \in Flat(s) : Front(p) = b \o <<f>>
      BY <2>3 DEF Within
    <3>2. PICK f \in Flat(s) : Front(p) = b \o <<f>>
      BY <3>1
    <3>3. Under(Front(p), p)
      BY <3>1, FrontAbove
    <3> QED BY <1>6, <2>2, <3>1, <3>2, <3>3 DEF Comparable
  <2> QED BY <2>4, <2>5
<1>10. ASSUME NEW m \in Subs(s), NEW j \in DOMAIN u[m]
       PROVE  /\ \A p \in SubFlat(b, s, m, live[m], u[m], j).del : ~Under(p, x)
              /\ \A p \in SubFlat(b, s, m, live[m], u[m], j).put : ~Under(Front(p), x)
              /\ ~(m = n /\ j = k) => /\ \A p \in SubFlat(b, s, m, live[m], u[m], j).put : ~Under(x, p)
                                      /\ \A p \in SubFlat(b, s, m, live[m], u[m], j).add : ~Under(x, p)
  <2>1. /\ \A p \in SubFlat(b, s, m, live[m], u[m], j).del \cup SubFlat(b, s, m, live[m], u[m], j).add :
             p \in Seq(V) /\ Under(SubBase(b, s, m, j), p) /\ ~Under(p, SubBase(b, s, m, j))
        /\ \A p \in SubFlat(b, s, m, live[m], u[m], j).put :
             /\ p \in Seq(V) /\ p # <<>> /\ Under(SubBase(b, s, m, j), p) /\ Front(p) \in Seq(V)
             /\ Under(SubBase(b, s, m, j), Front(p)) /\ ~Under(Front(p), SubBase(b, s, m, j))
    BY SubWithin
  <2>2. CASE m = n /\ j = k
    BY <2>1, <2>2
  <2>3. CASE ~(m = n /\ j = k)
    <3>1. SubBase(b, s, m, j) \in Seq(V) /\ ~Comparable(SubBase(b, s, m, j), x)
      BY <1>7, <1>8, <2>3
    <3> QED BY <1>6, <2>1, <3>1
  <2> QED BY <2>2, <2>3
<1>11. ASSUME NEW p \in c.del, Under(p, x) PROVE k \notin DOMAIN u[n]
  <2>1. IsDiffDel(p, b, s, live, u)
    BY DiffParts
  <2>2. PICK m \in Subs(s) : \E j \in DOMAIN live[m] \ DOMAIN u[m] : p = SubBase(b, s, m, j)
    BY <1>9, <1>10, <1>11, <2>1 DEF IsDiffDel
  <2>3. PICK j \in DOMAIN live[m] \ DOMAIN u[m] : p = SubBase(b, s, m, j)
    BY <2>2
  <2>4. m = n /\ j = k
    BY <1>7, <1>8, <1>11, <2>3
  <2> QED BY <2>3, <2>4
<1>12. \A p \in c.put : ~Under(Front(p), x)
  <2>1. ASSUME NEW p \in c.put PROVE IsDiffPut(p, b, s, live, u)
    BY DiffParts
  <2> QED BY <1>9, <1>10, <2>1 DEF IsDiffPut
<1>13. ASSUME NEW p \in c.put \cup c.add, Under(x, p) PROVE k \in DOMAIN u[n]
  <2>1. IsDiffPut(p, b, s, live, u) \/ IsDiffAdd(p, b, s, live, u)
    BY DiffParts
  <2>2. CASE IsDiffPut(p, b, s, live, u)
    BY <1>9, <1>10, <1>13, <2>2 DEF IsDiffPut
  <2>3. CASE IsDiffAdd(p, b, s, live, u)
    <3>1. CASE p \in FlatDiff(b, s, live, u).add
      BY <1>9, <1>13, <3>1
    <3>2. CASE \E m \in Subs(s) : \E j \in DOMAIN u[m] : p \in SubFlat(b, s, m, live[m], u[m], j).add
      BY <1>10, <1>13, <3>2
    <3>3. CASE \E m \in Subs(s) : \E j \in DOMAIN u[m] \ DOMAIN live[m] : p = SubBase(b, s, m, j)
      BY <1>7, <1>8, <1>13, <3>3
    <3> QED BY <2>3, <3>1, <3>2, <3>3 DEF IsDiffAdd
  <2> QED BY <2>1, <2>2, <2>3
<1>14. ASSUME k \in DOMAIN u[n], k \notin DOMAIN live[n] PROVE x \in c.add
  BY <1>14, DiffParts DEF IsDiffAdd
<1>15. ASSUME k \notin DOMAIN u[n], k \in DOMAIN live[n] PROVE x \in c.del
  BY <1>15, DiffParts DEF IsDiffDel
<1>16. CASE k \in DOMAIN u[n] /\ k \in DOMAIN live[n]
  <2>1. x \in t /\ \A p \in c.del : ~Under(p, x)
    BY <1>5, <1>11, <1>16
  <2> HIDE DEF c, x
  <2>2. x \in Commit(t, c)
    BY <1>4, <1>12, <2>1
  <2> QED BY <1>16, <2>2 DEF c, x
<1>17. CASE k \in DOMAIN u[n] /\ k \notin DOMAIN live[n]
  <2>1. x \in c.add
    BY <1>14, <1>17
  <2> HIDE DEF c, x
  <2>2. x \in Commit(t, c)
    BY <1>2, <1>4, <2>1
  <2> QED BY <1>17, <2>2 DEF c, x
<1>18. CASE k \notin DOMAIN u[n]
  <2>1. /\ x \in t => x \in c.del
        /\ \A p \in c.put \cup c.add : ~Under(x, p)
    BY <1>5, <1>13, <1>15, <1>18
  <2> HIDE DEF c, x
  <2>2. x \notin Commit(t, c)
    BY <1>2, <1>4, <2>1
  <2> QED BY <1>18, <2>2 DEF c, x
<1> QED BY <1>16, <1>17, <1>18

\* Row r shows what u has, but for secrets, which are never read back.
SameFlat(s, r, u) == \A f \in Flat(s) \ s.secret : r[f] = u[f]
ReadsAs(s, r, u) ==
  /\ SameFlat(s, r, u)
  /\ \A n \in Subs(s) : /\ \A k : k \in DOMAIN r[n] <=> k \in DOMAIN u[n]
                        /\ \A k \in DOMAIN u[n] : SameFlat(SubSchema(s, n), r[n][k], u[n][k])

\* A commit of the diff between what is there and u makes it u.
LEMMA MatchedReadsBack ==
  ASSUME NEW V, None \in V, NEW t \in SUBSET Seq(V), Rooted(t), NEW b, NEW s, NEW live, NEW u,
         Over(V, b, s, live, u), Matches(t, b, s, live), SameSubs(V, t, b, s, live)
  PROVE  ReadsAs(s, Row(Commit(t, Diff(b, s, live, u)), b, s), u)
<1> DEFINE c == Diff(b, s, live, u)
           T == Commit(t, c)
           r == Row(T, b, s)
<1>1. b \in Seq(V) /\ b # <<>> /\ SchemaOver(s, V) /\ RowOver(s, u, V)
  BY DEF Over
<1>2. T \in SUBSET Seq(V)
  BY DiffIsBatch, CommitPaths
<1> HIDE DEF T
<1>3. HasFlat(T, b, s, r) /\ SameSubs(V, T, b, s, r) /\ SubsHaveFlat(T, b, s, r)
  BY <1>1, <1>2, RowParts
<1> HIDE DEF r
<1>4. SameFlat(s, r, u)
  <2>1. SUFFICES ASSUME NEW f \in Flat(s) \ s.secret PROVE r[f] = u[f]
    BY DEF SameFlat
  <2>2. Setting(V, b, s, live, u, c) /\ Reads(t, b, s, live) /\ FlatApart(s)
    BY <1>1, FlatIncluded DEF Matches, SchemaOver, Apart
  <2> HIDE DEF c
  <2>3. FlatRow(At(T, b), s)[f] = u[f]
    BY <2>2, FlatReadsBack DEF T
  <2> QED BY <1>3, <2>3 DEF HasFlat
<1>5. ASSUME NEW n \in Subs(s), NEW k PROVE k \in DOMAIN r[n] <=> k \in DOMAIN u[n]
  <2>1. k \in DOMAIN u[n] => Keyed(s, n, k, V)
    BY <1>1 DEF RowOver
  <2>2. Keyed(s, n, k, V) => (SubBase(b, s, n, k) \in T <=> k \in DOMAIN u[n])
    BY SubNodeAfter DEF T
  <2> QED BY <1>3, <2>1, <2>2 DEF SameSubs
<1>6. ASSUME NEW n \in Subs(s), NEW k \in DOMAIN u[n] PROVE SameFlat(SubSchema(s, n), r[n][k], u[n][k])
  <2> DEFINE x == SubBase(b, s, n, k)
             S == SubSchema(s, n)
             l == SubLive(s, n, live[n], k)
             v == u[n][k]
  <2>1. SUFFICES ASSUME NEW f \in Flat(S) \ S.secret PROVE r[n][k][f] = v[f]
    BY DEF SameFlat
  <2>2. Setting(V, x, S, l, v, c)
    BY SubIncluded
  <2>3. Reads(t, x, S, l)
    BY SubReads
  <2>4. FlatApart(S)
    BY <1>1, SubSchemas
  <2>5. HasFlat(T, x, S, r[n][k])
    BY <1>3, <1>5 DEF SubsHaveFlat
  <2> HIDE DEF c, x, S, l, v
  <2>6. FlatRow(At(T, x), S)[f] = v[f]
    BY <2>2, <2>3, <2>4, FlatReadsBack DEF T
  <2> QED BY <2>5, <2>6 DEF HasFlat
<1> QED BY <1>4, <1>5, <1>6 DEF ReadsAs, r, T

\* The commands of a diff are strictly below its base.
LEMMA DiffBelow ==
  ASSUME NEW V, NEW b, NEW s, NEW live, NEW u, Over(V, b, s, live, u)
  PROVE  /\ \A p \in Diff(b, s, live, u).del \cup Diff(b, s, live, u).add :
              p \in Seq(V) /\ Under(b, p) /\ ~Under(p, b)
         /\ \A p \in Diff(b, s, live, u).put :
              /\ p \in Seq(V) /\ p # <<>> /\ Under(b, p)
              /\ Front(p) \in Seq(V) /\ ~Under(Front(p), b)
<1> DEFINE c == Diff(b, s, live, u)
           d == FlatDiff(b, s, live, u)
<1>1. b \in Seq(V) /\ SchemaOver(s, V) /\ LiveOver(s, live, V) /\ RowOver(s, u, V)
  BY DEF Over
<1>2. Flat(s) \subseteq V /\ FlatTyped(s, u, V) /\ \A f \in s.multi : live[f] \subseteq V
  BY <1>1 DEF SchemaOver, Fields, RowOver, LiveOver
\* What is below a field or a sub-node is strictly below b.
<1>3. ASSUME NEW x \in Seq(V), Under(b, x), ~Under(x, b), NEW p \in Seq(V), Under(x, p)
      PROVE  Under(b, p) /\ ~Under(p, b)
  BY <1>1, <1>3, UnderOrder
<1>4. ASSUME NEW f \in Flat(s)
      PROVE  b \o <<f>> \in Seq(V) /\ Under(b, b \o <<f>>) /\ ~Under(b \o <<f>>, b)
  <2>1. f \in V
    BY <1>2
  <2> QED BY <1>1, <2>1, Below
<1>5. ASSUME NEW n \in Subs(s), NEW k, Keyed(s, n, k, V)
      PROVE  /\ SubBase(b, s, n, k) \in Seq(V)
             /\ Under(b, SubBase(b, s, n, k)) /\ ~Under(SubBase(b, s, n, k), b)
             /\ Under(SubBase(b, s, n, k), SubBase(b, s, n, k))
  <2>1. n \in V /\ k \in V
    BY <1>1, <1>5, SubSchemas DEF Keyed
  <2>2. SubBase(b, s, n, k) \in Seq(V)
    BY <1>1, <1>5, SubApart
  <2>3. Under(b, SubBase(b, s, n, k)) /\ ~Under(SubBase(b, s, n, k), b)
    BY <1>1, <2>1, Below DEF SubBase
  <2>4. Under(SubBase(b, s, n, k), SubBase(b, s, n, k))
    BY <2>2, UnderOrder
  <2> QED BY <2>2, <2>3, <2>4
<1>6. /\ \A n \in Subs(s) : \A k \in DOMAIN u[n] : Keyed(s, n, k, V)
      /\ \A n \in Subs(s) : \A k \in DOMAIN live[n] : Keyed(s, n, k, V)
  BY <1>1 DEF RowOver, LiveOver
<1>7. Within(V, b, s, d)
  BY <1>1, <1>2, FlatWithin
<1>8. ASSUME NEW p \in c.del \cup c.add PROVE p \in Seq(V) /\ Under(b, p) /\ ~Under(p, b)
  <2>1. IsDiffDel(p, b, s, live, u) \/ IsDiffAdd(p, b, s, live, u)
    BY <1>8, DiffParts
  <2>2. CASE p \in d.del \cup d.add
    BY <1>3, <1>4, <1>7, <2>2 DEF Within
  <2>3. CASE \E n \in Subs(s) : \E k \in DOMAIN u[n] :
               p \in SubFlat(b, s, n, live[n], u[n], k).del \cup SubFlat(b, s, n, live[n], u[n], k).add
    <3>0. PICK n \in Subs(s) : \E k \in DOMAIN u[n] :
               p \in SubFlat(b, s, n, live[n], u[n], k).del \cup SubFlat(b, s, n, live[n], u[n], k).add
      BY <2>3
    <3>1. PICK k \in DOMAIN u[n] :
               p \in SubFlat(b, s, n, live[n], u[n], k).del \cup SubFlat(b, s, n, live[n], u[n], k).add
      BY <3>0
    <3>2. p \in Seq(V) /\ Under(SubBase(b, s, n, k), p)
      BY <3>1, SubWithin
    <3>3. Keyed(s, n, k, V)
      BY <1>6
    <3> QED BY <1>3, <1>5, <3>2, <3>3
  <2>4. CASE \E n \in Subs(s) : \E k \in (DOMAIN u[n]) \cup DOMAIN live[n] : p = SubBase(b, s, n, k)
    BY <1>5, <1>6, <2>4
  <2> QED BY <2>1, <2>2, <2>3, <2>4 DEF IsDiffDel, IsDiffAdd
<1>9. ASSUME NEW p \in c.put
      PROVE  p \in Seq(V) /\ p # <<>> /\ Under(b, p) /\ Front(p) \in Seq(V) /\ ~Under(Front(p), b)
  <2>1. IsDiffPut(p, b, s, live, u)
    BY DiffParts
  <2>2. CASE p \in d.put
    <3>1. PICK f \in Flat(s) : p \in Seq(V) /\ p # <<>> /\ Front(p) = b \o <<f>>
      BY <1>7, <2>2 DEF Within
    <3>2. Under(Front(p), p)
      BY <3>1, FrontAbove
    <3> QED BY <1>3, <1>4, <3>1, <3>2
  <2>3. CASE \E n \in Subs(s) : \E k \in DOMAIN u[n] : p \in SubFlat(b, s, n, live[n], u[n], k).put
    <3>0. PICK n \in Subs(s) : \E k \in DOMAIN u[n] : p \in SubFlat(b, s, n, live[n], u[n], k).put
      BY <2>3
    <3>1. PICK k \in DOMAIN u[n] : p \in SubFlat(b, s, n, live[n], u[n], k).put
      BY <3>0
    <3>2. /\ p \in Seq(V) /\ p # <<>> /\ Under(SubBase(b, s, n, k), p)
          /\ Front(p) \in Seq(V) /\ Under(SubBase(b, s, n, k), Front(p))
      BY <3>1, SubWithin
    <3>3. Keyed(s, n, k, V)
      BY <1>6
    <3> QED BY <1>3, <1>5, <3>2, <3>3
  <2> QED BY <2>1, <2>2, <2>3 DEF IsDiffPut
<1> QED BY <1>8, <1>9

\* What was entered is what the page reads after the save, when the row it
\* was entered on was current; and the object is still there, when it is left
\* without settings too.
THEOREM ReadsBack ==
  ASSUME NEW V, None \in V, NEW t \in SUBSET Seq(V), Rooted(t), NEW b \in Seq(V), b # <<>>,
         NEW s, SchemaOver(s, V), NEW u, RowOver(s, u, V)
  PROVE  LET T == Commit(t, Diff(b, s, Row(t, b, s), u))
         IN  ReadsAs(s, Row(T, b, s), u) /\ (Len(b) >= 2 /\ b \in t => b \in T)
<1> DEFINE live == Row(t, b, s)
<1>1. LiveOver(s, live, V) /\ Matches(t, b, s, live) /\ SameSubs(V, t, b, s, live)
  BY RowMatches
<1> HIDE DEF live
<1>2. Over(V, b, s, live, u)
  BY <1>1 DEF Over
<1>3. ReadsAs(s, Row(Commit(t, Diff(b, s, live, u)), b, s), u)
  BY <1>1, <1>2, MatchedReadsBack
<1>4. ASSUME Len(b) >= 2, b \in t PROVE b \in Commit(t, Diff(b, s, live, u))
  BY <1>2, <1>4, DiffIsBatch, DiffBelow, CommitNode
<1> QED BY <1>3, <1>4 DEF live

\* A blank row matches a configuration without the object.
LEMMA BlankMatches ==
  ASSUME NEW V, NEW t \in SUBSET Seq(V), Rooted(t), NEW b \in Seq(V), Len(b) >= 2, b \notin t,
         NEW s, SchemaOver(s, V)
  PROVE  /\ LiveOver(s, Blank(s), V) /\ Matches(t, b, s, Blank(s)) /\ SameSubs(V, t, b, s, Blank(s))
         /\ \A n \in Subs(s) : DOMAIN Blank(s)[n] = {}
<1>1. FlatApart(s) /\ Flat(s) \subseteq V
  BY DEF SchemaOver, Apart, Fields
<1>2. ASSUME NEW n \in Subs(s) PROVE DOMAIN Blank(s)[n] = {}
  <2>1. n \notin Flat(s) /\ n \in Fields(s) /\ s.quiet \subseteq DOMAIN s.pick
    BY <1>1, SubSchemas DEF Subs, Fields, FlatApart
  <2>2. Blank(s)[n] = NoSubs
    BY <2>1 DEF Blank, Flat
  <2> QED BY <2>2 DEF NoSubs
<1>3. ASSUME NEW n \in Subs(s), NEW k, Keyed(s, n, k, V), SubBase(b, s, n, k) \in t PROVE FALSE
  <2>1. n \in V /\ k \in V
    BY <1>3, SubSchemas DEF Keyed
  <2>2. Under(b, SubBase(b, s, n, k))
    BY <2>1, Below DEF SubBase
  <2> QED BY <1>3, <2>2, RootedAbove
<1>4. SameSubs(V, t, b, s, Blank(s))
  BY <1>2, <1>3 DEF SameSubs
<1>5. Reads(t, b, s, Blank(s))
  BY <1>1, BlankReads
<1>6. \A f \in s.multi : Blank(s)[f] \subseteq V
  BY <1>1, BlankFlat
<1> QED BY <1>2, <1>4, <1>5, <1>6 DEF LiveOver, Matches

\* A new object is there after its creation, the one that sets nothing too,
\* and reads as entered.
THEOREM CreateReadsBack ==
  ASSUME NEW V, None \in V, NEW t \in SUBSET Seq(V), Rooted(t), NEW b \in Seq(V), Len(b) >= 2, b \notin t,
         NEW s, SchemaOver(s, V), NEW u, RowOver(s, u, V)
  PROVE  LET T == Commit(t, Created(b, TRUE, Diff(b, s, Blank(s), u)))
         IN  b \in T /\ ReadsAs(s, Row(T, b, s), u)
<1> DEFINE c == Diff(b, s, Blank(s), u)
           T == Commit(t, Created(b, TRUE, c))
<1>0. b # <<>> /\ Under(b, b)
  BY UnderOrder
<1>1. /\ LiveOver(s, Blank(s), V) /\ Matches(t, b, s, Blank(s)) /\ SameSubs(V, t, b, s, Blank(s))
      /\ \A n \in Subs(s) : DOMAIN Blank(s)[n] = {}
  BY BlankMatches
<1>2. Over(V, b, s, Blank(s), u)
  BY <1>0, <1>1 DEF Over
<1>3. IsBatch(c, V) /\ c.late = {}
  BY <1>2, DiffIsBatch
<1>4. CASE c.put \cup c.add # {}
  <2>1. T = Commit(t, c)
    BY <1>4 DEF Created
  <2>2. \A p \in c.put \cup c.add : Under(b, p)
    BY <1>2, DiffBelow
  <2>3. b \in Commit(t, c)
    BY <1>3, <1>4, <2>2, CommitNode
  <2>4. ReadsAs(s, Row(Commit(t, c), b, s), u)
    BY <1>1, <1>2, MatchedReadsBack
  <2> QED BY <2>1, <2>3, <2>4
<1>5. CASE c.put \cup c.add = {}
  <2> DEFINE a == Adds({b})
  <2>1. T = Commit(t, a)
    BY <1>5 DEF Created
  <2>2. a.del = {} /\ a.put = {} /\ a.add = {b} /\ a.late = {} /\ IsBatch(a, V)
    BY DEF Adds, NoCommands, IsBatch
  <2> HIDE DEF a
  <2>3. ASSUME NEW q \in Seq(V), Len(q) >= 2 PROVE q \in Commit(t, a) <=> q \in t \/ Under(q, b)
    <3>1. q \in Commit(t, a)
            <=> \/ /\ q \in t
                   /\ \A p \in a.del : ~Under(p, q)
                   /\ \A p \in a.put : ~Under(Front(p), q)
                \/ \E p \in a.put \cup a.add : Under(q, p)
      BY <2>2, <2>3, CommitNode
    <3> QED BY <2>2, <3>1
  <2>4. b \in T /\ T \in SUBSET Seq(V)
    BY <1>0, <2>1, <2>2, <2>3, CommitPaths
  \* Nothing is below b, before or after, and u has no sub-nodes.
  <2>5. ASSUME NEW q \in Seq(V), Under(b, q), q # b PROVE q \notin T
    <3>1. q \notin t
      BY <1>0, <2>5, RootedAbove
    <3>2. Len(q) >= 2 /\ ~Under(q, b)
      BY <2>5, UnderPrefix, UnderOrder
    <3> QED BY <2>1, <2>3, <3>1, <3>2
  <2>6. ASSUME NEW n \in Subs(s), NEW k PROVE k \notin DOMAIN u[n] /\ (Keyed(s, n, k, V) => SubBase(b, s, n, k) \notin T)
    <3>1. k \notin DOMAIN u[n]
      <4>1. ASSUME k \in DOMAIN u[n] PROVE IsDiffAdd(SubBase(b, s, n, k), b, s, Blank(s), u)
        BY <1>1, <4>1 DEF IsDiffAdd
      <4> QED BY <1>5, <4>1, DiffParts
    <3>2. ASSUME Keyed(s, n, k, V) PROVE SubBase(b, s, n, k) \notin T
      <4>1. n \in V /\ k \in V
        BY <3>2, SubSchemas DEF Keyed
      <4>2. Under(b, SubBase(b, s, n, k)) /\ SubBase(b, s, n, k) \in Seq(V)
        BY <3>2, <4>1, Below, SubApart DEF SubBase
      <4>3. SubBase(b, s, n, k) # b
        <5>1. Len(SubBase(b, s, n, k)) > Len(b) /\ Len(b) \in Nat
          BY <3>2, SubApart
        <5> QED BY <5>1
      <4> QED BY <2>5, <4>2, <4>3
    <3> QED BY <3>1, <3>2
  <2>7. HasFlat(T, b, s, Row(T, b, s)) /\ SameSubs(V, T, b, s, Row(T, b, s))
    BY <2>4, RowParts
  <2>8. SameFlat(s, Row(T, b, s), u)
    <3>1. FlatApart(s) /\ Flat(s) \subseteq V /\ FlatTyped(s, u, V)
      BY DEF SchemaOver, Apart, Fields, RowOver
    <3>2. /\ FlatDiff(b, s, Blank(s), u).put = {} /\ FlatDiff(b, s, Blank(s), u).add = {}
      BY <1>5, DiffParts DEF IsDiffPut, IsDiffAdd
    <3>3. FlatDiff(b, s, Blank(s), u).del = {}
      <4>1. ASSUME NEW p PROVE ~IsDel(p, b, s, Blank(s), u)
        BY <3>1, BlankFlat DEF IsDel, Dropped
      <4> QED BY <4>1, FlatParts
    <3>4. Includes(a, b, s, Blank(s), u)
      BY <1>0, <2>2, <3>2, <3>3 DEF Includes
    <3>5. Setting(V, b, s, Blank(s), u, a)
      BY <1>0, <1>1, <2>2, <3>1, <3>4 DEF Setting, LiveOver
    <3>6. Reads(t, b, s, Blank(s))
      BY <1>1 DEF Matches
    <3>7. ASSUME NEW f \in Flat(s) \ s.secret PROVE FlatRow(At(T, b), s)[f] = u[f]
      <4>1. FlatRow(At(Commit(t, a), b), s)[f] = u[f]
        BY <3>1, <3>5, <3>6, FlatReadsBack
      <4> QED BY <2>1, <4>1
    <3> QED BY <2>7, <3>7 DEF HasFlat, SameFlat
  <2> QED BY <2>4, <2>6, <2>7, <2>8 DEF ReadsAs, SameSubs
<1> QED BY <1>4, <1>5 DEF T, c

-----------------------------------------------------------------------------
(* What a save leaves alone                                                *)

\* Every command of batch c is about what is below one of the nodes W.
About(V, c, W) ==
  /\ IsBatch(c, V) /\ c.late = {}
  /\ \A p \in c.del \cup c.add : \E w \in W : w \in Seq(V) /\ Under(w, p)
  /\ \A p \in c.put : p # <<>> /\ \E w \in W : w \in Seq(V) /\ Under(w, Front(p))

\* Only these nodes, the ones above them and the ones below them then change.
OnlyAround(t, T, W) == \A q \in (t \ T) \cup (T \ t) : \E w \in W : Comparable(w, q)

LEMMA CommitAround ==
  ASSUME NEW V, NEW t \in SUBSET Seq(V), NEW c, NEW W, About(V, c, W)
  PROVE  OnlyAround(t, Commit(t, c), W)
<1>1. ASSUME NEW q \in Seq(V), NEW p \in Seq(V), NEW w \in Seq(V), Under(w, p), Under(p, q) \/ Under(q, p)
      PROVE  Comparable(w, q)
  BY <1>1, UnderOrder DEF Comparable
<1>2. ASSUME NEW q \in t \ Commit(t, c) PROVE \E w \in W : Comparable(w, q)
  <2>1. (\E p \in c.del : Under(p, q)) \/ (\E p \in c.put : Under(Front(p), q))
    BY DEF Commit, Front, About
  <2>2. CASE \E p \in c.del : Under(p, q)
    BY <1>1, <2>2 DEF About, IsBatch
  <2>3. ASSUME NEW p \in c.put, Under(Front(p), q) PROVE \E w \in W : Comparable(w, q)
    <3>1. p \in Seq(V) /\ p # <<>>
      BY DEF About, IsBatch
    <3>2. Front(p) \in Seq(V)
      BY <3>1, FrontAbove
    <3> QED BY <1>1, <2>3, <3>2 DEF About
  <2> QED BY <2>1, <2>2, <2>3
<1>3. ASSUME NEW q \in Commit(t, c) \ t PROVE \E w \in W : Comparable(w, q)
  <2>1. PICK p \in c.put \cup c.add : q \in Nodes(p)
    BY DEF Commit
  <2>2. p \in Seq(V) /\ q \in Seq(V) /\ Under(q, p)
    BY <2>1, NodesAbove DEF About, IsBatch
  <2>3. \E w \in W : w \in Seq(V) /\ Under(w, p)
    <3>1. CASE p \in c.add
      BY <3>1 DEF About
    <3>2. CASE p \in c.put
      <4>1. p # <<>> /\ \E w \in W : w \in Seq(V) /\ Under(w, Front(p))
        BY <3>2 DEF About
      <4>2. Front(p) \in Seq(V) /\ Under(Front(p), p)
        BY <2>2, <4>1, FrontAbove
      <4> QED BY <2>2, <4>1, <4>2, UnderOrder
    <3> QED BY <3>1, <3>2
  <2> QED BY <1>1, <2>2, <2>3
<1> QED BY <1>2, <1>3 DEF OnlyAround

\* A row as a page reads it: its secrets are blank.
NoSecrets(s, r) ==
  /\ \A f \in s.secret : r[f] = None
  /\ \A n \in Subs(s) : \A k \in DOMAIN r[n] : \A f \in SubSchema(s, n).secret : r[n][k][f] = None

\* Every command of a flat diff is about a field that differs.
LEMMA FlatAbout ==
  ASSUME NEW V, NEW b \in Seq(V), NEW s, Flat(s) \subseteq V, NEW live, \A f \in s.multi : live[f] \subseteq V,
         \A f \in s.secret : live[f] = None, NEW u, FlatTyped(s, u, V)
  PROVE  /\ \A p \in FlatDiff(b, s, live, u).del \cup FlatDiff(b, s, live, u).add :
              p \in Seq(V) /\ p \in FlatUnits(b, s, live, u)
         /\ \A p \in FlatDiff(b, s, live, u).put :
              p \in Seq(V) /\ p # <<>> /\ Front(p) \in Seq(V) /\ Front(p) \in FlatUnits(b, s, live, u)
<1> DEFINE d == FlatDiff(b, s, live, u)
<1>1. ASSUME NEW f \in s.leaf \cup s.flag \cup DOMAIN s.pick \cup s.secret, live[f] # u[f]
      PROVE  b \o <<f>> \in FlatUnits(b, s, live, u)
  BY <1>1 DEF FlatUnits
<1>2. ASSUME NEW f \in s.multi, NEW v \in (live[f] \ u[f]) \cup (u[f] \ live[f])
      PROVE  b \o <<f, v>> \in FlatUnits(b, s, live, u)
  <2>1. b \o <<f, v>> \in {b \o <<f, w>> : w \in (live[f] \ u[f]) \cup (u[f] \ live[f])}
    OBVIOUS
  <2> QED BY <2>1 DEF FlatUnits
<1>3. Within(V, b, s, d)
  BY FlatWithin
<1>4. ASSUME NEW p \in d.del PROVE p \in FlatUnits(b, s, live, u)
  <2>1. IsDel(p, b, s, live, u)
    BY FlatParts
  <2> QED BY <1>1, <1>2, <2>1 DEF IsDel, Dropped
<1>5. ASSUME NEW p \in d.add PROVE p \in FlatUnits(b, s, live, u)
  <2>1. IsAdd(p, b, s, live, u)
    BY FlatParts
  <2> QED BY <1>1, <1>2, <2>1 DEF IsAdd, Raised
<1>6. ASSUME NEW p \in d.put PROVE Front(p) \in Seq(V) /\ Front(p) \in FlatUnits(b, s, live, u)
  <2>0. IsPut(p, b, s, live, u)
    BY FlatParts
  <2>1. PICK f \in Written(s, live, u) : p = b \o <<f, u[f]>>
    BY <2>0 DEF IsPut
  <2>2. f \in s.leaf \cup s.flag \cup DOMAIN s.pick \cup s.secret /\ live[f] # u[f] /\ f \in V /\ u[f] \in V
    BY <2>1 DEF Written, Flat, FlatTyped
  <2>3. Front(p) = b \o <<f>>
    BY <2>1, <2>2, ValueFront
  <2> QED BY <1>1, <2>2, <2>3
<1> QED BY <1>3, <1>4, <1>5, <1>6 DEF Within

\* So is every command of a whole diff, or about a sub-node that is new or gone.
LEMMA DiffAbout ==
  ASSUME NEW V, NEW b, NEW s, NEW live, NEW u, Over(V, b, s, live, u), NoSecrets(s, live)
  PROVE  About(V, Diff(b, s, live, u), Units(b, s, live, u))
<1> DEFINE c == Diff(b, s, live, u)
           W == Units(b, s, live, u)
<1>1. b \in Seq(V) /\ SchemaOver(s, V) /\ LiveOver(s, live, V) /\ RowOver(s, u, V)
  BY DEF Over
<1>2. Flat(s) \subseteq V /\ FlatTyped(s, u, V) /\ \A f \in s.multi : live[f] \subseteq V
  BY <1>1 DEF SchemaOver, Fields, RowOver, LiveOver
<1>3. IsBatch(c, V) /\ c.late = {}
  BY DiffIsBatch
<1>4. FlatUnits(b, s, live, u) \subseteq W /\ \A n \in Subs(s) : SubUnits(b, s, n, live[n], u[n]) \subseteq W
  BY DEF Units
<1>5. \A p \in Seq(V) : Under(p, p)
  BY UnderOrder
<1>6. \A f \in s.secret : live[f] = None
  BY DEF NoSecrets
<1>7. /\ \A p \in FlatDiff(b, s, live, u).del \cup FlatDiff(b, s, live, u).add : p \in Seq(V) /\ p \in W
      /\ \A p \in FlatDiff(b, s, live, u).put : p # <<>> /\ Front(p) \in Seq(V) /\ Front(p) \in W
  BY <1>1, <1>2, <1>4, <1>6, FlatAbout
<1>8. ASSUME NEW n \in Subs(s), NEW k, k \in (DOMAIN u[n] \ DOMAIN live[n]) \cup (DOMAIN live[n] \ DOMAIN u[n])
      PROVE  SubBase(b, s, n, k) \in Seq(V) /\ SubBase(b, s, n, k) \in W
  <2>1. Keyed(s, n, k, V)
    BY <1>1, <1>8 DEF RowOver, LiveOver
  <2>2. SubBase(b, s, n, k) \in SubUnits(b, s, n, live[n], u[n])
    BY <1>8 DEF SubUnits
  <2> QED BY <1>1, <1>4, <2>1, <2>2, SubApart
<1>9. ASSUME NEW n \in Subs(s), NEW k \in DOMAIN u[n]
      PROVE  /\ \A p \in SubFlat(b, s, n, live[n], u[n], k).del \cup SubFlat(b, s, n, live[n], u[n], k).add :
                  \E w \in W : w \in Seq(V) /\ Under(w, p)
             /\ \A p \in SubFlat(b, s, n, live[n], u[n], k).put :
                  p # <<>> /\ \E w \in W : w \in Seq(V) /\ Under(w, Front(p))
  <2>1. CASE k \notin DOMAIN live[n]
    BY <1>8, <2>1, SubWithin
  <2>2. CASE k \in DOMAIN live[n]
    <3> DEFINE x == SubBase(b, s, n, k)
               S == SubSchema(s, n)
               l == live[n][k]
               v == u[n][k]
    <3>1. x \in Seq(V) /\ Flat(S) \subseteq V /\ FlatTyped(S, v, V) /\ (\A f \in S.multi : l[f] \subseteq V)
      BY <2>2, SubOver DEF SubLive
    <3>2. \A f \in S.secret : l[f] = None
      BY <2>2 DEF NoSecrets
    <3>3. FlatUnits(x, S, l, v) \subseteq W
      <4>1. FlatUnits(x, S, l, v) \subseteq SubUnits(b, s, n, live[n], u[n])
        BY <2>2 DEF SubUnits
      <4> QED BY <1>4, <4>1
    <3>4. SubFlat(b, s, n, live[n], u[n], k) = FlatDiff(x, S, l, v)
      BY <2>2 DEF SubFlat, SubLive
    <3> HIDE DEF x, S, l, v
    <3>5. /\ \A p \in FlatDiff(x, S, l, v).del \cup FlatDiff(x, S, l, v).add : p \in Seq(V) /\ p \in W
          /\ \A p \in FlatDiff(x, S, l, v).put : p # <<>> /\ Front(p) \in Seq(V) /\ Front(p) \in W
      BY <3>1, <3>2, <3>3, FlatAbout
    <3> QED BY <1>5, <3>4, <3>5
  <2> QED BY <2>1, <2>2
<1>10. ASSUME NEW p \in c.del \cup c.add PROVE \E w \in W : w \in Seq(V) /\ Under(w, p)
  <2>1. IsDiffDel(p, b, s, live, u) \/ IsDiffAdd(p, b, s, live, u)
    BY <1>10, DiffParts
  <2> HIDE DEF W
  <2>2. CASE IsDiffDel(p, b, s, live, u)
    BY <1>5, <1>7, <1>8, <1>9, <2>2 DEF IsDiffDel
  <2>3. CASE IsDiffAdd(p, b, s, live, u)
    BY <1>5, <1>7, <1>8, <1>9, <2>3 DEF IsDiffAdd
  <2> QED BY <2>1, <2>2, <2>3
<1>11. ASSUME NEW p \in c.put PROVE p # <<>> /\ \E w \in W : w \in Seq(V) /\ Under(w, Front(p))
  <2>1. IsDiffPut(p, b, s, live, u)
    BY DiffParts
  <2> HIDE DEF W
  <2> QED BY <1>5, <1>7, <1>9, <2>1 DEF IsDiffPut
<1> QED BY <1>3, <1>10, <1>11 DEF About

\* A save changes the nodes its user edited and no others, whatever the
\* configuration has become since the form was opened.
THEOREM ChangesOnlyEdits ==
  ASSUME NEW V, NEW t \in SUBSET Seq(V), NEW b, NEW s, NEW live, NEW u,
         Over(V, b, s, live, u), NoSecrets(s, live)
  PROVE  OnlyAround(t, Commit(t, Diff(b, s, live, u)), Units(b, s, live, u))
BY DiffAbout, CommitAround

-----------------------------------------------------------------------------
(* What a save deletes                                                     *)

\* A flat diff against what is there deletes what is there.
LEMMA FlatDeletes ==
  ASSUME NEW V, NEW t \in SUBSET Seq(V), Rooted(t), NEW b \in Seq(V), b # <<>>,
         NEW s, Flat(s) \subseteq V, NEW live, Reads(t, b, s, live), NEW u
  PROVE  FlatDiff(b, s, live, u).del \subseteq t
<1>1. SUFFICES ASSUME NEW p, IsDel(p, b, s, live, u) PROVE p \in t
  BY FlatParts
<1>2. ASSUME NEW f \in Flat(s)
      PROVE  /\ Kids(At(t, b), f) \subseteq V
             /\ \A v \in V : v \in Kids(At(t, b), f) <=> b \o <<f, v>> \in t
             /\ <<f>> \in At(t, b) <=> b \o <<f>> \in t
  <2>1. f \in V
    OBVIOUS
  <2> QED BY <2>1, ReadBelow
<1>3. ASSUME NEW f \in s.leaf, live[f] # None PROVE b \o <<f>> \in t
  <2>1. f \in Flat(s) /\ f \in V
    BY DEF Flat
  <2>2. Kids(At(t, b), f) # {}
    BY <1>3 DEF Reads, Str
  <2>3. PICK v \in V : b \o <<f, v>> \in t
    BY <1>2, <2>1, <2>2
  <2>4. b \o <<f>> \in Seq(V) /\ Len(b \o <<f>>) = Len(b) + 1 /\ Under(b \o <<f>>, b \o <<f, v>>) /\ Len(b) \in Nat \ {0}
    BY <2>1, Below
  <2>5. Len(b \o <<f>>) >= 2
    BY <2>4
  <2> QED BY <2>3, <2>4, <2>5, RootedAbove
<1>4. ASSUME NEW f \in s.flag, live[f] PROVE b \o <<f>> \in t
  <2>1. f \in Flat(s)
    BY DEF Flat
  <2> QED BY <1>2, <1>4, <2>1 DEF Reads
<1>5. ASSUME NEW f \in s.multi, NEW v \in live[f] PROVE b \o <<f, v>> \in t
  <2>1. f \in Flat(s) /\ v \in Kids(At(t, b), f)
    BY DEF Flat, Reads
  <2> QED BY <1>2, <2>1
<1> QED BY <1>1, <1>3, <1>4, <1>5 DEF IsDel, Dropped

\* A save from a row that is current deletes nothing that is not there: the
\* device has no reason to refuse it.
THEOREM DeletesWhatIsThere ==
  ASSUME NEW V, None \in V, NEW t \in SUBSET Seq(V), Rooted(t), NEW b \in Seq(V), b # <<>>,
         NEW s, SchemaOver(s, V), NEW u, RowOver(s, u, V)
  PROVE  ~HasVoidDelete(t, Diff(b, s, Row(t, b, s), u))
<1> DEFINE live == Row(t, b, s)
<1>1. LiveOver(s, live, V) /\ Matches(t, b, s, live) /\ SameSubs(V, t, b, s, live)
  BY RowMatches
<1> HIDE DEF live
<1>2. Over(V, b, s, live, u) /\ Flat(s) \subseteq V
  BY <1>1 DEF Over, SchemaOver, Fields
<1>3. SUFFICES ASSUME NEW p, IsDiffDel(p, b, s, live, u) PROVE p \in t
  BY DiffParts DEF HasVoidDelete, live
<1>4. FlatDiff(b, s, live, u).del \subseteq t
  BY <1>1, <1>2, FlatDeletes DEF Matches
<1>5. ASSUME NEW n \in Subs(s), NEW k \in DOMAIN u[n] PROVE SubFlat(b, s, n, live[n], u[n], k).del \subseteq t
  <2>1. SubBase(b, s, n, k) \in Seq(V) /\ SubBase(b, s, n, k) # <<>> /\ Flat(SubSchema(s, n)) \subseteq V
    BY <1>2, SubOver
  <2>2. Reads(t, SubBase(b, s, n, k), SubSchema(s, n), SubLive(s, n, live[n], k))
    BY <1>1, <1>2, SubReads
  <2> QED BY <2>1, <2>2, FlatDeletes DEF SubFlat
<1>6. \A n \in Subs(s) : \A k \in DOMAIN live[n] : SubBase(b, s, n, k) \in t
  BY <1>1 DEF SameSubs
<1> QED BY <1>3, <1>4, <1>5, <1>6 DEF IsDiffDel

-----------------------------------------------------------------------------
(* Secrets                                                                 *)

\* What is kept of a secret field.
LEMMA SecretAfter ==
  ASSUME NEW V, NEW t \in SUBSET Seq(V), NEW b, NEW s, FlatApart(s), NEW live, NEW u, NEW c,
         Setting(V, b, s, live, u, c), NEW f \in s.secret
  PROVE  Kids(At(Commit(t, c), b), f) = IF u[f] = None THEN Kids(At(t, b), f) ELSE {u[f]}
<1> DEFINE C == At(Commit(t, c), b)
<1>1. /\ f \in Flat(s) /\ f \notin s.leaf /\ f \notin s.flag /\ f \notin s.multi /\ f \notin DOMAIN s.pick
      /\ u[f] \in V
  BY DEF FlatApart, Flat, Setting, FlatTyped
<1>2. /\ \A w \in V : ValueAfter(At(t, b), C, s, live, u, f, w)
      /\ Kids(At(t, b), f) \subseteq V /\ Kids(C, f) \subseteq V
  BY <1>1, FieldAfter
<1> HIDE DEF C
<1>3. f \notin Dropped(s, live, u) /\ (f \in Written(s, live, u) <=> u[f] # None)
  BY <1>1 DEF Dropped, Written
<1>4. CASE u[f] = None
  <2>1. \A w \in V : w \in Kids(C, f) <=> w \in Kids(At(t, b), f)
    BY <1>1, <1>2, <1>3, <1>4 DEF ValueAfter
  <2>2. Kids(C, f) = Kids(At(t, b), f)
    BY <1>2, <2>1
  <2> QED BY <1>4, <2>2 DEF C
<1>5. CASE u[f] # None
  <2>1. \A w \in V : w \in Kids(C, f) <=> w = u[f]
    BY <1>1, <1>2, <1>3, <1>5 DEF ValueAfter
  <2>2. Kids(C, f) = {u[f]}
    BY <1>1, <1>2, <2>1
  <2> QED BY <1>5, <2>2 DEF C
<1> QED BY <1>4, <1>5

\* A secret left blank is kept, whatever it is by now, and one that is typed
\* replaces it, also in a sub-node.
THEOREM SecretsKept ==
  ASSUME NEW V, NEW t \in SUBSET Seq(V), NEW b, NEW s, NEW live, NEW u, Over(V, b, s, live, u)
  PROVE  LET T == Commit(t, Diff(b, s, live, u))
             Kept(x, r, f) == Kids(At(T, x), f) = IF r[f] = None THEN Kids(At(t, x), f) ELSE {r[f]}
         IN  /\ \A f \in s.secret : Kept(b, u, f)
             /\ \A n \in Subs(s) : \A k \in DOMAIN u[n] : \A f \in SubSchema(s, n).secret :
                  Kept(SubBase(b, s, n, k), u[n][k], f)
<1> DEFINE c == Diff(b, s, live, u)
<1>1. SchemaOver(s, V)
  BY DEF Over
<1>2. ASSUME NEW f \in s.secret
      PROVE  Kids(At(Commit(t, c), b), f) = IF u[f] = None THEN Kids(At(t, b), f) ELSE {u[f]}
  <2>1. Setting(V, b, s, live, u, c) /\ FlatApart(s)
    BY <1>1, FlatIncluded DEF SchemaOver, Apart
  <2> HIDE DEF c
  <2> QED BY <2>1, SecretAfter
<1>3. ASSUME NEW n \in Subs(s), NEW k \in DOMAIN u[n], NEW f \in SubSchema(s, n).secret
      PROVE  Kids(At(Commit(t, c), SubBase(b, s, n, k)), f)
               = IF u[n][k][f] = None THEN Kids(At(t, SubBase(b, s, n, k)), f) ELSE {u[n][k][f]}
  <2> DEFINE x == SubBase(b, s, n, k)
             S == SubSchema(s, n)
             l == SubLive(s, n, live[n], k)
             v == u[n][k]
  <2>1. Setting(V, x, S, l, v, c) /\ FlatApart(S) /\ f \in S.secret
    BY <1>1, SubIncluded, SubSchemas
  <2> HIDE DEF c, x, S, l, v
  <2>2. Kids(At(Commit(t, c), x), f) = IF v[f] = None THEN Kids(At(t, x), f) ELSE {v[f]}
    BY <2>1, SecretAfter
  <2> QED BY <2>2 DEF x, v
<1> QED BY <1>2, <1>3
=============================================================================
