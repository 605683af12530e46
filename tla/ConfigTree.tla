----------------------------- MODULE ConfigTree -----------------------------
(***************************************************************************)
(* The running configuration of the router, as the WebUI's editors see it  *)
(* through VyOS' `retrieve` and `configure` calls, and the command batches *)
(* the editors send.  VyOS itself is external: this is the part of it the  *)
(* editors rely on.                                                        *)
(*                                                                         *)
(* A configuration is a set of paths, closed under the prefixes of length  *)
(* two and more.  The first element of a path names a section, the second  *)
(* the object in it ("" for a section that is one object); fixed keywords  *)
(* that the code never addresses apart are joined in one element, by an    *)
(* underscore.  A node that lost its last child is not told apart from an  *)
(* absent one, except for the objects and the nodes the code creates by    *)
(* name.                                                                   *)
(***************************************************************************)
EXTENDS Sequences, Naturals, FiniteSets

\* An absent value: `null` in the parsed rows, an empty input in the forms.
None == ""

\* Functions given point by point; the provers know nothing of the operators of
\* these names in module TLC.
d :> e == [x \in {d} |-> e]
f @@ g == [x \in DOMAIN f \cup DOMAIN g |-> IF x \in DOMAIN f THEN f[x] ELSE g[x]]

\* Path p is q or one of its ancestors.
Under(p, q) == Len(p) <= Len(q) /\ SubSeq(q, 1, Len(p)) = p

\* The nodes a `set` of p creates on its way.
Nodes(p) == {SubSeq(p, 1, i) : i \in 2..Len(p)}

\* A configuration that has a node has the nodes above it.
Rooted(t) == \A q \in t : Nodes(q) \subseteq t

\* The children of node p.
Vals(t, p) ==
  LET n == Len(p) + 1
  IN {q[n] : q \in {r \in t : Len(r) >= n /\ SubSeq(r, 1, n - 1) = p}}

\* The value of leaf p.
Val(t, p) ==
  LET vs == Vals(t, p) IN IF vs = {} THEN None ELSE CHOOSE v \in vs : TRUE

\* A batch of commands.  `del`: delete a node, or one value of a multi-valued
\* one; `put`: set the value of a single-valued leaf; `add`: set a valueless
\* node or one value of many; `late`: deletes that follow the sets and may
\* undo them.  The other deletes touch nothing the batch sets, or come before
\* the sets that replace what they delete: they are applied first.
NoCommands == [del |-> {}, put |-> {}, add |-> {}, late |-> {}]
Batch(del, put, add) == [NoCommands EXCEPT !.del = del, !.put = put, !.add = add]
Deletes(D) == [NoCommands EXCEPT !.del = D]
Puts(P) == [NoCommands EXCEPT !.put = P]
Adds(A) == [NoCommands EXCEPT !.add = A]
LateDeletes(D) == [NoCommands EXCEPT !.late = D]
BothOf(S) == [part \in {"del", "put", "add", "late"} |-> UNION {c[part] : c \in S}]
Both(c, d) == BothOf({c, d})

\* A delete of a node that is not there.  VyOS answers "nothing to delete",
\* and whether that fails the whole batch is its affair.
HasVoidDelete(t, c) == \E p \in c.del : p \notin t

\* The configuration after a commit of the batch.
Commit(t, c) ==
  LET kept == {q \in t : \A p \in c.del : ~Under(p, q)}
      rest == {q \in kept : \A p \in c.put : ~Under(SubSeq(p, 1, Len(p) - 1), q)}
      done == rest \cup UNION {Nodes(p) : p \in c.put \cup c.add}
  IN {q \in done : \A p \in c.late : ~Under(p, q)}
=============================================================================
