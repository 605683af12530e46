----------------------------- MODULE EditorKit ------------------------------
(***************************************************************************)
(* What the editors of the WebUI share: a row (an object as a page shows   *)
(* it) is parsed from the running configuration, and a desired row is      *)
(* diffed against the row the page holds into a batch of commands.  Every  *)
(* lib module has its own copies of the helpers modelled here (childStr,   *)
(* keysOf, leaf, flag, multi, the create-when-empty tail); they agree.     *)
(*                                                                         *)
(* A schema names the fields of a row by the node each is kept in:         *)
(*   leaf    single-valued nodes, None when absent                         *)
(*   multi   multi-valued nodes or bare tag nodes: a set of strings        *)
(*   flag    valueless nodes                                               *)
(*   secret  leaves that are never read back and written when typed        *)
(*   pick    leaves that always have a value in the form: field -> default *)
(*   quiet   the picks whose default counts as set on an absent object     *)
(*   tags    tag nodes with fields of their own: key -> row                *)
(*   gates   nodes whose presence switches their fields on: {""} -> row    *)
(* An `enabled` of the code is kept as the `disable` node it stands for.   *)
(***************************************************************************)
EXTENDS ConfigTree

NoSubs == [x \in {} |-> {}]
Schema(leaf, multi, flag) ==
  [leaf |-> leaf, multi |-> multi, flag |-> flag,
   secret |-> {}, pick |-> NoSubs, quiet |-> {}, tags |-> NoSubs, gates |-> NoSubs]

Flat(s) == s.leaf \cup s.multi \cup s.flag \cup s.secret \cup DOMAIN s.pick
Fields(s) == Flat(s) \cup DOMAIN s.tags \cup DOMAIN s.gates

\* No node is kept in two fields.
FlatApart(s) ==
  /\ s.leaf \cap (s.multi \cup s.flag \cup s.secret \cup DOMAIN s.pick) = {}
  /\ s.multi \cap (s.flag \cup s.secret \cup DOMAIN s.pick) = {}
  /\ s.flag \cap (s.secret \cup DOMAIN s.pick) = {}
  /\ s.secret \cap DOMAIN s.pick = {}
  /\ s.quiet \subseteq DOMAIN s.pick
Apart(s) ==
  /\ FlatApart(s)
  /\ Flat(s) \cap (DOMAIN s.tags \cup DOMAIN s.gates) = {}
  /\ DOMAIN s.tags \cap DOMAIN s.gates = {}
  /\ \A n \in DOMAIN s.tags : FlatApart(s.tags[n])
  /\ \A n \in DOMAIN s.gates : FlatApart(s.gates[n])

\* What an absent object counts as in a diff: the `?? null` and `?? false`.
Blank(s) ==
  [f \in Fields(s) |-> CASE f \in s.quiet -> s.pick[f]
                        [] f \in (s.leaf \cup s.secret \cup DOMAIN s.pick) \ s.quiet -> None
                        [] f \in s.multi -> {}
                        [] f \in s.flag -> FALSE
                        [] OTHER -> NoSubs]

\* emptyX(): what the form of a new object starts from.
Empty(s) == s.pick @@ Blank(s)

\* The part of configuration t at base b, the base cut off.
At(t, b) == {SubSeq(q, Len(b) + 1, Len(q)) : q \in {r \in t : Len(r) > Len(b) /\ SubSeq(r, 1, Len(b)) = b}}

\* keysOf, childStr: the children of node f at the root of c, and one of them.
Kids(c, f) == {q[2] : q \in {r \in c : Len(r) = 2 /\ r[1] = f}}
Str(c, f, absent) == IF Kids(c, f) = {} THEN absent ELSE CHOOSE v \in Kids(c, f) : TRUE

\* The flat fields of a row at the root of c.
FlatRow(c, s) ==
  [f \in Flat(s) |-> CASE f \in s.leaf -> Str(c, f, None)
                      [] f \in DOMAIN s.pick -> Str(c, f, s.pick[f])
                      [] f \in s.secret -> None
                      [] f \in s.multi -> Kids(c, f)
                      [] f \in s.flag -> <<f>> \in c]

\* The nodes with fields of their own, their schemas, and where they are kept
\* below base b: each under its key, or, for a gate, at its name.
Subs(s) == DOMAIN s.tags \cup DOMAIN s.gates
SubSchema(s, n) == IF n \in DOMAIN s.tags THEN s.tags[n] ELSE s.gates[n]
SubBase(b, s, n, k) == IF n \in DOMAIN s.tags THEN b \o <<n, k>> ELSE b \o <<n>>

\* The row at base b: what the parser of an editor makes of its node.
Row(t, b, s) ==
  LET c == At(t, b)
      Keys(n) == IF n \in DOMAIN s.tags THEN Kids(c, n) ELSE {k \in {None} : <<n>> \in c}
  IN [f \in Fields(s) |->
        IF f \in Flat(s) THEN FlatRow(c, s)[f]
        ELSE [k \in Keys(f) |-> FlatRow(At(c, SubBase(<<>>, s, f, k)), SubSchema(s, f))]]

\* Mutants: clearing a leaf sends nothing; clearing one deletes it, there or
\* not; clearing one sets it to an empty value.
FlatDiffSets(b, s, live, u) ==
  Batch({b \o <<f>> : f \in {g \in s.flag : live[g] /\ ~u[g]}}
          \cup UNION {{b \o <<f, v>> : v \in live[f] \ u[f]} : f \in s.multi},
        {b \o <<f, u[f]>> : f \in {g \in s.leaf \cup DOMAIN s.pick \cup s.secret : u[g] # None /\ u[g] # live[g]}},
        {b \o <<f>> : f \in {g \in s.flag : u[g] /\ ~live[g]}}
          \cup UNION {{b \o <<f, v>> : v \in u[f] \ live[f]} : f \in s.multi})
FlatDiffClears(b, s, live, u) ==
  Both(FlatDiffSets(b, s, live, u), Deletes({b \o <<f>> : f \in {g \in s.leaf : u[g] = None}}))
FlatDiffBlanks(b, s, live, u) ==
  Both(FlatDiffSets(b, s, live, u), Puts({b \o <<f, None>> : f \in {g \in s.leaf : u[g] = None /\ live[g] # None}}))

\* leaf, flag, multi: the commands that take the flat fields from live to u.
FlatDiff(b, s, live, u) ==
  Batch({b \o <<f>> : f \in {g \in s.leaf : u[g] = None /\ live[g] # None}
                              \cup {g \in s.flag : live[g] /\ ~u[g]}}
          \cup UNION {{b \o <<f, v>> : v \in live[f] \ u[f]} : f \in s.multi},
        {b \o <<f, u[f]>> : f \in {g \in s.leaf \cup DOMAIN s.pick : u[g] # None /\ u[g] # live[g]}
                                    \cup {g \in s.secret : u[g] # None}},
        {b \o <<f>> : f \in {g \in s.flag : u[g] /\ ~live[g]}}
          \cup UNION {{b \o <<f, v>> : v \in u[f] \ live[f]} : f \in s.multi})

\* Keyed sub-nodes: the ones that went are deleted, new ones are created and
\* filled, the others diffed field by field.
SubDiff(b, s, n, live, u) ==
  LET sub == SubSchema(s, n)
      base(k) == SubBase(b, s, n, k)
  IN BothOf({FlatDiff(base(k), sub, IF k \in DOMAIN live THEN live[k] ELSE Blank(sub), u[k]) : k \in DOMAIN u}
            \cup {Adds({base(k) : k \in DOMAIN u \ DOMAIN live}),
                  Deletes({base(k) : k \in DOMAIN live \ DOMAIN u})})

Diff(b, s, live, u) ==
  BothOf({FlatDiff(b, s, live, u)} \cup {SubDiff(b, s, n, live[n], u[n]) : n \in Subs(s)})

\* ensureCreated: a new object that sets nothing is created by its bare node.
Created(b, isNew, c) == IF isNew /\ c.put \cup c.add = {} THEN Adds({b}) ELSE c

(***************************************************************************)
(* An editor: where its objects are kept, what its parser reads and what   *)
(* its diff writes.                                                        *)
(*   keyed    objects have names; otherwise the section is one object      *)
(*   inline   its form is a panel of the page rather than a modal          *)
(*   need     fields its form refuses to leave empty                       *)
(*   live     the row the diff compares with: the row the form was opened  *)
(*            on ("open"), the page's row at the time of the save          *)
(*            ("page"), or the device's, read again by the save ("device") *)
(*   renames  whether an object can be saved under another key: a move,    *)
(*            the old object deleted and a new one built                   *)
(*   edits    whether its page offers to edit an object                    *)
(*   deletes  whether its page offers to delete an object                  *)
(***************************************************************************)
Editor(at, read, write) ==
  [at |-> at, keyed |-> TRUE, inline |-> FALSE, read |-> read, write |-> write, need |-> {}, live |-> "open",
   renames |-> FALSE, edits |-> TRUE, deletes |-> TRUE]

\* An inline panel over a section that is one object: its state is taken from
\* the page's row when it is mounted, its diff from the page's row when saved.
Panel(at, read, write) == [Editor(at, read, write) EXCEPT !.keyed = FALSE, !.inline = TRUE, !.live = "page"]

\* A modal over such a section.
Settings(at, read, write) == [Panel(at, read, write) EXCEPT !.inline = FALSE]

\* Validation refuses a row whose required fields are empty.
Filled(s, u, need) ==
  \A f \in need : IF f \in s.multi THEN u[f] # {}
                  ELSE IF f \in DOMAIN s.tags THEN DOMAIN u[f] # {}
                  ELSE u[f] # None

\* The nodes a user changed: one for every field of u that differs from r.
FlatUnits(b, s, r, u) ==
  {b \o <<f>> : f \in {g \in s.leaf \cup s.flag \cup DOMAIN s.pick \cup s.secret : r[g] # u[g]}}
    \cup UNION {{b \o <<f, v>> : v \in (r[f] \ u[f]) \cup (u[f] \ r[f])} : f \in s.multi}
SubUnits(b, s, n, r, u) ==
  {SubBase(b, s, n, k) : k \in (DOMAIN r \ DOMAIN u) \cup (DOMAIN u \ DOMAIN r)}
    \cup UNION {FlatUnits(SubBase(b, s, n, k), SubSchema(s, n), r[k], u[k]) : k \in DOMAIN r \cap DOMAIN u}
Units(b, s, r, u) == FlatUnits(b, s, r, u) \cup UNION {SubUnits(b, s, n, r[n], u[n]) : n \in Subs(s)}
=============================================================================
