------------------------------ MODULE Console -------------------------------
(***************************************************************************)
(* One administrator at a page of the console, others at work on the same  *)
(* router.  A page loads a copy of its section, a form is opened on a row  *)
(* of that copy and edited, and its save sends the difference between two  *)
(* rows, none of which need be what the router runs by then.               *)
(***************************************************************************)
EXTENDS EditorInputs

CONSTANTS
  Text,        \* what names a node and what is entered in a form: strings
  MaxOthers    \* bound: changes by others in one behaviour
ASSUME BoundsAssumption == MaxOthers \in Nat

\* The strings that the code itself writes.
Keywords ==
  {None, "source", "destination", "nat", "next-hop", "blackhole", "interface", "description", "distance", "disable",
   "protocols_static_route", "area-type", "no-summary", "section", "public-keys", "type", "key", "mode", "vif",
   "interfaces_bridge", "member_interface", "firewall_global-options", "state-policy", "accept", "service_ntp", "server",
   "service_dhcp-server", "subnet", "subnet-id", "range", "default", "port-group", "static-mapping",
   "option_default-router", "option_name-server", "start", "stop", "drop", "masquerade", "if", "tcp_udp",
   "pre-shared-secret", "client", "site-to-site", "x", "y", "t", "n", "m", "br", "br2"}
  \cup {Decimal[i] : i \in DOMAIN Decimal}
  \cup Fields(NatRule_Read) \cup Fields(Subnet_Read) \cup Fields(Range_Read)
ASSUME TextAssumption == Keywords \subseteq Text

-----------------------------------------------------------------------------
(* The shapes of what the console handles.                                 *)

Word == Text \ {None}

\* Nothing is named by an empty string but an unmarked description and the
\* next-hop of a blackhole route.
Blankable == {"description", "blackhole"}
IsPath(q) ==
  /\ q \in Seq(Text) /\ Len(q) >= 2
  /\ \A i \in 3..Len(q) : q[i] = None => q[i - 1] \in Blankable
IsConfig(t) == (\A q \in t : IsPath(q)) /\ Rooted(t)

IsKey(e, k) ==
  /\ k \in Seq(Text) /\ IsPath(Base(e, k))
  /\ IF ~Ed[e].keyed THEN k = <<"">>
     ELSE CASE e = "static_route" -> Len(k) = 3 /\ k[2] \in {"next-hop", "interface", "blackhole"}
            [] e = "vxlan" -> Len(k) = 1 /\ k[1] # None
            [] e = "vlan" -> Len(k) = 3 /\ k[2] = "vif"
            [] e = "nat_source" -> Len(k) = 2 /\ k[1] = "source"
            [] e = "nat_destination" -> Len(k) = 2 /\ k[1] = "destination"
            [] e = "nat_static" -> Len(k) = 1 /\ k[1] # None
            [] e = "alias" -> Len(k) = 2 /\ k[1] # "port-group"
            [] e = "policy" -> Len(k) = 2 /\ k[1] = "port-group"
            [] e = "dhcp_relay" -> Len(k) = 2
            [] e = "dhcp_subnet" -> Len(k) = 3 /\ k[2] = "subnet"
            [] e = "dhcp_range" -> Len(k) = 5 /\ k[2] = "subnet" /\ k[4] = "range"
            [] e = "dhcp_mapping" -> Len(k) = 5 /\ k[2] = "subnet" /\ k[4] = "static-mapping"
            [] OTHER -> Len(k) = 1

\* The fields of schema s in a row, each of its kind.
IsFlatRow(s, r) ==
  /\ \A f \in s.leaf \cup s.secret : r[f] \in Text
  /\ \A f \in DOMAIN s.pick : r[f] \in Word
  /\ \A f \in s.multi : r[f] \subseteq Word
  /\ \A f \in s.flag : r[f] \in BOOLEAN
IsSubRow(s, r) == IsFlatRow(s, r) /\ r = [f \in Flat(s) |-> r[f]]

\* What a few editors keep beside the fields of their schema.
Extras(e) ==
  CASE e = "openvpn" -> {"mode"} [] e = "vxlan" -> {"bridge"} [] e = "config_sync" -> {"has_key", "section"} [] OTHER -> {}
HasExtras(e, r) ==
  CASE e = "openvpn" -> r["mode"] \in OpenvpnModes
    [] e = "vxlan" -> r["bridge"] \in Text
    [] e = "config_sync" -> /\ r["has_key"] \in BOOLEAN
                            /\ \A x \in r["section"] : x = <<x[1], x[2]>> /\ x[1] \in Word /\ x[2] \in Text
    [] OTHER -> TRUE

\* A row of editor e, parsed or entered.
IsRow(e, r) ==
  LET s == Ed[e].read
  IN  /\ r = [f \in Fields(s) \cup Extras(e) |-> r[f]]
      /\ IsFlatRow(s, r)
      /\ \A n \in Subs(s) : /\ r[n] = [k \in DOMAIN r[n] |-> r[n][k]]
                            /\ \A k \in DOMAIN r[n] : /\ k \in IF n \in DOMAIN s.tags THEN Word ELSE {None}
                                                      /\ IsSubRow(SubSchema(s, n), r[n][k])
      /\ HasExtras(e, r)

\* A schema that keeps no two fields in one node, no set and no choice where a
\* value may be empty, and no fields below its sub-nodes' fields.
IsFlatSchema(s) ==
  /\ FlatApart(s) /\ Flat(s) \subseteq Word
  /\ \A f \in DOMAIN s.pick : s.pick[f] \in Word
  /\ (s.multi \cup DOMAIN s.pick) \cap Blankable = {}
IsSchema(s) ==
  /\ IsFlatSchema(s) /\ Apart(s)
  /\ Subs(s) \subseteq Word /\ DOMAIN s.tags \cap Blankable = {}
  /\ \A n \in Subs(s) : IsFlatSchema(SubSchema(s, n)) /\ Subs(SubSchema(s, n)) = {}

\* What an editor relies on: an interface has a name, is in a mode of OpenVPN,
\* and (bound) there is a decimal for the next subnet id.
IsKnown(e, t) ==
  /\ e = "vxlan" => \A q \in t : q[1] = "interfaces_vxlan" => q[2] # None
  /\ e = "openvpn" =>
       \A q \in t : Len(q) >= 4 /\ q[1] = "interfaces_openvpn" /\ q[3] = "mode" => q[4] \in OpenvpnModes
  /\ e \in {"dhcp_server", "dhcp_subnet"} =>
       \A q \in t : Len(q) >= 6 /\ q[1] = Dhcp_At /\ q[5] = "subnet-id"
                     => \E i \in DOMAIN Decimal \ {Len(Decimal)} : q[6] = Decimal[i]

\* Schema s has fields that schema t has too.
FlatPart(s, t) ==
  /\ s.leaf \subseteq t.leaf /\ s.multi \subseteq t.multi /\ s.flag \subseteq t.flag /\ s.secret \subseteq t.secret
  /\ \A f \in DOMAIN s.pick : f \in DOMAIN t.pick /\ s.pick[f] = t.pick[f]
Part(s, t) ==
  /\ FlatPart(s, t)
  /\ \A n \in DOMAIN s.tags : n \in DOMAIN t.tags /\ FlatPart(s.tags[n], t.tags[n])
  /\ \A n \in DOMAIN s.gates : n \in DOMAIN t.gates /\ FlatPart(s.gates[n], t.gates[n])

\* A schema has all the kinds of fields.
HasKinds(s) == DOMAIN s = DOMAIN Schema({}, {}, {})

\* Every editor writes fields that it reads; only objects with names can be
\* moved, and only the form of a section follows its page.
ASSUME SchemasAssumption ==
  \A e \in DOMAIN Ed :
    /\ IsSchema(Ed[e].read) /\ IsSchema(Ed[e].write) /\ Part(Ed[e].write, Ed[e].read)
    /\ Ed[e].renames => Ed[e].keyed
    /\ Ed[e].live = "synced" => ~Ed[e].keyed
    /\ HasKinds(Ed[e].write) /\ \A n \in Subs(Ed[e].write) : HasKinds(SubSchema(Ed[e].write, n))
\* The inputs have the shapes of what the code handles.
ASSUME InputsAssumption ==
  \A e \in DOMAIN Ed :
    /\ Ed[e].at \in Text
    /\ IsKey(e, Key(e))
    /\ \A t \in Starts(e) : IsConfig(t) /\ IsKnown(e, t)
    /\ Ed[e].keyed => /\ \A k \in {NewKey(e)} \cup Targets(e, <<>>) : IsKey(e, k)
                      /\ \A r \in NewRows(e) : IsRow(e, r)

\* The subnets of configuration t have ids of their own: no two have the same,
\* and no two have none.
IdsApart(t) ==
  \A j, k \in Dhcp_Keys(t, <<"subnet">>) :
    j # k => Val(t, <<Dhcp_At>> \o j \o <<"subnet-id">>) # Val(t, <<Dhcp_At>> \o k \o <<"subnet-id">>)
\* The subnets that the forms of the ranges and the mappings are about.
Homes(e) == {SubSeq(k, 1, 3) : k \in {Key(e), NewKey(e)} \cup Targets(e, <<>>)}
\* The router starts with ids that are apart (VyOS refuses others); only the
\* pages of the DHCP server write to its section; and a range or a mapping is
\* entered under a subnet that its page shows.
ASSUME SubnetsAssumption ==
  \A e \in DOMAIN Ed :
    /\ Ed[e].at = Dhcp_At => e \in {"dhcp_server", "dhcp_subnet", "dhcp_range", "dhcp_mapping"}
    /\ \A t \in Starts(e) : /\ IdsApart(t)
                            /\ e \in {"dhcp_range", "dhcp_mapping"} => Homes(e) \subseteq Dhcp_Keys(t, <<"subnet">>)

-----------------------------------------------------------------------------
VARIABLES
  ed,      \* the editor
  tree,    \* the running configuration
  page,    \* the copy of it the page last loaded
  status,  \* "ready" | "error": the page's load status
  form,    \* the open form
  toast,   \* the outcome of the last save or delete
  others   \* changes by others so far

vars == <<ed, tree, page, status, form, toast, others>>

Closed == [mode |-> "closed"]
\* A form on object k: the row it was opened on, and the entries so far.
Form(mode, k, row, u) == [mode |-> mode, key |-> k, to |-> k, seed |-> row, u |-> u]

EditForm(k, row) == Form("edit", k, row, Entries(ed, row))

-----------------------------------------------------------------------------
Init ==
  /\ ed \in DOMAIN Ed
  /\ tree \in Starts(ed)
  /\ page = tree
  /\ status = "ready"
  /\ form = Closed
  /\ toast = "none"
  /\ others = 0

\* load(): the page replaces its copy.  An open modal keeps what it was opened
\* with; a form that belongs to the page's own data is filled in again.
Load ==
  /\ toast = "none"
  /\ page # tree \/ status = "error"
  /\ page' = tree
  /\ status' = "ready"
  /\ form' = IF Ed[ed].live = "synced" /\ form # Closed
             THEN EditForm(form.key, RowOf(ed, tree, form.key)) ELSE form
  /\ UNCHANGED <<ed, tree, toast, others>>

\* A failed load: the page's contents, a mounted panel among them, give way to
\* the error until a load succeeds.  (A modal survives it: it is not followed.)
LoadFails ==
  /\ toast = "none" /\ status = "ready" /\ Ed[ed].inline
  /\ status' = "error"
  /\ form' = Closed
  /\ UNCHANGED <<ed, tree, page, toast, others>>

\* Open the form of a row of the page; a panel is mounted with its tab.
Open ==
  /\ toast = "none" /\ form = Closed /\ status = "ready" /\ Ed[ed].edits
  /\ \E k \in IF Ed[ed].keyed THEN KeysOf(ed, page) \cap {Key(ed)} ELSE {Key(ed)} :
       form' = EditForm(k, RowOf(ed, page, k))
  /\ UNCHANGED <<ed, tree, page, status, toast, others>>

\* Open an empty form and enter a whole object; the bare form is what the
\* seed records.
OpenNew ==
  /\ toast = "none" /\ form = Closed /\ status = "ready" /\ Ed[ed].keyed
  /\ \E r \in NewRows(ed) : form' = [Form("new", <<>>, r, r) EXCEPT !.to = NewKey(ed)]
  /\ UNCHANGED <<ed, tree, page, status, toast, others>>

\* The form is as it was opened.
Untouched ==
  /\ form.to = IF form.key = <<>> THEN NewKey(ed) ELSE form.key
  /\ form.u = IF form.key = <<>> THEN form.seed ELSE Entries(ed, form.seed)

\* Change one entry of the form (bound: one edit for each opening), or the key
\* it is to be saved under.
Edit ==
  /\ toast = "none" /\ form # Closed /\ Untouched
  /\ \/ \E r \in RowEdits(ed, form.u) : form' = [form EXCEPT !.u = r]
     \/ \E k \in Targets(ed, form.key) \ {form.to} : form' = [form EXCEPT !.to = k]
  /\ UNCHANGED <<ed, tree, page, status, toast, others>>

Cancel ==
  /\ toast = "none" /\ form # Closed
  /\ form' = Closed
  /\ UNCHANGED <<ed, tree, page, status, toast, others>>

\* The configuration and the row the diff of the open form is taken against.
Seen == IF Ed[ed].live = "device" THEN tree ELSE page

\* Mutant: every form is compared with the page's row.
LiveRowPage == IF form.key = <<>> THEN form.seed ELSE RowOf(ed, page, form.key)

LiveRow ==
  IF form.key = <<>> THEN form.seed
  ELSE IF Ed[ed].live = "open" THEN form.seed ELSE RowOf(ed, Seen, form.key)

\* submit() of the form: validate, diff, commit.  A batch with nothing in it is
\* not sent.  A modal closes; a panel stays with the entries as they are.
Save ==
  /\ toast = "none" /\ form # Closed
  /\ \E r \in Submit(ed, page, form.key, form.to, form.seed, form.u) :
       \E c \in {Commands(ed, Seen, form.key, form.to, LiveRow, r)} :
         /\ tree' = Commit(tree, c)
         /\ toast' = IF c = NoCommands THEN "no_changes" ELSE "applied"
         /\ form' = IF ~Ed[ed].inline THEN Closed ELSE [form EXCEPT !.seed = form.u]
  /\ UNCHANGED <<ed, page, status, others>>

\* The device refuses a batch that deletes what is not there: the form stays.
\* (So it does when the guard refuses a batch because another change is
\* pending, which is CommitGuard's subject.)
SaveRefused ==
  /\ toast = "none" /\ form # Closed
  /\ \E r \in Submit(ed, page, form.key, form.to, form.seed, form.u) :
       HasVoidDelete(tree, Commands(ed, Seen, form.key, form.to, LiveRow, r))
  /\ toast' = "refused"
  /\ UNCHANGED <<ed, tree, page, status, form, others>>

\* Delete a row of the page.
Delete ==
  /\ toast = "none" /\ form = Closed /\ status = "ready" /\ Ed[ed].keyed /\ Ed[ed].deletes
  /\ \E k \in KeysOf(ed, page) :
       LET c == DeleteCommands(ed, page, k)
       IN \/ tree' = Commit(tree, c) /\ toast' = "deleted"
          \/ HasVoidDelete(tree, c) /\ tree' = tree /\ toast' = "refused"
  /\ UNCHANGED <<ed, page, status, form, others>>

\* Another administrator saves one edit of the object whose form is open, or
\* deletes an object, from a page that is up to date.  An entry in the form reads
\* nothing of this and comes after it.
Other ==
  /\ toast = "none" /\ others < MaxOthers
  /\ form # Closed => form.key # <<>> /\ Untouched
  /\ \/ /\ form # Closed /\ (Ed[ed].keyed => form.key \in KeysOf(ed, tree))
        /\ LET live == RowOf(ed, tree, form.key)
           IN \E u \in OtherEdits(ed, live) :
                \E r \in Submit(ed, tree, form.key, form.key, live, u) :
                  tree' = Commit(tree, Commands(ed, tree, form.key, form.key, live, r))
     \/ /\ Ed[ed].keyed
        /\ \E k \in KeysOf(ed, tree) : tree' = Commit(tree, DeleteCommands(ed, tree, k))
  /\ others' = others + 1
  /\ UNCHANGED <<ed, page, status, form, toast>>

Next == Load \/ LoadFails \/ Open \/ OpenNew \/ Edit \/ Cancel \/ Save \/ SaveRefused \/ Delete \/ Other
Spec == Init /\ [][Next]_vars

-----------------------------------------------------------------------------
IsForm(e, f) ==
  /\ f = [mode |-> f.mode, key |-> f.key, to |-> f.to, seed |-> f.seed, u |-> f.u]
  /\ f.mode \in {"edit", "new"}
  /\ (f.key = <<>> /\ Ed[e].keyed) \/ IsKey(e, f.key)
  /\ IsKey(e, f.to)
  /\ IsRow(e, f.seed) /\ IsRow(e, f.u)

\* The page, the form and the outcome of its last save are of the shapes the
\* code keeps them in, and the configuration stays a tree.
TypeOK ==
  /\ ed \in DOMAIN Ed
  /\ status \in {"ready", "error"}
  /\ toast \in {"none", "applied", "no_changes", "refused", "deleted"}
  /\ others \in 0..MaxOthers
  /\ IsConfig(tree) /\ IsConfig(page)
  /\ toast = "none" => IsKnown(ed, tree) /\ IsKnown(ed, page)
  /\ form = Closed \/ IsForm(ed, form)

Submitted == CHOOSE r \in Submit(ed, page, form.key, form.to, form.seed, form.u) : TRUE
Saves == form # Closed /\ toast' \in {"applied", "no_changes"}

\* A row as a page shows it: secrets are never shown.
Hidden(s, r) == [f \in s.secret |-> None] @@ r
Shown(r) ==
  LET s == Ed[ed].write
  IN [n \in DOMAIN s.gates |-> [k \in DOMAIN r[n] |-> Hidden(s.gates[n], r[n][k])]] @@ Hidden(s, r)

\* t has the object of the form, with the values the form was seeded with.
Shows(t) == form.key \in KeysOf(ed, t) \cup {<<"">>} /\ RowOf(ed, t, form.key) = form.seed

\* The form was opened on, and the page shows, what the router runs.
Fresh ==
  /\ page = tree
  /\ form # Closed => IF form.key = <<>> THEN form.to \notin KeysOf(ed, tree)
                      ELSE Shows(tree)

\* A save from a fresh form reads back as entered: what the diff of an editor
\* writes is what its parser reads, for every field, creation, move and
\* clearing (lib/*.ts, parseX against diffX).  Two kinds of save do not, and are
\* left out: a change of an OpenVPN interface's mode keeps a remote-host of the
\* old one, and config-sync's set, then delete, of sections loses a section that
\* is narrowed to parts, and leaves one whose last part is removed, as a whole.
SwitchesMode == ed = "openvpn" /\ form # Closed /\ form.key # <<>> /\ form.u["mode"] # form.seed["mode"]
MixesSections ==
  /\ ed = "config_sync" /\ form # Closed
  /\ \E s \in form.u["section"] \cup form.seed["section"] :
       s[2] # None /\ \/ <<s[1], None>> \in form.u["section"] \cup form.seed["section"]
                      \/ \A x \in form.u["section"] : x[1] # s[1]
SavedAsEntered ==
  [][Saves /\ Fresh /\ ~SwitchesMode /\ ~MixesSections
       => Shown(RowOf(ed, tree', form.to)) = Shown(Submitted)]_vars

\* The nodes that the user changed in the form, those kept elsewhere included.
Touched(r) ==
  IF r = form.seed /\ form.key = form.to THEN {}
  ELSE Elsewhere(ed, tree, form.to, r)
       \cup (IF form.key = <<>> THEN {} ELSE Elsewhere(ed, tree, form.key, form.seed))
       \cup IF form.key # form.to
            THEN {Base(ed, form.to)} \cup IF form.key = <<>> THEN {} ELSE {Base(ed, form.key)}
            ELSE Units(Base(ed, form.key), Ed[ed].write, form.seed, r)

Edited(t, u) ==
  LET touched == Touched(Submitted)
  IN \A q \in (t \ u) \cup (u \ t) : \E p \in touched : Under(p, q) \/ Under(q, p)

\* A save changes what its user edited and nothing else (nothing at all when the
\* form is saved as it was opened): settings the editor
\* does not know, other objects, and the fields the user left alone keep their
\* value, also when others changed them since the form was opened.  (A panel
\* diffs against the page: while the page still shows what the panel was
\* seeded with.)
OnlyEdited ==
  [][Saves /\ (Ed[ed].live = "open" \/ form.key = <<>> \/ Shows(Seen))
       => Edited(tree, tree')]_vars

\* What a fresh form or page sends is never refused: it deletes nothing that
\* is not there.  (A change of an OpenVPN interface's mode does: it deletes
\* every node of the old mode, present or not.)
AcceptedWhenFresh == [][toast' = "refused" => ~Fresh \/ SwitchesMode]_vars

\* A delete takes one row away and leaves the others as they are, from an up to
\* date page also where rows share a node.
DeletesOneRow ==
  [][toast' = "deleted" /\ (page = tree \/ ed # "static_route") =>
       \E k \in KeysOf(ed, page) :
         /\ KeysOf(ed, tree') = KeysOf(ed, tree) \ {k}
         /\ \A j \in KeysOf(ed, tree') : RowOf(ed, tree', j) = RowOf(ed, tree, j)]_vars

\* Subnet ids stay distinct over all the shared networks: a new subnet never
\* takes the id of another (nextSubnetId), while its page is up to date.
DistinctSubnetIds == [][Saves /\ Fresh => IdsApart(tree')]_vars
=============================================================================
