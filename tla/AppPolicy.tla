------------------------------ MODULE AppPolicy ------------------------------
(***************************************************************************)
(* The policy engine of application control (qfappd-core, policy.rs): what *)
(* `compile` accepts, the ACTION_IDs it gives to the bound actions, and    *)
(* the verdict of an action for an application.                            *)
(*                                                                         *)
(* A policy is a record of `actions` (name -> default, categories and      *)
(* applications with a verdict) and `bindings`, a set of records with an   *)
(* `id`, the `action` they apply and the flows they `match`.  Names of     *)
(* interfaces, addresses and ports only select flows here.                 *)
(***************************************************************************)
EXTENDS Naturals, FiniteSets

CONSTANTS
  Unknown,      \* application id 0: nDPI could not tell
  CategoryOf,   \* the catalog: application -> category
  MaxActionId   \* the widest ACTION_ID the mark layout holds

Apps == DOMAIN CategoryOf

ASSUME PolicyAssumption == /\ Unknown \notin Apps
                           /\ MaxActionId \in Nat

BoundNames(p) == {b.action : b \in p.bindings}

\* Validation: binding ids are unique, bound actions exist and fit the mark.
ValidPolicy(p) ==
  /\ \A b, c \in p.bindings : b.id = c.id => b = c
  /\ BoundNames(p) \subseteq DOMAIN p.actions
  /\ Cardinality(BoundNames(p)) <= MaxActionId

\* Bindings are taken in the order of their ids.
FirstOf(bs) == CHOOSE b \in bs : \A c \in bs : b.id <= c.id
FirstId(p, name) == FirstOf({b \in p.bindings : b.action = name}).id

\* Mutant: ids count from 0, which is the id of no action.
ActionIdFromZero(p, name) ==
  Cardinality({b.action : b \in {c \in p.bindings : c.id < FirstId(p, name)}})

\* ACTION_IDs are 1, 2, ... for the distinct actions in binding order.
ActionId(p, name) ==
  Cardinality({b.action : b \in {c \in p.bindings : c.id <= FirstId(p, name)}})

\* Mutant: the ACTION_ID is used as an index that counts from 0.
ActionAtOffByOne(p, id) ==
  {n \in BoundNames(p) :
     Cardinality({m \in BoundNames(p) : FirstId(p, m) < FirstId(p, n)}) = id}

\* The action an ACTION_ID stands for: the id-th of them, if there is one.
ActionAt(p, id) ==
  {n \in BoundNames(p) :
     Cardinality({m \in BoundNames(p) : FirstId(p, m) < FirstId(p, n)}) + 1 = id}

\* Application over category over default; the default for an unknown one.
VerdictOf(action, app) ==
  IF app = Unknown THEN action.default
  ELSE IF app \in DOMAIN action.applications THEN action.applications[app]
  ELSE IF CategoryOf[app] \in DOMAIN action.categories
       THEN action.categories[CategoryOf[app]]
  ELSE action.default

EmptyPolicy == [actions |-> [n \in {} |-> n], bindings |-> {}]
=============================================================================
