--------------------------- MODULE CustomerTables ---------------------------
(***************************************************************************)
(* The rows that the pages of one customer read and write: the customer,    *)
(* the names of the others, and the inspection targets. CustomerEdit and     *)
(* Templates act on them, Customers puts the two together.                   *)
(*                                                                          *)
(* Of the forty columns the model keeps those that are treated differently: *)
(* the name (required, unique), a date of the contract, the last inspection *)
(* date (written by the form and by uploads), an engineer (null when left   *)
(* out) and the notes, for all columns that are written as they are.         *)
(***************************************************************************)
EXTENDS Naturals, FiniteSets, Sequences

CONSTANTS
  Name,       \* names of customers
  Product,    \* products of inspection targets
  Day,        \* days, numbers that grow
  Text,       \* what a free field or the choice of an engineer can hold
  Scenarios,  \* which pages are used and how often, in one behaviour
  none,       \* null: of a column, of a choice, of a row
  empty       \* '': of a field of the form, and of a text column that was saved so

VARIABLES
  scenario,   \* chosen once
  customer,   \* the row, none when it is removed
  others,     \* names of the other customers
  targets,    \* the inspection_targets of the customer
  products,   \* history: the product of each target created so far; a target's id is its place
  version,    \* history: writes of the customer's row so far
  names       \* history: the names the customer has had

tables == <<customer, others, targets, products, version, names>>

Path == Name \X Product \X {"pdf", "hwp"}

Customer == [name : Name, start : Day \cup {none}, last : Day \cup {none},
             engineer : Text \cup {none}, notes : Text \cup {none, empty}]

Target == [id : Nat \ {0}, order : Nat, product : Product, template : Path \cup {none}]

ASSUME CustomerAssumption ==
  /\ Day \subseteq Nat \ {0} /\ none \notin Day /\ none \notin Text
  /\ empty \notin Day /\ empty \notin Text /\ empty # none
  /\ none \notin Customer /\ none \notin Path
  /\ Scenarios \subseteq [opens : Nat, edits : Nat, saves : Nat, adds : Nat, removals : Nat,
                          news : Nat, uploads : Nat, deletes : Nat, fails : BOOLEAN,
                          before : Nat, templates : Nat, downloads : Nat, foreign : Nat]

TablesOK ==
  /\ scenario \in Scenarios
  /\ customer \in Customer \cup {none}
  /\ others \subseteq Name
  /\ IsFiniteSet(targets) /\ \A g \in targets : g \in Target /\ g.id <= Len(products)
  /\ products \in Seq(Product) /\ version \in Nat /\ names \subseteq Name

TablesInit ==
  /\ scenario \in Scenarios
  /\ \E n \in Name :
       /\ customer = [name |-> n, start |-> none, last |-> none, engineer |-> none, notes |-> none]
       /\ names = {n}
  /\ others = {}
  /\ products \in [1..scenario.before -> Product]
  /\ targets = {[id |-> i, order |-> i - 1, product |-> products[i], template |-> none] : i \in 1..scenario.before}
  /\ version = 0

\* InspectionTargetsService.create: a row without a template; no customer, no target.
Created(order, product) ==
  /\ products' = Append(products, product)
  /\ targets' = targets \cup {[id |-> Len(products'), order |-> order, product |-> product, template |-> none]}
  /\ UNCHANGED <<customer, others, version, names>>

\* A row and all that refers to it, by the foreign keys of the schema.
Deleted ==
  /\ customer' = none /\ targets' = {}
  /\ version' = version + 1
  /\ UNCHANGED <<others, products, names>>

\* The customer was never renamed and no other has its name, and no product was used twice.
NothingShared ==
  /\ \A m, n \in names : m = n
  /\ names \cap others = {}
  /\ \A i, j \in DOMAIN products : products[i] = products[j] => i = j

=============================================================================
