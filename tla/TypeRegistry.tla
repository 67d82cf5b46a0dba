---------------------------- MODULE TypeRegistry ----------------------------
(***************************************************************************)
(* What the registry of external events promises: a registration is one    *)
(* atomic step that gives its caller the type of the callback; a binding   *)
(* of a type to a callback is never changed while the library lives, and   *)
(* neither a type nor a callback is ever bound twice.                      *)
(***************************************************************************)
CONSTANTS
  Clients,    \* the threads that register
  Names,      \* the callbacks they register
  BuiltIns,   \* the bindings a new life begins with
  Numbers,    \* the types the registry may give out
  NoGrant     \* the answer before the first life

VARIABLES
  bindings,   \* pairs of a type and its callback
  granted     \* the binding each client got last, perhaps in an earlier life

Init ==
  /\ bindings = {}
  /\ granted = [c \in Clients |-> NoGrant]

Grant(c, b) == granted' = [granted EXCEPT ![c] = b]

\* The callback is known: its type is given out again.
Again(c) ==
  /\ \E b \in bindings : b[2] \in Names /\ Grant(c, b)
  /\ UNCHANGED bindings

Bind(c, f) ==
  /\ \A b \in bindings : b[2] # f
  /\ \E n \in Numbers :
       /\ \A b \in bindings : b[1] # n
       /\ bindings' = bindings \cup {<<n, f>>}
       /\ Grant(c, <<n, f>>)

Refuse(c) == bindings = {} /\ Grant(c, NoGrant) /\ UNCHANGED bindings

NewLife == bindings' = BuiltIns /\ UNCHANGED granted

Next ==
  \/ \E c \in Clients : Again(c) \/ Refuse(c) \/ \E f \in Names : Bind(c, f)
  \/ NewLife

Spec == Init /\ [][Next]_<<bindings, granted>>

=============================================================================
