-------------------------- MODULE IdempotentOrders --------------------------
(***************************************************************************)
(* What an Idempotency-Key promises the agents (README.md, "Idempotency    *)
(* and money"): the first order created under a key is kept, a repeat with *)
(* the same body is answered with it, a repeat with another body gets a    *)
(* conflict.  A request that comes once its key has an order gets no other *)
(* answer.  One that came before may be refused for any reason; an         *)
(* internal error, which the README does not promise, only answers a       *)
(* request whose key has bought an order for some agent meanwhile.         *)
(*                                                                         *)
(* Nothing is said of offers, the provider, transactions or races.         *)
(* OrderCreation, the model of the code, is checked and proved against it. *)
(***************************************************************************)
CONSTANTS Requests,   \* the requests, which also name the orders they create
          Agents, Keys, Bodies,
          None

VARIABLES kept,   \* what has been created: a slot, its order and its body
          open,   \* the requests that came before their slot had an order
          told    \* what requests were answered, and what they had asked for

vars == <<kept, open, told>>

Slots == Agents \X Keys

Init == kept = {} /\ open = {} /\ told = {}

Free(s) == \A k \in kept : k.slot # s

Asks(r, s, b) == [request |-> r, slot |-> s, body |-> b]

Comes(r, s, b) ==
  /\ Free(s)
  /\ \A q \in open \cup told : q.request # r
  /\ open' = open \cup {Asks(r, s, b)}
  /\ UNCHANGED <<kept, told>>

(* A request may be given up without an answer. *)
Leaves(r, s, b) ==
  /\ Asks(r, s, b) \in open
  /\ open' = open \ {Asks(r, s, b)}
  /\ UNCHANGED <<kept, told>>

(* Every request is answered at most once, and as what it came for. *)
Tells(r, s, b, answer, order) ==
  /\ \A t \in told : t.request # r
  /\ \A q \in open : q.request = r => q = Asks(r, s, b)
  /\ told' = told \cup {[request |-> r, slot |-> s, body |-> b,
                         answer |-> answer, order |-> order]}
  /\ open' = open \ {Asks(r, s, b)}

Creates(r, s, b) ==
  /\ Asks(r, s, b) \in open
  /\ Free(s)
  /\ kept' = kept \cup {[slot |-> s, order |-> r, body |-> b]}
  /\ Tells(r, s, b, "created", r)

Repeats(r, s, b) ==
  /\ \E k \in kept : k.slot = s /\ k.body = b /\ Tells(r, s, b, "created", k.order)
  /\ UNCHANGED kept

Conflicts(r, s, b) ==
  /\ \E k \in kept : k.slot = s /\ k.body # b
  /\ Tells(r, s, b, "conflict", None)
  /\ UNCHANGED kept

(* No such offer, an expired one, an error of the provider. *)
Refuses(r, s, b) ==
  /\ Asks(r, s, b) \in open
  /\ Tells(r, s, b, "refused", None)
  /\ UNCHANGED kept

(* The internal error; the order may be another agent's with the same key. *)
Errs(r, s, b) ==
  /\ Asks(r, s, b) \in open
  /\ \E k \in kept : k.slot[2] = s[2]
  /\ Tells(r, s, b, "error", None)
  /\ UNCHANGED kept

Next ==
  \E r \in Requests, s \in Slots, b \in Bodies :
    \/ Comes(r, s, b) \/ Leaves(r, s, b)
    \/ Creates(r, s, b) \/ Repeats(r, s, b) \/ Conflicts(r, s, b)
    \/ Refuses(r, s, b) \/ Errs(r, s, b)

Spec == Init /\ [][Next]_vars
=============================================================================
