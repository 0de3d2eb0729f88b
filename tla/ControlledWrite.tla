--------------------------- MODULE ControlledWrite ---------------------------
(***************************************************************************)
(* What the write path promises, without its files, workers and requests:  *)
(* a message changes by a person's hand, or by spending, once, an intent   *)
(* that was logged for an action a person had approved.                    *)
(***************************************************************************)
EXTENDS Naturals, Sequences

CONSTANTS Actions, Messages, MessageOf, Person

VARIABLES
    approved,       \* actions a person approved
    intents,        \* logged write intents, <<action, position>>
    authors         \* per message, the intent behind each of its versions

promiseVars == <<approved, intents, authors>>

ByHand == <<Person, 0>>

PromiseInit ==
    /\ approved = {}
    /\ intents = {}
    /\ authors = [m \in Messages |-> <<ByHand>>]

Approve(a) ==
    /\ approved' = approved \cup {a}
    /\ UNCHANGED <<intents, authors>>

(* One append may log several intents of its action.                       *)
LogIntents(a) ==
    /\ a \in approved
    /\ intents \subseteq intents'
    /\ \A intent \in intents' \ intents : intent[1] = a
    /\ UNCHANGED <<approved, authors>>

Unspent(intent) ==
    \A m \in Messages : \A i \in 1 .. Len(authors[m]) : authors[m][i] # intent

Write(intent) ==
    /\ Unspent(intent)
    /\ authors' = [authors EXCEPT ![MessageOf[intent[1]]] = Append(@, intent)]
    /\ UNCHANGED <<approved, intents>>

Edit(m) ==
    /\ authors' = [authors EXCEPT ![m] = Append(@, ByHand)]
    /\ UNCHANGED <<approved, intents>>

PromiseNext ==
    \/ \E a \in Actions : Approve(a) \/ LogIntents(a)
    \/ \E intent \in intents : Write(intent)
    \/ \E m \in Messages : Edit(m)

PromiseSpec == PromiseInit /\ [][PromiseNext]_promiseVars
=============================================================================
