---------------------------- MODULE HistoryStore ----------------------------
(***************************************************************************)
(* What the chat history promises: per user and conversation id one        *)
(* document, replaced as a whole or deleted as a whole.  What a request    *)
(* may do is fixed when it arrives: a save puts the document it brought,   *)
(* and a delete deletes, under the user who asked and the id that was      *)
(* asked for, at most once, and nothing else.  Transactions, row locks and *)
(* the two tables are not said here; Conversations.tla is shown to         *)
(* implement this.                                                         *)
(***************************************************************************)
CONSTANTS Requests, Users, Ids, Docs, NoDoc

VARIABLES
    store,      \* store[<<u, i>>]: the document, or NoDoc
    asked,      \* asked[r]: what request r asks of the store, NoDoc if nothing (yet)
    effective   \* the requests that have taken effect

Save == [do: {"save"}, of: Users \X Ids, doc: Docs]
Removal == [do: {"delete"}, of: Users \X Ids]

Init ==
    /\ store = [c \in Users \X Ids |-> NoDoc]
    /\ asked = [r \in Requests |-> NoDoc]
    /\ effective = {}

Arrive(r, a) ==
    /\ asked[r] = NoDoc
    /\ asked' = [asked EXCEPT ![r] = a]
    /\ UNCHANGED <<store, effective>>

TakesEffect(r) == r \notin effective /\ effective' = effective \cup {r} /\ UNCHANGED asked

Put(r) ==
    /\ asked[r] \in Save
    /\ TakesEffect(r)
    /\ store' = [store EXCEPT ![asked[r].of] = asked[r].doc]

\* Only a document that is there can be deleted.
Delete(r) ==
    /\ asked[r] \in Removal
    /\ TakesEffect(r)
    /\ store[asked[r].of] # NoDoc
    /\ store' = [store EXCEPT ![asked[r].of] = NoDoc]

Next == \E r \in Requests : Put(r) \/ Delete(r) \/ \E a \in Save \cup Removal : Arrive(r, a)

Spec == Init /\ [][Next]_<<store, asked, effective>>

=============================================================================
