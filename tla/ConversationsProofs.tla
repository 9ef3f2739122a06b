------------------------ MODULE ConversationsProofs ------------------------
(***************************************************************************)
(* Theorems about Conversations, for any users, ids, bodies, requests and  *)
(* bounds.                                                                 *)
(***************************************************************************)
EXTENDS Conversations, FiniteSetTheorems, TLAPS

Saving == {"insert_user", "upsert", "replace", "commit", "saved"}
Locking == {"replace", "commit"}

\* A request is at a place that its own handler has, with what it asked for.
AskedInv ==
    \A r \in Requests :
      /\ at[r] = "new" => ask[r] = NoRow
      /\ at[r] # "new" => ask[r] \in Ask
      /\ at[r] \notin {"new", "refused"} => WellFormed(ask[r])
      /\ at[r] \in Saving => ask[r].do = "save"
      /\ at[r] \in {"delete", "deleted"} => ask[r].do = "delete"
      /\ at[r] \in {"read_messages", "got"} => ask[r].do = "get"
      /\ at[r] = "listed" => ask[r].do = "list"
      /\ at[r] = "unsure" => ask[r].do \in {"save", "delete"}

\* A conversations row is written by one transaction at a time.
LocksExclude ==
    \A q, r \in Requests :
      q # r /\ at[q] \in Locking /\ at[r] \in Locking => ask[q].of # ask[r].of

\* What a transaction has in hand while it holds the row: the row it will
\* commit, based on the one that is there, whose messages it will replace.
SavesHold ==
    \A r \in Requests :
      /\ at[r] \in {"upsert"} \cup Locking => work[r].adds \/ ask[r].of[1] \in users
      /\ at[r] \in Locking =>
           /\ work[r].row # NoRow
           /\ work[r].row.title = ask[r].body.title
           /\ work[r].row.by = r
           /\ work[r].row.born = IF conversations[ask[r].of] = NoRow THEN r
                                 ELSE conversations[ask[r].of].born
      /\ at[r] = "commit" => work[r].lines = MessagesOf(ask[r].of)

\* A version is written by a save that has committed.
VersionsCommitted ==
    \A c \in Conversation : conversations[c] # NoRow =>
      at[conversations[c].by] \in {"saved", "unsure"}

StoreInv == TypeOK /\ AskedInv /\ LocksExclude /\ SavesHold /\ VersionsCommitted
            /\ MessagesOfOneSave

----------------------------------------------------------------------------
USE DEF Saving, Locking, Looking, Holding, Ended

LEMMA InitStore == Init => StoreInv
PROOF
  <1> SUFFICES ASSUME Init PROVE StoreInv
    OBVIOUS
  <1>1. TypeOK
    BY SubsetsAssumption, BoundsAssumption DEF Init, TypeOK, Nothing, Work
  <1>2. AskedInv
    BY DEF Init, AskedInv
  <1>3. LocksExclude /\ SavesHold
    BY DEF Init, LocksExclude, SavesHold
  <1>4. VersionsCommitted /\ MessagesOfOneSave
    BY DEF Init, VersionsCommitted, MessagesOfOneSave, MessagesOf
  <1> QED
    BY <1>1, <1>2, <1>3, <1>4 DEF StoreInv

\* What a request asks for is settled when it arrives.
LEMMA AsksAreSettled ==
    ASSUME TypeOK, [Next]_vars
    PROVE  \A r \in Requests : at[r] # "new" => ask'[r] = ask[r] /\ at'[r] # "new"
PROOF
  <1> SUFFICES ASSUME NEW r \in Requests, at[r] # "new"
               PROVE  ask'[r] = ask[r] /\ at'[r] # "new"
    OBVIOUS
  <1>1. CASE UNCHANGED vars
    BY <1>1 DEF vars
  <1>2. CASE Tick
    BY <1>2 DEF Tick
  <1>3. ASSUME NEW q \in Requests, NEW a \in Ask, Arrive(q, a)
        PROVE  ask'[r] = ask[r] /\ at'[r] # "new"
    BY <1>3 DEF Arrive, TypeOK
  <1>4. ASSUME NEW q \in Requests, Handler(q)
        PROVE  ask'[r] = ask[r] /\ at'[r] # "new"
    <2>1. at \in [Requests -> {"new", "waiting"} \cup Holding \cup Ended]
      BY DEF TypeOK
    <2>2. CASE BeginSave(q) \/ EnsureUser(q) \/ UpsertHead(q) \/ ReplaceMessages(q) \/ Commit(q)
      BY <2>1, <2>2 DEF BeginSave, EnsureUser, UpsertHead, ReplaceMessages, Commit, Step
    <2>3. CASE BeginDelete(q) \/ FinishDelete(q)
      BY <2>1, <2>3 DEF BeginDelete, FinishDelete, Step
    <2>4. CASE ReadHead(q) \/ ReadMessages(q) \/ ListRail(q)
      BY <2>1, <2>4 DEF ReadHead, ReadMessages, ListRail, Step
    <2>5. QED
      BY <1>4, <2>2, <2>3, <2>4 DEF Handler
  <1>5. ASSUME NEW q \in Requests, Fail(q) \/ LoseAnswer(q)
        PROVE  ask'[r] = ask[r] /\ at'[r] # "new"
    BY <1>5 DEF Fail, LoseAnswer, TypeOK
  <1> QED
    BY <1>1, <1>2, <1>3, <1>4, <1>5 DEF Next

\* The message rows of a save that is under way, or over, are well typed.
LEMMA RowsAreMessages ==
    ASSUME NEW r \in Requests, ask[r] \in Ask, ask[r].do = "save"
    PROVE  /\ ask[r].of \in Conversation /\ ask[r].body \in Body
           /\ RowsOf(r) \subseteq Message
           /\ \A m \in RowsOf(r) : m.of = ask[r].of
PROOF
  <1>1. ask[r].of \in Conversation /\ ask[r].body \in Bodies
    BY DEF Ask
  <1>2. ask[r].body \in Body
    BY <1>1, BodiesAssumption
  <1>3. ask[r].body.turns \in Seq(Contents)
    BY <1>2 DEF Body
  <1>4. ASSUME NEW i \in DOMAIN ask[r].body.turns
        PROVE  i - 1 \in Nat /\ ask[r].body.turns[i] \in Contents
    BY <1>3, <1>4
  <1> QED
    BY <1>1, <1>2, <1>4 DEF RowsOf, Message

\* A save inserts one row per turn.
LEMMA RowsAreCounted ==
    ASSUME NEW r \in Requests, ask[r] \in Ask, ask[r].do = "save"
    PROVE  IsFiniteSet(RowsOf(r)) /\ Cardinality(RowsOf(r)) = Len(ask[r].body.turns)
PROOF
  <1> DEFINE turns == ask[r].body.turns
             row(i) == [of |-> ask[r].of, position |-> i - 1, by |-> r, content |-> turns[i]]
             f == [i \in 1..Len(turns) |-> row(i)]
  <1>1. turns \in Seq(Contents)
    BY RowsAreMessages DEF Body
  <1>2. Len(turns) \in Nat /\ DOMAIN turns = 1..Len(turns)
    BY <1>1
  <1>3. f \in [1..Len(turns) -> RowsOf(r)]
    BY <1>2 DEF RowsOf
  <1>4. ASSUME NEW i \in 1..Len(turns), NEW j \in 1..Len(turns), f[i] = f[j]
        PROVE  i = j
    <2>1. row(i).position = row(j).position
      BY <1>4
    <2> QED
      BY <2>1, <1>2
  <1>5. ASSUME NEW m \in RowsOf(r)
        PROVE  \E i \in 1..Len(turns) : f[i] = m
    BY <1>2, <1>5 DEF RowsOf
  <1>6. f \in Bijection(1..Len(turns), RowsOf(r))
    <2> HIDE DEF f
    <2> QED
      BY <1>3, <1>4, <1>5 DEF Bijection, Injection, IsInjective, Surjection
  <1>7. IsFiniteSet(1..Len(turns)) /\ Cardinality(1..Len(turns)) = Len(turns)
    BY <1>2, FS_Interval
  <1> QED
    BY <1>6, <1>7, FS_Bijection DEF ExistsBijection

LEMMA WorkUpdates ==
    ASSUME NEW w \in Work
    PROVE  /\ \A n \in Nat : [w EXCEPT !.since = n] \in Work
           /\ \A b \in BOOLEAN : [w EXCEPT !.adds = b] \in Work
           /\ \A row \in Row \cup {NoRow} : [w EXCEPT !.row = row] \in Work
           /\ \A lines \in SUBSET Message : [w EXCEPT !.lines = lines] \in Work
           /\ \A rail \in SUBSET Entry : [w EXCEPT !.rail = rail] \in Work
  BY DEF Work

\* The version of a conversation is a save of it, which has committed.
LEMMA VersionsAreSaves ==
    ASSUME StoreInv, NEW c \in Conversation, conversations[c] # NoRow
    PROVE  LET w == conversations[c].by
           IN  /\ conversations[c] \in Row /\ w \in Requests
               /\ at[w] \in {"saved", "unsure"}
               /\ ask[w] \in Ask /\ ask[w].do = "save" /\ ask[w].of = c
PROOF
  <1>1. conversations[c] \in Row
    BY DEF StoreInv, TypeOK
  <1>2. conversations[c].by \in Requests
    BY <1>1 DEF Row
  <1>3. at[conversations[c].by] \in {"saved", "unsure"}
    BY DEF StoreInv, VersionsCommitted
  <1>4. ask[conversations[c].by] \in Ask
    BY <1>2, <1>3 DEF StoreInv, AskedInv
  <1> QED
    BY <1>1, <1>2, <1>3, <1>4 DEF StoreInv, MessagesOfOneSave

LEMMA TypesPreserved ==
    ASSUME StoreInv, [Next]_vars
    PROVE  TypeOK'
PROOF
  <1> USE DEF StoreInv
  <1>1. CASE UNCHANGED vars
    BY <1>1 DEF vars, tables, TypeOK
  <1>2. CASE Tick
    BY <1>2, BoundsAssumption DEF Tick, TypeOK, tables
  <1>3. ASSUME NEW r \in Requests, NEW a \in Ask, Arrive(r, a)
        PROVE  TypeOK'
    BY <1>3 DEF Arrive, TypeOK, tables
  <1>4. ASSUME NEW r \in Requests, BeginSave(r)
        PROVE  TypeOK'
    <2>1. [work[r] EXCEPT !.since = now] \in Work
      BY WorkUpdates DEF TypeOK
    <2>2. Committed \subseteq Requests
      BY DEF Committed
    <2> QED
      BY <1>4, <2>1, <2>2 DEF BeginSave, Step, TypeOK, tables
  <1>5. ASSUME NEW r \in Requests, EnsureUser(r)
        PROVE  TypeOK'
    <2>1. [work[r] EXCEPT !.adds = ask[r].of[1] \notin users] \in Work
      BY WorkUpdates DEF TypeOK
    <2> QED
      BY <1>5, <2>1 DEF EnsureUser, Step, TypeOK, tables
  <1>6. ASSUME NEW r \in Requests, UpsertHead(r)
        PROVE  TypeOK'
    <2> DEFINE old == conversations[ask[r].of]
               row == [title |-> ask[r].body.title, updated_at |-> work[r].since,
                       born |-> IF old = NoRow THEN r ELSE old.born, by |-> r]
    <2>1. ask[r] \in Ask /\ ask[r].do = "save"
      BY <1>6 DEF UpsertHead, AskedInv
    <2>2. ask[r].of \in Conversation /\ ask[r].body \in Body
      BY <2>1, RowsAreMessages
    <2>3. old \in Row \cup {NoRow}
      BY <2>2 DEF TypeOK
    <2>4. row \in Row
      BY <2>2, <2>3 DEF Row, Body, TypeOK, Work
    <2>5. [work[r] EXCEPT !.row = row] \in Work
      BY <2>4, WorkUpdates DEF TypeOK
    <2> HIDE DEF row
    <2>6. Step(r, "replace", [work[r] EXCEPT !.row = row])
      BY <1>6 DEF UpsertHead, row
    <2>7. UNCHANGED seen
      BY <1>6 DEF UpsertHead
    <2> QED
      BY <2>5, <2>6, <2>7 DEF Step, TypeOK, tables
  <1>7. ASSUME NEW r \in Requests, ReplaceMessages(r)
        PROVE  TypeOK'
    <2>1. [work[r] EXCEPT !.lines = MessagesOf(ask[r].of)] \in Work
      BY WorkUpdates DEF TypeOK, MessagesOf
    <2> QED
      BY <1>7, <2>1 DEF ReplaceMessages, Step, TypeOK, tables
  <1>8. ASSUME NEW r \in Requests, Commit(r)
        PROVE  TypeOK'
    <2>1. ask[r] \in Ask /\ ask[r].do = "save"
      BY <1>8 DEF Commit, AskedInv
    <2>2. ask[r].of \in Conversation /\ RowsOf(r) \subseteq Message
          /\ \A m \in RowsOf(r) : m.of = ask[r].of
      BY <2>1, RowsAreMessages
    <2>3. work[r].row \in Row /\ work[r].row # NoRow
      BY <1>8 DEF Commit, SavesHold, TypeOK, Work
    <2>4. users' \subseteq Users /\ users \subseteq users' /\ ask[r].of[1] \in users'
      BY <1>8, <2>2 DEF Commit, SavesHold, TypeOK, Conversation
    <2>5. conversations' \in [Conversation -> Row \cup {NoRow}]
      BY <1>8, <2>3 DEF Commit, TypeOK
    <2>6. messages' \subseteq Message
      BY <1>8, <2>2 DEF Commit, TypeOK
    <2>7. seen' \in [Requests -> SUBSET (Requests \cup {NoRow})]
      <3>1. ASSUME NEW q \in Requests, at[q] \in Looking
            PROVE  VersionIn(conversations', ask[q].of) \in Requests \cup {NoRow}
        <4>1. ask[q].of \in Conversation
          BY <3>1 DEF AskedInv, Ask
        <4> QED
          BY <4>1, <2>5 DEF VersionIn, Row
      <3>2. /\ seen' = [q \in Requests |-> IF at[q] \in Looking
                              THEN seen[q] \cup {VersionIn(conversations', ask[q].of)}
                              ELSE seen[q]]
            /\ seen \in [Requests -> SUBSET (Requests \cup {NoRow})]
        BY <1>8 DEF Commit, Witnessed, TypeOK
      <3> QED
        BY <3>1, <3>2
    <2>8. \A c \in Conversation : conversations'[c] # NoRow => c[1] \in users'
      BY <1>8, <2>4 DEF Commit, TypeOK
    <2>9. \A m \in messages' : conversations'[m.of] # NoRow
      BY <1>8, <2>2, <2>3 DEF Commit, TypeOK, Message
    <2>10. at' \in [Requests -> {"new", "waiting"} \cup Holding \cup Ended]
      BY <1>8 DEF Commit, TypeOK
    <2> QED
      BY <1>8, <2>4, <2>5, <2>6, <2>7, <2>8, <2>9, <2>10 DEF Commit, TypeOK
  <1>9. ASSUME NEW r \in Requests, BeginDelete(r) \/ ReadHead(r)
        PROVE  TypeOK'
    <2>1. ask[r].of \in Conversation
      BY <1>9 DEF BeginDelete, ReadHead, Starts, AskedInv, Ask
    <2>2. conversations[ask[r].of] \in Row \cup {NoRow}
      BY <2>1 DEF TypeOK
    <2>3. [work[r] EXCEPT !.row = conversations[ask[r].of]] \in Work
      BY <2>2, WorkUpdates DEF TypeOK
    <2>4. VersionIn(conversations, ask[r].of) \in Requests \cup {NoRow}
      BY <2>2 DEF VersionIn, Row
    <2> QED
      BY <1>9, <2>3, <2>4 DEF BeginDelete, ReadHead, Step, TypeOK, tables
  <1>10. ASSUME NEW r \in Requests, FinishDelete(r)
         PROVE  TypeOK'
    <2>1. ask[r].of \in Conversation
      BY <1>10 DEF FinishDelete, AskedInv, Ask
    <2>2. conversations' \in [Conversation -> Row \cup {NoRow}] /\ messages' \subseteq messages
      BY <1>10, <2>1 DEF FinishDelete, TypeOK, WithoutMessagesOf
    <2>3. seen' \in [Requests -> SUBSET (Requests \cup {NoRow})]
      <3>1. ASSUME NEW q \in Requests, at[q] \in Looking
            PROVE  VersionIn(conversations', ask[q].of) \in Requests \cup {NoRow}
        <4>1. ask[q].of \in Conversation
          BY <3>1 DEF AskedInv, Ask
        <4> QED
          BY <4>1, <2>2 DEF VersionIn, Row
      <3> QED
        BY <1>10, <3>1 DEF FinishDelete, Witnessed, TypeOK
    <2>4. \A c \in Conversation : conversations'[c] # NoRow => conversations[c] # NoRow
      BY <1>10, <2>1 DEF FinishDelete, TypeOK
    <2>5. \A m \in messages' : conversations'[m.of] # NoRow
      BY <1>10, <2>1 DEF FinishDelete, TypeOK, WithoutMessagesOf, MessagesOf, Message
    <2>6. at' \in [Requests -> {"new", "waiting"} \cup Holding \cup Ended]
      BY <1>10 DEF FinishDelete, TypeOK
    <2> QED
      BY <1>10, <2>2, <2>3, <2>4, <2>5, <2>6 DEF FinishDelete, TypeOK
  <1>11. ASSUME NEW r \in Requests, ReadMessages(r)
         PROVE  TypeOK'
    <2>1. [work[r] EXCEPT !.lines = MessagesOf(ask[r].of)] \in Work
      BY WorkUpdates DEF TypeOK, MessagesOf
    <2> QED
      BY <1>11, <2>1 DEF ReadMessages, Step, TypeOK, tables
  <1>12. ASSUME NEW r \in Requests, ListRail(r)
         PROVE  TypeOK'
    <2> DEFINE own == {c \in Conversation : c[1] = ask[r].user /\ conversations[c] # NoRow}
               entry(c) == [id |-> c[2], by |-> conversations[c].by,
                            title |-> conversations[c].title,
                            message_count |-> Cardinality(MessagesOf(c))]
    <2>1. PICK top \in SUBSET own :
            Step(r, "listed", [work[r] EXCEPT !.rail = {entry(c) : c \in top}])
      BY <1>12 DEF ListRail
    <2>2. ASSUME NEW c \in Conversation, conversations[c] # NoRow
          PROVE  entry(c) \in Entry
      <3>1. conversations[c] \in Row /\ c[2] \in Ids
        BY <2>2 DEF TypeOK, Conversation
      <3>2. conversations[c].by \in Requests /\ conversations[c].title \in Titles
        BY <3>1 DEF Row
      <3>3. Cardinality(MessagesOf(c)) \in Nat
        BY <2>2, <3>2, VersionsAreSaves, RowsAreCounted, FS_CardinalityType
        DEF MessagesOfOneSave
      <3> QED
        BY <3>1, <3>2, <3>3 DEF Entry
    <2>3. {entry(c) : c \in top} \in SUBSET Entry
      BY <2>2
    <2> HIDE DEF entry
    <2>4. [work[r] EXCEPT !.rail = {entry(c) : c \in top}] \in Work
      BY <2>3, WorkUpdates DEF TypeOK
    <2> QED
      BY <1>12, <2>1, <2>4 DEF ListRail, Step, TypeOK, tables
  <1>13. ASSUME NEW r \in Requests, Fail(r) \/ LoseAnswer(r)
         PROVE  TypeOK'
    BY <1>13, BoundsAssumption DEF Fail, LoseAnswer, TypeOK, tables
  <1> QED
    BY <1>1, <1>2, <1>3, <1>4, <1>5, <1>6, <1>7, <1>8, <1>9, <1>10, <1>11, <1>12, <1>13
    DEF Next, Handler

\* A list reads, and no more.
LEMMA ListReads ==
    ASSUME NEW r \in Requests, ListRail(r)
    PROVE  /\ at[r] = "waiting" /\ ask[r].do = "list"
           /\ at' = [at EXCEPT ![r] = "listed"]
           /\ \E rail : work' = [work EXCEPT ![r] = [work[r] EXCEPT !.rail = rail]]
           /\ UNCHANGED <<now, tables, ask, faults, seen>>
  BY DEF ListRail, Starts, Step

LEMMA AskedPreserved ==
    ASSUME StoreInv, [Next]_vars
    PROVE  AskedInv'
PROOF
  <1> USE DEF StoreInv
  <1>1. CASE UNCHANGED vars
    BY <1>1 DEF vars, AskedInv, WellFormed
  <1>2. CASE Tick
    BY <1>2 DEF Tick, AskedInv, WellFormed
  <1>3. ASSUME NEW r \in Requests, NEW a \in Ask, Arrive(r, a)
        PROVE  AskedInv'
    <2> DEFINE to == IF WellFormed(a) THEN "waiting" ELSE "refused"
    <2>1. at' = [at EXCEPT ![r] = to] /\ ask' = [ask EXCEPT ![r] = a]
      BY <1>3 DEF Arrive
    <2>2. to \in {"waiting", "refused"} /\ (to = "waiting" => WellFormed(a))
      OBVIOUS
    <2> HIDE DEF to
    <2> QED
      BY <2>1, <2>2 DEF TypeOK, AskedInv, WellFormed
  <1>4. ASSUME NEW r \in Requests, BeginSave(r) \/ EnsureUser(r) \/ UpsertHead(r)
                                   \/ ReplaceMessages(r) \/ Commit(r)
        PROVE  AskedInv'
    BY <1>4 DEF BeginSave, EnsureUser, UpsertHead, ReplaceMessages, Commit, Starts, Step,
                TypeOK, AskedInv, WellFormed
  <1>5. ASSUME NEW r \in Requests, BeginDelete(r) \/ FinishDelete(r)
        PROVE  AskedInv'
    BY <1>5 DEF BeginDelete, FinishDelete, Starts, Step, TypeOK, AskedInv, WellFormed
  <1>6. ASSUME NEW r \in Requests, ReadHead(r) \/ ReadMessages(r)
        PROVE  AskedInv'
    BY <1>6 DEF ReadHead, ReadMessages, Starts, Step, TypeOK, AskedInv, WellFormed
  <1>7. ASSUME NEW r \in Requests, Fail(r) \/ LoseAnswer(r)
        PROVE  AskedInv'
    BY <1>7 DEF Fail, LoseAnswer, TypeOK, AskedInv, WellFormed
  <1>8. ASSUME NEW r \in Requests, ListRail(r)
        PROVE  AskedInv'
    BY <1>8, ListReads DEF TypeOK, AskedInv, WellFormed
  <1> QED
    BY <1>1, <1>2, <1>3, <1>4, <1>5, <1>6, <1>7, <1>8 DEF Next, Handler

LEMMA LocksPreserved ==
    ASSUME StoreInv, [Next]_vars
    PROVE  LocksExclude'
PROOF
  <1> USE DEF StoreInv
  <1>1. CASE UNCHANGED vars
    BY <1>1 DEF vars, LocksExclude
  <1>2. CASE Tick
    BY <1>2 DEF Tick, LocksExclude
  <1>3. ASSUME NEW r \in Requests, NEW a \in Ask, Arrive(r, a)
        PROVE  LocksExclude'
    BY <1>3 DEF Arrive, TypeOK, LocksExclude
  <1>4. ASSUME NEW r \in Requests, UpsertHead(r)
        PROVE  LocksExclude'
    BY <1>4 DEF UpsertHead, RowTaken, Step, TypeOK, LocksExclude
  <1>5. ASSUME NEW r \in Requests, BeginSave(r) \/ EnsureUser(r) \/ ReplaceMessages(r)
                                   \/ Commit(r)
        PROVE  LocksExclude'
    BY <1>5 DEF BeginSave, EnsureUser, ReplaceMessages, Commit, Step, TypeOK, LocksExclude
  <1>6. ASSUME NEW r \in Requests, BeginDelete(r) \/ FinishDelete(r) \/ ReadHead(r)
                                   \/ ReadMessages(r)
        PROVE  LocksExclude'
    BY <1>6 DEF BeginDelete, FinishDelete, ReadHead, ReadMessages, Step,
                TypeOK, LocksExclude
  <1>7. ASSUME NEW r \in Requests, Fail(r) \/ LoseAnswer(r)
        PROVE  LocksExclude'
    BY <1>7 DEF Fail, LoseAnswer, TypeOK, LocksExclude
  <1>8. ASSUME NEW r \in Requests, ListRail(r)
        PROVE  LocksExclude'
    BY <1>8, ListReads DEF TypeOK, LocksExclude
  <1> QED
    BY <1>1, <1>2, <1>3, <1>4, <1>5, <1>6, <1>7, <1>8 DEF Next, Handler

\* What a commit does to the messages of each conversation.
LEMMA CommitReplaces ==
    ASSUME StoreInv, NEW r \in Requests, Commit(r)
    PROVE  /\ ask[r] \in Ask /\ ask[r].do = "save" /\ ask[r].of \in Conversation
           /\ conversations'[ask[r].of] = work[r].row
           /\ work[r].row \in Row /\ work[r].row # NoRow
           /\ work[r].row.title = ask[r].body.title /\ work[r].row.by = r
           /\ MessagesOf(ask[r].of)' = RowsOf(r)
           /\ \A c \in Conversation \ {ask[r].of} :
                conversations'[c] = conversations[c] /\ MessagesOf(c)' = MessagesOf(c)
PROOF
  <1> DEFINE c == ask[r].of
  <1>1. ask[r] \in Ask /\ ask[r].do = "save"
    BY DEF StoreInv, Commit, AskedInv
  <1>2. c \in Conversation /\ \A m \in RowsOf(r) : m.of = c
    BY <1>1, RowsAreMessages
  <1>3. work[r].row # NoRow /\ work[r].row.title = ask[r].body.title /\ work[r].row.by = r
        /\ work[r].lines = MessagesOf(c)
    BY DEF StoreInv, Commit, SavesHold
  <1>4. work[r].row \in Row
    BY <1>3 DEF StoreInv, TypeOK, Work
  <1>5. /\ conversations' = [conversations EXCEPT ![c] = work[r].row]
        /\ messages' = (messages \ work[r].lines) \cup RowsOf(r)
        /\ ask' = ask
    BY DEF Commit
  <1>6. MessagesOf(c)' = RowsOf(r)
    BY <1>2, <1>3, <1>5 DEF MessagesOf
  <1>7. ASSUME NEW d \in Conversation \ {c}
        PROVE  conversations'[d] = conversations[d] /\ MessagesOf(d)' = MessagesOf(d)
    BY <1>2, <1>3, <1>5 DEF MessagesOf, StoreInv, TypeOK
  <1> QED
    BY <1>1, <1>2, <1>3, <1>4, <1>5, <1>6, <1>7 DEF StoreInv, TypeOK

\* What a delete does to the messages of each conversation.
LEMMA DeleteClears ==
    ASSUME StoreInv, NEW r \in Requests, FinishDelete(r),
           StillThere(work[r].row, conversations[ask[r].of])
    PROVE  /\ ask[r].of \in Conversation
           /\ conversations'[ask[r].of] = NoRow
           /\ MessagesOf(ask[r].of)' = {}
           /\ \A c \in Conversation \ {ask[r].of} :
                conversations'[c] = conversations[c] /\ MessagesOf(c)' = MessagesOf(c)
PROOF
  <1>1. ask[r].of \in Conversation
    BY DEF StoreInv, FinishDelete, AskedInv, Ask
  <1>2. /\ conversations' = [conversations EXCEPT ![ask[r].of] = NoRow]
        /\ messages' = messages \ MessagesOf(ask[r].of)
        /\ ask' = ask
    BY DEF FinishDelete, WithoutMessagesOf
  <1> QED
    BY <1>1, <1>2 DEF MessagesOf, StoreInv, TypeOK

LEMMA SavesPreserved ==
    ASSUME StoreInv, [Next]_vars
    PROVE  SavesHold'
PROOF
  <1> USE DEF StoreInv
  <1>1. CASE UNCHANGED vars
    BY <1>1 DEF vars, tables, SavesHold, MessagesOf
  <1>2. CASE Tick
    BY <1>2 DEF Tick, tables, SavesHold, MessagesOf
  <1>3. ASSUME NEW r \in Requests, NEW a \in Ask, Arrive(r, a)
        PROVE  SavesHold'
    BY <1>3 DEF Arrive, tables, TypeOK, SavesHold, MessagesOf
  <1>4. ASSUME NEW r \in Requests, EnsureUser(r)
        PROVE  SavesHold'
    <2> DEFINE adds == ask[r].of[1] \notin users
    <2>1. Step(r, "upsert", [work[r] EXCEPT !.adds = adds]) /\ at[r] = "insert_user"
      BY <1>4 DEF EnsureUser
    <2>2. work'[r].adds = adds /\ \A q \in Requests \ {r} : work'[q] = work[q]
      BY <2>1 DEF Step, TypeOK, Work
    <2>3. at'[r] = "upsert" /\ \A q \in Requests \ {r} : at'[q] = at[q]
      BY <2>1 DEF Step, TypeOK
    <2>4. work'[r].adds \/ ask'[r].of[1] \in users'
      <3>1. ask'[r] = ask[r] /\ users' = users
        BY <2>1 DEF Step, tables
      <3>2. CASE adds
        <4>1. work'[r].adds = TRUE
          BY <2>2, <3>2
        <4> QED
          BY <4>1
      <3>3. CASE ask[r].of[1] \in users
        BY <3>1, <3>3
      <3> QED
        BY <3>2, <3>3
    <2> HIDE DEF adds
    <2> QED
      BY <2>1, <2>2, <2>3, <2>4 DEF Step, tables, SavesHold, MessagesOf
  <1>5. ASSUME NEW r \in Requests, UpsertHead(r)
        PROVE  SavesHold'
    <2> DEFINE old == conversations[ask[r].of]
               row == [title |-> ask[r].body.title, updated_at |-> work[r].since,
                       born |-> IF old = NoRow THEN r ELSE old.born, by |-> r]
    <2>1. Step(r, "replace", [work[r] EXCEPT !.row = row]) /\ at[r] = "upsert"
      BY <1>5 DEF UpsertHead
    <2>2. ask[r] \in Ask /\ ask[r].do = "save"
      BY <2>1 DEF AskedInv
    <2>3. row \in Row
      <3>1. ask[r].of \in Conversation /\ ask[r].body \in Body
        BY <2>2, RowsAreMessages
      <3>2. old \in Row \cup {NoRow}
        BY <3>1 DEF TypeOK
      <3> QED
        BY <3>1, <3>2 DEF Row, Body, TypeOK, Work
    <2>4. row # NoRow
      BY <2>3, NoRowAssumption
    <2>5. /\ row.title = ask[r].body.title /\ row.by = r
          /\ row.born = IF conversations[ask[r].of] = NoRow THEN r
                        ELSE conversations[ask[r].of].born
      OBVIOUS
    <2> HIDE DEF row
    <2> QED
      BY <2>1, <2>4, <2>5 DEF Step, tables, TypeOK, Work, SavesHold, MessagesOf
  <1>6. ASSUME NEW r \in Requests, ReplaceMessages(r)
        PROVE  SavesHold'
    BY <1>6 DEF ReplaceMessages, Step, tables, TypeOK, Work, SavesHold, MessagesOf
  <1>7. ASSUME NEW r \in Requests, Commit(r)
        PROVE  SavesHold'
    <2> SUFFICES ASSUME NEW q \in Requests, at'[q] \in {"upsert"} \cup Locking
                 PROVE  SavesHold!(q)'
      BY DEF SavesHold
    <2>1. q # r /\ at[q] = at'[q] /\ work' = work /\ ask' = ask
      BY <1>7 DEF Commit, TypeOK
    <2>2. users \subseteq users'
      BY <1>7 DEF Commit
    <2>3. ask[q].of \in Conversation
      BY <2>1 DEF AskedInv, Ask
    <2>4. at[q] \in Locking => ask[q].of # ask[r].of
      BY <1>7, <2>1 DEF Commit, LocksExclude
    <2>5. at[q] \in Locking => /\ conversations'[ask[q].of] = conversations[ask[q].of]
                               /\ MessagesOf(ask[q].of)' = MessagesOf(ask[q].of)
      BY <1>7, <2>1, <2>3, <2>4, CommitReplaces
    <2> QED
      BY <2>1, <2>2, <2>5 DEF SavesHold
  <1>8. ASSUME NEW r \in Requests, FinishDelete(r)
        PROVE  SavesHold'
    <2> SUFFICES ASSUME NEW q \in Requests, at'[q] \in {"upsert"} \cup Locking
                 PROVE  SavesHold!(q)'
      BY DEF SavesHold
    <2>1. q # r /\ at[q] = at'[q] /\ work' = work /\ ask' = ask /\ users' = users
      BY <1>8 DEF FinishDelete, TypeOK
    <2>2. ask[q].of \in Conversation
      BY <2>1 DEF AskedInv, Ask
    <2>3. at[q] \in Locking => ask[q].of # ask[r].of
      BY <1>8, <2>1 DEF FinishDelete, RowTaken
    <2>4. at[q] \in Locking => /\ conversations'[ask[q].of] = conversations[ask[q].of]
                               /\ MessagesOf(ask[q].of)' = MessagesOf(ask[q].of)
      <3>1. CASE StillThere(work[r].row, conversations[ask[r].of])
        BY <1>8, <2>1, <2>2, <2>3, <3>1, DeleteClears
      <3>2. CASE ~StillThere(work[r].row, conversations[ask[r].of])
        BY <1>8, <2>1, <3>2 DEF FinishDelete, MessagesOf
      <3> QED
        BY <3>1, <3>2
    <2> QED
      BY <2>1, <2>4 DEF SavesHold
  <1>9. ASSUME NEW r \in Requests, BeginSave(r) \/ BeginDelete(r) \/ ReadHead(r)
                                   \/ ReadMessages(r)
        PROVE  SavesHold'
    BY <1>9 DEF BeginSave, BeginDelete, ReadHead, ReadMessages, Starts, Step,
                tables, TypeOK, SavesHold, MessagesOf
  <1>10. ASSUME NEW r \in Requests, Fail(r) \/ LoseAnswer(r)
         PROVE  SavesHold'
    BY <1>10 DEF Fail, LoseAnswer, tables, TypeOK, SavesHold, MessagesOf
  <1>11. ASSUME NEW r \in Requests, ListRail(r)
         PROVE  SavesHold'
    BY <1>11, ListReads DEF tables, TypeOK, SavesHold, MessagesOf
  <1> QED
    BY <1>1, <1>2, <1>3, <1>4, <1>5, <1>6, <1>7, <1>8, <1>9, <1>10, <1>11 DEF Next, Handler

\* Only a commit and a delete write conversations and messages.
LEMMA TablesStay ==
    ASSUME [Next]_vars
    PROVE  \/ UNCHANGED <<conversations, messages>>
           \/ \E r \in Requests : Commit(r) \/ FinishDelete(r)
PROOF
  <1>1. ASSUME NEW r \in Requests, BeginSave(r) \/ EnsureUser(r) \/ UpsertHead(r)
               \/ ReplaceMessages(r) \/ BeginDelete(r) \/ ReadHead(r) \/ ReadMessages(r)
        PROVE  UNCHANGED tables
    BY <1>1 DEF BeginSave, EnsureUser, UpsertHead, ReplaceMessages, BeginDelete, ReadHead,
                ReadMessages, Step
  <1>2. ASSUME NEW r \in Requests, ListRail(r)
        PROVE  UNCHANGED tables
    BY <1>2, ListReads
  <1>3. ASSUME NEW r \in Requests, (\E a \in Ask : Arrive(r, a)) \/ Fail(r) \/ LoseAnswer(r)
        PROVE  UNCHANGED tables
    BY <1>3 DEF Arrive, Fail, LoseAnswer
  <1>4. CASE Tick \/ UNCHANGED vars
    BY <1>4 DEF Tick, vars, tables
  <1> QED
    BY <1>1, <1>2, <1>3, <1>4 DEF Next, Handler, tables

LEMMA VersionsPreserved ==
    ASSUME StoreInv, [Next]_vars
    PROVE  VersionsCommitted'
PROOF
  <1> USE DEF StoreInv
  <1>1. CASE UNCHANGED conversations /\ \A q \in Requests : at[q] \in {"saved", "unsure"}
                                         => at'[q] \in {"saved", "unsure"}
    BY <1>1, VersionsAreSaves DEF VersionsCommitted
  <1>2. CASE UNCHANGED vars \/ Tick
    BY <1>1, <1>2 DEF vars, Tick, tables
  <1>3. ASSUME NEW r \in Requests, NEW a \in Ask, Arrive(r, a)
        PROVE  VersionsCommitted'
    BY <1>1, <1>3 DEF Arrive, tables, TypeOK
  <1>4. ASSUME NEW r \in Requests, BeginSave(r) \/ EnsureUser(r) \/ UpsertHead(r)
                                   \/ ReplaceMessages(r)
        PROVE  VersionsCommitted'
    BY <1>1, <1>4 DEF BeginSave, EnsureUser, UpsertHead, ReplaceMessages, Starts, Step,
                      tables, TypeOK
  <1>5. ASSUME NEW r \in Requests, BeginDelete(r) \/ ReadHead(r) \/ ReadMessages(r)
        PROVE  VersionsCommitted'
    BY <1>1, <1>5 DEF BeginDelete, ReadHead, ReadMessages, Starts, Step, tables, TypeOK
  <1>6. ASSUME NEW r \in Requests, ListRail(r)
        PROVE  VersionsCommitted'
    BY <1>1, <1>6, ListReads DEF tables, TypeOK
  <1>7. ASSUME NEW r \in Requests, Fail(r) \/ LoseAnswer(r)
        PROVE  VersionsCommitted'
    <2>1. \A c \in Conversation : conversations[c] # NoRow =>
            conversations[c].by \in Requests /\ ask[conversations[c].by].do = "save"
      BY VersionsAreSaves
    <2> QED
      BY <1>1, <1>7, <2>1 DEF Fail, LoseAnswer, tables, TypeOK
  <1>8. ASSUME NEW r \in Requests, Commit(r)
        PROVE  VersionsCommitted'
    <2>1. \A q \in Requests : at'[q] = IF q = r THEN "saved" ELSE at[q]
      BY <1>8 DEF Commit, TypeOK
    <2> SUFFICES ASSUME NEW c \in Conversation, conversations'[c] # NoRow
                 PROVE  at'[conversations'[c].by] \in {"saved", "unsure"}
      BY DEF VersionsCommitted
    <2>2. CASE c = ask[r].of
      BY <1>8, <2>1, <2>2, CommitReplaces
    <2>3. CASE c # ask[r].of
      BY <1>8, <2>1, <2>3, CommitReplaces, VersionsAreSaves
    <2> QED
      BY <2>2, <2>3
  <1>9. ASSUME NEW r \in Requests, FinishDelete(r)
        PROVE  VersionsCommitted'
    <2>1. \A q \in Requests : at[q] \in {"saved", "unsure"} => at'[q] = at[q]
      BY <1>9 DEF FinishDelete, TypeOK
    <2>2. CASE StillThere(work[r].row, conversations[ask[r].of])
      <3> SUFFICES ASSUME NEW c \in Conversation, conversations'[c] # NoRow
                   PROVE  at'[conversations'[c].by] \in {"saved", "unsure"}
        BY DEF VersionsCommitted
      <3>1. conversations'[c] = conversations[c]
        BY <1>9, <2>2, DeleteClears
      <3> QED
        BY <2>1, <3>1, VersionsAreSaves
    <2>3. CASE ~StillThere(work[r].row, conversations[ask[r].of])
      BY <1>1, <1>9, <2>1, <2>3 DEF FinishDelete
    <2> QED
      BY <2>2, <2>3
  <1> QED
    BY <1>2, <1>3, <1>4, <1>5, <1>6, <1>7, <1>8, <1>9 DEF Next, Handler

LEMMA MessagesPreserved ==
    ASSUME StoreInv, [Next]_vars
    PROVE  MessagesOfOneSave'
PROOF
  <1> SUFFICES ASSUME NEW c \in Conversation
               PROVE  MessagesOfOneSave!(c)'
    BY DEF MessagesOfOneSave
  <1>1. MessagesOfOneSave!(c)
    BY DEF StoreInv, MessagesOfOneSave
  <1>2. ASSUME NEW w \in Requests, at[w] # "new"
        PROVE  ask'[w] = ask[w] /\ RowsOf(w)' = RowsOf(w)
    BY <1>2, AsksAreSettled DEF StoreInv, RowsOf
  <1>3. CASE conversations'[c] = conversations[c] /\ MessagesOf(c)' = MessagesOf(c)
    <2>1. CASE conversations[c] = NoRow
      BY <1>1, <1>3, <2>1
    <2>2. CASE conversations[c] # NoRow
      <3>1. PICK w \in Requests : w = conversations[c].by /\ at[w] # "new"
        BY <2>2, VersionsAreSaves
      <3>2. ask'[w] = ask[w] /\ RowsOf(w)' = RowsOf(w)
        BY <1>2, <3>1
      <3> QED
        BY <1>1, <1>3, <2>2, <3>1, <3>2
    <2> QED
      BY <2>1, <2>2
  <1>4. CASE UNCHANGED <<conversations, messages>>
    BY <1>3, <1>4 DEF MessagesOf
  <1>5. ASSUME NEW r \in Requests, Commit(r)
        PROVE  MessagesOfOneSave!(c)'
    <2>1. CASE c = ask[r].of
      <3>1. ask'[r] = ask[r] /\ RowsOf(r)' = RowsOf(r)
        BY <1>2, <1>5 DEF Commit
      <3> QED
        BY <1>5, <2>1, <3>1, CommitReplaces
    <2>2. CASE c # ask[r].of
      BY <1>3, <1>5, <2>2, CommitReplaces
    <2> QED
      BY <2>1, <2>2
  <1>6. ASSUME NEW r \in Requests, FinishDelete(r)
        PROVE  MessagesOfOneSave!(c)'
    <2>1. CASE ~StillThere(work[r].row, conversations[ask[r].of])
      BY <1>4, <1>6, <2>1 DEF FinishDelete
    <2>2. CASE StillThere(work[r].row, conversations[ask[r].of])
      <3>1. ask'[r] = ask[r]
        BY <1>6 DEF FinishDelete
      <3>2. CASE c = ask[r].of
        BY <1>6, <2>2, <3>1, <3>2, DeleteClears
      <3>3. CASE c # ask[r].of
        BY <1>3, <1>6, <2>2, <3>3, DeleteClears
      <3> QED
        BY <3>2, <3>3
    <2> QED
      BY <2>1, <2>2
  <1> QED
    BY <1>4, <1>5, <1>6, TablesStay DEF StoreInv

LEMMA StorePreserved ==
    ASSUME StoreInv, [Next]_vars
    PROVE  StoreInv'
  BY TypesPreserved, AskedPreserved, LocksPreserved, SavesPreserved, VersionsPreserved,
     MessagesPreserved DEF StoreInv

\* The whole invariant, and with it the two properties below, holds always.
THEOREM StoreIsInvariant == Spec => []StoreInv
PROOF
  <1>1. StoreInv /\ [Next]_vars => StoreInv'
    BY StorePreserved
  <1> QED
    BY <1>1, InitStore, PTL DEF Spec

\* Users and conversations are there as long as rows refer to them, every
\* timestamp, version and count has its type.
THEOREM TypeCorrect == Spec => []TypeOK
  BY StoreIsInvariant, PTL DEF StoreInv

\* Whatever the number of tabs, retries, failures and deletes: title and
\* messages of a conversation are those of one save, all of them and once.
THEOREM ConversationsAreWhole == Spec => []MessagesOfOneSave
  BY StoreIsInvariant, PTL DEF StoreInv

----------------------------------------------------------------------------
(* What readers are told *)

\* r holds the head of a version that it has seen.
HeadSeen(r) ==
    LET head == work[r].row.by
    IN  /\ head \in seen[r] /\ head \in Requests /\ at[head] # "new"
        /\ ask[head].of = ask[r].of
        /\ work[r].row.title = ask[head].body.title

\* r holds the messages of a version that it has seen.
LinesSeen(r) ==
    \/ NoRow \in seen[r] /\ work[r].lines = {}
    \/ \E w \in seen[r] \ {NoRow} : at[w] # "new" /\ work[r].lines = RowsOf(w)

\* What a request saw since its first look covers what it holds, and the
\* version that is there now; who still waits to delete a row has either seen
\* the conversation gone or finds the same row.
LookInv(r) ==
    /\ at[r] \in Looking => VersionIn(conversations, ask[r].of) \in seen[r]
    /\ at[r] = "delete" => NoRow \in seen[r] \/ StillThere(work[r].row, conversations[ask[r].of])
    /\ at[r] \in {"read_messages", "got"} => HeadSeen(r)
    /\ at[r] = "got" => LinesSeen(r)
    /\ at[r] = "not_found" => NoRow \in seen[r]

\* A step of the system is a step of one request; the others only witness it.
LEMMA OthersWitness ==
    ASSUME StoreInv, [Next]_vars, NEW r \in Requests
    PROVE  \/ Handler(r) \/ (\E a \in Ask : Arrive(r, a)) \/ Fail(r) \/ LoseAnswer(r)
           \/ /\ at'[r] = at[r] /\ work'[r] = work[r] /\ ask'[r] = ask[r]
              /\ seen[r] \subseteq seen'[r]
              /\ at[r] \notin Looking => seen'[r] = seen[r]
              /\ at[r] \in Looking => \/ UNCHANGED conversations
                                      \/ VersionIn(conversations', ask[r].of) \in seen'[r]
PROOF
  <1> USE DEF StoreInv
  <1>1. CASE UNCHANGED vars \/ Tick
    BY <1>1 DEF vars, Tick, tables
  <1>2. ASSUME NEW q \in Requests \ {r}, (\E a \in Ask : Arrive(q, a)) \/ Fail(q) \/ LoseAnswer(q)
        PROVE  /\ at'[r] = at[r] /\ work'[r] = work[r] /\ ask'[r] = ask[r]
               /\ UNCHANGED <<seen, conversations>>
    BY <1>2 DEF Arrive, Fail, LoseAnswer, TypeOK, tables
  <1>3. ASSUME NEW q \in Requests \ {r}, BeginSave(q) \/ EnsureUser(q) \/ UpsertHead(q)
               \/ ReplaceMessages(q) \/ BeginDelete(q) \/ ReadHead(q) \/ ReadMessages(q)
        PROVE  /\ at'[r] = at[r] /\ work'[r] = work[r] /\ ask'[r] = ask[r]
               /\ seen'[r] = seen[r] /\ UNCHANGED conversations
    BY <1>3 DEF BeginSave, EnsureUser, UpsertHead, ReplaceMessages, BeginDelete, ReadHead,
                ReadMessages, Step, TypeOK, tables
  <1>4. ASSUME NEW q \in Requests \ {r}, ListRail(q)
        PROVE  /\ at'[r] = at[r] /\ work'[r] = work[r] /\ ask'[r] = ask[r]
               /\ seen'[r] = seen[r] /\ UNCHANGED conversations
    BY <1>4, ListReads DEF TypeOK, tables
  <1>5. ASSUME NEW q \in Requests \ {r}, Commit(q) \/ FinishDelete(q)
        PROVE  /\ at'[r] = at[r] /\ work'[r] = work[r] /\ ask'[r] = ask[r]
               /\ seen'[r] = IF at[r] \in Looking
                             THEN seen[r] \cup {VersionIn(conversations', ask[r].of)}
                             ELSE seen[r]
    BY <1>5 DEF Commit, FinishDelete, Witnessed, TypeOK
  <1> QED
    BY <1>1, <1>2, <1>3, <1>4, <1>5 DEF Next, Handler

\* No step of another request takes away the row a delete waits for, unless
\* the delete sees the conversation gone.
LEMMA RowStaysOrGoes ==
    ASSUME StoreInv, [Next]_vars, NEW c \in Conversation, NEW row,
           StillThere(row, conversations[c])
    PROVE  conversations'[c] = NoRow \/ StillThere(row, conversations'[c])
PROOF
  <1>1. CASE UNCHANGED <<conversations, messages>>
    BY <1>1
  <1>2. ASSUME NEW q \in Requests, Commit(q)
        PROVE  StillThere(row, conversations'[c])
    <2>1. CASE c = ask[q].of
      <3>1. conversations'[c] = work[q].row /\ work[q].row # NoRow
        BY <1>2, <2>1, CommitReplaces
      <3>2. work[q].row.born = conversations[c].born
        BY <1>2, <2>1 DEF StoreInv, SavesHold, Commit, StillThere
      <3> QED
        BY <3>1, <3>2 DEF StillThere
    <2>2. CASE c # ask[q].of
      BY <1>2, <2>2, CommitReplaces
    <2> QED
      BY <2>1, <2>2
  <1>3. ASSUME NEW q \in Requests, FinishDelete(q)
        PROVE  conversations'[c] = NoRow \/ StillThere(row, conversations'[c])
    <2>1. CASE StillThere(work[q].row, conversations[ask[q].of])
      BY <1>3, <2>1, DeleteClears
    <2>2. CASE ~StillThere(work[q].row, conversations[ask[q].of])
      BY <1>3, <2>2 DEF FinishDelete
    <2> QED
      BY <2>1, <2>2
  <1> QED
    BY <1>1, <1>2, <1>3, TablesStay

LEMMA LooksPreserved ==
    ASSUME StoreInv, [Next]_vars, NEW r \in Requests, LookInv(r)
    PROVE  LookInv(r)'
PROOF
  <1> USE DEF StoreInv
  <1>1. ASSUME NEW w \in Requests, at[w] # "new"
        PROVE  ask'[w] = ask[w] /\ at'[w] # "new" /\ RowsOf(w)' = RowsOf(w)
    BY <1>1, AsksAreSettled DEF RowsOf
  <1>2. seen[r] \subseteq Requests \cup {NoRow}
    BY DEF TypeOK
  <1>3. CASE /\ at'[r] = at[r] /\ work'[r] = work[r] /\ ask'[r] = ask[r]
             /\ seen[r] \subseteq seen'[r]
             /\ at[r] \in Looking => \/ UNCHANGED conversations
                                     \/ VersionIn(conversations', ask[r].of) \in seen'[r]
    <2>1. at'[r] \in Looking => VersionIn(conversations', ask'[r].of) \in seen'[r]
      BY <1>3 DEF LookInv, VersionIn
    <2>2. at'[r] = "delete" =>
            NoRow \in seen'[r] \/ StillThere(work'[r].row, conversations'[ask'[r].of])
      <3> SUFFICES ASSUME at[r] = "delete"
                   PROVE  NoRow \in seen'[r] \/ StillThere(work[r].row, conversations'[ask[r].of])
        BY <1>3
      <3>1. ask[r].of \in Conversation
        BY DEF AskedInv, Ask
      <3>2. CASE NoRow \in seen[r]
        BY <1>3, <3>2
      <3>3. CASE StillThere(work[r].row, conversations[ask[r].of])
        BY <1>3, <2>1, <3>1, <3>3, RowStaysOrGoes DEF VersionIn
      <3> QED
        BY <3>2, <3>3 DEF LookInv
    <2>3. HeadSeen(r) => HeadSeen(r)'
      BY <1>1, <1>3 DEF HeadSeen
    <2>4. LinesSeen(r) => LinesSeen(r)'
      BY <1>1, <1>2, <1>3 DEF LinesSeen
    <2> QED
      BY <1>3, <2>1, <2>2, <2>3, <2>4 DEF LookInv
  <1>4. CASE at'[r] \notin Looking \cup {"got", "not_found"}
    BY <1>4 DEF LookInv
  <1>5. CASE (\E a \in Ask : Arrive(r, a)) \/ Fail(r) \/ LoseAnswer(r)
    BY <1>4, <1>5 DEF Arrive, Fail, LoseAnswer, TypeOK
  <1>6. CASE BeginSave(r) \/ EnsureUser(r) \/ UpsertHead(r) \/ ReplaceMessages(r) \/ Commit(r)
    BY <1>4, <1>6 DEF BeginSave, EnsureUser, UpsertHead, ReplaceMessages, Commit, Step, TypeOK
  <1>7. CASE ListRail(r)
    BY <1>4, <1>7, ListReads DEF TypeOK
  <1>8. CASE BeginDelete(r) \/ ReadHead(r)
    <2> DEFINE row == conversations[ask[r].of]
    <2>1. ask[r].of \in Conversation
      BY <1>8 DEF BeginDelete, ReadHead, Starts, AskedInv, Ask
    <2>2. /\ at'[r] \in {"not_found", "delete", "read_messages"}
          /\ at'[r] = "not_found" <=> row = NoRow
          /\ work'[r].row = row /\ ask' = ask /\ conversations' = conversations
          /\ seen'[r] = {VersionIn(conversations, ask[r].of)}
          /\ \A q \in Requests \ {r} : at'[q] = at[q]
      BY <1>8 DEF BeginDelete, ReadHead, Step, TypeOK, Work, tables
    <2>3. CASE row = NoRow
      BY <2>2, <2>3 DEF LookInv, VersionIn
    <2>4. CASE row # NoRow
      <3>1. PICK w \in Requests : /\ w = row.by /\ at[w] # "new" /\ ask[w].of = ask[r].of
                                 /\ row.title = ask[w].body.title
        BY <2>1, <2>4, VersionsAreSaves DEF MessagesOfOneSave
      <3>2. at'[w] # "new"
        BY <3>1, <1>1
      <3>3. seen'[r] = {w} /\ VersionIn(conversations', ask'[r].of) = w
        BY <2>2, <2>4, <3>1 DEF VersionIn
      <3>4. HeadSeen(r)'
        BY <2>2, <3>1, <3>2, <3>3 DEF HeadSeen
      <3>5. StillThere(work'[r].row, conversations'[ask'[r].of])
        BY <2>2, <2>4 DEF StillThere
      <3> QED
        BY <2>2, <2>4, <3>3, <3>4, <3>5 DEF LookInv
    <2> QED
      BY <2>3, <2>4
  <1>9. CASE FinishDelete(r)
    <2>1. CASE StillThere(work[r].row, conversations[ask[r].of])
      BY <1>4, <1>9, <2>1 DEF FinishDelete, TypeOK
    <2>2. CASE ~StillThere(work[r].row, conversations[ask[r].of])
      <3>1. NoRow \in seen[r] /\ at'[r] = "not_found"
        BY <1>9, <2>2 DEF FinishDelete, LookInv, TypeOK
      <3>2. seen[r] \subseteq seen'[r]
        BY <1>9 DEF FinishDelete, Witnessed
      <3> QED
        BY <3>1, <3>2 DEF LookInv
    <2> QED
      BY <2>1, <2>2
  <1>10. CASE ReadMessages(r)
    <2>1. /\ at[r] = "read_messages" /\ at'[r] = "got" /\ seen' = seen /\ ask' = ask
          /\ work'[r].row = work[r].row
          /\ work'[r].lines = MessagesOf(ask[r].of)
          /\ \A q \in Requests \ {r} : at'[q] = at[q]
      BY <1>10 DEF ReadMessages, Step, TypeOK, Work
    <2>2. ask[r].of \in Conversation
      BY <2>1 DEF AskedInv, Ask
    <2>3. HeadSeen(r)'
      <3>1. HeadSeen(r)
        BY <2>1 DEF LookInv
      <3> QED
        BY <1>1, <2>1, <3>1 DEF HeadSeen
    <2>4. LinesSeen(r)'
      <3>1. VersionIn(conversations, ask[r].of) \in seen[r]
        BY <2>1 DEF LookInv
      <3>2. CASE conversations[ask[r].of] = NoRow
        BY <2>1, <2>2, <3>1, <3>2 DEF VersionIn, LinesSeen, MessagesOfOneSave
      <3>3. CASE conversations[ask[r].of] # NoRow
        <4>1. PICK w \in Requests : /\ w = conversations[ask[r].of].by /\ at[w] # "new"
                                   /\ MessagesOf(ask[r].of) = RowsOf(w)
          BY <2>2, <3>3, VersionsAreSaves DEF MessagesOfOneSave
        <4>2. w \in seen'[r] \ {NoRow}
          BY <2>1, <3>1, <3>3, <4>1, NoRowAssumption DEF VersionIn
        <4> QED
          BY <1>1, <2>1, <4>1, <4>2 DEF LinesSeen
      <3> QED
        BY <3>2, <3>3
    <2> QED
      BY <2>1, <2>3, <2>4 DEF LookInv
  <1> QED
    BY <1>3, <1>5, <1>6, <1>7, <1>8, <1>9, <1>10, OthersWitness DEF Handler

\* What readers hold and were told, and what the tables are.
ReadInv == StoreInv /\ \A r \in Requests : LookInv(r)

THEOREM ReadsAreInvariant == Spec => []ReadInv
PROOF
  <1>1. Init => ReadInv
    BY InitStore DEF Init, ReadInv, LookInv
  <1>2. ReadInv /\ [Next]_vars => ReadInv'
    <2> SUFFICES ASSUME ReadInv, [Next]_vars PROVE ReadInv'
      OBVIOUS
    <2>1. StoreInv'
      BY StorePreserved DEF ReadInv
    <2> QED
      BY <2>1, LooksPreserved DEF ReadInv
  <1> QED
    BY <1>1, <1>2, PTL DEF Spec

\* Who is told 404, deleting or reading, asked for a conversation that was
\* not there at some moment of the request.
THEOREM NotFoundIsTrue == Spec => []NotFoundIsJust
PROOF
  <1>1. ReadInv => NotFoundIsJust
    BY DEF ReadInv, LookInv, NotFoundIsJust
  <1> QED
    BY <1>1, ReadsAreInvariant, PTL

\* A conversation read in two statements is a title and messages of versions
\* that were there at some moment of the request, both of one conversation.
THEOREM ReadsSeeVersions == Spec => []ReadsAreOfVersions
PROOF
  <1>1. ReadInv => ReadsAreOfVersions
    BY NoRowAssumption DEF ReadInv, LookInv, HeadSeen, LinesSeen, ReadsAreOfVersions
  <1> QED
    BY <1>1, ReadsAreInvariant, PTL

----------------------------------------------------------------------------
(* The tables as a store of documents *)

\* What a version of c is to a client.
LEMMA StoredIsADocument ==
    ASSUME StoreInv, NEW c \in Conversation, conversations[c] # NoRow
    PROVE  Stored(c) # NoRow
PROOF
  <1>1. conversations[c].title \in Titles
    BY DEF StoreInv, TypeOK, Row
  <1>2. ASSUME NEW m \in MessagesOf(c)
        PROVE  <<m.position, m.content>> \in Nat \X Contents
    BY DEF MessagesOf, Message, StoreInv, TypeOK
  <1>3. {<<m.position, m.content>> : m \in MessagesOf(c)} \in SUBSET (Nat \X Contents)
    BY <1>2
  <1>4. Stored(c) \in Document
    BY <1>1, <1>3 DEF Stored, Document
  <1> QED
    BY <1>4, NoRowAssumption

\* The rows of a save say what its body says.
LEMMA RowsSayTheBody ==
    ASSUME NEW r \in Requests
    PROVE  {<<m.position, m.content>> : m \in RowsOf(r)} = Sent(ask[r].body).turns
PROOF
  <1> DEFINE turns == ask[r].body.turns
             row(i) == [of |-> ask[r].of, position |-> i - 1, by |-> r, content |-> turns[i]]
             said == {<<m.position, m.content>> : m \in RowsOf(r)}
  <1>1. Sent(ask[r].body).turns = {<<i - 1, turns[i]>> : i \in DOMAIN turns}
    BY DEF Sent
  <1>2. RowsOf(r) = {row(i) : i \in DOMAIN turns}
    BY DEF RowsOf
  <1>3. \A i : row(i).position = i - 1 /\ row(i).content = turns[i]
    OBVIOUS
  <1> HIDE DEF row
  <1>4. said \subseteq {<<i - 1, turns[i]>> : i \in DOMAIN turns}
    BY <1>2, <1>3
  <1>5. ASSUME NEW i \in DOMAIN turns
        PROVE  <<i - 1, turns[i]>> \in said
    <2>1. row(i) \in RowsOf(r)
      BY <1>2
    <2> QED
      BY <2>1, <1>3
  <1> QED
    BY <1>1, <1>4, <1>5

\* What the requests ask of the store.
AskedOfStore == [r \in Requests |-> Asked(ask[r])]

LEMMA InitIsEmptyStore == Init => History!Init
  BY DEF Init, History!Init, Stored, Committed, Conversation, Asked

\* A well-formed save asks for what its body says, a delete for a removal.
LEMMA AskedToSave ==
    ASSUME NEW a \in Ask, a.do = "save", WellFormed(a)
    PROVE  Asked(a) \in History!Save /\ Asked(a).of = a.of /\ Asked(a).doc = Sent(a.body)
PROOF
  <1>1. a.of \in Conversation /\ a.body \in Bodies /\ Len(a.body.turns) <= MaxMessages
    BY DEF Ask, WellFormed
  <1>2. Asked(a) = [do |-> "save", of |-> a.of, doc |-> Sent(a.body)]
    BY NoRowAssumption DEF Asked
  <1> QED
    BY <1>1, <1>2 DEF History!Save, Conversation

LEMMA AskedToDelete ==
    ASSUME NEW a \in Ask, a.do = "delete", WellFormed(a)
    PROVE  Asked(a) \in History!Removal /\ Asked(a).of = a.of
PROOF
  <1>1. a \in [do: {"delete"}, of: Conversation]
    BY DEF Ask
  <1>2. Asked(a) = a
    BY NoRowAssumption DEF Asked
  <1> QED
    BY <1>1, <1>2 DEF History!Removal, Conversation

\* A request that arrives asks for one or the other, or for nothing.
LEMMA ArriveAsks ==
    ASSUME StoreInv, NEW r \in Requests, NEW a \in Ask, Arrive(r, a)
    PROVE  [History!Next]_<<[c \in Conversation |-> Stored(c)], AskedOfStore, Committed>>
PROOF
  <1>1. ask[r] = NoRow /\ AskedOfStore[r] = NoRow
    BY DEF StoreInv, Arrive, AskedInv, Asked, AskedOfStore
  <1>2. AskedOfStore' = [AskedOfStore EXCEPT ![r] = Asked(a)]
    BY DEF StoreInv, TypeOK, Arrive, AskedOfStore, Asked, WellFormed
  <1>3. at[r] = "new" /\ at'[r] \in {"waiting", "refused"}
        /\ \A q \in Requests \ {r} : at'[q] = at[q]
    BY DEF Arrive, StoreInv, TypeOK
  <1>4. UNCHANGED Committed
    BY <1>3 DEF Committed
  <1>5. UNCHANGED [c \in Conversation |-> Stored(c)]
    BY DEF Arrive, tables, Stored, MessagesOf
  <1>6. CASE Asked(a) = NoRow
    BY <1>1, <1>2, <1>4, <1>5, <1>6 DEF AskedOfStore
  <1>7. CASE Asked(a) # NoRow
    <2>1. Asked(a) \in History!Save \cup History!Removal
      BY <1>7, AskedToSave, AskedToDelete DEF Asked, Ask
    <2>2. History!Arrive(r, Asked(a))
      BY <1>1, <1>2, <1>4, <1>5 DEF History!Arrive, AskedOfStore
    <2> QED
      BY <2>1, <2>2 DEF History!Next
  <1> QED
    BY <1>6, <1>7

\* A conversation whose row and messages stay, stays the same document.
LEMMA StoredStays ==
    ASSUME NEW c, conversations'[c] = conversations[c], MessagesOf(c)' = MessagesOf(c)
    PROVE  Stored(c)' = Stored(c)
  BY DEF Stored

LEMMA CommitPuts ==
    ASSUME StoreInv, NEW r \in Requests, Commit(r)
    PROVE  History!Next
PROOF
  <1> DEFINE d == Sent(ask[r].body)
             store == [c \in Conversation |-> Stored(c)]
  <1>1. PICK of \in Conversation : of = ask[r].of
    BY CommitReplaces
  <1>2. ask[r] \in Ask /\ ask[r].do = "save" /\ WellFormed(ask[r])
    BY DEF StoreInv, Commit, AskedInv
  <1>4. ask' = ask
    BY DEF Commit
  <1>5. Stored(of)' = d
    <2>1. conversations'[of] # NoRow /\ conversations'[of].title = ask[r].body.title
      BY <1>1, CommitReplaces
    <2>2. MessagesOf(of)' = RowsOf(r)
      BY <1>1, <1>4, CommitReplaces DEF MessagesOf
    <2> QED
      BY <2>1, <2>2, RowsSayTheBody DEF Stored, Sent
  <1>6. ASSUME NEW c \in Conversation \ {of}
        PROVE  Stored(c)' = Stored(c)
    BY <1>1, StoredStays, CommitReplaces
  <1>7. store' = [store EXCEPT ![of] = d]
    BY <1>5, <1>6
  <1>8. r \notin Committed /\ Committed' = Committed \cup {r}
    BY DEF Commit, Committed, StoreInv, TypeOK
  <1>9. UNCHANGED AskedOfStore
    BY <1>4 DEF AskedOfStore, Asked, WellFormed
  <1>10. AskedOfStore[r] \in History!Save /\ AskedOfStore[r].of = of /\ AskedOfStore[r].doc = d
    BY <1>1, <1>2, AskedToSave DEF AskedOfStore
  <1> HIDE DEF store, d
  <1>11. History!Put(r)
    BY <1>7, <1>8, <1>9, <1>10 DEF History!Put, History!TakesEffect, store, AskedOfStore
  <1> QED
    BY <1>11 DEF History!Next

LEMMA DeleteDeletes ==
    ASSUME StoreInv, NEW r \in Requests, FinishDelete(r),
           StillThere(work[r].row, conversations[ask[r].of])
    PROVE  History!Next
PROOF
  <1> DEFINE store == [c \in Conversation |-> Stored(c)]
  <1>1. PICK of \in Conversation : of = ask[r].of
    BY DeleteClears
  <1>2. ask' = ask
    BY DEF FinishDelete
  <1>3. conversations[of] # NoRow
    BY <1>1 DEF StillThere
  <1>4. store[of] # NoRow
    BY <1>3, StoredIsADocument
  <1>5. Stored(of)' = NoRow
    BY <1>1, DeleteClears DEF Stored
  <1>6. ASSUME NEW c \in Conversation \ {of}
        PROVE  Stored(c)' = Stored(c)
    BY <1>1, StoredStays, DeleteClears
  <1>7. store' = [store EXCEPT ![of] = NoRow]
    BY <1>5, <1>6
  <1>8. r \notin Committed /\ Committed' = Committed \cup {r}
    BY DEF FinishDelete, Committed, StoreInv, TypeOK
  <1>9. UNCHANGED AskedOfStore
    BY <1>2 DEF AskedOfStore, Asked, WellFormed
  <1>10. ask[r] \in Ask /\ ask[r].do = "delete" /\ WellFormed(ask[r])
    BY DEF StoreInv, FinishDelete, AskedInv
  <1>11. AskedOfStore[r] \in History!Removal /\ AskedOfStore[r].of = of
    BY <1>1, <1>10, AskedToDelete DEF AskedOfStore
  <1>12. History!Delete(r)
    BY <1>4, <1>7, <1>8, <1>9, <1>11 DEF History!Delete, History!TakesEffect, AskedOfStore
  <1> QED
    BY <1>12 DEF History!Next

\* Every other step leaves the store alone.
LEMMA OthersStutter ==
    ASSUME StoreInv, [Next]_vars,
           ~ \E r \in Requests : \/ Commit(r)
                                \/ /\ FinishDelete(r)
                                   /\ StillThere(work[r].row, conversations[ask[r].of])
                                \/ \E a \in Ask : Arrive(r, a)
    PROVE  UNCHANGED <<[c \in Conversation |-> Stored(c)], AskedOfStore, Committed>>
PROOF
  <1> USE DEF StoreInv
  <1>1. UNCHANGED <<conversations, messages>>
    BY TablesStay DEF FinishDelete
  <1>2. UNCHANGED [c \in Conversation |-> Stored(c)]
    BY <1>1 DEF Stored, MessagesOf
  <1>3. ASSUME NEW r \in Requests, BeginSave(r) \/ EnsureUser(r) \/ UpsertHead(r)
               \/ ReplaceMessages(r)
        PROVE  UNCHANGED Committed
    BY <1>3 DEF BeginSave, EnsureUser, UpsertHead, ReplaceMessages, Starts, Step, Committed, TypeOK
  <1>4. ASSUME NEW r \in Requests, BeginDelete(r) \/ ReadHead(r) \/ ReadMessages(r)
        PROVE  UNCHANGED Committed
    BY <1>4 DEF BeginDelete, ReadHead, ReadMessages, Starts, Step, Committed, TypeOK
  <1>5. ASSUME NEW r \in Requests, ListRail(r)
        PROVE  UNCHANGED Committed
    BY <1>5, ListReads DEF Committed, TypeOK
  <1>6. ASSUME NEW r \in Requests, FinishDelete(r),
               ~StillThere(work[r].row, conversations[ask[r].of])
        PROVE  UNCHANGED Committed
    BY <1>6 DEF FinishDelete, Committed, TypeOK
  <1>8. ASSUME NEW r \in Requests, Fail(r) \/ LoseAnswer(r)
        PROVE  UNCHANGED Committed
    BY <1>8 DEF Fail, LoseAnswer, Committed, TypeOK
  <1>9. ASSUME Tick \/ UNCHANGED vars PROVE UNCHANGED Committed
    BY <1>9 DEF Tick, vars, Committed
  <1>10. UNCHANGED Committed
    BY <1>3, <1>4, <1>5, <1>6, <1>8, <1>9 DEF Next, Handler
  <1>11. ask' = ask
    BY DEF Next, Handler, BeginSave, EnsureUser, UpsertHead, ReplaceMessages, Commit,
           BeginDelete, FinishDelete, ReadHead, ReadMessages, ListRail, Step, Fail, LoseAnswer,
           Tick, vars
  <1> QED
    BY <1>2, <1>10, <1>11 DEF AskedOfStore, Asked, WellFormed

\* The two tables, written by transactions that wait for each other, are
\* replaced and deleted a document at a time: what a request asked for when it
\* arrived, under its own user, at most once.
THEOREM HistoryImplemented == Spec => HistoryIsAtomic
PROOF
  <1>1. StoreInv /\ [Next]_vars =>
          [History!Next]_<<[c \in Conversation |-> Stored(c)], AskedOfStore, Committed>>
    BY ArriveAsks, CommitPuts, DeleteDeletes, OthersStutter
  <1> QED
    BY <1>1, InitIsEmptyStore, StoreIsInvariant, PTL
       DEF Spec, HistoryIsAtomic, History!Spec, AskedOfStore

----------------------------------------------------------------------------
(* The rail *)

\* What a line of the rail says is what one save sent.
RailInv(r) ==
    at[r] = "listed" =>
      \A e \in work[r].rail :
        /\ e.by \in Requests /\ at[e.by] # "new"
        /\ ask[e.by].of = <<ask[r].user, e.id>>
        /\ e.title = ask[e.by].body.title
        /\ e.message_count = Len(ask[e.by].body.turns)

LEMMA ListsWholeSaves ==
    ASSUME StoreInv, NEW r \in Requests, ListRail(r)
    PROVE  \A e \in work'[r].rail :
             /\ e.by \in Requests /\ at[e.by] # "new"
             /\ ask[e.by].of = <<ask[r].user, e.id>>
             /\ e.title = ask[e.by].body.title
             /\ e.message_count = Len(ask[e.by].body.turns)
PROOF
  <1> DEFINE own == {c \in Conversation : c[1] = ask[r].user /\ conversations[c] # NoRow}
             entry(c) == [id |-> c[2], by |-> conversations[c].by,
                          title |-> conversations[c].title,
                          message_count |-> Cardinality(MessagesOf(c))]
  <1>1. PICK top \in SUBSET own :
          Step(r, "listed", [work[r] EXCEPT !.rail = {entry(c) : c \in top}])
    BY DEF ListRail
  <1>2. work'[r].rail = {entry(c) : c \in top}
    <2> HIDE DEF entry
    <2> QED
      BY <1>1 DEF Step, StoreInv, TypeOK, Work
  <1>3. SUFFICES ASSUME NEW c \in top
                 PROVE  /\ entry(c).by \in Requests /\ at[entry(c).by] # "new"
                        /\ ask[entry(c).by].of = <<ask[r].user, entry(c).id>>
                        /\ entry(c).title = ask[entry(c).by].body.title
                        /\ entry(c).message_count = Len(ask[entry(c).by].body.turns)
    <2> HIDE DEF entry
    <2> QED
      BY <1>2
  <1>4. c \in Conversation /\ c[1] = ask[r].user /\ conversations[c] # NoRow
    OBVIOUS
  <1>5. PICK w \in Requests : /\ w = conversations[c].by /\ at[w] # "new"
                             /\ ask[w] \in Ask /\ ask[w].do = "save" /\ ask[w].of = c
    BY <1>4, VersionsAreSaves
  <1>6. conversations[c].title = ask[w].body.title /\ MessagesOf(c) = RowsOf(w)
    BY <1>4, <1>5 DEF StoreInv, MessagesOfOneSave
  <1>7. Cardinality(MessagesOf(c)) = Len(ask[w].body.turns)
    BY <1>5, <1>6, RowsAreCounted
  <1>8. c = <<c[1], c[2]>>
    BY <1>4 DEF Conversation
  <1> QED
    BY <1>4, <1>5, <1>6, <1>7, <1>8

LEMMA RailPreserved ==
    ASSUME StoreInv, [Next]_vars, NEW r \in Requests, RailInv(r)
    PROVE  RailInv(r)'
PROOF
  <1>1. ASSUME NEW w \in Requests, at[w] # "new"
        PROVE  ask'[w] = ask[w] /\ at'[w] # "new"
    BY <1>1, AsksAreSettled DEF StoreInv
  <1>2. CASE at'[r] = at[r] /\ work'[r] = work[r]
    BY <1>1, <1>2 DEF RailInv
  <1>3. CASE ListRail(r)
    <2>1. ask'[r] = ask[r] /\ ask' = ask
      BY <1>3, ListReads
    <2>2. \A e \in work'[r].rail :
            /\ e.by \in Requests /\ at[e.by] # "new"
            /\ ask[e.by].of = <<ask[r].user, e.id>>
            /\ e.title = ask[e.by].body.title
            /\ e.message_count = Len(ask[e.by].body.turns)
      BY <1>3, ListsWholeSaves
    <2>3. \A e \in work'[r].rail : at'[e.by] # "new"
      BY <1>1, <2>2
    <2>4. QED
      BY <2>1, <2>2, <2>3 DEF RailInv
  <1>4. CASE (\E a \in Ask : Arrive(r, a)) \/ Fail(r) \/ LoseAnswer(r)
    BY <1>4 DEF Arrive, Fail, LoseAnswer, StoreInv, TypeOK, RailInv
  <1>5. CASE BeginSave(r) \/ EnsureUser(r) \/ UpsertHead(r) \/ ReplaceMessages(r) \/ Commit(r)
    BY <1>5 DEF BeginSave, EnsureUser, UpsertHead, ReplaceMessages, Commit, Step, StoreInv,
                TypeOK, RailInv
  <1>6. CASE BeginDelete(r) \/ FinishDelete(r) \/ ReadHead(r) \/ ReadMessages(r)
    BY <1>6 DEF BeginDelete, FinishDelete, ReadHead, ReadMessages, Step, StoreInv,
                TypeOK, RailInv
  <1> QED
    BY <1>2, <1>3, <1>4, <1>5, <1>6, OthersWitness DEF Handler

\* Every list of the rail is of the caller's own conversations, each line the
\* title and the message count of one save.
THEOREM RailsAreWhole == Spec => []RailIsOfWholeSaves
PROOF
  <1> DEFINE RInv == StoreInv /\ \A r \in Requests : RailInv(r)
  <1>1. Init => RInv
    BY InitStore DEF Init, RailInv
  <1>2. RInv /\ [Next]_vars => RInv'
    BY StorePreserved, RailPreserved
  <1>3. RInv => RailIsOfWholeSaves
    BY DEF RailInv, RailIsOfWholeSaves
  <1> QED
    BY <1>1, <1>2, <1>3, PTL DEF Spec

----------------------------------------------------------------------------
(* Time stamps *)

\* A save whose transaction has begun, and has not failed.
Begun(r) == at[r] \in Saving \/ (at[r] = "unsure" /\ ask[r].do = "save")

\* A transaction began no earlier than those that had committed before it, and
\* stamps its row with that moment.
StampInv ==
    /\ \A r \in Requests : Begun(r) =>
         /\ work[r].since <= now
         /\ seen[r] \subseteq Committed
         /\ \A q \in seen[r] : ask[q].do = "save" => work[q].since <= work[r].since
         /\ at[r] \in Locking => work[r].row.updated_at = work[r].since
    /\ \A c \in Conversation : conversations[c] # NoRow =>
         conversations[c].updated_at = work[conversations[c].by].since

\* A committed transaction is history.
LEMMA CommittedStays ==
    ASSUME StoreInv, [Next]_vars, NEW q \in Committed
    PROVE  q \in Committed' /\ ask'[q] = ask[q] /\ work'[q] = work[q]
PROOF
  <1>1. q \in Requests /\ at[q] \in {"saved", "deleted", "unsure"}
    BY DEF Committed
  <1>2. ~Handler(q)
    BY <1>1, ListReads DEF Handler, BeginSave, EnsureUser, UpsertHead, ReplaceMessages, Commit,
       BeginDelete, FinishDelete, ReadHead, ReadMessages, Starts
  <1>3. ~(\E a \in Ask : Arrive(q, a)) /\ ~Fail(q)
    BY <1>1 DEF Arrive, Fail
  <1>4. CASE LoseAnswer(q)
    BY <1>1, <1>4 DEF LoseAnswer, Committed, StoreInv, TypeOK
  <1>5. CASE at'[q] = at[q] /\ work'[q] = work[q] /\ ask'[q] = ask[q]
    BY <1>1, <1>5 DEF Committed
  <1> QED
    BY <1>1, <1>2, <1>3, <1>4, <1>5, OthersWitness

LEMMA ClockRuns ==
    ASSUME StoreInv, [Next]_vars
    PROVE  now \in Nat /\ now' \in Nat /\ now <= now'
PROOF
  <1>1. now' \in {now, now + 1}
    BY ListReads DEF Next, vars, Tick, Arrive, Fail, LoseAnswer, Handler, BeginSave, EnsureUser,
       UpsertHead, ReplaceMessages, Commit, BeginDelete, FinishDelete, ReadHead, ReadMessages, Step
  <1> QED
    BY <1>1 DEF StoreInv, TypeOK

LEMMA StampsPreserved ==
    ASSUME StoreInv, StampInv, [Next]_vars
    PROVE  StampInv'
PROOF
  <1> USE DEF StoreInv
  <1>1. now \in Nat /\ now' \in Nat /\ now <= now'
    BY ClockRuns
  <1>2. ASSUME NEW q \in Requests
        PROVE  work[q].since \in Nat
    BY DEF TypeOK, Work
  <1>3. ASSUME NEW c \in Conversation, conversations'[c] # NoRow
        PROVE  conversations'[c].updated_at = work'[conversations'[c].by].since
    <2>1. CASE conversations'[c] = conversations[c]
      <3>1. PICK w \in Committed : w = conversations[c].by
        BY <1>3, <2>1, VersionsAreSaves DEF Committed
      <3>2. work'[w] = work[w]
        BY CommittedStays
      <3> QED
        BY <1>3, <2>1, <3>1, <3>2 DEF StampInv
    <2>2. ASSUME NEW r \in Requests, Commit(r)
          PROVE  conversations'[c].updated_at = work'[conversations'[c].by].since
      <3>1. CASE c = ask[r].of
        <4>1. at[r] = "commit" /\ work' = work
          BY <2>2 DEF Commit
        <4>2. work[r].row.updated_at = work[r].since
          BY <4>1 DEF StampInv, Begun
        <4> QED
          BY <2>2, <3>1, <4>1, <4>2, CommitReplaces
      <3>2. CASE c # ask[r].of
        BY <2>1, <2>2, <3>2, CommitReplaces
      <3> QED
        BY <3>1, <3>2
    <2>3. ASSUME NEW r \in Requests, FinishDelete(r)
          PROVE  conversations'[c] = conversations[c]
      <3>1. CASE StillThere(work[r].row, conversations[ask[r].of])
        BY <1>3, <2>3, <3>1, DeleteClears
      <3>2. CASE ~StillThere(work[r].row, conversations[ask[r].of])
        BY <2>3, <3>2 DEF FinishDelete
      <3> QED
        BY <3>1, <3>2
    <2> QED
      BY <2>1, <2>2, <2>3, TablesStay
  <1>4. ASSUME NEW r \in Requests, Begun(r)'
        PROVE  /\ work'[r].since <= now'
               /\ seen'[r] \subseteq Committed'
               /\ \A q \in seen'[r] : ask'[q].do = "save" => work'[q].since <= work'[r].since
               /\ at'[r] \in Locking => work'[r].row.updated_at = work'[r].since
    <2>1. CASE /\ Begun(r)
               /\ work'[r].since = work[r].since
               /\ seen'[r] = seen[r]
               /\ at'[r] \in Locking => work'[r].row.updated_at = work[r].since
      <3>1. \A q \in seen[r] : q \in Requests /\ q \in Committed
        BY <2>1 DEF StampInv, Committed
      <3>2. \A q \in seen[r] : ask[q].do = "save" => work[q].since <= work[r].since
        BY <2>1 DEF StampInv
      <3>3. \A q \in seen[r] : q \in Committed' /\ ask'[q] = ask[q] /\ work'[q] = work[q]
        BY <3>1, CommittedStays
      <3>4. work[r].since <= now'
        BY <1>1, <1>2, <2>1 DEF StampInv
      <3> QED
        BY <2>1, <3>2, <3>3, <3>4
    <2>2. CASE BeginSave(r)
      <3>1. /\ work'[r].since = now /\ seen'[r] = Committed /\ at'[r] = "insert_user"
        BY <2>2 DEF BeginSave, Step, TypeOK, Work
      <3>2. ASSUME NEW q \in Committed, ask[q].do = "save"
            PROVE  work[q].since <= now
        <4>1. q \in Requests /\ Begun(q)
          BY <3>2 DEF Committed, Begun, AskedInv
        <4> QED
          BY <4>1 DEF StampInv
      <3>3. \A q \in Committed : q \in Committed' /\ ask'[q] = ask[q] /\ work'[q] = work[q]
        BY CommittedStays
      <3> QED
        BY <1>1, <3>1, <3>2, <3>3
    <2>3. CASE EnsureUser(r)
      <3>1. /\ at[r] = "insert_user" /\ at'[r] = "upsert" /\ seen' = seen
            /\ work'[r].since = work[r].since
        BY <2>3 DEF EnsureUser, Step, TypeOK, Work
      <3> QED
        BY <2>1, <3>1 DEF Begun
    <2>4. CASE UpsertHead(r)
      <3> DEFINE old == conversations[ask[r].of]
                 row == [title |-> ask[r].body.title, updated_at |-> work[r].since,
                         born |-> IF old = NoRow THEN r ELSE old.born, by |-> r]
      <3>1. Step(r, "replace", [work[r] EXCEPT !.row = row]) /\ at[r] = "upsert" /\ seen' = seen
        BY <2>4 DEF UpsertHead
      <3>2. row.updated_at = work[r].since
        OBVIOUS
      <3> HIDE DEF row
      <3>3. work'[r].row = row /\ work'[r].since = work[r].since
        BY <3>1 DEF Step, TypeOK, Work
      <3> QED
        BY <2>1, <3>1, <3>2, <3>3 DEF Begun
    <2>5. CASE ReplaceMessages(r)
      <3>1. /\ at[r] = "replace" /\ at'[r] = "commit" /\ seen' = seen
            /\ work'[r].since = work[r].since /\ work'[r].row = work[r].row
        BY <2>5 DEF ReplaceMessages, Step, TypeOK, Work
      <3> QED
        BY <2>1, <3>1 DEF Begun, StampInv
    <2>6. CASE Commit(r)
      <3>1. at[r] = "commit" /\ at'[r] = "saved" /\ work' = work /\ seen'[r] = seen[r]
        BY <2>6 DEF Commit, Witnessed, TypeOK
      <3> QED
        BY <2>1, <3>1 DEF Begun
    <2>7. CASE LoseAnswer(r)
      <3>1. /\ at[r] \in {"saved", "deleted"} /\ at'[r] = "unsure"
            /\ ask' = ask /\ work' = work /\ seen' = seen
        BY <2>7 DEF LoseAnswer, TypeOK
      <3>2. ask[r].do = "save"
        BY <1>4, <3>1 DEF Begun
      <3>3. at[r] = "saved"
        BY <3>1, <3>2 DEF AskedInv
      <3> QED
        BY <2>1, <3>1, <3>3 DEF Begun
    <2>8. CASE Fail(r) \/ (\E a \in Ask : Arrive(r, a))
      BY <1>4, <2>8 DEF Fail, Arrive, TypeOK, Begun
    <2>9. CASE BeginDelete(r) \/ FinishDelete(r) \/ ReadHead(r) \/ ReadMessages(r)
      BY <1>4, <2>9 DEF BeginDelete, FinishDelete, ReadHead, ReadMessages, Step, TypeOK, Begun
    <2>10. CASE ListRail(r)
      BY <1>4, <2>10, ListReads DEF TypeOK, Begun
    <2>11. CASE /\ at'[r] = at[r] /\ work'[r] = work[r] /\ ask'[r] = ask[r]
                /\ at[r] \notin Looking => seen'[r] = seen[r]
      <3>1. Begun(r) /\ at[r] \notin Looking
        BY <1>4, <2>11 DEF Begun
      <3> QED
        BY <2>1, <2>11, <3>1 DEF StampInv
    <2> QED
      BY <2>2, <2>3, <2>4, <2>5, <2>6, <2>7, <2>8, <2>9, <2>10, <2>11, OthersWitness DEF Handler
  <1> QED
    BY <1>3, <1>4 DEF StampInv

\* On the rail, a save that began after another had committed stands above it.
THEOREM LaterStampsAreNewer == Spec => []LaterSavesAreNewer
PROOF
  <1>1. Init => StoreInv /\ StampInv
    BY InitStore DEF Init, StampInv, Begun
  <1>2. StoreInv /\ StampInv /\ [Next]_vars => (StoreInv /\ StampInv)'
    BY StorePreserved, StampsPreserved
  <1>3. StoreInv /\ StampInv => LaterSavesAreNewer
    <2> SUFFICES ASSUME StoreInv, StampInv, NEW c \in Conversation, NEW d \in Conversation,
                        conversations[c] # NoRow, conversations[d] # NoRow,
                        conversations[c].by \in seen[conversations[d].by]
                 PROVE  conversations[c].updated_at <= conversations[d].updated_at
      BY DEF LaterSavesAreNewer
    <2>1. PICK v \in Requests : /\ v = conversations[c].by /\ ask[v].do = "save"
                               /\ conversations[c].updated_at = work[v].since
      BY VersionsAreSaves DEF StampInv
    <2>2. PICK w \in Requests : /\ w = conversations[d].by /\ Begun(w)
                               /\ conversations[d].updated_at = work[w].since
      BY VersionsAreSaves DEF StampInv, Begun
    <2> QED
      BY <2>1, <2>2 DEF StampInv
  <1> QED
    BY <1>1, <1>2, <1>3, PTL DEF Spec

=============================================================================
