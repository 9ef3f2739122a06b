--------------------------- MODULE Conversations ---------------------------
(***************************************************************************)
(* Chat history: routers/conversations.py over the tables users,           *)
(* conversations and messages of db/init.sql.                              *)
(*                                                                         *)
(* A save is one transaction of several statements, a delete and a list    *)
(* one statement each, a read two statements with nothing around them.     *)
(* Postgres runs them READ COMMITTED: a statement sees what is committed   *)
(* when it starts, a writer of a row waits for the transaction that last   *)
(* wrote it, and an uncommitted transaction is seen by nobody else.  Every *)
(* handler holds one of the process's database connections meanwhile.      *)
(***************************************************************************)
EXTENDS Integers, Sequences, FiniteSets

CONSTANTS
    Users,        \* subjects that require_user can return
    Provisioned,  \* those that have a users row from the start
    Ids,          \* conversation ids the clients make up, good or bad
    GoodIds,      \* those of 1 to 64 characters
    Titles,
    Contents,     \* what a message may say, and who says it
    Bodies,       \* the bodies a client may send: a title and messages in order
    Requests,     \* calls of the four handlers; a retry is a call of its own
    NoRow,        \* no conversations row; also the version of an absent one
    MaxMessages,  \* MAX_MESSAGES
    MaxList,      \* MAX_LIST
    PoolSize,     \* connections of the pool
    MaxTime,      \* bound: the last instant of the database clock
    MaxFaults     \* bound: failed statements, hung-up clients, lost answers

Conversation == Users \X Ids
Body == [title: Titles, turns: Seq(Contents)]

\* A message row.  by is history: the save that inserted it.
Message == [of: Conversation, position: Nat, by: Requests, content: Contents]

\* A conversations row.  born tells two rows of one key apart (a tuple deleted
\* and inserted again is another); by is history: the save that last wrote it.
Row == [title: Titles, updated_at: Nat, born: Requests, by: Requests]

\* A conversation as a client knows it: a title, and what is said at each position.
Document == [title: Titles, turns: SUBSET (Nat \X Contents)]

Ask == [do: {"save"}, of: Conversation, body: Bodies]
       \cup [do: {"get", "delete"}, of: Conversation]
       \cup [do: {"list"}, user: Users]

ASSUME SubsetsAssumption == GoodIds \subseteq Ids /\ Provisioned \subseteq Users
ASSUME BodiesAssumption == Bodies \subseteq Body
ASSUME BoundsAssumption == /\ MaxMessages \in Nat
                           /\ MaxList \in Nat \ {0} /\ PoolSize \in Nat \ {0}
                           /\ MaxTime \in Nat /\ MaxFaults \in Nat
ASSUME NoRowAssumption == NoRow \notin Row \cup Ask \cup Requests \cup Document

VARIABLES
    now,            \* the database clock
    users,          \* table users
    conversations,  \* table conversations: a Row, or NoRow
    messages,       \* table messages
    at,             \* at[r]: the statement request r waits for, or its outcome
    ask,            \* ask[r]: what r asks for, NoRow before it arrives
    work,           \* work[r]: what r read, or has written and not committed
    seen,           \* history: for a save what had committed when it began, else the
                    \* versions of its conversation since r's first look
    faults          \* how many faults have happened

tables == <<users, conversations, messages>>
vars == <<now, users, conversations, messages, at, ask, work, seen, faults>>

----------------------------------------------------------------------------
(* The tables *)

\* MUTANT of MessagesOf: the conversation id without the user_id predicate.
MessagesOfAnyone(c) == {m \in messages : m.of[2] = c[2]}

\* WHERE user_id = $1 AND conversation_id = $2
MessagesOf(c) == {m \in messages : m.of = c}

\* The rows executemany inserts for save r; enumerate counts from zero.
RowsOf(r) == {[of |-> ask[r].of, position |-> i - 1, by |-> r,
               content |-> ask[r].body.turns[i]] : i \in DOMAIN ask[r].body.turns}

\* Which save wrote what is committed of a conversation.
VersionIn(table, c) == IF table[c] = NoRow THEN NoRow ELSE table[c].by

----------------------------------------------------------------------------
(* Requests, connections and row locks *)

Nothing == [since |-> 0, adds |-> FALSE, row |-> NoRow, lines |-> {}, rail |-> {}]

\* One line of the rail.  by is history: the save the row was read from.
Entry == [id: Ids, by: Requests, title: Titles, message_count: Nat]

\* since: when the transaction began.  adds: it inserted the users row.
\* row: the row read, or written.  lines: the messages read, or deleted.
Work == [since: Nat, adds: BOOLEAN, row: Row \cup {NoRow}, lines: SUBSET Message,
         rail: SUBSET Entry]

Ended == {"refused", "failed", "not_found", "saved", "unsure", "deleted", "got", "listed"}

\* MUTANT of Holding: a save keeps its connection after its answer.
HoldingOn == {"insert_user", "upsert", "replace", "commit", "delete", "read_messages",
              "saved"}

\* Where a handler is inside `async with db.pool().acquire()`.
Holding == {"insert_user", "upsert", "replace", "commit", "delete", "read_messages"}

Connected == {r \in Requests : at[r] \in Holding}
CanConnect == Cardinality(Connected) < PoolSize

\* Another transaction has inserted the same users row and not ended.
UserRowTaken(r) ==
    \E q \in Requests \ {r} : /\ at[q] \in {"upsert", "replace", "commit"}
                              /\ work[q].adds
                              /\ ask[q].of[1] = ask[r].of[1]

\* MUTANT of RowTaken: an INSERT that waits for nobody.
RowNeverTaken(r) == FALSE

\* Another transaction has inserted or updated the conversations row and not ended.
RowTaken(r) == \E q \in Requests \ {r} : /\ at[q] \in {"replace", "commit"}
                                         /\ ask[q].of = ask[r].of

\* The requests whose transaction has committed.
Committed == {r \in Requests : at[r] \in {"saved", "deleted", "unsure"}}

Looking == {"delete", "read_messages"}

TypeOK ==
    /\ now \in Nat
    /\ users \subseteq Users
    /\ conversations \in [Conversation -> Row \cup {NoRow}]
    /\ messages \subseteq Message
    /\ at \in [Requests -> {"new", "waiting"} \cup Holding \cup Ended]
    /\ ask \in [Requests -> Ask \cup {NoRow}]
    /\ work \in [Requests -> Work]
    /\ seen \in [Requests -> SUBSET (Requests \cup {NoRow})]
    /\ faults \in Nat
    \* REFERENCES users (id), REFERENCES conversations (user_id, id)
    /\ \A c \in Conversation : conversations[c] # NoRow => c[1] \in users
    /\ \A m \in messages : conversations[m.of] # NoRow

Init ==
    /\ now = 0
    /\ users = Provisioned
    /\ conversations = [c \in Conversation |-> NoRow]
    /\ messages = {}
    /\ at = [r \in Requests |-> "new"]
    /\ ask = [r \in Requests |-> NoRow]
    /\ work = [r \in Requests |-> Nothing]
    /\ seen = [r \in Requests |-> {}]
    /\ faults = 0

\* Step(r, s, w): r goes on to s with w in hand and the tables are left alone.
Step(r, s, w) ==
    /\ at' = [at EXCEPT ![r] = s]
    /\ work' = [work EXCEPT ![r] = w]
    /\ UNCHANGED <<now, tables, ask, faults>>

\* Whoever looks at a conversation while it changes sees (history) its new version.
Witnessed ==
    seen' = [q \in Requests |-> IF at[q] \in Looking
                             THEN seen[q] \cup {VersionIn(conversations', ask[q].of)}
                             ELSE seen[q]]

\* _check_id, and the bounds of ConversationBody (422 before the handler runs).
WellFormed(a) == /\ a.do = "list" \/ a.of[2] \in GoodIds
                 /\ a.do = "save" => Len(a.body.turns) <= MaxMessages

\* A request arrives, with the subject require_user returned; one that is not
\* well formed touches nothing.
Arrive(r, a) ==
    /\ at[r] = "new"
    /\ ask' = [ask EXCEPT ![r] = a]
    /\ at' = [at EXCEPT ![r] = IF WellFormed(a) THEN "waiting" ELSE "refused"]
    /\ UNCHANGED <<now, tables, work, seen, faults>>

\* The first statement of a handler needs a connection.
Starts(r, do) == at[r] = "waiting" /\ ask[r].do = do /\ CanConnect

----------------------------------------------------------------------------
(* PUT /conversations/{id}: one transaction *)

\* BEGIN fixes what now() will say until the end.
BeginSave(r) ==
    /\ Starts(r, "save")
    /\ Step(r, "insert_user", [work[r] EXCEPT !.since = now])
    /\ seen' = [seen EXCEPT ![r] = Committed]

\* INSERT INTO users ... ON CONFLICT DO NOTHING
EnsureUser(r) ==
    /\ at[r] = "insert_user"
    /\ ~UserRowTaken(r)
    /\ Step(r, "upsert", [work[r] EXCEPT !.adds = ask[r].of[1] \notin users])
    /\ UNCHANGED seen

\* MUTANT of UpsertHead: DO UPDATE SET title only.
UpsertHeadUnstamped(r) ==
    /\ at[r] = "upsert"
    /\ ~RowTaken(r)
    /\ LET old == conversations[ask[r].of]
       IN  Step(r, "replace",
                [work[r] EXCEPT !.row = [title |-> ask[r].body.title,
                                         updated_at |-> IF old = NoRow THEN work[r].since
                                                        ELSE old.updated_at,
                                         born |-> IF old = NoRow THEN r ELSE old.born,
                                         by |-> r]])
    /\ UNCHANGED seen

\* MUTANT of UpsertHead: the statement commits by itself.
UpsertHeadAutocommitted(r) ==
    /\ at[r] = "upsert"
    /\ ask[r].of[1] \in users
    /\ LET row == [title |-> ask[r].body.title, updated_at |-> work[r].since,
                   born |-> r, by |-> r]
       IN  /\ conversations' = [conversations EXCEPT ![ask[r].of] = row]
           /\ work' = [work EXCEPT ![r].row = row]
    /\ at' = [at EXCEPT ![r] = "replace"]
    /\ UNCHANGED <<now, users, messages, ask, seen, faults>>

\* INSERT INTO conversations ... ON CONFLICT (user_id, id) DO UPDATE
UpsertHead(r) ==
    /\ at[r] = "upsert"
    /\ ~RowTaken(r)
    /\ LET old == conversations[ask[r].of]
       IN  Step(r, "replace",
                [work[r] EXCEPT !.row = [title |-> ask[r].body.title,
                                         updated_at |-> work[r].since,
                                         born |-> IF old = NoRow THEN r ELSE old.born,
                                         by |-> r]])
    /\ UNCHANGED seen

\* DELETE FROM messages, on the rows this statement can see, then the inserts,
\* which nobody sees before the commit.
ReplaceMessages(r) ==
    /\ at[r] = "replace"
    /\ Step(r, "commit", [work[r] EXCEPT !.lines = MessagesOf(ask[r].of)])
    /\ UNCHANGED seen

Commit(r) ==
    /\ at[r] = "commit"
    /\ users' = IF work[r].adds THEN users \cup {ask[r].of[1]} ELSE users
    /\ conversations' = [conversations EXCEPT ![ask[r].of] = work[r].row]
    /\ messages' = (messages \ work[r].lines) \cup RowsOf(r)
    /\ at' = [at EXCEPT ![r] = "saved"]
    /\ Witnessed
    /\ UNCHANGED <<now, ask, work, faults>>

----------------------------------------------------------------------------
(* DELETE /conversations/{id}: one statement, which may wait for the row *)

BeginDelete(r) ==
    /\ Starts(r, "delete")
    /\ LET row == conversations[ask[r].of]
       IN  Step(r, IF row = NoRow THEN "not_found" ELSE "delete", [work[r] EXCEPT !.row = row])
    /\ seen' = [seen EXCEPT ![r] = {VersionIn(conversations, ask[r].of)}]

\* MUTANT of StillThere: a row updated since the snapshot is passed over.
StillUnchanged(found, row) == row = found

\* The row the snapshot found is updated, perhaps, but has not been deleted.
StillThere(found, row) == row # NoRow /\ row.born = found.born

\* MUTANT of WithoutMessagesOf: a foreign key without ON DELETE CASCADE.
WithMessagesOf(c) == messages

\* ON DELETE CASCADE
WithoutMessagesOf(c) == messages \ MessagesOf(c)

\* The row goes and its messages with it.
FinishDelete(r) ==
    /\ at[r] = "delete"
    /\ ~RowTaken(r)
    /\ IF StillThere(work[r].row, conversations[ask[r].of])
         THEN /\ conversations' = [conversations EXCEPT ![ask[r].of] = NoRow]
              /\ messages' = WithoutMessagesOf(ask[r].of)
              /\ at' = [at EXCEPT ![r] = "deleted"]
         ELSE /\ at' = [at EXCEPT ![r] = "not_found"]
              /\ UNCHANGED <<conversations, messages>>
    /\ Witnessed
    /\ UNCHANGED <<now, users, ask, work, faults>>

----------------------------------------------------------------------------
(* GET /conversations/{id}: two statements; GET /conversations: one *)

ReadHead(r) ==
    /\ Starts(r, "get")
    /\ LET row == conversations[ask[r].of]
       IN  Step(r, IF row = NoRow THEN "not_found" ELSE "read_messages",
                [work[r] EXCEPT !.row = row])
    /\ seen' = [seen EXCEPT ![r] = {VersionIn(conversations, ask[r].of)}]

ReadMessages(r) ==
    /\ at[r] = "read_messages"
    /\ Step(r, "got", [work[r] EXCEPT !.lines = MessagesOf(ask[r].of)])
    /\ UNCHANGED seen

\* ORDER BY updated_at DESC LIMIT MAX_LIST: some newest MaxList of a user's own.
Newest(own, top) ==
    /\ top \subseteq own
    /\ Cardinality(top) = IF Cardinality(own) < MaxList THEN Cardinality(own) ELSE MaxList
    /\ \A c \in top, d \in own \ top :
         conversations[c].updated_at >= conversations[d].updated_at

ListRail(r) ==
    /\ Starts(r, "list")
    /\ LET own == {c \in Conversation : c[1] = ask[r].user /\ conversations[c] # NoRow}
       IN  \E top \in SUBSET own :
             /\ Newest(own, top)
             /\ Step(r, "listed",
                     [work[r] EXCEPT !.rail =
                        {[id |-> c[2], by |-> conversations[c].by,
                          title |-> conversations[c].title,
                          message_count |-> Cardinality(MessagesOf(c))] : c \in top}])
    /\ UNCHANGED seen

----------------------------------------------------------------------------
(* Failures and time *)

\* A statement fails, the process dies or the client hangs up: what was not
\* committed is rolled back and the connection goes back to the pool.
Fail(r) ==
    /\ faults < MaxFaults
    /\ at[r] \in {"waiting"} \cup Holding
    /\ at' = [at EXCEPT ![r] = "failed"]
    /\ faults' = faults + 1
    /\ UNCHANGED <<now, tables, ask, work, seen>>

\* The answer is lost: the client cannot know, and may retry.
LoseAnswer(r) ==
    /\ faults < MaxFaults
    /\ at[r] \in {"saved", "deleted"}
    /\ at' = [at EXCEPT ![r] = "unsure"]
    /\ faults' = faults + 1
    /\ UNCHANGED <<now, tables, ask, work, seen>>

Tick ==
    /\ now < MaxTime
    /\ now' = now + 1
    /\ UNCHANGED <<tables, at, ask, work, seen, faults>>

Handler(r) ==
    \/ BeginSave(r) \/ EnsureUser(r) \/ UpsertHead(r) \/ ReplaceMessages(r) \/ Commit(r)
    \/ BeginDelete(r) \/ FinishDelete(r)
    \/ ReadHead(r) \/ ReadMessages(r) \/ ListRail(r)

Next ==
    \/ \E r \in Requests : (\E a \in Ask : Arrive(r, a)) \/ Handler(r) \/ Fail(r) \/ LoseAnswer(r)
    \/ Tick

\* Postgres answers every statement that need not wait, and asyncpg and the
\* event loop resume the handler.
Spec == Init /\ [][Next]_vars /\ \A r \in Requests : WF_vars(Handler(r))

----------------------------------------------------------------------------
(* Properties *)

\* A conversation is what one save of its owner sent, title and messages: two
\* tabs saving at once, a save retried or a save racing a delete never mix two
\* saves, double a turn, or leave messages without their conversation.
MessagesOfOneSave ==
    \A c \in Conversation :
      IF conversations[c] = NoRow THEN MessagesOf(c) = {}
      ELSE LET w == conversations[c].by
           IN  /\ ask[w].do = "save" /\ ask[w].of = c
               /\ conversations[c].title = ask[w].body.title
               /\ MessagesOf(c) = RowsOf(w)

\* What get_conversation returns, read in two statements: the title is that of
\* the version the first one saw, the messages are those of that version or of
\* one committed since; with no commit in between they belong together.
ReadsAreOfVersions ==
    \A r \in Requests : at[r] = "got" =>
      LET head == work[r].row.by
      IN  /\ head \in seen[r]
          /\ ask[head].of = ask[r].of
          /\ work[r].row.title = ask[head].body.title
          /\ \E w \in seen[r] : work[r].lines = IF w = NoRow THEN {} ELSE RowsOf(w)

\* updated_at is the start of the transaction, so saves that overlap may be
\* stamped in either order; but one that began after another had committed is
\* the newer of the two on the rail.
LaterSavesAreNewer ==
    \A c, d \in Conversation :
      /\ conversations[c] # NoRow /\ conversations[d] # NoRow
      /\ conversations[c].by \in seen[conversations[d].by]
      => conversations[c].updated_at <= conversations[d].updated_at

\* The rail shows only the caller's conversations, each with the title and the
\* number of messages of one and the same save.
RailIsOfWholeSaves ==
    \A r \in Requests : at[r] = "listed" =>
      \A e \in work[r].rail :
        /\ ask[e.by].of = <<ask[r].user, e.id>>
        /\ e.title = ask[e.by].body.title
        /\ e.message_count = Len(ask[e.by].body.turns)

\* Who is told 404 asked for a conversation that was not there at some moment
\* of the request: a delete that had to wait for a save is not lost.
NotFoundIsJust ==
    \A r \in Requests : at[r] = "not_found" => NoRow \in seen[r]

\* Every request is answered, or fails: row locks are taken in one order
\* (user, conversation) and a handler never asks for a second connection.
RequestsEnd ==
    \A r \in Requests : at[r] = "waiting" ~> at[r] \in Ended

\* The document that is stored, and the one that a body is.
Stored(c) ==
    IF conversations[c] = NoRow THEN NoRow
    ELSE [title |-> conversations[c].title,
          turns |-> {<<m.position, m.content>> : m \in MessagesOf(c)}]

Sent(b) == [title |-> b.title, turns |-> {<<i - 1, b.turns[i]>> : i \in DOMAIN b.turns}]

\* What a request asks of the store: nothing before it arrives, if it only looks,
\* or if it is refused for its form.
Asked(a) ==
    IF a = NoRow THEN NoRow
    ELSE IF ~WellFormed(a) \/ a.do \in {"get", "list"} THEN NoRow
    ELSE IF a.do = "delete" THEN a
    ELSE [do |-> "save", of |-> a.of, doc |-> Sent(a.body)]

History == INSTANCE HistoryStore WITH
    store <- [c \in Conversation |-> Stored(c)],
    asked <- [r \in Requests |-> Asked(ask[r])],
    effective <- Committed,
    Docs <- {Sent(b) : b \in {x \in Bodies : Len(x.turns) <= MaxMessages}},
    NoDoc <- NoRow

\* The committed tables are a store of whole documents: a request takes effect
\* at most once, at its commit, and then on the conversation that it named
\* when it arrived, of the user who asked and with the document it brought,
\* and on nothing else; a body over the bounds never does.
HistoryIsAtomic == History!Spec

=============================================================================
