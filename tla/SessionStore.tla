---------------------------- MODULE SessionStore ----------------------------
(***************************************************************************)
(* How conversations are stored.  Every answered LLM call submits the      *)
(* whole conversation so far; a worker of the store pool                   *)
(*   - inserts it in one transaction: messages and tools are shared rows,  *)
(*     found again by checksum, plus one new session row naming them       *)
(*     (store_pool.go runMessageStoreTask), then                           *)
(*   - merges the new row into the older rows of the same conversation in  *)
(*     a second transaction (session_dedup.go DeduplicateSessionGroup).    *)
(* Beside the workers run the user's deletions, the hourly clean-up of     *)
(* conversations stuck at a tool call (session_terminal_cleanup.go) and    *)
(* the purge that removes soft-deleted rows and the messages and tools     *)
(* nobody names any more (soft_delete_purge.go).  The cron lock of         *)
(* CronLock keeps each of those two jobs to one run at a time.             *)
(*                                                                         *)
(* A message's text is a model value.  Rows are numbered as the database   *)
(* numbers them: numbers are never used again, so a message purged and     *)
(* stored again is another row.                                            *)
(***************************************************************************)
EXTENDS Naturals, FiniteSets, SequencesExt

CONSTANTS
    Messages,      \* message contents (equal checksum = equal content)
    Tools,         \* tool contents
    Stuck,         \* the messages that are assistant turns with tool calls
    Keys,          \* API keys: the owners of sessions
    Snapshots,     \* what the clients send: key, conversation so far, tools offered
    Writers,       \* workers of the store pool
    MaxSnapshots,  \* bound: session rows ever inserted
    MaxFailures,   \* bound: merges that fail, or are lost with the process
    MaxDeletes     \* bound: deletions by users

ASSUME SessionAssumption ==
    /\ Stuck \subseteq Messages /\ Messages \cap Tools = {}
    /\ \A s \in Snapshots : /\ s.key \in Keys /\ s.convo \in Seq(Messages) \ {<<>>}
                            /\ s.tools \subseteq Tools /\ IsFiniteSet(s.tools)
    /\ MaxSnapshots \in Nat /\ MaxFailures \in Nat /\ MaxDeletes \in Nat

VARIABLES
    rowOf,     \* the row that holds a content, 0 when there is none
    lastRow,   \* last row number given out (messages and tools)
    session,   \* the sessions table
    lastId,    \* last session id given out
    idle,      \* sessions whose updated_at is older than the idle threshold
    writer,    \* what each worker is doing
    cleanup,   \* the clean-up job
    purge,     \* the purge job
    failures, deletes,  \* how much of the two bounds is used up
    debt,      \* history: rows whose merge failed and that no merge has seen since
    overlap    \* history: a worker wrote rows it had read before a purge took them

data == <<rowOf, lastRow, session, lastId, idle>>
history == <<failures, deletes, debt, overlap>>
vars == <<data, writer, cleanup, purge, history>>

Items == Messages \cup Tools
Ids == 1..MaxSnapshots
MaxRows == MaxSnapshots * Cardinality(Items)
Rows == 1..MaxRows

NoSession == [status |-> "none", key |-> 0, msgs |-> <<>>, tools |-> {}, from |-> {}]
NoTask == [pc |-> "idle", key |-> 0, convo |-> <<>>, tools |-> {}, found |-> <<>>,
           id |-> 0, row |-> NoSession, seen |-> {}]
NoJob == [pc |-> "idle", rows |-> {}]

Live == {i \in Ids : session[i].status = "live"}
Deleted == {i \in Ids : session[i].status = "soft"}
Names(s) == ToSet(s.msgs) \cup s.tools

TypeOK ==
    /\ rowOf \in [Items -> 0..MaxRows] /\ lastRow \in 0..MaxRows
    /\ \A i \in Ids :
        /\ session[i].status \in {"none", "live", "soft", "gone"}
        /\ i <= lastId => session[i].status # "none"
        /\ session[i].status \in {"live", "soft"} =>
             /\ session[i].key \in Keys /\ session[i].msgs # <<>>
             /\ Names(session[i]) \subseteq 1..lastRow
    /\ lastId \in 0..MaxSnapshots /\ idle \subseteq Ids
    /\ \A w \in Writers : /\ writer[w].pc \in {"idle", "storing", "stored", "merging"}
                          /\ writer[w].id \in 0..lastId /\ writer[w].seen \subseteq Ids
    /\ cleanup.pc \in {"idle", "scanned"} /\ cleanup.rows \subseteq Ids
    /\ purge.pc \in {"idle", "candidates", "orphans", "tools", "sessions"}
    /\ purge.rows \subseteq Rows
    /\ failures \in 0..MaxFailures /\ deletes \in 0..MaxDeletes
    /\ debt \subseteq Ids /\ overlap \in BOOLEAN

Init ==
    /\ rowOf = [i \in Items |-> 0] /\ lastRow = 0
    /\ session = [i \in Ids |-> NoSession] /\ lastId = 0 /\ idle = {}
    /\ writer = [w \in Writers |-> NoTask]
    /\ cleanup = NoJob /\ purge = NoJob
    /\ failures = 0 /\ deletes = 0 /\ debt = {} /\ overlap = FALSE

-----------------------------------------------------------------------------
(***************************************************************************)
(* Storing a conversation.                                                 *)
(***************************************************************************)

\* The transaction starts: which contents have a row already?  No lock is taken.
Lookup(w, snapshot) ==
    /\ writer[w].pc = "idle"
    /\ lastId + Cardinality({v \in Writers : writer[v].pc = "storing"}) < MaxSnapshots
    /\ writer' = [writer EXCEPT ![w] = [NoTask EXCEPT
                    !.pc = "storing", !.key = snapshot.key, !.convo = snapshot.convo,
                    !.tools = snapshot.tools,
                    !.found = [i \in ToSet(snapshot.convo) \cup snapshot.tools |-> rowOf[i]]]]
    /\ UNCHANGED <<data, cleanup, purge, history>>

\* Contents without a row are inserted; one that somebody else has inserted since
\* conflicts, is skipped and read again.
RowsFor(found) ==
    LET new == {i \in DOMAIN found : found[i] = 0 /\ rowOf[i] = 0}
        numbered == SetToSeq(new)
    IN  [i \in DOMAIN found |->
            IF found[i] # 0 THEN found[i]
            ELSE IF rowOf[i] # 0 THEN rowOf[i]
            ELSE lastRow + CHOOSE n \in DOMAIN numbered : numbered[n] = i]

NewSession(task, rows) ==
    [status |-> "live", key |-> task.key,
     msgs |-> [n \in DOMAIN task.convo |-> rows[task.convo[n]]],
     tools |-> {rows[t] : t \in task.tools}, from |-> {task.key}]

\* What a purge has taken, or has already decided to take.
Doomed ==
    ((1..lastRow) \ {rowOf[i] : i \in Items})
        \cup (IF purge.pc \in {"orphans", "tools"} THEN purge.rows ELSE {})

\* The insert commits.
Store(w) ==
    /\ writer[w].pc = "storing" /\ lastId < MaxSnapshots
    /\ LET rows == RowsFor(writer[w].found)
           new == {i \in DOMAIN rows : rows[i] > lastRow}
           row == NewSession(writer[w], rows)
       IN  /\ rowOf' = [i \in Items |-> IF i \in new THEN rows[i] ELSE rowOf[i]]
           /\ lastRow' = lastRow + Cardinality(new)
           /\ lastId' = lastId + 1
           /\ session' = [session EXCEPT ![lastId + 1] = row]
           /\ writer' = [writer EXCEPT ![w] = [NoTask EXCEPT
                            !.pc = "stored", !.id = lastId + 1, !.row = row]]
           /\ overlap' = (overlap \/ Names(row) \cap Doomed # {})
    /\ UNCHANGED <<idle, cleanup, purge, failures, deletes, debt>>

\* The transaction fails and leaves nothing.
StoreFails(w) ==
    /\ writer[w].pc = "storing"
    /\ writer' = [writer EXCEPT ![w] = NoTask]
    /\ UNCHANGED <<data, cleanup, purge, history>>

-----------------------------------------------------------------------------
(***************************************************************************)
(* Merging.  SELECT ... FOR UPDATE sees the rows committed when it starts, *)
(* may wait for their locks, and then reads again those still alive: a     *)
(* merge is a scan followed by everything else in one step.                *)
(***************************************************************************)

\* A plausible bug: groups by first message only, as before sessions had a key.
SameGroupAnyKey(r, s) == Head(r.msgs) = Head(s.msgs)

SameGroup(r, s) == r.key = s.key /\ Head(r.msgs) = Head(s.msgs)

MergeScan(w) ==
    /\ writer[w].pc = "stored"
    /\ writer' = [writer EXCEPT ![w].pc = "merging",
                    ![w].seen = {i \in Live : SameGroup(session[i], writer[w].row)}]
    /\ UNCHANGED <<data, cleanup, purge, history>>

\* i comes before j: longer first, then older.
Before(s, i, j) ==
    \/ Len(s[i].msgs) > Len(s[j].msgs)
    \/ Len(s[i].msgs) = Len(s[j].msgs) /\ i < j

Covers(s, i, j) == SameGroup(s[i], s[j]) /\ Before(s, i, j) /\ IsPrefix(s[j].msgs, s[i].msgs)

\* FindSessionTarget: the row this snapshot continues.
Continued(row, others) ==
    LET shorter == {i \in others : session[i].key = row.key /\ IsPrefix(session[i].msgs, row.msgs)}
    IN  {i \in shorter : \A j \in shorter \ {i} : Before(session, i, j)}

\* A plausible bug: the snapshot's tools replace the row's instead of joining them.
RollForwardToolsToo(keeper, id, row) ==
    [i \in Ids |->
        IF i = keeper
        THEN [session[i] EXCEPT !.msgs = row.msgs, !.tools = row.tools, !.from = @ \cup row.from]
        ELSE IF i = id /\ session[i].status = "live"
        THEN [session[i] EXCEPT !.status = "soft"]
        ELSE session[i]]

\* writeBackSnapshot, and the new row soft-deleted.
RollForward(keeper, id, row) ==
    [i \in Ids |->
        IF i = keeper
        THEN [session[i] EXCEPT !.msgs = row.msgs, !.tools = @ \cup row.tools,
                                !.from = @ \cup row.from]
        ELSE IF i = id /\ session[i].status = "live"
        THEN [session[i] EXCEPT !.status = "soft"]
        ELSE session[i]]

\* A plausible bug: only the new row is ever merged, older duplicates stay.
RedundantNever(s, group) == {}

\* FindRedundantSessions within one group.  Being a prefix is transitive, so a row
\* has a container exactly when some row before it covers it, and its container is
\* the first row that covers it and is not covered itself.
Redundant(s, group) == {j \in group : \E i \in group : Covers(s, i, j)}

Container(s, group, j) ==
    CHOOSE i \in group \ Redundant(s, group) :
        /\ Covers(s, i, j)
        /\ \A k \in group \ Redundant(s, group) : Covers(s, k, j) => k = i \/ Before(s, i, k)

\* applyMergeInTx: tools move to the containers, the redundant rows are soft-deleted.
Fold(s, group) ==
    LET gone == Redundant(s, group)
        into(i) == {j \in gone : Container(s, group, j) = i}
    IN  [i \in Ids |->
            IF i \in gone THEN [s[i] EXCEPT !.status = "soft"]
            ELSE IF i \in group
            THEN [s[i] EXCEPT !.tools = @ \cup UNION {s[j].tools : j \in into(i)},
                              !.from = @ \cup UNION {s[j].from : j \in into(i)}]
            ELSE s[i]]

Merge(w) ==
    /\ writer[w].pc = "merging"
    /\ LET id == writer[w].id
           row == writer[w].row
           group == writer[w].seen \cap Live
           others == group \ {id}
           keeper == Continued(row, others)
       IN  /\ session' = IF keeper = {} THEN Fold(session, group)
                         ELSE Fold(RollForward(CHOOSE i \in keeper : TRUE, id, row), others)
           /\ debt' = debt \ (group \cup {id})
           /\ overlap' = (overlap \/ (keeper # {} /\ Names(row) \cap Doomed # {}))
           /\ idle' = {i \in idle : session'[i] = session[i] /\ i \notin keeper}
    /\ writer' = [writer EXCEPT ![w] = NoTask]
    /\ UNCHANGED <<rowOf, lastRow, lastId, cleanup, purge, failures, deletes>>

\* The merge's transaction fails, or the process dies before it: the row stays as it
\* was inserted, to be merged when the conversation is stored again.
MergeFails(w) ==
    /\ writer[w].pc \in {"stored", "merging"}
    /\ failures < MaxFailures
    /\ failures' = failures + 1 /\ debt' = debt \cup {writer[w].id}
    /\ writer' = [writer EXCEPT ![w] = NoTask]
    /\ UNCHANGED <<data, cleanup, purge, deletes, overlap>>

Work(w) ==
    \/ \E snapshot \in Snapshots : Lookup(w, snapshot)
    \/ Store(w) \/ StoreFails(w)
    \/ MergeScan(w) \/ Merge(w) \/ MergeFails(w)

-----------------------------------------------------------------------------
(***************************************************************************)
(* Deletions, clean-up, purge.                                             *)
(***************************************************************************)

SoftDelete(rows) ==
    [i \in Ids |-> IF i \in rows \cap Live THEN [session[i] EXCEPT !.status = "soft"] ELSE session[i]]

UserDeletes(i) ==
    /\ i \in Live /\ deletes < MaxDeletes
    /\ deletes' = deletes + 1 /\ session' = SoftDelete({i})
    /\ UNCHANGED <<rowOf, lastRow, lastId, idle, writer, cleanup, purge, failures, debt, overlap>>

EndsStuck(i) == \E m \in Stuck : Last(session[i].msgs) = rowOf[m]

\* Half an hour without an update; a merge takes far less.  Only rows that end at a tool
\* call are followed, nobody asks whether the others are idle.
GrowIdle(i) ==
    /\ i \in Live \ idle /\ EndsStuck(i) /\ \A w \in Writers : writer[w].id # i
    /\ idle' = idle \cup {i}
    /\ UNCHANGED <<rowOf, lastRow, session, lastId, writer, cleanup, purge, history>>

StuckSessions == {i \in Live \cap idle : EndsStuck(i)}

CleanupScan ==
    /\ cleanup.pc = "idle" /\ StuckSessions # {}
    /\ cleanup' = [pc |-> "scanned", rows |-> StuckSessions]
    /\ UNCHANGED <<data, writer, purge, history>>

CleanupDelete ==
    /\ cleanup.pc = "scanned"
    /\ cleanup' = NoJob /\ session' = SoftDelete(cleanup.rows)
    /\ UNCHANGED <<rowOf, lastRow, lastId, idle, writer, purge, history>>

NamedBy(rows) == UNION {Names(session[i]) : i \in rows}

PurgeReadDeleted ==
    /\ purge.pc = "idle" /\ Deleted # {}
    /\ purge' = [pc |-> "candidates", rows |-> NamedBy(Deleted)]
    /\ UNCHANGED <<data, writer, cleanup, history>>

\* A plausible bug: everything a deleted session names is an orphan.
PurgeSkipsActive ==
    /\ purge.pc = "candidates"
    /\ purge' = [purge EXCEPT !.pc = "orphans"]
    /\ UNCHANGED <<data, writer, cleanup, history>>

PurgeReadActive ==
    /\ purge.pc = "candidates"
    /\ purge' = [pc |-> "orphans", rows |-> purge.rows \ NamedBy(Live)]
    /\ UNCHANGED <<data, writer, cleanup, history>>

\* Hard deletion of the orphans of one table.
Drop(contents) == rowOf' = [i \in Items |-> IF i \in contents /\ rowOf[i] \in purge.rows THEN 0 ELSE rowOf[i]]

PurgeMessages ==
    /\ purge.pc = "orphans"
    /\ Drop(Messages) /\ purge' = [purge EXCEPT !.pc = "tools"]
    /\ UNCHANGED <<lastRow, session, lastId, idle, writer, cleanup, history>>

PurgeTools ==
    /\ purge.pc = "tools"
    /\ Drop(Tools) /\ purge' = [pc |-> "sessions", rows |-> {}]
    /\ UNCHANGED <<lastRow, session, lastId, idle, writer, cleanup, history>>

\* Every row soft-deleted by now goes, not only those read at the start.
PurgeSessions ==
    /\ purge.pc = "sessions"
    /\ session' = [i \in Ids |-> IF i \in Deleted THEN [NoSession EXCEPT !.status = "gone"] ELSE session[i]]
    /\ purge' = NoJob
    /\ UNCHANGED <<rowOf, lastRow, lastId, idle, writer, cleanup, history>>

\* A query fails, or the process dies: the run ends where it is.
PurgeFails ==
    /\ purge.pc # "idle" /\ purge' = NoJob
    /\ UNCHANGED <<data, writer, cleanup, history>>

Next ==
    \/ \E w \in Writers : Work(w)
    \/ \E i \in Ids : UserDeletes(i) \/ GrowIdle(i)
    \/ CleanupScan \/ CleanupDelete
    \/ PurgeReadDeleted \/ PurgeReadActive \/ PurgeMessages \/ PurgeTools \/ PurgeSessions \/ PurgeFails

Spec == Init /\ [][Next]_vars

-----------------------------------------------------------------------------
\* Messages are shared by everybody who sent the same text, sessions are not: whatever
\* merges, failures and purges happen, a session holds what its own key sent.
TenantsApart == \A i \in Live : session[i].from = {session[i].key}

\* When no worker is busy, no live session is the beginning of another of its group,
\* unless the merge of one of the two was lost and no later merge has seen it.
DuplicatesHeal ==
    (\A w \in Writers : writer[w].pc = "idle") =>
        \A i, j \in Live \ debt :
            i # j /\ SameGroup(session[i], session[j]) => ~IsPrefix(session[i].msgs, session[j].msgs)

\* A merge loses nothing: each session alive before it is continued by one alive after
\* it, with all its messages and all its tools, although the merge may have waited for
\* locks while others rewrote the rows it had found.  The condition is needed.  A worker
\* merges the row it remembers inserting (session_dedup.go:332); when another merge has
\* rolled that row forward meanwhile, a copy of the first round inserted since becomes the
\* keeper and the longer row is deleted with what it holds.
MergesKeepContent ==
    [][\A w \in Writers :
          /\ Merge(w)
          /\ writer[w].id \in Live => session[writer[w].id] = writer[w].row
          => \A i \in Live : \E j \in Ids :
                /\ session'[j].status = "live" /\ session'[j].key = session[i].key
                /\ IsPrefix(session[i].msgs, session'[j].msgs)
                /\ session[i].tools \subseteq session'[j].tools]_vars

\* Every message and tool a live session names exists (CONTEXT.md:299: the purge spares
\* what other sessions share).
NoDangling == \A i \in Live : Names(session[i]) \subseteq {rowOf[x] : x \in Items}

\* The purge is safe against merges, deletions, clean-ups, failures and itself: a live
\* session names a missing message or tool only if a worker wrote, from its memory,
\* rows that a purge had taken or picked meanwhile.
DanglingOnlyFromOverlap == ~overlap => NoDangling

\* A session keeps its id while the conversation grows (CONTEXT.md:302: the id, the score
\* and the shares are stable from round to round): once a row's own merge is over, a
\* merge lets it go only into an older row.
EstablishedIdStays ==
    [][\A w \in Writers : Merge(w) =>
        \A i \in Live : (\A v \in Writers : writer[v].id # i) =>
            \E j \in 1..i : /\ session'[j].status = "live"
                            /\ IsPrefix(session[i].msgs, session'[j].msgs)]_vars
=============================================================================
