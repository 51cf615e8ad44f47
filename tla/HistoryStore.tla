---------------------------- MODULE HistoryStore ----------------------------
(***************************************************************************)
(* The agent's run history (client/src/repositories/JobHistoryRepository), *)
(* as operators on its value: a function from the ids of the runs it holds *)
(* to their rows.  One file per run on disk and the index in memory hold   *)
(* the same rows -- `write` stores the file before it touches the index -- *)
(* so one value stands for both.                                           *)
(*                                                                         *)
(* A row keeps what sync, pruning and a restart read: the status, the      *)
(* revision, the revision last acknowledged, the two timestamps rows are   *)
(* sorted by, and whether the snapshot the run creates is recorded.  The   *)
(* output and the exit code are data these modules never compare.          *)
(***************************************************************************)
EXTENDS RunStatus, Naturals, FiniteSets

CONSTANTS
    Runs,         \* run ids
    HistoryKeep,  \* HISTORY_KEEP: acknowledged runs the agent keeps
    MaxUnsynced   \* MAX_UNSYNCED: unacknowledged finished runs it holds at most

ASSUME StoreAssumption ==
    /\ HistoryKeep \in Nat
    /\ MaxUnsynced \in Nat \ {0}

Null == 0   \* `null` for a revision: real ones start at 1

Row == [status : Status, rev : Nat \ {0}, synced : Nat,
        created : Nat, started : Nat, snapshot : BOOLEAN]

IsPerRun(f, S) == DOMAIN f \subseteq Runs /\ f \in [DOMAIN f -> S]

IsHistory(h) == IsPerRun(h, Row)

IsActive(row) == row.status \in Active
IsUnsynced(row) == row.synced < row.rev

-----------------------------------------------------------------------------
\* What pruning leaves: rows still needed locally or by the server ...
Newest(h) == {r \in DOMAIN h :
    Cardinality({s \in DOMAIN h : h[s].started > h[r].started}) < HistoryKeep}

Needed(h) == {r \in DOMAIN h :
    r \in Newest(h) \/ IsUnsynced(h[r]) \/ IsActive(h[r])}

\* ... less the oldest finished ones the server never acknowledged.
Waiting(h) == {r \in DOMAIN h : IsUnsynced(h[r]) /\ ~IsActive(h[r])}

\* Mutant: the youngest are dropped.
OverflowYoungest(h) == {r \in Waiting(h) :
    Cardinality({s \in Waiting(h) : h[s].created < h[r].created}) >= MaxUnsynced}

Overflow(h) == {r \in Waiting(h) :
    Cardinality({s \in Waiting(h) : h[s].created > h[r].created}) >= MaxUnsynced}

Prune(h) == [r \in Needed(h) \ Overflow(h) |-> h[r]]

-----------------------------------------------------------------------------
Put(h, r, row) == [s \in DOMAIN h \cup {r} |-> IF s = r THEN row ELSE h[s]]

\* `insert`: a new row always starts at revision 1, unacknowledged.
Insert(h, r, status, t) ==
    Prune(Put(h, r, [status |-> status, rev |-> 1, synced |-> Null,
                     created |-> t, started |-> t, snapshot |-> FALSE]))

\* `update` as the operations of a run use it: every one of them changes a
\* field the server stores, so the revision goes up.  No row, no effect.
Revised(row, status, started) ==
    [row EXCEPT !.status = status, !.started = started, !.rev = row.rev + 1]

Update(h, r, status, started) ==
    IF r \in DOMAIN h THEN [h EXCEPT ![r] = Revised(h[r], status, started)] ELSE h

\* `finishJob`, `failJob`, `settleInterruptedBackup`: the start stays.
SetStatus(h, r, status) ==
    IF r \in DOMAIN h THEN Update(h, r, status, h[r].started) ELSE h

\* `setSnapshot`: which snapshot the run creates.
Named(row) == [row EXCEPT !.snapshot = TRUE, !.rev = row.rev + 1]

SetSnapshot(h, r) == IF r \in DOMAIN h THEN [h EXCEPT ![r] = Named(h[r])] ELSE h

\* `findInterruptedBackups`: what a restart can look up on the PBS.
Interrupted(h) == {r \in DOMAIN h : h[r].status = "running" /\ h[r].snapshot}

\* `startRunningJob`: the queued row becomes running, or a first row is written.
StartRunning(h, r, t) ==
    IF r \in DOMAIN h THEN Update(h, r, "running", t)
                      ELSE Insert(h, r, "running", t)

\* Mutant: only a run without a row gets one.
RecordFailedIfNew(h, r, t) ==
    IF r \in DOMAIN h THEN h ELSE Insert(h, r, "failed", t)

\* `recordFailedRun`: the row is closed, or a first one is written.
RecordFailed(h, r, t) ==
    IF r \in DOMAIN h THEN SetStatus(h, r, "failed")
                      ELSE Insert(h, r, "failed", t)

-----------------------------------------------------------------------------
\* `findUnsynced(limit)`: the oldest rows whose revision is not acknowledged.
Due(h) == {r \in DOMAIN h : IsUnsynced(h[r])}

OldestDue(h, limit) == {r \in Due(h) :
    Cardinality({s \in Due(h) : h[s].created < h[r].created}) < limit}

\* The rows an acknowledgement moves forward, and `markSynced`, which records
\* it for those of them (`stored`) whose file could be written.
Moved(h, acked) == {r \in DOMAIN h \cap DOMAIN acked : h[r].synced < acked[r]}

\* Mutant: the row's current revision is taken for the acknowledged one.
MarkCurrentSynced(h, acked, stored) ==
    IF stored = {} THEN h
    ELSE Prune([r \in DOMAIN h |->
                   IF r \in stored THEN [h[r] EXCEPT !.synced = h[r].rev] ELSE h[r]])

MarkSynced(h, acked, stored) ==
    IF stored = {} THEN h
    ELSE Prune([r \in DOMAIN h |->
                   IF r \in stored THEN [h[r] EXCEPT !.synced = acked[r]]
                                   ELSE h[r]])
=============================================================================
