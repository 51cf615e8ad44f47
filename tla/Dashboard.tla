----------------------------- MODULE Dashboard -----------------------------
(***************************************************************************)
(* What an open dashboard shows of one job of one agent, and how it learns *)
(* of it: the first answer over HTTP, the updates the server pushes over a *)
(* WebSocket, the re-read after a lost socket, and the marks by which a    *)
(* user says a failure is seen.                                            *)
(*                                                                         *)
(* The agent's runs are numbered in the order of their start.  `agent' is  *)
(* the agent's own history, `row' the server's; a live update stores the   *)
(* end of a run and is pushed, the history sync stores a row and pushes    *)
(* nothing.  A tab caches two entries, the newest run of the job and the   *)
(* number of runs its user has yet to mark as seen.  Neither depends on    *)
(* the other, so a behaviour follows one of them, `shown'.                 *)
(*                                                                         *)
(* `told', `gap' and the gaps of answers and pushes are not state of the   *)
(* program.  They record why the entry may have missed a change: "down"    *)
(* while the socket was down, "lost" in one of the ways the code does not  *)
(* make up for.                                                            *)
(***************************************************************************)
EXTENDS Integers, Sequences, FiniteSets

CONSTANTS
  MaxRuns,     \* runs of the job
  MaxOutages,  \* times the agent loses the server
  MaxDrops,    \* times the tab loses its socket
  MaxMarks,    \* marks as seen
  MaxTroubles, \* all of these together
  MaxPushes    \* pushes on their way to the tab

Runs     == 1..MaxRuns
ToBeSeen == {"failed", "missed"}
Final    == ToBeSeen \cup {"success"}
Statuses == Final \cup {"none", "running"}

VARIABLES
  shown,     \* the entry followed: "latest" or "unseen"
  agent,     \* run -> its status on the agent
  online,    \* the agent is connected to the server
  row,       \* run -> its status in job_history, "none" without a row
  below,     \* the runs that ended before the user's mark
  marked,    \* the runs above it the user marked one by one
  socket,    \* the tab's socket: "none", "opening" or "open"
  pushes,    \* what the server sent on it and the tab has not handled
  connected, \* hasConnected
  entry,     \* <<>> or <<what the cache holds>>
  fetch,     \* the request for it that is under way
  answer,    \* the answer to a mark of this tab that is under way
  reported,  \* the runs whose end the tab has reacted to
  asked,     \* the tab waits for the result of a run it started
  toasts,    \* the results shown, each as <<run, status>>
  told, gap, \* see above
  outages, drops, marks

server == <<shown, agent, online, row, below, marked>>
tab    == <<entry, fetch, answer, reported, asked, toasts>>
counts == <<outages, drops, marks>>
MayHappen == outages + drops + marks < MaxTroubles
vars   == <<server, socket, pushes, connected, tab, told, gap, counts>>

-----------------------------------------------------------------------------
(* What the server answers.                                                *)

Stored == {r \in Runs : row[r] # "none"}

LatestPerJob ==
  IF Stored = {} THEN [run |-> 0, status |-> "none"]
  ELSE LET r == CHOOSE r \in Stored : \A s \in Stored : s <= r
       IN  [run |-> r, status |-> row[r]]

\* The failed and missed runs above the mark that were not marked one by one.
CountUnseen(mark, single) == Cardinality({r \in Runs \ (mark \cup single) : row[r] \in ToBeSeen})

Current == IF shown = "latest" THEN LatestPerJob ELSE CountUnseen(below, marked)

-----------------------------------------------------------------------------
(* The entry in the tab's cache.  A read that is asked for while another   *)
(* is under way starts over only where the cache holds data and the caller *)
(* wants it to; an answer under way overwrites whatever came before it.    *)

Idle   == [at |-> "idle", value |-> <<>>, gap |-> "none"]
Asking == [Idle EXCEPT !.at = "asked"]

Worse(a, b) == IF "lost" \in {a, b} THEN "lost" ELSE IF a = "none" THEN b ELSE a
Late(message, why) == [message EXCEPT !.gap = Worse(@, why)]
LateIfAnswered(request, why) == IF request.at = "answered" THEN Late(request, why) ELSE request

Read(cancel) ==
  IF fetch.at = "idle" \/ (cancel /\ entry # <<>>) THEN Asking ELSE LateIfAnswered(fetch, "lost")

\* An answer that was computed before a change overwrites it when it arrives.
Overtaken(request, changed) == IF changed THEN LateIfAnswered(request, "lost") ELSE request

\* The tab misses a change: its entry, and what is on its way to it.
Miss(why) ==
  /\ gap' = Worse(gap, why)
  /\ fetch' = LateIfAnswered(fetch, why)
  /\ answer' = LateIfAnswered(answer, why)

\* A tab without a socket is not told: before its first connection for good,
\* later until it reads again.
WhileDown == IF socket # "none" THEN "none" ELSE IF connected THEN "down" ELSE "lost"

\* An update of the run shown, or of a later one; an earlier run's is ignored.
ApplyRunToLatest(latest, r, s) ==
  IF latest = <<>> \/ r < latest[1].run THEN latest ELSE <<[run |-> r, status |-> s]>>

-----------------------------------------------------------------------------
(* The server's pushes, and the agent's runs.                              *)

Broadcast(message) ==
  /\ Len(pushes) < MaxPushes
  /\ pushes' = IF socket # "none" THEN Append(pushes, message) ELSE pushes

JobUpdate(r, s) == [type |-> "JOB_UPDATE", run |-> r, status |-> s, gap |-> "none"]
HistorySeen(n)  == [type |-> "HISTORY_SEEN", count |-> n, gap |-> "none"]

\* A status update of the agent: sent only while it is connected, stored only
\* where the run has ended, and passed on to the dashboards.
StatusUpdate(r, s) ==
  /\ agent' = [agent EXCEPT ![r] = s]
  /\ IF online
     THEN /\ row' = IF s \in Final THEN [row EXCEPT ![r] = s] ELSE row
          /\ told' = [told EXCEPT ![r] = s]
          /\ Broadcast(JobUpdate(r, s)) /\ Miss(WhileDown)
     ELSE UNCHANGED <<row, told, pushes, gap, fetch, answer>>
  /\ UNCHANGED <<shown, online, below, marked, socket, connected, entry, reported, toasts, counts>>

NextRun == Cardinality({r \in Runs : agent[r] # "none"}) + 1
Busy    == \E r \in Runs : agent[r] = "running"

\* A run starts, by its schedule or because the user of this tab asked for it.
StartRun ==
  /\ NextRun <= MaxRuns /\ ~Busy
  /\ StatusUpdate(NextRun, "running")
  /\ asked' \in {asked, asked \/ online}

MissRun ==
  /\ NextRun <= MaxRuns /\ ~Busy
  /\ StatusUpdate(NextRun, "missed")
  /\ UNCHANGED asked

EndRun(r) ==
  /\ agent[r] = "running"
  /\ \E s \in {"success", "failed"} : StatusUpdate(r, s)
  /\ UNCHANGED asked

\* The post-script of a run that succeeded fails, after the end was sent.
Downgrade(r) ==
  /\ agent[r] = "success"
  /\ StatusUpdate(r, "failed")
  /\ UNCHANGED asked

\* A row of the agent's history reaches the server by the sync: no dashboard
\* hears of it.  The tab has missed nothing where it was told this status.
SyncHistory(r) ==
  LET why == IF told[r] = agent[r] THEN "none" ELSE "lost"
  IN  /\ online /\ row[r] # agent[r]
      /\ row' = [row EXCEPT ![r] = agent[r]]
      /\ Miss(why)
      /\ pushes' = [i \in DOMAIN pushes |-> Late(pushes[i], why)]
      /\ UNCHANGED <<shown, agent, online, below, marked, socket, connected,
                     entry, reported, asked, toasts, told, counts>>

Outage ==
  /\ online' = ~online
  /\ online => outages < MaxOutages /\ MayHappen
  /\ outages' = IF online THEN outages + 1 ELSE outages
  /\ UNCHANGED <<shown, agent, row, below, marked, socket, pushes, connected, tab, told, gap, drops, marks>>

-----------------------------------------------------------------------------
(* The tab's socket.                                                       *)

Connect ==
  /\ socket = "none"
  /\ socket' = "opening"
  /\ UNCHANGED <<server, pushes, connected, tab, told, gap, counts>>

\* Mutant: everything is taken for current once the socket is back.
ReadOnOpenNothing == fetch

\* What was pushed while the socket was down is lost: the entry is read again,
\* but only from the second connection on.
ReadOnOpen == IF connected THEN Read(TRUE) ELSE fetch

OnOpen ==
  /\ socket = "opening"
  /\ socket' = "open"
  /\ fetch' = ReadOnOpen
  /\ connected' = TRUE
  /\ answer' = Overtaken(answer, answer.gap # "none")
  /\ UNCHANGED <<server, pushes, entry, reported, asked, toasts, told, gap, counts>>

Drop ==
  /\ socket # "none" /\ drops < MaxDrops /\ MayHappen
  /\ socket' = "none"
  /\ pushes' = <<>>
  /\ drops' = drops + 1
  /\ Miss(IF pushes = <<>> THEN "none" ELSE IF connected THEN "down" ELSE "lost")
  /\ UNCHANGED <<server, connected, entry, reported, asked, toasts, told, outages, marks>>

-----------------------------------------------------------------------------
(* What the tab makes of a push.                                           *)

Push == Head(pushes)

RefreshUnseen == Read(FALSE)

\* The cached newest run takes the update; an answer under way does not.
TakeIntoLatest(r, s) ==
  /\ entry' = ApplyRunToLatest(entry, r, s)
  /\ fetch' = Overtaken(fetch, ApplyRunToLatest(fetch.value, r, s) # fetch.value)
  /\ gap' = Worse(gap, Push.gap)
  /\ UNCHANGED answer

\* The count is read again for the first end of a run that went wrong.
CountAgain(ended, wrong) ==
  /\ fetch' = IF ended /\ wrong THEN RefreshUnseen ELSE Overtaken(fetch, wrong)
  /\ gap' = IF wrong /\ ~ended THEN "lost" ELSE gap
  /\ answer' = Overtaken(answer, wrong)
  /\ UNCHANGED entry

Note(r) == reported \cup {r}

\* The first end of a run is reacted to: with a toast where something went wrong
\* and for the result of a run this tab asked for.
OnJobUpdate ==
  LET r == Push.run
      s == Push.status
      ended == s \in Final /\ r \notin reported
      wrong == s \in ToBeSeen
      mine  == ended /\ s # "missed" /\ asked
  IN  /\ socket = "open" /\ pushes # <<>> /\ Push.type = "JOB_UPDATE"
      /\ pushes' = Tail(pushes)
      /\ IF shown = "latest" THEN TakeIntoLatest(r, s) ELSE CountAgain(ended, wrong)
      /\ reported' = IF ended THEN Note(r) ELSE reported
      /\ asked' = (asked /\ ~mine)
      /\ toasts' = IF ended /\ (wrong \/ mine) THEN toasts \cup {<<r, s>>} ELSE toasts
      /\ UNCHANGED <<server, socket, connected, told, counts>>

OnHistorySeen ==
  /\ socket = "open" /\ pushes # <<>> /\ Push.type = "HISTORY_SEEN"
  /\ pushes' = Tail(pushes)
  /\ entry' = <<Push.count>>
  /\ fetch' = Overtaken(fetch, fetch.value # <<Push.count>>)
  /\ gap' = Worse(gap, Push.gap)
  /\ answer' = Overtaken(answer, answer.value # <<Push.count>>)
  /\ UNCHANGED <<server, socket, connected, reported, asked, toasts, told, counts>>

-----------------------------------------------------------------------------
(* Answers over HTTP, and the marks.                                       *)

\* The server answers a read: without the rows it does not have yet.
Reply ==
  /\ fetch.at = "asked"
  /\ fetch' = [at |-> "answered", value |-> <<Current>>, gap |-> IF row = agent THEN "none" ELSE "lost"]
  /\ UNCHANGED <<server, socket, pushes, connected, entry, answer, reported, asked, toasts, told, gap, counts>>

Arrive ==
  /\ fetch.at = "answered"
  /\ entry' = fetch.value /\ gap' = fetch.gap /\ fetch' = Idle
  /\ UNCHANGED <<server, socket, pushes, connected, answer, reported, asked, toasts, told, counts>>

\* A mark is stored, pushed to the dashboards and, if it was made in this tab,
\* answered with the new count.
Mark(mark, single, own) ==
  LET count == CountUnseen(mark, single)
  IN  /\ shown = "unseen" /\ marks < MaxMarks /\ MayHappen
      /\ own => answer.at = "idle"
      /\ marks' = marks + 1
      /\ below' = mark /\ marked' = single
      /\ Broadcast(HistorySeen(count))
      /\ gap' = Worse(gap, WhileDown)
      /\ fetch' = LateIfAnswered(fetch, WhileDown)
      /\ answer' = IF own THEN [at |-> "answered", value |-> <<count>>, gap |-> "none"]
                   ELSE LateIfAnswered(answer, WhileDown)
      /\ UNCHANGED <<shown, agent, online, row, socket, connected, entry, reported, asked, toasts,
                     told, outages, drops>>

\* Everything up to now: the runs that ended so far, whether the server has
\* them or not, since their end lies before the mark's time.
MarkAll(own) == Mark({r \in Runs : agent[r] \in Final}, {}, own)

MarkRun(r, own) == r \in Stored /\ Mark(below, marked \cup {r}, own)

\* The answer to a mark is the new state of the entry.
SeenChanged ==
  /\ answer.at = "answered"
  /\ entry' = answer.value
  /\ gap' = Worse(gap, answer.gap)
  /\ fetch' = Overtaken(fetch, fetch.value # answer.value)
  /\ answer' = Idle
  /\ UNCHANGED <<server, socket, pushes, connected, reported, asked, toasts, told, counts>>

-----------------------------------------------------------------------------
Init ==
  /\ shown \in {"latest", "unseen"}
  /\ agent = [r \in Runs |-> "none"] /\ row = agent /\ told = agent
  /\ online = TRUE
  /\ below = {} /\ marked = {}
  /\ socket = "none" /\ pushes = <<>> /\ connected = FALSE
  /\ entry = <<>> /\ fetch = Asking /\ answer = Idle /\ gap = "none"
  /\ reported = {} /\ asked = FALSE /\ toasts = {}
  /\ outages = 0 /\ drops = 0 /\ marks = 0

Next ==
  \/ StartRun \/ MissRun
  \/ \E r \in Runs : EndRun(r) \/ Downgrade(r) \/ SyncHistory(r)
  \/ Outage
  \/ Connect \/ OnOpen \/ Drop
  \/ OnJobUpdate \/ OnHistorySeen
  \/ Reply \/ Arrive
  \/ \E own \in BOOLEAN : MarkAll(own) \/ \E r \in Runs : MarkRun(r, own)
  \/ SeenChanged

Spec == Init /\ [][Next]_vars

-----------------------------------------------------------------------------
(* Properties.                                                             *)

Gaps     == {"none", "down", "lost"}
Values   == IF shown = "latest" THEN [run : 0..MaxRuns, status : Statuses] ELSE 0..MaxRuns
Cached   == {<<>>} \cup {<<v>> : v \in Values}
Requests == [at : {"idle", "asked", "answered"}, value : Cached, gap : Gaps]
Updates  == [type : {"JOB_UPDATE"}, run : Runs, status : Statuses, gap : Gaps]
              \cup [type : {"HISTORY_SEEN"}, count : Nat, gap : Gaps]

\* Type correctness, with what the tab's bookkeeping says of itself: there is a
\* value exactly where a request was answered, and nothing is pushed to a tab
\* without a socket.
TypeOK ==
  /\ shown \in {"latest", "unseen"}
  /\ {agent, row, told} \subseteq [Runs -> Statuses]
  /\ {online, connected, asked} \subseteq BOOLEAN
  /\ {below, marked, reported} \subseteq SUBSET Runs
  /\ socket \in {"none", "opening", "open"}
  /\ pushes \in Seq(Updates) /\ (socket = "none" => pushes = <<>>)
  /\ entry \in Cached /\ gap \in Gaps
  /\ {fetch, answer} \subseteq Requests
  /\ \A request \in {fetch, answer} : (request.at = "answered") = (request.value # <<>>)
  /\ toasts \subseteq Runs \X Final

\* Nothing is on its way to the tab, and the server has every run.
Quiet ==
  /\ socket = "open" /\ pushes = <<>> /\ row = agent
  /\ answer.at = "idle" /\ fetch.at = "idle"

\* A tab at rest shows what the server would answer, unless a change came by the
\* sync alone, before the first connection, as a second end of one run, or while an
\* older answer was under way.  What was pushed while the socket was down is not
\* among the excuses: the re-read of the reconnect (onopen, WebSocketProvider.tsx)
\* has to make up for it; nor is a late update of an earlier run, or any order of
\* failures, marks of this and another tab, their answers and the re-reads.
ShownAgrees == Quiet /\ gap # "lost" => entry = <<Current>>

\* A run raises at most one toast in a tab, whichever ends of it arrive.
ToldOnce == \A x, y \in toasts : x[1] = y[1] => x = y

\* A tab keeps its books, and tells no run twice.
TabHolds == TypeOK /\ ToldOnce

\* "A failure is always reported and stays until dismissed": where the tab has
\* reacted to the end of a run that failed, a toast shows the failure.
FailureIsShown == Quiet /\ drops = 0 =>
  \A r \in reported : told[r] = "failed" => <<r, "failed">> \in toasts

\* "The socket writes every change into them": a tab at rest that never lost its
\* socket shows what the server would answer.
ShowsEveryChange == Quiet /\ drops = 0 => entry = <<Current>>
=============================================================================
