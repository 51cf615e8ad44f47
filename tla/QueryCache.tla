----------------------------- MODULE QueryCache -----------------------------
(***************************************************************************)
(* One list of the dashboard: the entry of the query cache that holds it   *)
(* (frontend: queries/, lib/queryClient), the messages that keep it        *)
(* current (WebSocketProvider) and this tab's own changes.                 *)
(*                                                                         *)
(* A list is the set of the server's changes that it shows.  A list of     *)
(* rows of many clients is told of row by row.  What an entry does with    *)
(* reads, marks and patches is TanStack Query's.                           *)
(***************************************************************************)
EXTENDS Naturals, Sequences

CONSTANTS
  MaxChanges, \* bound: changes of the list at the server
  MaxFaults   \* bound: failed reads, refused or unanswered requests, lost sockets

VARIABLES
  list,    \* which one
  now,     \* how often it changed
  data,    \* <<>> or <<what the entry holds>>
  marked,  \* whether the entry counts as stale whatever its age
  reading, \* <<>>, or the read under way: <<Sent>> or <<what it was answered>>
  shown,   \* whether a page shows the list
  sock,    \* "new", "open" or "down"
  pushes,  \* messages on the socket
  call,    \* <<>> or <<this tab's change under way>>
  overlooked, \* changes that may be missing, for one of the reasons given below
  faults

cacheVars == <<list, now, data, marked, reading, shown, sock, pushes, call, overlooked, faults>>

Own == 0      \* a change shown before the server made it
Sent == {Own}
Seen(n) == 1..n

\* How the server tells of a change: the list as it is now, the row that
\* changed, that something did, or not at all.
Ways == [l \in {"clients", "jobs", "client jobs", "client history", "pages", "snapshots",
                "repositories", "users", "webhooks", "schedulers"} |->
  CASE l = "clients" -> {"list", "row"}
    [] l = "jobs" -> {"row"}
    [] l = "client jobs" -> {"list", "row"}
    [] l = "client history" -> {"row", "untold"}
    [] l \in {"pages", "snapshots"} -> {"mark", "untold"}
    [] l \in {"repositories", "users"} -> {"untold"}
    [] l = "webhooks" -> {"mark"}
    [] l = "schedulers" -> {"list"}]

\* What this tab does once the server took a change of its own; the change of
\* a client is shown before.
Ops == [l \in DOMAIN Ways |->
  CASE l = "clients" -> {"optimistic", "read again"}
    [] l \in {"jobs", "client jobs", "repositories"} -> {"read again", "patch"}
    [] l \in {"users", "webhooks", "schedulers", "pages", "snapshots"} -> {"read again"}
    [] OTHER -> {}]

NeverOld == {"clients", "jobs", "schedulers"}
AlwaysOld == {"pages"}
PushedOnConnect == list = "clients"
\* A refused read of these is an empty list.
EmptyIfRefused == {"client jobs", "client history"}

Init ==
  /\ list \in DOMAIN Ways
  /\ now = 0 /\ data = <<>> /\ marked = FALSE /\ reading = <<>> /\ shown = FALSE
  /\ sock = "new" /\ pushes = <<>> /\ call = <<>> /\ overlooked = {} /\ faults = 0

Faulty == faults < MaxFaults /\ faults' = faults + 1

-----------------------------------------------------------------------------
(***************************************************************************)
(* The entry.  Writing to it, by hand or by a read, takes the mark off.    *)
(***************************************************************************)
Overlooks(changes) == overlooked' = overlooked \cup changes

\* Marks the entry; on a page it is read at once, over a read under way only
\* if that is to be given up.  A read that goes on takes the mark off again,
\* whatever it was marked for.
Invalidate(restarts, changes) ==
  /\ marked' = (marked \/ data # <<>>)
  /\ IF shown /\ (restarts \/ reading = <<>>)
     THEN reading' = <<Sent>> /\ UNCHANGED overlooked
     ELSE UNCHANGED reading /\ Overlooks(IF reading = <<>> THEN {} ELSE changes)
  /\ UNCHANGED data

\* The list as told; the answer of a read under way goes over it.
Replace(changes) ==
  /\ data' = <<changes>> /\ marked' = FALSE
  /\ Overlooks(IF reading = <<>> THEN {} ELSE changes)
  /\ UNCHANGED reading

\* A change of a row.  An entry that was marked is not, although nothing else
\* of it was read.
Patch(changes) ==
  IF data = <<>>
  THEN Overlooks(IF reading = <<>> THEN {} ELSE changes) /\ UNCHANGED <<data, marked, reading>>
  ELSE /\ data' = <<data[1] \cup changes>> /\ marked' = FALSE
       /\ Overlooks((IF reading = <<>> THEN {} ELSE changes)
                    \cup (IF marked /\ reading = <<>> THEN Seen(now) ELSE {}))
       /\ UNCHANGED reading

\* A page opens: by age, an entry may or may not be read again.
Mount(old) ==
  /\ ~shown /\ shown' = TRUE
  /\ (list \in NeverOld => ~old) /\ (list \in AlwaysOld => old)
  /\ reading' = IF reading = <<>> /\ (data = <<>> \/ marked \/ old) THEN <<Sent>> ELSE reading
  /\ UNCHANGED <<list, now, data, marked, sock, pushes, call, overlooked, faults>>

Unmount ==
  /\ shown /\ shown' = FALSE
  /\ UNCHANGED <<list, now, data, marked, reading, sock, pushes, call, overlooked, faults>>

\* An entry nothing shows is dropped after a while.
Forget ==
  /\ ~shown /\ reading = <<>> /\ data # <<>>
  /\ data' = <<>> /\ marked' = FALSE
  /\ UNCHANGED <<list, now, reading, shown, sock, pushes, call, overlooked, faults>>

Answer ==
  /\ reading = <<Sent>> /\ reading' = <<Seen(now)>>
  /\ UNCHANGED <<list, now, data, marked, shown, sock, pushes, call, overlooked, faults>>

Arrive ==
  /\ reading \notin {<<>>, <<Sent>>}
  /\ data' = reading /\ marked' = FALSE /\ reading' = <<>>
  /\ overlooked' = overlooked \ reading[1]
  /\ UNCHANGED <<list, now, shown, sock, pushes, call, faults>>

\* The list stays on screen as it was, with the reason, or is taken for empty.
FailRead ==
  /\ reading # <<>> /\ reading' = <<>> /\ Faulty
  /\ IF list \in EmptyIfRefused THEN data' = <<{}>> /\ marked' = FALSE
     ELSE UNCHANGED <<data, marked>>
  /\ Overlooks(Seen(now))
  /\ UNCHANGED <<list, now, shown, sock, pushes, call>>

-----------------------------------------------------------------------------
(***************************************************************************)
(* The server, and its messages.                                           *)
(***************************************************************************)
Message(way, n) == [way |-> way, of |-> IF way = "list" THEN Seen(n) ELSE {n}]

Tell(way) == pushes' = IF way # "untold" /\ sock = "open" THEN Append(pushes, Message(way, now + 1))
                       ELSE pushes

\* Nobody tells of it, or nobody can: before the first connection, a list was
\* read at most, and it is not read again because of that connection.
Untellable(way) == way = "untold" \/ (sock = "new" /\ ~PushedOnConnect)

Change(way) ==
  /\ now < MaxChanges /\ way \in Ways[list]
  /\ now' = now + 1 /\ Tell(way)
  /\ Overlooks(IF Untellable(way) THEN {now + 1} ELSE {})
  /\ UNCHANGED <<list, data, marked, reading, shown, sock, call, faults>>

Receive ==
  /\ pushes # <<>> /\ pushes' = Tail(pushes)
  /\ LET message == Head(pushes)
     IN \/ message.way = "list" /\ (PushedOnConnect \/ data # <<>>) /\ Replace(message.of)
        \/ message.way = "list" /\ ~PushedOnConnect /\ data = <<>> /\ Patch(message.of)
        \/ message.way = "row" /\ Patch(message.of)
        \/ message.way = "mark" /\ Invalidate(list = "webhooks", message.of)
  /\ UNCHANGED <<list, now, shown, sock, call, faults>>

Drop ==
  /\ sock = "open" /\ sock' = "down" /\ pushes' = <<>> /\ Faulty
  /\ UNCHANGED <<list, now, data, marked, reading, shown, call, overlooked>>

\* Mutant: what was missed is not read again.
ReconnectOnly ==
  /\ sock # "open" /\ sock' = "open"
  /\ pushes' = IF PushedOnConnect THEN <<Message("list", now)>> ELSE <<>>
  /\ UNCHANGED <<list, now, data, marked, reading, overlooked, shown, call, faults>>
\* What was pushed while the socket was down is lost: everything is read again
\* but the list that is sent on every connection.
Connect ==
  /\ sock # "open" /\ sock' = "open"
  /\ pushes' = IF PushedOnConnect THEN <<Message("list", now)>> ELSE <<>>
  /\ IF sock = "down" /\ ~PushedOnConnect THEN Invalidate(TRUE, Seen(now))
     ELSE UNCHANGED <<data, marked, reading, overlooked>>
  /\ UNCHANGED <<list, now, shown, call, faults>>

-----------------------------------------------------------------------------
(***************************************************************************)
(* This tab's own changes, one at a time.                                  *)
(***************************************************************************)
Before(op) == IF op = "optimistic" THEN data[1] ELSE {}

\* Shown at once, it is not to be overwritten by a read of what was before.
Request(op) ==
  /\ call = <<>> /\ op \in Ops[list] /\ (op = "optimistic" => data # <<>>)
  /\ call' = <<[op |-> op, before |-> Before(op), answer |-> "none", of |-> Own]>>
  /\ IF op = "optimistic"
     THEN data' = <<data[1] \cup {Own}>> /\ reading' = <<>> /\ marked' = FALSE
     ELSE UNCHANGED <<data, reading, marked>>
  /\ UNCHANGED <<list, now, shown, sock, pushes, overlooked, faults>>

Pending == call # <<>> /\ call[1].answer = "none"

Accept(way) ==
  /\ Pending /\ now < MaxChanges /\ way \in Ways[list] \ {"row"}
  /\ now' = now + 1 /\ Tell(way)
  /\ \/ /\ call' = <<[call[1] EXCEPT !.answer = "taken", !.of = now + 1]>>
        /\ UNCHANGED <<overlooked, faults>>
     \/ /\ call' = <<[call[1] EXCEPT !.answer = "failed"]>> \* the answer is lost
        /\ Overlooks(IF Untellable(way) THEN {now + 1} ELSE {}) /\ Faulty
  /\ UNCHANGED <<list, data, marked, reading, shown, sock>>

Refuse ==
  /\ Pending /\ Faulty
  /\ call' = <<[call[1] EXCEPT !.answer = "failed"]>>
  /\ UNCHANGED <<list, now, data, marked, reading, shown, sock, pushes, overlooked>>

\* Refused, the list is put back as it was before the change, whatever was
\* told of it since.
PutBack ==
  /\ data' = <<call[1].before>> /\ marked' = FALSE
  /\ Overlooks(IF data = <<>> THEN Seen(now) ELSE data[1] \ (call[1].before \cup {Own}))
  /\ UNCHANGED reading

\* What is shown has become the server's.
Confirm == data' = IF data # <<>> /\ Own \in data[1] THEN <<(data[1] \ {Own}) \cup {call[1].of}>> ELSE data

Settle ==
  /\ call # <<>> /\ call[1].answer # "none" /\ call' = <<>>
  /\ LET op == call[1].op
         taken == call[1].answer = "taken"
     IN \/ op = "optimistic" /\ taken /\ Confirm /\ UNCHANGED <<marked, reading, overlooked>>
        \/ op = "optimistic" /\ ~taken /\ PutBack
        \/ op = "read again" /\ taken /\ Invalidate(TRUE, {call[1].of})
        \/ op = "patch" /\ taken /\ Patch({call[1].of})
        \/ op # "optimistic" /\ ~taken /\ UNCHANGED <<data, marked, reading, overlooked>>
  /\ UNCHANGED <<list, now, shown, sock, pushes, faults>>

Next ==
  \/ \E old \in BOOLEAN : Mount(old)
  \/ Unmount \/ Forget \/ Answer \/ Arrive \/ FailRead
  \/ \E way \in Ways[list] : Change(way) \/ Accept(way)
  \/ Receive \/ Drop \/ Connect
  \/ \E op \in Ops[list] : Request(op)
  \/ Refuse \/ Settle

-----------------------------------------------------------------------------
Quiet == shown /\ sock = "open" /\ pushes = <<>> /\ reading = <<>> /\ call = <<>>

\* Once nothing is under way, a page shows every change of the server's list,
\* this tab's own and those of others, and nothing else, whatever was lost,
\* refused or read out of order.  Only these changes may be missing: one nobody
\* tells of, or told before the first connection; one told while an older
\* answer was under way; one a refused change put an older list over; one lost
\* with the socket whose mark a row took off; and what a failed read would
\* have brought.
ShowsEveryChange ==
  Quiet /\ data # <<>> => /\ Seen(now) \subseteq data[1] \cup overlooked
                          /\ data[1] \subseteq Seen(now)
=============================================================================
