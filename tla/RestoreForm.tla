---------------------------- MODULE RestoreForm ----------------------------
(***************************************************************************)
(* Starting a restore from the dashboard: the form over one snapshot, the  *)
(* browser that lists the directories of the chosen client live through    *)
(* the server and its agent, the question before the request, and what is  *)
(* said of the answer. Lists, answers and the snapshot itself change while *)
(* the form is open. What the server and the agent make of a request is in *)
(* LeaseRequest and Executor.                                              *)
(***************************************************************************)
EXTENDS Naturals, FiniteSets

CONSTANTS
  Clients,
  MaxAsked,  \* bound: restores the operator confirms
  MaxSteps   \* bound: choices made, directories opened, and events from outside

None == "none"
Typed == "typed"
Dirs == {"/", "/data"}
Keys == Clients \X Dirs
NoTarget == [dir |-> None, on |-> Typed]

VARIABLES
  page,      \* number of the form that is mounted, or 0
  locked,    \* the client the form was opened for, or None: any can be chosen
  draft,     \* client, target with the client it was picked on, and the tunnel box
  dir,       \* the directory the browser stands in
  files,     \* cached listing of a directory: of which one it is, if there is one
  failed,    \* directories whose last listing failed
  listing,   \* listings under way: key and, once the agent answered, what came of it
  dialog,    \* the request the operator is asked to confirm, if any
  starting,  \* the request under way, if any
  started,   \* the request that is said to have started, if any
  late,      \* the draft was changed since the request that is under way was made
  posts,     \* requests at the server, and their answers
  confirmed, triggered, runs,  \* requests: confirmed, accepted by the server, got to the agent
  online, tunnels,    \* clients connected, and with tunnel credentials
  shown,     \* what the client list of the page says of both
  asked, steps

vars == <<page, locked, draft, dir, files, failed, listing, dialog, starting, started, late,
          posts, confirmed, triggered, runs, online, tunnels, shown, asked, steps>>

browser == <<dir, files, failed, listing>>
outside == <<online, tunnels, shown>>
sending == <<posts, confirmed, triggered, runs, asked>>

---------------------------------------------------------------------------
(* The draft *)

\* The client the form was opened for; else the one the snapshot is of, or any.
InitialClient == IF locked = {} THEN Clients ELSE locked

RestoreDraft(c) == [client |-> c, target |-> NoTarget, tunnel |-> TRUE]

RestoreRules(d) == d.client \in shown.online /\ d.target # NoTarget

\* The box is only sent where the client has a tunnel.
RestoreInput(d) == [id |-> asked + 1, by |-> page, client |-> d.client, target |-> d.target,
                    tunnel |-> d.tunnel /\ d.client \in shown.tunnels]

Step == steps < MaxSteps /\ steps' = steps + 1

\* A listing is asked for whenever the browser shows a directory, unless it is under way.
Ask(c, d) ==
  listing' = IF \E l \in listing : l.key = <<c, d>> THEN listing
             ELSE listing \cup {[key |-> <<c, d>>, got |-> "asked"]}

\* Any change describes another restore.
Change(d) ==
  /\ draft' = d
  /\ started' = {}
  /\ late' = (starting \cup dialog # {})

---------------------------------------------------------------------------
(* The page *)

\* The form is taken down. The question it asked stays open, and so does its request.
Unmounted == page' = 0 /\ starting' = {} /\ started' = {} /\ late' = FALSE

Open ==
  /\ page = 0 /\ Step /\ page' = steps'
  /\ locked' \in {{}} \cup {{c} : c \in Clients}
  /\ \E c \in (IF locked' = {} THEN Clients ELSE locked') :
       draft' = RestoreDraft(c) /\ Ask(c, "/")
  /\ dir' = "/"
  /\ starting' = {} /\ started' = {} /\ late' = FALSE
  /\ UNCHANGED <<files, failed, dialog, sending, outside>>

Leave ==
  /\ page # 0 /\ Unmounted
  /\ UNCHANGED <<locked, draft, browser, dialog, sending, outside, steps>>

\* The snapshots are read again: this one changed and starts the form over, or it is not
\* among them any more, or they cannot be read.
ReadSnapshots ==
  /\ page # 0 /\ Step
  /\ \/ \E c \in InitialClient :
          /\ Change(RestoreDraft(c)) /\ dir' = "/" /\ Ask(c, "/")
          /\ UNCHANGED <<page, starting>>
     \/ Unmounted /\ UNCHANGED <<draft, dir, listing>>
  /\ UNCHANGED <<locked, files, failed, dialog, sending, outside>>

\* Clients come and go, and get or lose their tunnel; the page is told later.
ClientsChange ==
  /\ Step
  /\ \E c \in Clients :
       \/ /\ online' = IF c \in online THEN online \ {c} ELSE online \cup {c}
          /\ UNCHANGED tunnels
       \/ /\ tunnels' = IF c \in tunnels THEN tunnels \ {c} ELSE tunnels \cup {c}
          /\ UNCHANGED online
  /\ UNCHANGED <<page, locked, draft, browser, dialog, starting, started, late, sending, shown>>

ClientsUpdate ==
  /\ shown # [online |-> online, tunnels |-> tunnels]
  /\ shown' = [online |-> online, tunnels |-> tunnels]
  /\ UNCHANGED <<page, locked, draft, browser, dialog, starting, started, late, sending,
                 online, tunnels, steps>>

---------------------------------------------------------------------------
(* Choosing. Of the fields only the target's and the box are locked while a request is    *)
(* under way: another client can be chosen, and a directory picked. The question is a     *)
(* dialog over the form.                                                                  *)

AtForm == page # 0 /\ dialog = {} /\ Step

\* Mutant: the target picked on one client stays for the next.
KeepTarget(c) ==
  /\ AtForm /\ locked = {} /\ c \in shown.online
  /\ Change([draft EXCEPT !.client = c])
  /\ dir' = "/" /\ Ask(c, "/")
  /\ UNCHANGED <<page, locked, files, failed, dialog, starting, sending, outside>>

\* Another machine: its directories are not the ones on screen.
SelectClient(c) ==
  /\ AtForm /\ locked = {} /\ c \in shown.online
  /\ Change([draft EXCEPT !.client = c, !.target = NoTarget])
  /\ dir' = "/" /\ Ask(c, "/")
  /\ UNCHANGED <<page, locked, files, failed, dialog, starting, sending, outside>>

ToggleTunnel ==
  /\ AtForm /\ starting = {} /\ draft.client \in shown.tunnels
  /\ Change([draft EXCEPT !.tunnel = ~@])
  /\ UNCHANGED <<page, locked, browser, dialog, starting, sending, outside>>

TypeTarget ==
  /\ AtForm /\ starting = {}
  /\ Change([draft EXCEPT !.target = [dir |-> "/data", on |-> Typed]])
  /\ UNCHANGED <<page, locked, browser, dialog, starting, sending, outside>>

Browse(d) ==
  /\ AtForm /\ d # dir
  /\ dir' = d /\ Ask(draft.client, d)
  /\ UNCHANGED <<page, locked, draft, files, failed, dialog, starting, started, late, sending,
                 outside>>

\* The listing on screen is the one of the directory the browser stands in; one that
\* failed shows nothing.
FileList == IF <<draft.client, dir>> \in failed THEN {} ELSE files[<<draft.client, dir>>]

Pick ==
  /\ AtForm
  /\ \E f \in FileList : Change([draft EXCEPT !.target = [dir |-> f[2], on |-> f[1]]])
  /\ UNCHANGED <<page, locked, browser, dialog, starting, sending, outside>>

---------------------------------------------------------------------------
(* Listing a directory: the server hands the request to the agent, which reads the        *)
(* directory; either may fail.                                                            *)

ListDirectory(l) ==
  /\ l.got = "asked"
  /\ \E got \in {"files", "error"} :
       /\ got = "files" => l.key[1] \in online
       /\ listing' = (listing \ {l}) \cup {[l EXCEPT !.got = got]}
  /\ UNCHANGED <<page, locked, draft, dir, files, failed, dialog, starting, started, late,
                 sending, outside, steps>>

\* The answer is kept under the directory it was asked for, whatever is on screen.
AnswerList(l) ==
  /\ l.got # "asked"
  /\ listing' = listing \ {l}
  /\ IF l.got = "files"
     THEN files' = [files EXCEPT ![l.key] = {l.key}] /\ failed' = failed \ {l.key}
     ELSE failed' = failed \cup {l.key} /\ UNCHANGED files
  /\ UNCHANGED <<page, locked, draft, dir, dialog, starting, started, late, sending, outside, steps>>

---------------------------------------------------------------------------
(* Sending *)

\* The question names what is going to be sent, which is fixed from here on.
Submit ==
  /\ page # 0 /\ dialog = {} /\ starting = {} /\ started = {}
  /\ RestoreRules(draft) /\ asked < MaxAsked
  /\ asked' = asked + 1
  /\ dialog' = {RestoreInput(draft)}
  /\ late' = FALSE
  /\ UNCHANGED <<page, locked, draft, browser, starting, started, posts, confirmed, triggered,
                 runs, outside, steps>>

\* The answer to the question: also when the form that asked it was taken down meanwhile.
Confirm(yes) ==
  /\ dialog # {} /\ dialog' = {}
  /\ IF yes
     THEN /\ confirmed' = confirmed \cup dialog
          /\ posts' = posts \cup {[request |-> r, at |-> "asked"] : r \in dialog}
          /\ starting' = starting \cup {r \in dialog : r.by = page}
     ELSE UNCHANGED <<confirmed, posts, starting>>
  /\ UNCHANGED <<page, locked, draft, browser, started, late, triggered, runs, asked, outside,
                 steps>>

\* triggerRestore: a client that is away, or a tunnel it has no credentials for, is refused.
\* What is handed to the agent may not get there.
Serve(p) ==
  /\ p.at = "asked"
  /\ LET c == p.request.client
         ok == c \in online /\ (p.request.tunnel => c \in tunnels)
     IN  /\ posts' = (posts \ {p}) \cup {[p EXCEPT !.at = IF ok THEN "ok" ELSE "refused"]}
         /\ triggered' = IF ok THEN triggered \cup {p.request} ELSE triggered
         /\ runs' \in {runs, IF ok THEN runs \cup {p.request} ELSE runs}
  /\ UNCHANGED <<page, locked, draft, browser, dialog, starting, started, late, confirmed, asked,
                 outside, steps>>

\* The answer arrives, or is lost and counts as a failure.
Answered(p, ok) ==
  /\ p.at # "asked" /\ (ok => p.at = "ok")
  /\ posts' = posts \ {p}
  /\ IF p.request \in starting
     THEN /\ starting' = {}
          /\ started' = IF ok THEN {p.request} ELSE started
     ELSE UNCHANGED <<starting, started>>
  /\ UNCHANGED <<page, locked, draft, browser, dialog, late, confirmed, triggered, runs, asked,
                 outside, steps>>

---------------------------------------------------------------------------
Init ==
  /\ page = 0 /\ locked = {} /\ draft = RestoreDraft(CHOOSE c \in Clients : TRUE)
  /\ dir = "/" /\ files = [k \in Keys |-> {}] /\ failed = {} /\ listing = {}
  /\ dialog = {} /\ starting = {} /\ started = {} /\ late = FALSE
  /\ posts = {} /\ confirmed = {} /\ triggered = {} /\ runs = {} /\ asked = 0
  /\ online = Clients /\ tunnels = Clients
  /\ shown = [online |-> Clients, tunnels |-> Clients]
  /\ steps = 0

Next ==
  \/ Open \/ Leave \/ ReadSnapshots
  \/ ClientsChange \/ ClientsUpdate
  \/ \E c \in Clients : SelectClient(c)
  \/ ToggleTunnel \/ TypeTarget \/ Pick
  \/ \E d \in Dirs : Browse(d)
  \/ \E l \in listing : ListDirectory(l) \/ AnswerList(l)
  \/ Submit
  \/ \E yes \in BOOLEAN : Confirm(yes)
  \/ \E p \in posts : Serve(p) \/ \E ok \in BOOLEAN : Answered(p, ok)

---------------------------------------------------------------------------
(* Properties *)

\* A restore runs as it was confirmed, and at most once; its target was typed, or picked
\* from the directories of the very client it goes to.
RunsAsConfirmed ==
  /\ runs \subseteq triggered /\ triggered \subseteq confirmed
  /\ \A r, s \in confirmed : r.id = s.id => r = s
  /\ \A r \in confirmed \cup {draft} : r.target.on \in {Typed, r.client}

\* The browser shows the directory it stands in, of the client the restore goes to.
ListsWhatItNames == FileList \subseteq {<<draft.client, dir>>}

\* What is said to have started was accepted, and is what the form still shows: unless the
\* form was changed while the request was under way, when "Change the selection to start
\* another" is said of a selection that has been changed already.
StartedIsShown ==
  \A r \in started : r \in triggered /\ (late \/ (r.client = draft.client /\ r.target = draft.target))

RestoreHolds == RunsAsConfirmed /\ ListsWhatItNames /\ StartedIsShown
=============================================================================
