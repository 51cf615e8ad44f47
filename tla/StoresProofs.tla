---------------------------- MODULE StoresProofs ----------------------------
(***************************************************************************)
(* Proofs about what is held in more than one place (MCStores), for any    *)
(* number of clients, choices, edits, saves and faults: a restore runs as  *)
(* it was confirmed, an editor keeps what is typed, a stored secret can be *)
(* read again, a list misses no change, an agent's jobs are what was saved *)
(* last, and the server's list of them follows.                            *)
(* The parts share no state, and each has its own inductive invariant.     *)
(***************************************************************************)
EXTENDS MCStores, FiniteSetTheorems, TLAPS

-----------------------------------------------------------------------------
(***************************************************************************)
(* Restores (RestoreForm).                                                 *)
(***************************************************************************)
Picks == Clients \cup {Restore!Typed}
Target == [dir : Restore!Dirs \cup {Restore!None}, on : Picks]
Drawn == [client : Clients, target : Target, tunnel : BOOLEAN]
Request == [id : Nat, by : Nat, client : Clients, target : Target, tunnel : BOOLEAN]

RestoreTyped ==
    /\ page \in Nat /\ steps \in Nat /\ asked \in Nat /\ page <= steps
    /\ locked \subseteq Clients /\ draft \in Drawn /\ dir \in Restore!Dirs /\ late \in BOOLEAN
    /\ files \in [Restore!Keys -> SUBSET Restore!Keys] /\ failed \subseteq Restore!Keys
    /\ listing \subseteq [key : Restore!Keys, got : {"asked", "files", "error"}]
    /\ dialog \subseteq Request /\ starting \subseteq Request /\ begun \subseteq Request
    /\ posts \subseteq [request : Request, at : {"asked", "ok", "refused"}]
    /\ confirmed \subseteq Request /\ triggered \subseteq Request /\ runs \subseteq Request

\* A target is typed, or was picked from the list of the client it goes to; a
\* cached list is that of the directory it is kept under.
PickedWhereSent ==
    /\ \A k \in Restore!Keys : files[k] \subseteq {k}
    /\ \A r \in confirmed \cup dialog \cup {draft} : r.target.on \in {Restore!Typed, r.client}

\* Requests are told apart, and none gets further than the one before it.
RequestsKept ==
    /\ runs \subseteq triggered /\ triggered \subseteq confirmed
    /\ \A r \in confirmed \cup dialog : r.id <= asked
    /\ \A r, s \in confirmed \cup dialog : r.id = s.id => r = s
    /\ \A p \in posts : p.request \in confirmed /\ (p.at = "ok" => p.request \in triggered)

\* What this page asked, asks or says is what is still drawn up, or late.
SameAsDraft(r) == late \/ (r.client = draft.client /\ r.target = draft.target)
PageAgrees ==
    /\ \A r \in dialog : r.by <= steps /\ r.by # 0 /\ (r.by = page => SameAsDraft(r))
    /\ \A r \in starting : SameAsDraft(r)
    /\ \A r \in begun : SameAsDraft(r) /\ r \in triggered

RestoreInv == RestoreTyped /\ PickedWhereSent /\ RequestsKept /\ PageAgrees

LEMMA InitRestore == Restore!Init => RestoreInv
<1> SUFFICES ASSUME Restore!Init PROVE RestoreInv
  OBVIOUS
<1>1. (CHOOSE c \in Clients : TRUE) \in Clients
  BY StoresAssumption
<1>2. draft \in Drawn /\ draft.target.on = Restore!Typed
  BY <1>1 DEF Restore!Init, Restore!RestoreDraft, Restore!NoTarget, Drawn, Target, Picks
<1>3. RestoreTyped
  <2>1. files \in [Restore!Keys -> SUBSET Restore!Keys]
    BY DEF Restore!Init
  <2>2. page \in Nat /\ steps \in Nat /\ asked \in Nat /\ page <= steps
    BY DEF Restore!Init
  <2>3. QED
    BY <1>2, <2>1, <2>2 DEF Restore!Init, RestoreTyped, Restore!Dirs
<1>4. PickedWhereSent
  BY <1>2 DEF Restore!Init, PickedWhereSent
<1>5. RequestsKept /\ PageAgrees
  BY DEF Restore!Init, RequestsKept, PageAgrees
<1>6. QED
  BY <1>3, <1>4, <1>5 DEF RestoreInv

\* A directory is asked for.
LEMMA AskTyped ==
    ASSUME RestoreTyped, NEW c \in Clients, NEW d \in Restore!Dirs, Restore!Ask(c, d)
    PROVE  listing' \subseteq [key : Restore!Keys, got : {"asked", "files", "error"}]
  BY DEF RestoreTyped, Restore!Ask, Restore!Keys

LEMMA DraftTyped ==
    ASSUME NEW c \in Clients
    PROVE  Restore!RestoreDraft(c) \in Drawn
           /\ Restore!RestoreDraft(c).client = c
           /\ Restore!RestoreDraft(c).target.on = Restore!Typed
  BY DEF Restore!RestoreDraft, Restore!NoTarget, Drawn, Target, Picks

\* A form is opened, or taken down, while a question of another may be open.
LEMMA OpenKeeps ==
    ASSUME RestoreInv, Restore!Open
    PROVE  RestoreInv'
<1>1. /\ page = 0 /\ steps' = steps + 1 /\ page' = steps' /\ locked' \subseteq Clients
      /\ dir' = "/" /\ starting' = {} /\ begun' = {} /\ late' = FALSE
      /\ UNCHANGED <<files, failed, dialog, posts, confirmed, triggered, runs, asked>>
  BY DEF Restore!Open, Restore!Step, Restore!sending
<1>2. PICK c \in Clients : draft' = Restore!RestoreDraft(c) /\ Restore!Ask(c, "/")
  BY <1>1 DEF Restore!Open
<1>3. draft' \in Drawn /\ draft'.target.on = Restore!Typed
  BY <1>2, DraftTyped
<1>4. listing' \subseteq [key : Restore!Keys, got : {"asked", "files", "error"}]
  BY <1>2, AskTyped DEF Restore!Dirs, RestoreInv
<1>5. RestoreTyped'
  <2>1. page' \in Nat /\ steps' \in Nat /\ page' <= steps'
    BY <1>1 DEF RestoreInv, RestoreTyped
  <2>2. QED
    BY <1>1, <1>3, <1>4, <2>1 DEF RestoreInv, RestoreTyped, Restore!Dirs
<1>6. PickedWhereSent'
  BY <1>1, <1>3 DEF RestoreInv, PickedWhereSent
<1>7. RequestsKept'
  BY <1>1 DEF RestoreInv, RequestsKept
<1>8. PageAgrees'
  <2>1. \A r \in dialog : r.by <= steps /\ r.by # 0 /\ r.by \in Nat /\ steps \in Nat
    BY DEF RestoreInv, RestoreTyped, PageAgrees, Request
  <2>2. \A r \in dialog' : r.by <= steps' /\ r.by # 0 /\ r.by # page'
    BY <1>1, <2>1
  <2>3. QED
    BY <1>1, <2>2 DEF PageAgrees
<1>9. QED
  BY <1>5, <1>6, <1>7, <1>8 DEF RestoreInv

LEMMA UnmountedKeeps ==
    ASSUME RestoreInv, Restore!Unmounted, steps' \in Nat, steps <= steps',
           UNCHANGED <<locked, draft, dir, files, failed, listing, dialog, posts, confirmed,
                       triggered, runs, asked>>
    PROVE  RestoreInv'
<1>1. page' = 0 /\ starting' = {} /\ begun' = {} /\ late' = FALSE
  BY DEF Restore!Unmounted
<1>2. RestoreTyped'
  <2>1. page' \in Nat /\ page' <= steps'
    BY <1>1
  <2>2. QED
    BY <1>1, <2>1 DEF RestoreInv, RestoreTyped
<1>3. PickedWhereSent'
  BY DEF RestoreInv, PickedWhereSent
<1>4. RequestsKept'
  BY DEF RestoreInv, RequestsKept
<1>5. PageAgrees'
  <2>1. \A r \in dialog : r.by <= steps' /\ r.by # 0
    <3>1. \A r \in dialog : r.by <= steps /\ r.by # 0 /\ r.by \in Nat /\ steps \in Nat
      BY DEF RestoreInv, RestoreTyped, PageAgrees, Request
    <3>2. QED
      BY <3>1
  <2>2. QED
    BY <1>1, <2>1 DEF PageAgrees
<1>6. QED
  BY <1>2, <1>3, <1>4, <1>5 DEF RestoreInv

\* The draft is changed, to what may be sent; what is asked or under way is late.
LEMMA ChangeKeeps ==
    ASSUME RestoreInv, NEW d \in Drawn, Restore!Change(d), d.target.on \in {Restore!Typed, d.client},
           Restore!Step, dir' \in Restore!Dirs,
           listing' \subseteq [key : Restore!Keys, got : {"asked", "files", "error"}],
           UNCHANGED <<page, locked, files, failed, dialog, starting, posts, confirmed,
                       triggered, runs, asked>>
    PROVE  RestoreInv'
<1>1. /\ draft' = d /\ begun' = {} /\ late' = (starting \cup dialog # {})
      /\ steps' = steps + 1
  BY DEF Restore!Change, Restore!Step
<1>2. RestoreTyped'
  BY <1>1 DEF RestoreInv, RestoreTyped
<1>3. PickedWhereSent'
  BY <1>1 DEF RestoreInv, PickedWhereSent
<1>4. RequestsKept'
  BY <1>1 DEF RestoreInv, RequestsKept
<1>5. PageAgrees'
  <2>1. \A r \in dialog : r.by <= steps /\ r.by # 0 /\ r.by \in Nat /\ steps \in Nat
    BY DEF RestoreInv, RestoreTyped, PageAgrees, Request
  <2>2. \A r \in dialog : r.by <= steps' /\ r.by # 0
    BY <1>1, <2>1
  <2>3. \A r \in dialog \cup starting : late'
    BY <1>1
  <2>4. QED
    BY <1>1, <2>2, <2>3 DEF PageAgrees, SameAsDraft
<1>6. QED
  BY <1>2, <1>3, <1>4, <1>5 DEF RestoreInv

LEMMA ReadSnapshotsKeeps ==
    ASSUME RestoreInv, Restore!ReadSnapshots
    PROVE  RestoreInv'
<1>1. /\ Restore!Step
      /\ UNCHANGED <<locked, files, failed, dialog, posts, confirmed, triggered, runs, asked>>
  BY DEF Restore!ReadSnapshots, Restore!sending
<1>2. CASE \E c \in Restore!InitialClient :
             /\ Restore!Change(Restore!RestoreDraft(c)) /\ dir' = "/" /\ Restore!Ask(c, "/")
             /\ UNCHANGED <<page, starting>>
  <2>1. PICK c \in Restore!InitialClient :
             /\ Restore!Change(Restore!RestoreDraft(c)) /\ dir' = "/" /\ Restore!Ask(c, "/")
             /\ UNCHANGED <<page, starting>>
    BY <1>2
  <2>2. c \in Clients /\ "/" \in Restore!Dirs
    BY DEF Restore!InitialClient, RestoreInv, RestoreTyped, Restore!Dirs
  <2>3. listing' \subseteq [key : Restore!Keys, got : {"asked", "files", "error"}]
    BY <2>1, <2>2, AskTyped DEF RestoreInv
  <2>4. QED
    BY <1>1, <2>1, <2>2, <2>3, DraftTyped, ChangeKeeps
<1>3. CASE Restore!Unmounted /\ UNCHANGED <<draft, dir, listing>>
  <2>1. steps' \in Nat /\ steps <= steps'
    BY <1>1 DEF Restore!Step, RestoreInv, RestoreTyped
  <2>2. QED
    BY <1>1, <1>3, <2>1, UnmountedKeeps
<1>4. QED
  BY <1>2, <1>3 DEF Restore!ReadSnapshots

\* Nothing of the form changes but what the page knows of the clients.
LEMMA ClientsKeep ==
    ASSUME RestoreInv, Restore!ClientsChange \/ Restore!ClientsUpdate
    PROVE  RestoreInv'
<1>1. /\ UNCHANGED <<page, locked, draft, dir, files, failed, listing, dialog, starting, begun, late>>
      /\ UNCHANGED <<posts, confirmed, triggered, runs, asked>>
  BY DEF Restore!ClientsChange, Restore!ClientsUpdate, Restore!browser, Restore!sending
<1>2. steps' = steps + 1 \/ steps' = steps
  BY DEF Restore!ClientsChange, Restore!ClientsUpdate, Restore!Step
<1>3. RestoreTyped'
  BY <1>1, <1>2 DEF RestoreInv, RestoreTyped
<1>4. PickedWhereSent' /\ RequestsKept'
  BY <1>1 DEF RestoreInv, PickedWhereSent, RequestsKept
<1>5. PageAgrees'
  <2>1. \A r \in dialog : r.by <= steps /\ r.by \in Nat /\ steps \in Nat
    BY DEF RestoreInv, RestoreTyped, PageAgrees, Request
  <2>2. \A r \in dialog : r.by <= steps'
    BY <1>2, <2>1
  <2>3. QED
    BY <1>1, <2>2 DEF RestoreInv, PageAgrees, SameAsDraft
<1>6. QED
  BY <1>3, <1>4, <1>5 DEF RestoreInv

-----------------------------------------------------------------------------
\* Choosing: each step of it changes the draft to one that may be sent.
LEMMA SelectClientKeeps ==
    ASSUME RestoreInv, NEW c \in Clients, Restore!SelectClient(c)
    PROVE  RestoreInv'
<1> DEFINE d == [draft EXCEPT !.client = c, !.target = Restore!NoTarget]
<1>1. /\ Restore!Change(d) /\ dir' = "/" /\ Restore!Ask(c, "/") /\ Restore!Step
      /\ UNCHANGED <<page, locked, files, failed, dialog, starting, posts, confirmed, triggered,
                     runs, asked>>
  BY DEF Restore!SelectClient, Restore!AtForm, Restore!sending
<1>2. draft \in Drawn /\ Restore!NoTarget \in Target
  BY DEF RestoreInv, RestoreTyped, Restore!NoTarget, Target, Picks
<1>3. d = [client |-> c, target |-> Restore!NoTarget, tunnel |-> draft.tunnel]
  <2> DEFINE e == [draft EXCEPT !.client = c]
  <2>1. e = [client |-> c, target |-> draft.target, tunnel |-> draft.tunnel]
    BY <1>2 DEF Drawn
  <2>2. d = [e EXCEPT !.target = Restore!NoTarget]
    BY Zenon
  <2> HIDE DEF e, d
  <2>3. QED
    BY <2>1, <2>2
<1>4. d \in Drawn /\ d.target.on = Restore!Typed
  BY <1>2, <1>3 DEF Drawn, Restore!NoTarget
<1> HIDE DEF d
<1>5. listing' \subseteq [key : Restore!Keys, got : {"asked", "files", "error"}]
  BY <1>1, AskTyped DEF RestoreInv, Restore!Dirs
<1>6. QED
  BY <1>1, <1>4, <1>5, ChangeKeeps DEF Restore!Dirs

LEMMA ToggleTunnelKeeps ==
    ASSUME RestoreInv, Restore!ToggleTunnel
    PROVE  RestoreInv'
<1> DEFINE d == [draft EXCEPT !.tunnel = ~@]
<1>1. /\ Restore!Change(d) /\ Restore!Step
      /\ UNCHANGED <<page, locked, dir, files, failed, listing, dialog, starting, posts, confirmed,
                     triggered, runs, asked>>
  BY DEF Restore!ToggleTunnel, Restore!AtForm, Restore!browser, Restore!sending
<1>2. draft \in Drawn /\ draft.target.on \in {Restore!Typed, draft.client}
  BY DEF RestoreInv, RestoreTyped, PickedWhereSent
<1>3. d = [client |-> draft.client, target |-> draft.target, tunnel |-> ~draft.tunnel]
  BY <1>2 DEF Drawn
<1>4. d \in Drawn /\ d.target.on \in {Restore!Typed, d.client}
  BY <1>2, <1>3 DEF Drawn
<1> HIDE DEF d
<1>5. dir' \in Restore!Dirs /\ listing' \subseteq [key : Restore!Keys, got : {"asked", "files", "error"}]
  BY <1>1 DEF RestoreInv, RestoreTyped
<1>6. QED
  BY <1>1, <1>4, <1>5, ChangeKeeps

\* A target typed, or picked on the client it goes to.
LEMMA TargetKeeps ==
    ASSUME RestoreInv, NEW target \in Target, target.on \in {Restore!Typed, draft.client},
           Restore!Change([draft EXCEPT !.target = target]), Restore!Step,
           UNCHANGED <<page, locked, dir, files, failed, listing, dialog, starting, posts,
                       confirmed, triggered, runs, asked>>
    PROVE  RestoreInv'
<1> DEFINE d == [draft EXCEPT !.target = target]
<1>1. draft \in Drawn
  BY DEF RestoreInv, RestoreTyped
<1>2. d = [client |-> draft.client, target |-> target, tunnel |-> draft.tunnel]
  BY <1>1 DEF Drawn
<1>3. d \in Drawn /\ d.target.on \in {Restore!Typed, d.client}
  BY <1>1, <1>2 DEF Drawn
<1>4. Restore!Change(d)
  OBVIOUS
<1> HIDE DEF d
<1>5. dir' \in Restore!Dirs /\ listing' \subseteq [key : Restore!Keys, got : {"asked", "files", "error"}]
  BY DEF RestoreInv, RestoreTyped
<1>6. QED
  BY <1>3, <1>4, <1>5, ChangeKeeps

LEMMA TypeTargetKeeps ==
    ASSUME RestoreInv, Restore!TypeTarget
    PROVE  RestoreInv'
<1>1. /\ Restore!Change([draft EXCEPT !.target = [dir |-> "/data", on |-> Restore!Typed]])
      /\ Restore!Step
      /\ UNCHANGED <<page, locked, dir, files, failed, listing, dialog, starting, posts, confirmed,
                     triggered, runs, asked>>
  BY DEF Restore!TypeTarget, Restore!AtForm, Restore!browser, Restore!sending
<1>2. [dir |-> "/data", on |-> Restore!Typed] \in Target
  BY DEF Target, Picks, Restore!Dirs
<1>3. QED
  BY <1>1, <1>2, TargetKeeps

\* The list on screen is that of the directory the browser stands in.
LEMMA FilesAreNamed == RestoreInv => Restore!ListsWhatItNames
<1> SUFFICES ASSUME RestoreInv PROVE Restore!FileList \subseteq {<<draft.client, dir>>}
  BY DEF Restore!ListsWhatItNames
<1>1. <<draft.client, dir>> \in Restore!Keys
  BY DEF RestoreInv, RestoreTyped, Drawn, Restore!Keys
<1>2. QED
  BY <1>1 DEF Restore!FileList, RestoreInv, PickedWhereSent

LEMMA PickKeeps ==
    ASSUME RestoreInv, Restore!Pick
    PROVE  RestoreInv'
<1>1. /\ Restore!Step
      /\ UNCHANGED <<page, locked, dir, files, failed, listing, dialog, starting, posts, confirmed,
                     triggered, runs, asked>>
  BY DEF Restore!Pick, Restore!AtForm, Restore!browser, Restore!sending
<1>2. PICK f \in Restore!FileList :
          Restore!Change([draft EXCEPT !.target = [dir |-> f[2], on |-> f[1]]])
  BY DEF Restore!Pick
<1>3. f = <<draft.client, dir>>
  BY FilesAreNamed DEF Restore!ListsWhatItNames
<1>4. f[1] = draft.client /\ f[2] \in Restore!Dirs /\ f[1] \in Clients
  BY <1>3 DEF RestoreInv, RestoreTyped, Drawn
<1>5. [dir |-> f[2], on |-> f[1]] \in Target
  BY <1>4 DEF Target, Picks
<1>6. QED
  BY <1>1, <1>2, <1>4, <1>5, TargetKeeps

\* Only the browser changes.
LEMMA BrowserKeeps ==
    ASSUME RestoreInv, dir' \in Restore!Dirs, failed' \subseteq Restore!Keys,
           listing' \subseteq [key : Restore!Keys, got : {"asked", "files", "error"}],
           files' \in [Restore!Keys -> SUBSET Restore!Keys],
           \A k \in Restore!Keys : files'[k] \subseteq {k}, steps' \in {steps, steps + 1},
           UNCHANGED <<page, locked, draft, dialog, starting, begun, late, posts, confirmed,
                       triggered, runs, asked>>
    PROVE  RestoreInv'
<1>1. steps' \in Nat /\ page <= steps' /\ \A r \in dialog : r.by <= steps'
  <2>1. \A r \in dialog : r.by <= steps /\ r.by \in Nat /\ steps \in Nat
    BY DEF RestoreInv, RestoreTyped, PageAgrees, Request
  <2>2. page \in Nat /\ steps \in Nat /\ page <= steps
    BY DEF RestoreInv, RestoreTyped
  <2>3. QED
    BY <2>1, <2>2
<1>2. RestoreTyped'
  BY <1>1 DEF RestoreInv, RestoreTyped
<1>3. PickedWhereSent' /\ RequestsKept'
  BY DEF RestoreInv, PickedWhereSent, RequestsKept
<1>4. PageAgrees'
  BY <1>1 DEF RestoreInv, PageAgrees, SameAsDraft
<1>5. QED
  BY <1>2, <1>3, <1>4 DEF RestoreInv

LEMMA BrowseKeeps ==
    ASSUME RestoreInv, NEW d \in Restore!Dirs, Restore!Browse(d)
    PROVE  RestoreInv'
<1>1. /\ dir' = d /\ Restore!Ask(draft.client, d) /\ steps' = steps + 1
      /\ UNCHANGED <<page, locked, draft, files, failed, dialog, starting, begun, late, posts,
                     confirmed, triggered, runs, asked>>
  BY DEF Restore!Browse, Restore!AtForm, Restore!Step, Restore!sending
<1>2. draft.client \in Clients
  BY DEF RestoreInv, RestoreTyped, Drawn
<1>3. listing' \subseteq [key : Restore!Keys, got : {"asked", "files", "error"}]
  BY <1>1, <1>2, AskTyped DEF RestoreInv
<1>4. QED
  BY <1>1, <1>3, BrowserKeeps DEF RestoreInv, RestoreTyped, PickedWhereSent

LEMMA ListDirectoryKeeps ==
    ASSUME RestoreInv, NEW l \in listing, Restore!ListDirectory(l)
    PROVE  RestoreInv'
<1>1. UNCHANGED <<page, locked, draft, dir, files, failed, dialog, starting, begun, late, posts,
                  confirmed, triggered, runs, asked, steps>>
  BY DEF Restore!ListDirectory, Restore!sending
<1>2. PICK got \in {"files", "error"} : listing' = (listing \ {l}) \cup {[l EXCEPT !.got = got]}
  BY DEF Restore!ListDirectory
<1>3. [l EXCEPT !.got = got] \in [key : Restore!Keys, got : {"asked", "files", "error"}]
  BY DEF RestoreInv, RestoreTyped
<1>4. listing' \subseteq [key : Restore!Keys, got : {"asked", "files", "error"}]
  BY <1>2, <1>3 DEF RestoreInv, RestoreTyped
<1>5. QED
  BY <1>1, <1>4, BrowserKeeps DEF RestoreInv, RestoreTyped, PickedWhereSent

LEMMA AnswerListKeeps ==
    ASSUME RestoreInv, NEW l \in listing, Restore!AnswerList(l)
    PROVE  RestoreInv'
<1>1. /\ listing' \subseteq listing /\ failed' \subseteq failed \cup {l.key}
      /\ files' = [files EXCEPT ![l.key] = {l.key}] \/ files' = files
      /\ UNCHANGED <<page, locked, draft, dir, dialog, starting, begun, late, posts, confirmed,
                     triggered, runs, asked, steps>>
  BY DEF Restore!AnswerList, Restore!sending
<1>2. l.key \in Restore!Keys
  BY DEF RestoreInv, RestoreTyped
<1>3. /\ files' \in [Restore!Keys -> SUBSET Restore!Keys]
      /\ \A k \in Restore!Keys : files'[k] \subseteq {k}
  BY <1>1, <1>2 DEF RestoreInv, RestoreTyped, PickedWhereSent
<1>4. listing' \subseteq [key : Restore!Keys, got : {"asked", "files", "error"}]
      /\ failed' \subseteq Restore!Keys /\ dir' \in Restore!Dirs
  BY <1>1, <1>2 DEF RestoreInv, RestoreTyped
<1>5. QED
  BY <1>1, <1>3, <1>4, BrowserKeeps

-----------------------------------------------------------------------------
\* What the question names is fixed: the draft of now, under a number of its own.
LEMMA SubmitRestoreKeeps ==
    ASSUME RestoreInv, Restore!Submit
    PROVE  RestoreInv'
<1> DEFINE q == Restore!RestoreInput(draft)
<1>1. /\ page # 0 /\ dialog = {} /\ starting = {} /\ begun = {} /\ asked' = asked + 1
      /\ dialog' = {q} /\ late' = FALSE
      /\ UNCHANGED <<page, locked, draft, dir, files, failed, listing, starting, begun, posts,
                     confirmed, triggered, runs, steps>>
  BY DEF Restore!Submit, Restore!browser, Restore!outside
<1>2. q = [id |-> asked + 1, by |-> page, client |-> draft.client, target |-> draft.target,
           tunnel |-> q.tunnel] /\ q.tunnel \in BOOLEAN
  BY DEF Restore!RestoreInput, RestoreInv, RestoreTyped, Drawn
<1>3. asked \in Nat /\ asked' \in Nat /\ page \in Nat /\ steps \in Nat /\ page <= steps
  BY <1>1 DEF RestoreInv, RestoreTyped
<1>4. draft \in Drawn /\ draft.target.on \in {Restore!Typed, draft.client}
  BY DEF RestoreInv, RestoreTyped, PickedWhereSent
<1> HIDE DEF q
<1>5. q.id = asked' /\ q.by = page /\ q.client = draft.client /\ q.target = draft.target
  BY <1>1, <1>2
<1>6. q \in Request
  BY <1>2, <1>3, <1>4 DEF Request, Drawn
<1>7. \A r \in confirmed : r.id \in Nat /\ r.id <= asked
  BY DEF RestoreInv, RestoreTyped, RequestsKept, Request
<1>8. \A r \in confirmed : r.id <= asked' /\ r.id # q.id
  BY <1>1, <1>3, <1>5, <1>7
<1>9. RestoreTyped'
  BY <1>1, <1>3, <1>6 DEF RestoreInv, RestoreTyped
<1>10. PickedWhereSent'
  BY <1>1, <1>4, <1>5 DEF RestoreInv, PickedWhereSent
<1>11. RequestsKept'
  BY <1>1, <1>3, <1>5, <1>8 DEF RestoreInv, RequestsKept
<1>12. PageAgrees'
  BY <1>1, <1>3, <1>5 DEF RestoreInv, PageAgrees, SameAsDraft
<1>13. QED
  BY <1>9, <1>10, <1>11, <1>12 DEF RestoreInv

LEMMA ConfirmKeeps ==
    ASSUME RestoreInv, NEW yes \in BOOLEAN, Restore!Confirm(yes)
    PROVE  RestoreInv'
<1>1. /\ dialog' = {}
      /\ UNCHANGED <<page, locked, draft, dir, files, failed, listing, begun, late, triggered,
                     runs, asked, steps>>
  BY DEF Restore!Confirm, Restore!browser, Restore!outside
<1>2. CASE yes
  <2>1. /\ confirmed' = confirmed \cup dialog
        /\ posts' = posts \cup {[request |-> r, at |-> "asked"] : r \in dialog}
        /\ starting' = starting \cup {r \in dialog : r.by = page}
    BY <1>2 DEF Restore!Confirm
  <2>2. RestoreTyped'
    <3>1. posts' \subseteq [request : Request, at : {"asked", "ok", "refused"}]
      BY <2>1 DEF RestoreInv, RestoreTyped
    <3>2. confirmed' \subseteq Request /\ starting' \subseteq Request
      BY <2>1 DEF RestoreInv, RestoreTyped
    <3>3. QED
      BY <1>1, <3>1, <3>2 DEF RestoreInv, RestoreTyped
  <2>3. PickedWhereSent'
    BY <1>1, <2>1 DEF RestoreInv, PickedWhereSent
  <2>4. RequestsKept'
    BY <1>1, <2>1 DEF RestoreInv, RequestsKept
  <2>5. PageAgrees'
    BY <1>1, <2>1 DEF RestoreInv, PageAgrees, SameAsDraft
  <2>6. QED
    BY <2>2, <2>3, <2>4, <2>5 DEF RestoreInv
<1>3. CASE ~yes
  <2>1. UNCHANGED <<confirmed, posts, starting>>
    BY <1>3 DEF Restore!Confirm
  <2>2. RestoreTyped'
    BY <1>1, <2>1 DEF RestoreInv, RestoreTyped
  <2>3. PickedWhereSent' /\ RequestsKept' /\ PageAgrees'
    BY <1>1, <2>1 DEF RestoreInv, PickedWhereSent, RequestsKept, PageAgrees, SameAsDraft
  <2>4. QED
    BY <2>2, <2>3 DEF RestoreInv
<1>4. QED
  BY <1>2, <1>3

LEMMA ServeRestoreKeeps ==
    ASSUME RestoreInv, NEW p \in posts, Restore!Serve(p)
    PROVE  RestoreInv'
<1> DEFINE ok == /\ p.request.client \in online
                 /\ p.request.tunnel => p.request.client \in tunnels
           q == [p EXCEPT !.at = IF ok THEN "ok" ELSE "refused"]
<1>1. /\ posts' = (posts \ {p}) \cup {q}
      /\ triggered' = IF ok THEN triggered \cup {p.request} ELSE triggered
      /\ runs' \in {runs, IF ok THEN runs \cup {p.request} ELSE runs}
      /\ UNCHANGED <<page, locked, draft, dir, files, failed, listing, dialog, starting, begun,
                     late, confirmed, asked, steps>>
  BY DEF Restore!Serve, Restore!browser
<1>2. p \in [request : Request, at : {"asked", "ok", "refused"}] /\ p.request \in confirmed
  BY DEF RestoreInv, RestoreTyped, RequestsKept
<1>3. q \in [request : Request, at : {"asked", "ok", "refused"}] /\ q.request = p.request
      /\ (q.at = "ok" => ok)
  BY <1>2
<1> HIDE DEF q, ok
<1>4. /\ triggered \subseteq triggered' /\ triggered' \subseteq triggered \cup {p.request}
      /\ runs' \subseteq triggered' /\ (ok => p.request \in triggered')
  BY <1>1 DEF RestoreInv, RequestsKept
<1>5. RestoreTyped'
  <2>1. posts' \subseteq [request : Request, at : {"asked", "ok", "refused"}]
    BY <1>1, <1>3 DEF RestoreInv, RestoreTyped
  <2>2. triggered' \subseteq Request /\ runs' \subseteq Request
    BY <1>2, <1>4 DEF RestoreInv, RestoreTyped
  <2>3. QED
    BY <1>1, <2>1, <2>2 DEF RestoreInv, RestoreTyped
<1>6. PickedWhereSent'
  BY <1>1 DEF RestoreInv, PickedWhereSent
<1>7. RequestsKept'
  BY <1>1, <1>2, <1>3, <1>4 DEF RestoreInv, RequestsKept
<1>8. PageAgrees'
  BY <1>1, <1>4 DEF RestoreInv, PageAgrees, SameAsDraft
<1>9. QED
  BY <1>5, <1>6, <1>7, <1>8 DEF RestoreInv

LEMMA AnsweredRestoreKeeps ==
    ASSUME RestoreInv, NEW p \in posts, NEW ok \in BOOLEAN, Restore!Answered(p, ok)
    PROVE  RestoreInv'
<1>1. /\ posts' = posts \ {p} /\ starting' \subseteq starting
      /\ UNCHANGED <<page, locked, draft, dir, files, failed, listing, dialog, late, confirmed,
                     triggered, runs, asked, steps>>
  BY DEF Restore!Answered, Restore!browser, Restore!outside
<1>2. begun' = begun \/ (begun' = {p.request} /\ p.request \in starting /\ p.at = "ok")
  BY DEF Restore!Answered
<1>3. p.request \in Request /\ (p.at = "ok" => p.request \in triggered)
  BY DEF RestoreInv, RestoreTyped, RequestsKept
<1>4. RestoreTyped'
  BY <1>1, <1>2, <1>3 DEF RestoreInv, RestoreTyped
<1>5. PickedWhereSent' /\ RequestsKept'
  BY <1>1 DEF RestoreInv, PickedWhereSent, RequestsKept
<1>6. PageAgrees'
  BY <1>1, <1>2, <1>3 DEF RestoreInv, PageAgrees, SameAsDraft
<1>7. QED
  BY <1>4, <1>5, <1>6 DEF RestoreInv

LEMMA StepRestore == RestoreInv /\ Restore!Next => RestoreInv'
<1> SUFFICES ASSUME RestoreInv, Restore!Next PROVE RestoreInv'
  OBVIOUS
<1>1. CASE Restore!Leave
  <2>1. /\ Restore!Unmounted /\ steps' = steps
        /\ UNCHANGED <<locked, draft, dir, files, failed, listing, dialog, posts, confirmed,
                       triggered, runs, asked>>
    BY <1>1 DEF Restore!Leave, Restore!browser, Restore!sending
  <2>2. steps' \in Nat /\ steps <= steps'
    BY <2>1 DEF RestoreInv, RestoreTyped
  <2>3. QED
    BY <2>1, <2>2, UnmountedKeeps
<1>2. ASSUME NEW c \in Clients, Restore!SelectClient(c) PROVE RestoreInv'
  BY <1>2, SelectClientKeeps
<1>3. ASSUME NEW d \in Restore!Dirs, Restore!Browse(d) PROVE RestoreInv'
  BY <1>3, BrowseKeeps
<1>4. ASSUME NEW l \in listing, Restore!ListDirectory(l) PROVE RestoreInv'
  BY <1>4, ListDirectoryKeeps
<1>5. ASSUME NEW l \in listing, Restore!AnswerList(l) PROVE RestoreInv'
  BY <1>5, AnswerListKeeps
<1>6. ASSUME NEW yes \in BOOLEAN, Restore!Confirm(yes) PROVE RestoreInv'
  BY <1>6, ConfirmKeeps
<1>7. ASSUME NEW p \in posts, Restore!Serve(p) PROVE RestoreInv'
  BY <1>7, ServeRestoreKeeps
<1>8. ASSUME NEW p \in posts, NEW ok \in BOOLEAN, Restore!Answered(p, ok) PROVE RestoreInv'
  BY <1>8, AnsweredRestoreKeeps
<1>9. QED
  BY <1>1, <1>2, <1>3, <1>4, <1>5, <1>6, <1>7, <1>8, OpenKeeps, ReadSnapshotsKeeps, ClientsKeep,
     ToggleTunnelKeeps, TypeTargetKeeps, PickKeeps, SubmitRestoreKeeps DEF Restore!Next

\* RestoreKept: whatever is chosen, listed and answered, in whatever order, a restore
\* runs as it was confirmed, to a target typed or picked on the client it goes to; the
\* browser shows the directory it names; and what is said to have started is what the
\* form shows, or was changed meanwhile.
THEOREM RestoresRunAsConfirmed == MCSpec => []RestoreKept
<1> DEFINE Inv == part = "restore" => RestoreInv
<1>1. MCInit => Inv
  BY InitRestore DEF MCInit
<1>2. Inv /\ [MCNext]_<<part, vars, cacheVars, secretsVars, formVars, restoreVars>> => Inv'
  <2> SUFFICES ASSUME Inv, [MCNext]_<<part, vars, cacheVars, secretsVars, formVars, restoreVars>>,
                      part' = "restore"
               PROVE  RestoreInv'
    OBVIOUS
  <2>1. CASE part = "restore" /\ Restore!Next
    BY <2>1, StepRestore
  <2>2. CASE UNCHANGED <<part, restoreVars>>
    <3>1. RestoreInv /\ UNCHANGED restoreVars
      BY <2>2
    <3>2. RestoreTyped'
      BY <3>1 DEF restoreVars, RestoreInv, RestoreTyped
    <3>3. PickedWhereSent' /\ RequestsKept' /\ PageAgrees'
      BY <3>1 DEF restoreVars, RestoreInv, PickedWhereSent, RequestsKept, PageAgrees, SameAsDraft
    <3>4. QED
      BY <3>2, <3>3 DEF RestoreInv
  <2>3. QED
    BY <2>1, <2>2 DEF MCNext
<1>3. RestoreInv => Restore!RestoreHolds
  <2> SUFFICES ASSUME RestoreInv PROVE Restore!RestoreHolds
    OBVIOUS
  <2>1. Restore!RunsAsConfirmed
    BY DEF RestoreInv, RequestsKept, PickedWhereSent, Restore!RunsAsConfirmed
  <2>2. Restore!StartedIsShown
    BY DEF RestoreInv, PageAgrees, SameAsDraft, Restore!StartedIsShown
  <2>3. QED
    BY <2>1, <2>2, FilesAreNamed DEF Restore!RestoreHolds
<1>4. Inv => RestoreKept
  BY <1>3 DEF RestoreKept
<1>5. QED
  BY <1>1, <1>2, <1>4, PTL DEF MCSpec
-----------------------------------------------------------------------------
(***************************************************************************)
(* Editors.                                                                *)
(***************************************************************************)
Places == EditorPages \cup {Forms!Away}
Text == [text : {"old", "new", "bad"}, extra : BOOLEAN, at : Places]
FormRow == [nr : Nat, base : Text, draft : Text, saving : BOOLEAN, touched : BOOLEAN]
Row(n, b, d, s, t) == [nr |-> n, base |-> b, draft |-> d, saving |-> s, touched |-> t]
Rules(p) == Forms!Editor(p)

EditorsTyped ==
    /\ place \in Places /\ (place = Forms!Away <=> form.nr = 0)
    /\ form \in FormRow
    /\ forms \in Nat /\ form.nr <= forms /\ (form.nr = 0 => form = Forms!NoForm)
    /\ calls \subseteq [nr : Nat, page : EditorPages, sent : Text,
                        at : {"asked", "stored", "refused", "failed"}]
    /\ stored \in [EditorPages -> SUBSET Text]
    /\ gone \subseteq EditorPages /\ question.to \in Places

\* What a form started from, or was stored last of it, its entity held; what is
\* in it was typed there, and while it was locked nothing was.
FormsKept ==
    /\ form.nr # 0 =>
           /\ \E p \in EditorPages : /\ p[1] = place[1] /\ (Rules(place).keyed => p = place)
                                     /\ \E d \in stored[p] : d.text = form.base.text
           /\ Rules(place).keyed => form.draft.at = place
           /\ form.touched => ~Rules(place).locked
    /\ \A p \in EditorPages : Rules(p).keyed => \A d \in stored[p] : d.at = p

\* A save says where it comes from, and passed the form's rules.
CallsKept == \A c \in calls :
    /\ 0 < c.nr /\ c.nr <= forms
    /\ c.nr = form.nr => c.page[1] = place[1] /\ (Rules(place).keyed => c.page = place)
    /\ Rules(c.page).keyed => c.sent.at = c.page
    /\ Forms!CheckDraft(c.page, c.sent)
    /\ c.at = "stored" => \E d \in stored[c.page] : d.text = c.sent.text
    /\ c.at = "refused" => c.page \in gone

EditorsInv == EditorsTyped /\ FormsKept /\ CallsKept

\* How the editors differ.
LEMMA RulesOf ==
    ASSUME NEW p \in EditorPages
    PROVE  /\ Rules(p).keyed <=> p[1] # "client"
           /\ Rules(p).guarded <=> p[1] # "user"
           /\ p[1] = "client" => Rules(p).locked
           /\ p \in Places /\ p # Forms!Away
<1>1. p[1] \in {"client", "repository", "job", "webhook", "user"}
  BY DEF EditorPages
<1>2. p \in Places /\ p # Forms!Away
  <2>1. Forms!Away[1] = "away"
    BY DEF Forms!Away
  <2>2. QED
    BY <1>1, <2>1 DEF Places
<1>3. CASE p[1] = "client"
  <2>1. Rules(p) = Forms!ClientEditor(p)
    BY <1>3 DEF Rules, Forms!Editor
  <2>2. QED
    BY <1>2, <1>3, <2>1 DEF Forms!ClientEditor, Forms!IdentityCardLocks
<1>4. CASE p[1] = "repository"
  <2>1. Rules(p) = Forms!RepositoryEditor(p)
    BY <1>4 DEF Rules, Forms!Editor
  <2>2. QED
    BY <1>2, <1>4, <2>1 DEF Forms!RepositoryEditor
<1>5. CASE p[1] = "job"
  <2>1. Rules(p) = Forms!JobEditorPage(p)
    BY <1>5 DEF Rules, Forms!Editor
  <2>2. QED
    BY <1>2, <1>5, <2>1 DEF Forms!JobEditorPage
<1>6. CASE p[1] = "webhook"
  <2>1. Rules(p) = Forms!WebhookEditor(p)
    BY <1>6 DEF Rules, Forms!Editor
  <2>2. QED
    BY <1>2, <1>6, <2>1 DEF Forms!WebhookEditor
<1>7. CASE p[1] = "user"
  <2>1. Rules(p) = Forms!UserDialog(p)
    BY <1>7 DEF Rules, Forms!Editor
  <2>2. QED
    BY <1>2, <1>7, <2>1 DEF Forms!UserDialog
<1>8. QED
  BY <1>1, <1>3, <1>4, <1>5, <1>6, <1>7

LEMMA InitEditors == Forms!Init => EditorsInv
<1> SUFFICES ASSUME Forms!Init PROVE EditorsInv
  OBVIOUS
<1>1. \A p \in EditorPages : [text |-> "old", extra |-> FALSE, at |-> p] \in Text
  BY DEF Text, Places
<1>2. stored \in [EditorPages -> SUBSET Text]
      /\ \A p \in EditorPages : \A d \in stored[p] : d.at = p
  BY <1>1 DEF Forms!Init
<1>3. Forms!NoForm \in FormRow
      /\ Forms!NoForm.nr = 0
  BY DEF Forms!NoForm, Forms!Blank, FormRow, Text, Places
<1>4. EditorsTyped
  BY <1>2, <1>3 DEF Forms!Init, EditorsTyped, Places, Forms!None
<1>5. FormsKept /\ CallsKept
  BY <1>2, <1>3 DEF Forms!Init, FormsKept, CallsKept
<1>6. QED
  BY <1>4, <1>5 DEF EditorsInv

\* Another page is rendered: with no form, with the same one, or with a new one.
LEMMA ShowKeeps ==
    ASSUME EditorsInv, NEW to \in Places, Forms!Show(to), calls' \subseteq calls,
           question'.to \in Places, UNCHANGED <<stored, gone>>
    PROVE  EditorsInv'
<1>1. place' = to
  BY DEF Forms!Show
<1>2. forms \in Nat /\ form.nr \in Nat /\ form.nr <= forms
  BY DEF EditorsInv, EditorsTyped, FormRow
<1>3. \A c \in calls : c.nr \in Nat /\ 0 < c.nr /\ c.nr <= forms
  BY DEF EditorsInv, EditorsTyped, CallsKept
<1>4. CASE to = Forms!Away /\ form' = Forms!NoForm /\ UNCHANGED forms
  <2>1. Forms!NoForm \in FormRow
        /\ form'.nr = 0
    BY <1>4 DEF Forms!NoForm, Forms!Blank, FormRow, Text, Places
  <2>2. EditorsTyped'
    BY <1>1, <1>2, <1>4, <2>1 DEF EditorsInv, EditorsTyped
  <2>3. FormsKept'
    BY <1>4, <2>1 DEF EditorsInv, FormsKept
  <2>4. \A c \in calls : c.nr # form'.nr
    BY <1>3, <2>1
  <2>5. CallsKept'
    BY <1>4, <2>4 DEF EditorsInv, CallsKept
  <2>6. QED
    BY <2>2, <2>3, <2>5 DEF EditorsInv
<1>5. CASE to # Forms!Away /\ Forms!SameForm(to) /\ UNCHANGED <<form, forms>>
  <2>1. place \in EditorPages /\ to \in EditorPages /\ to[1] = place[1] /\ form.nr # 0
    BY <1>5 DEF Forms!SameForm, EditorsInv, EditorsTyped, Places
  <2>2. ~Rules(to).keyed /\ to[1] = "client" /\ place[1] = "client"
    BY <1>5, <2>1, RulesOf DEF Forms!SameForm, Rules
  <2>3. ~Rules(place).keyed /\ Rules(place).locked /\ Rules(to).locked
    BY <2>1, <2>2, RulesOf
  <2>4. EditorsTyped'
    BY <1>1, <1>5, <2>1 DEF EditorsInv, EditorsTyped
  <2>5. FormsKept'
    BY <1>1, <1>5, <2>1, <2>2, <2>3 DEF EditorsInv, FormsKept
  <2>6. CallsKept'
    BY <1>1, <1>5, <2>1, <2>2, <2>3 DEF EditorsInv, CallsKept
  <2>7. QED
    BY <2>4, <2>5, <2>6 DEF EditorsInv
<1>6. CASE /\ to # Forms!Away /\ forms' = forms + 1
           /\ \E d \in stored[to] :
                form' = [nr |-> forms', base |-> [d EXCEPT !.at = to],
                         draft |-> [d EXCEPT !.at = to], saving |-> FALSE, touched |-> FALSE]
  <2>1. to \in EditorPages
    BY <1>6 DEF Places
  <2>2. PICK d \in stored[to] :
             form' = [nr |-> forms', base |-> [d EXCEPT !.at = to],
                      draft |-> [d EXCEPT !.at = to], saving |-> FALSE, touched |-> FALSE]
    BY <1>6
  <2>3. d \in Text
    BY <2>1 DEF EditorsInv, EditorsTyped
  <2> DEFINE e == [d EXCEPT !.at = to]
  <2>4. e \in Text /\ e.text = d.text /\ e.at = to
    BY <2>3 DEF Text
  <2>5. form' = [nr |-> forms', base |-> e, draft |-> e, saving |-> FALSE, touched |-> FALSE]
    BY <2>2
  <2> HIDE DEF e
  <2>6. forms' \in Nat /\ forms' # 0 /\ \A c \in calls : c.nr # forms' /\ c.nr <= forms'
    BY <1>2, <1>3, <1>6
  <2>7. EditorsTyped'
    BY <1>1, <1>6, <2>4, <2>5, <2>6 DEF EditorsInv, EditorsTyped, FormRow
  <2>8. FormsKept'
    BY <1>1, <2>1, <2>4, <2>5 DEF EditorsInv, FormsKept
  <2>9. CallsKept'
    BY <2>5, <2>6 DEF EditorsInv, CallsKept
  <2>10. QED
    BY <2>7, <2>8, <2>9 DEF EditorsInv
<1>7. QED
  BY <1>4, <1>5, <1>6 DEF Forms!Show

\* Nothing changes but the question, and perhaps a call that was answered.
LEMMA StaysKeeps ==
    ASSUME EditorsInv, calls' \subseteq calls, question'.to \in Places,
           UNCHANGED <<place, form, forms, stored, gone>>
    PROVE  EditorsInv'
<1>1. EditorsTyped'
  BY DEF EditorsInv, EditorsTyped
<1>2. FormsKept' /\ CallsKept'
  BY DEF EditorsInv, FormsKept, CallsKept
<1>3. QED
  BY <1>1, <1>2 DEF EditorsInv

LEMMA LeaveKeeps ==
    ASSUME EditorsInv, NEW to \in Places, Forms!Leave(to), calls' \subseteq calls,
           UNCHANGED <<stored, gone>>
    PROVE  EditorsInv'
<1>1. Forms!Reached(to) \in Places
  BY DEF Forms!Reached, Places
<1>2. question'.to \in Places
  BY DEF Forms!Leave, EditorsInv, EditorsTyped
<1>3. QED
  BY <1>1, <1>2, ShowKeeps, StaysKeeps DEF Forms!Leave

LEMMA AnswerQuestionKeeps ==
    ASSUME EditorsInv, NEW discard \in BOOLEAN,
           Forms!Answer(discard)
    PROVE  EditorsInv'
<1>1. question.to \in Places /\ question'.to \in Places
  BY DEF Forms!Answer, Forms!None, Places, EditorsInv, EditorsTyped
<1>2. Forms!Reached(question.to) \in Places
  BY <1>1 DEF Forms!Reached, Places
<1>3. QED
  BY <1>1, <1>2, ShowKeeps, StaysKeeps DEF Forms!Answer

LEMMA GoneKeeps ==
    ASSUME EditorsInv, NEW p \in EditorPages, Forms!Gone(p)
    PROVE  EditorsInv'
<1>1. gone' = gone \cup {p} /\ UNCHANGED <<calls, stored, forms, question>>
  BY DEF Forms!Gone
<1>2. CASE UNCHANGED <<place, form>>
  <2>1. EditorsTyped'
    BY <1>1, <1>2 DEF EditorsInv, EditorsTyped
  <2>2. FormsKept' /\ CallsKept'
    BY <1>1, <1>2 DEF EditorsInv, FormsKept, CallsKept
  <2>3. QED
    BY <2>1, <2>2 DEF EditorsInv
<1>3. CASE place' = Forms!Away /\ form' = Forms!NoForm
  <2>1. Forms!NoForm \in FormRow
        /\ form'.nr = 0
    BY <1>3 DEF Forms!NoForm, Forms!Blank, FormRow, Text, Places
  <2>2. \A c \in calls : c.nr # form'.nr
    BY <2>1 DEF EditorsInv, EditorsTyped, CallsKept
  <2>3. EditorsTyped'
    BY <1>1, <1>3, <2>1 DEF EditorsInv, EditorsTyped, Places
  <2>4. FormsKept'
    BY <1>1, <2>1 DEF EditorsInv, FormsKept
  <2>5. CallsKept'
    BY <1>1, <2>2 DEF EditorsInv, CallsKept
  <2>6. QED
    BY <2>3, <2>4, <2>5 DEF EditorsInv
<1>4. QED
  BY <1>2, <1>3 DEF Forms!Gone

-----------------------------------------------------------------------------
\* Typing and saving.
LEMMA RowIs ==
    ASSUME NEW n \in Nat, NEW b \in Text, NEW d \in Text, NEW s \in BOOLEAN, NEW t \in BOOLEAN
    PROVE  /\ Row(n, b, d, s, t) \in FormRow
           /\ Row(n, b, d, s, t).nr = n /\ Row(n, b, d, s, t).base = b
           /\ Row(n, b, d, s, t).draft = d /\ Row(n, b, d, s, t).saving = s
           /\ Row(n, b, d, s, t).touched = t
  BY DEF FormRow, Row

\* A form whose save has been answered: only the flag of the save differs.
LEMMA RowOf ==
    ASSUME NEW f \in FormRow, NEW s \in BOOLEAN
    PROVE  /\ Row(f.nr, f.base, f.draft, s, f.touched) \in FormRow
           /\ Row(f.nr, f.base, f.draft, s, f.touched).nr = f.nr
           /\ Row(f.nr, f.base, f.draft, s, f.touched).base = f.base
           /\ Row(f.nr, f.base, f.draft, s, f.touched).draft = f.draft
           /\ Row(f.nr, f.base, f.draft, s, f.touched).touched = f.touched
<1>1. PICK n \in Nat, b \in Text, d \in Text, t \in BOOLEAN :
          n = f.nr /\ b = f.base /\ d = f.draft /\ t = f.touched
  BY DEF FormRow
<1>2. /\ Row(n, b, d, s, t) \in FormRow
      /\ Row(n, b, d, s, t).nr = n /\ Row(n, b, d, s, t).base = b
      /\ Row(n, b, d, s, t).draft = d /\ Row(n, b, d, s, t).touched = t
  BY RowIs
<1>3. Row(f.nr, f.base, f.draft, s, f.touched) = Row(n, b, d, s, t)
  BY <1>1
<1>4. Row(n, b, d, s, t).touched = f.touched
  BY <1>1, <1>2, Zenon
<1>5. QED
  BY <1>1, <1>2, <1>3, <1>4, Zenon

LEMMA FormIsRow ==
    ASSUME EditorsInv
    PROVE  /\ form.nr \in Nat /\ form.base \in Text /\ form.draft \in Text
           /\ form.saving \in BOOLEAN /\ form.touched \in BOOLEAN /\ form \in FormRow
  BY DEF EditorsInv, EditorsTyped, FormRow

LEMMA WithText ==
    ASSUME NEW f \in FormRow, NEW d \in Text
    PROVE  /\ [f EXCEPT !.base = d] = Row(f.nr, d, f.draft, f.saving, f.touched)
           /\ [f EXCEPT !.draft = d] = Row(f.nr, f.base, d, f.saving, f.touched)
<1>1. [f EXCEPT !.base = d] = Row(f.nr, d, f.draft, f.saving, f.touched)
  BY DEF FormRow, Row
<1>2. [f EXCEPT !.draft = d] = Row(f.nr, f.base, d, f.saving, f.touched)
  BY DEF FormRow, Row
<1>3. QED
  BY <1>1, <1>2

LEMMA WithFlag ==
    ASSUME NEW f \in FormRow, NEW s \in BOOLEAN
    PROVE  /\ [f EXCEPT !.saving = s] = Row(f.nr, f.base, f.draft, s, f.touched)
           /\ [f EXCEPT !.touched = s] = Row(f.nr, f.base, f.draft, f.saving, s)
<1>1. [f EXCEPT !.saving = s] = Row(f.nr, f.base, f.draft, s, f.touched)
  BY DEF FormRow, Row
<1>2. [f EXCEPT !.touched = s] = Row(f.nr, f.base, f.draft, f.saving, s)
  BY DEF FormRow, Row
<1>3. QED
  BY <1>1, <1>2

LEMMA TypeKeeps ==
    ASSUME EditorsInv, NEW t \in Forms!Typings, Forms!Type(t)
    PROVE  EditorsInv'
<1> DEFINE d == [text |-> t.text, extra |-> t.extra, at |-> place]
<1>1. /\ form.nr # 0 /\ (Rules(place).locked => ~form.saving)
      /\ UNCHANGED <<place, question, calls, stored, gone, forms>>
  BY DEF Forms!Type, Rules
<1>2. form' = [form EXCEPT !.draft = d, !.touched = form.saving]
  BY DEF Forms!Type
<1>3. d \in Text /\ d.at = place
  <2>1. t.text \in {"old", "new", "bad"}
    BY DEF Forms!Typings
  <2>2. t.extra \in BOOLEAN
    <3>1. \E x \in {"old", "new", "bad"}, e \in BOOLEAN : t = [text |-> x, extra |-> e]
      BY DEF Forms!Typings
    <3>2. QED
      BY <3>1
  <2>3. QED
    BY <2>1, <2>2 DEF Text, EditorsInv, EditorsTyped
<1> HIDE DEF d
<1>4. form' \in FormRow /\ form'.nr = form.nr /\ form'.base = form.base /\ form'.draft = d
      /\ form'.touched = form.saving
  <2> DEFINE e == [form EXCEPT !.draft = d]
  <2>1. e = Row(form.nr, form.base, d, form.saving, form.touched)
    BY <1>3, FormIsRow, WithText
  <2>2. form' = [e EXCEPT !.touched = form.saving]
    BY <1>2, Zenon
  <2> HIDE DEF e
  <2>3. e \in FormRow /\ e.nr = form.nr /\ e.base = form.base /\ e.draft = d
        /\ e.saving = form.saving
    BY <1>3, <2>1, FormIsRow, RowIs
  <2>4. form' = Row(form.nr, form.base, d, form.saving, form.saving)
    BY <2>2, <2>3, FormIsRow, WithFlag
  <2>5. QED
    BY <1>3, <2>4, FormIsRow, RowIs
<1>5. EditorsTyped'
  BY <1>1, <1>3, <1>4 DEF EditorsInv, EditorsTyped
<1>6. FormsKept'
  BY <1>1, <1>3, <1>4 DEF EditorsInv, FormsKept
<1>7. CallsKept'
  BY <1>1, <1>4 DEF EditorsInv, CallsKept
<1>8. QED
  BY <1>5, <1>6, <1>7 DEF EditorsInv

LEMMA SubmitKeeps ==
    ASSUME EditorsInv, Forms!Submit
    PROVE  EditorsInv'
<1> DEFINE c == [nr |-> form.nr, page |-> place, sent |-> form.draft, at |-> "asked"]
<1>1. /\ form.nr # 0 /\ Forms!CheckDraft(place, form.draft)
      /\ calls' = calls \cup {c} /\ form' = [form EXCEPT !.saving = TRUE, !.touched = FALSE]
      /\ UNCHANGED <<place, question, stored, gone, forms>>
  BY DEF Forms!Submit, Forms!CanSave
<1>2. c.nr = form.nr /\ c.page = place /\ c.sent = form.draft /\ c.at = "asked"
  OBVIOUS
<1>3. place \in EditorPages /\ form.nr \in Nat /\ 0 < form.nr /\ form.nr <= forms
      /\ form.draft \in Text
  BY <1>1, FormIsRow DEF EditorsInv, EditorsTyped, Places
<1>4. c \in [nr : Nat, page : EditorPages, sent : Text,
             at : {"asked", "stored", "refused", "failed"}]
  BY <1>3
<1> HIDE DEF c
<1>5. form' \in FormRow /\ form'.nr = form.nr /\ form'.base = form.base
      /\ form'.draft = form.draft /\ form'.touched = FALSE
  <2> DEFINE yes == TRUE
             no == FALSE
             e == [form EXCEPT !.saving = yes]
  <2>1. yes \in BOOLEAN /\ no \in BOOLEAN /\ no = FALSE
    OBVIOUS
  <2>2. form' = [e EXCEPT !.touched = no]
    BY <1>1, Zenon
  <2> HIDE DEF yes, no
  <2>3. e = Row(form.nr, form.base, form.draft, yes, form.touched)
    BY <2>1, FormIsRow, WithFlag
  <2> HIDE DEF e
  <2>4. e \in FormRow /\ e.nr = form.nr /\ e.base = form.base /\ e.draft = form.draft
        /\ e.saving = yes
    BY <2>1, <2>3, FormIsRow, RowIs
  <2>5. form' = Row(form.nr, form.base, form.draft, yes, no)
    BY <2>1, <2>2, <2>4, WithFlag
  <2>6. QED
    BY <2>1, <2>5, FormIsRow, RowIs
<1>6. EditorsTyped'
  BY <1>1, <1>4, <1>5 DEF EditorsInv, EditorsTyped
<1>7. FormsKept'
  BY <1>1, <1>5 DEF EditorsInv, FormsKept
<1>8. CallsKept'
  BY <1>1, <1>2, <1>3, <1>5 DEF EditorsInv, FormsKept, CallsKept
<1>9. QED
  BY <1>6, <1>7, <1>8 DEF EditorsInv

\* The form lets through what the controllers accept.
LEMMA RulesAgree ==
    ASSUME NEW c, Forms!CheckDraft(c.page, c.sent), c.page \notin gone
    PROVE  Forms!Accepted(c)
<1>1. c.page = <<"repository", "new">> => c.sent.extra
  BY DEF Forms!CheckDraft, Forms!RepositoryRules, Forms!IsNew
<1>2. c.page = <<"user", "new">> => c.sent.extra
  BY DEF Forms!CheckDraft, Forms!UserRules, Forms!IsNew
<1>3. QED
  BY <1>1, <1>2 DEF Forms!Accepted, Forms!CheckDraft, Forms!CreateRepository, Forms!CreateUser

LEMMA ServeKeeps ==
    ASSUME EditorsInv, NEW c \in calls, Forms!Serve(c)
    PROVE  EditorsInv'
<1>1. UNCHANGED <<place, form, question, gone, forms>>
  BY DEF Forms!Serve
<1>2. PICK at \in {"stored", "refused", "failed"} :
          /\ calls' = (calls \ {c}) \cup {[c EXCEPT !.at = at]}
          /\ at = "refused" => ~Forms!Accepted(c)
          /\ IF at = "stored" THEN stored' = [stored EXCEPT ![c.page] = @ \cup {Forms!StoredDraft(c.sent)}]
             ELSE stored' = stored
  BY DEF Forms!Serve
<1>3. c \in [nr : Nat, page : EditorPages, sent : Text,
             at : {"asked", "stored", "refused", "failed"}]
  BY DEF EditorsInv, EditorsTyped
<1> DEFINE b == [c EXCEPT !.at = at]
           d == Forms!StoredDraft(c.sent)
<1>4. b \in [nr : Nat, page : EditorPages, sent : Text,
             at : {"asked", "stored", "refused", "failed"}]
      /\ b.nr = c.nr /\ b.page = c.page /\ b.sent = c.sent /\ b.at = at
  BY <1>3
<1>5. d \in Text /\ d.text = c.sent.text /\ d.at = c.sent.at
  BY <1>3 DEF Forms!StoredDraft, Text
<1>6. calls' = (calls \ {c}) \cup {b}
      /\ IF at = "stored" THEN stored' = [stored EXCEPT ![c.page] = @ \cup {d}]
         ELSE stored' = stored
  BY <1>2
<1> HIDE DEF b, d
<1>7. \A p \in EditorPages :
          stored'[p] = IF at = "stored" /\ p = c.page THEN stored[p] \cup {d} ELSE stored[p]
  BY <1>3, <1>6 DEF EditorsInv, EditorsTyped
<1>8. \A p \in EditorPages : stored[p] \subseteq stored'[p]
  BY <1>7
<1>9. EditorsTyped'
  <2>1. stored' \in [EditorPages -> SUBSET Text]
    BY <1>3, <1>5, <1>6 DEF EditorsInv, EditorsTyped
  <2>2. QED
    BY <1>1, <1>4, <1>6, <2>1 DEF EditorsInv, EditorsTyped
<1>10. Rules(c.page).keyed => c.sent.at = c.page
  BY DEF EditorsInv, CallsKept
<1>11. FormsKept'
  <2>1. \A p \in EditorPages : Rules(p).keyed => \A x \in stored'[p] : x.at = p
    <3>1. \A p \in EditorPages : Rules(p).keyed => \A x \in stored[p] : x.at = p
      BY DEF EditorsInv, FormsKept
    <3>2. Rules(c.page).keyed => d.at = c.page
      BY <1>5, <1>10
    <3>3. \A p \in EditorPages : \A x \in stored'[p] : x \in stored[p] \/ (x = d /\ p = c.page)
      BY <1>7
    <3>4. QED
      BY <3>1, <3>2, <3>3
  <2>2. form.nr # 0 =>
          /\ \E p \in EditorPages : /\ p[1] = place[1] /\ (Rules(place).keyed => p = place)
                                    /\ \E x \in stored'[p] : x.text = form.base.text
          /\ Rules(place).keyed => form.draft.at = place
          /\ form.touched => ~Rules(place).locked
    BY <1>8 DEF EditorsInv, FormsKept
  <2>3. QED
    BY <1>1, <2>1, <2>2 DEF FormsKept
<1>12. CallsKept'
  <2>1. at = "refused" => c.page \in gone
    <3>1. Forms!CheckDraft(c.page, c.sent)
      BY DEF EditorsInv, CallsKept
    <3>2. QED
      BY <1>2, <3>1, RulesAgree
  <2>2. at = "stored" => \E x \in stored'[c.page] : x.text = c.sent.text
    BY <1>3, <1>5, <1>7
  <2>3. \A x \in calls : x.page \in EditorPages
    BY DEF EditorsInv, EditorsTyped
  <2>4. QED
    BY <1>1, <1>4, <1>6, <1>8, <2>1, <2>2, <2>3 DEF EditorsInv, CallsKept
<1>13. QED
  BY <1>9, <1>11, <1>12 DEF EditorsInv

\* What the form makes of the answer to its save.
LEMMA SettledIs ==
    ASSUME EditorsInv, NEW c \in calls, NEW ok \in BOOLEAN
    PROVE  LET saved == Forms!Rebased(c)
           IN  /\ saved \in Text /\ saved.text = c.sent.text /\ saved.at = c.sent.at
               /\ ~ok => Forms!Settled(c, ok) = Row(form.nr, form.base, form.draft, FALSE, form.touched)
               /\ ok => Forms!Settled(c, ok) =
                          Row(form.nr, saved, IF form.touched THEN form.draft ELSE saved, FALSE,
                              form.touched)
<1> DEFINE no == FALSE
           saved == Forms!Rebased(c)
           draft0 == IF form.touched THEN form.draft ELSE saved
           e == [form EXCEPT !.saving = no]
           f == [e EXCEPT !.base = saved]
<1>1. saved \in Text /\ saved.text = c.sent.text /\ saved.at = c.sent.at
  <2>1. c.sent \in Text
    BY DEF EditorsInv, EditorsTyped
  <2>2. QED
    BY <2>1 DEF Forms!Rebased, Forms!StoredDraft, Text
<1>2. ~ok => Forms!Settled(c, ok) = e
  BY DEF Forms!Settled
<1>3. ok => Forms!Settled(c, ok) = [f EXCEPT !.draft = draft0]
  BY Zenon DEF Forms!Settled
<1>4. draft0 \in Text
  BY <1>1, FormIsRow
<1>5. no \in BOOLEAN
  OBVIOUS
<1> HIDE DEF no, saved, draft0
<1>6. e = Row(form.nr, form.base, form.draft, no, form.touched)
  BY <1>5, FormIsRow, WithFlag
<1> HIDE DEF e
<1>7. e \in FormRow /\ e.nr = form.nr /\ e.draft = form.draft /\ e.saving = no
      /\ e.touched = form.touched
  BY <1>5, <1>6, FormIsRow, RowIs
<1>8. f = Row(form.nr, saved, form.draft, no, form.touched)
  <2>1. f = Row(e.nr, saved, e.draft, e.saving, e.touched)
    BY <1>1, <1>7, WithText
  <2>2. QED
    BY <1>7, <2>1
<1> HIDE DEF f
<1>9. f \in FormRow /\ f.nr = form.nr /\ f.base = saved /\ f.saving = no
      /\ f.touched = form.touched
  BY <1>5, <1>1, <1>8, FormIsRow, RowIs
<1>10. [f EXCEPT !.draft = draft0] = Row(form.nr, saved, draft0, no, form.touched)
  BY <1>4, <1>9, WithText
<1>11. QED
  BY <1>1, <1>2, <1>3, <1>6, <1>10 DEF no, saved, draft0

LEMMA SettledKeeps ==
    ASSUME EditorsInv, NEW c \in calls, NEW ok \in BOOLEAN, ok => c.at = "stored",
           form.nr = c.nr, form' = Forms!Settled(c, ok), calls' = calls \ {c},
           UNCHANGED <<place, question, forms, stored, gone>>
    PROVE  EditorsInv' /\ form'.nr = form.nr /\ (form.touched => form'.draft = form.draft)
<1> DEFINE saved == Forms!Rebased(c)
           kept == IF form.touched THEN form.draft ELSE saved
           no == FALSE
<1>1. saved \in Text /\ saved.text = c.sent.text /\ saved.at = c.sent.at
  BY SettledIs
<1>2. IF ok THEN form' = Row(form.nr, saved, kept, no, form.touched)
      ELSE form' = Row(form.nr, form.base, form.draft, no, form.touched)
  BY SettledIs
<1>3. kept = IF form.touched THEN form.draft ELSE saved
  OBVIOUS
<1>0. /\ kept \in Text /\ no \in BOOLEAN /\ saved \in Text
      /\ form.nr \in Nat /\ form.base \in Text /\ form.draft \in Text /\ form.touched \in BOOLEAN
  BY <1>1, FormIsRow
<1> HIDE DEF saved, kept, no
<1>4. form' \in FormRow /\ form'.nr = form.nr /\ form'.touched = form.touched
      /\ (ok => form'.base = saved /\ form'.draft = kept)
      /\ (~ok => form'.base = form.base /\ form'.draft = form.draft)
  <2>1. CASE ok
    <3>1. form' = Row(form.nr, saved, kept, no, form.touched)
      BY <1>2, <2>1
    <3> DEFINE row == Row(form.nr, saved, kept, no, form.touched)
    <3>2. row = Row(form.nr, saved, kept, no, form.touched)
      OBVIOUS
    <3>3. form' = row
      BY <3>1
    <3> HIDE DEF row
    <3>4. row \in FormRow /\ row.nr = form.nr /\ row.base = saved
          /\ row.draft = kept
      BY ONLY <1>0, <3>2, RowIs
    <3>5. row.touched = form.touched
      BY ONLY <1>0, <3>2, RowIs
    <3>6. QED
      BY <2>1, <3>3, <3>4, <3>5
  <2>2. CASE ~ok
    <3>1. form' = Row(form.nr, form.base, form.draft, no, form.touched)
      BY <1>2, <2>2
    <3>2. form \in FormRow
      BY FormIsRow
    <3>3. form' \in FormRow /\ form'.nr = form.nr /\ form'.base = form.base
          /\ form'.draft = form.draft
      BY <1>0, <3>1, <3>2, RowOf
    <3>4. form'.touched = form.touched
      BY <1>0, <3>1, <3>2, RowOf
    <3>5. QED
      BY <2>2, <3>3, <3>4
  <2>3. QED
    BY <2>1, <2>2
<1>5. /\ c.page \in EditorPages /\ c.page[1] = place[1] /\ (Rules(place).keyed => c.page = place)
      /\ (Rules(c.page).keyed => c.sent.at = c.page) /\ form.nr # 0
      /\ (c.at = "stored" => \E d \in stored[c.page] : d.text = c.sent.text)
  BY DEF EditorsInv, EditorsTyped, CallsKept
<1>6. EditorsTyped'
  BY <1>4, <1>5 DEF EditorsInv, EditorsTyped
<1>7. FormsKept'
  <2>1. CASE ok
    <3>1. Rules(place).keyed => form'.draft.at = place
      <4>1. Rules(place).keyed => form.draft.at = place
        BY <1>5 DEF EditorsInv, FormsKept
      <4>2. Rules(place).keyed => saved.at = place
        BY <1>1, <1>5
      <4>3. form'.draft = IF form.touched THEN form.draft ELSE saved
        BY <1>3, <1>4, <2>1
      <4>4. QED
        BY <4>1, <4>2, <4>3
    <3>2. \E p \in EditorPages : /\ p[1] = place[1] /\ (Rules(place).keyed => p = place)
                                 /\ \E d \in stored[p] : d.text = form'.base.text
      BY <1>1, <1>4, <1>5, <2>1
    <3>3. QED
      BY <1>4, <1>5, <3>1, <3>2 DEF EditorsInv, FormsKept
  <2>2. CASE ~ok
    BY <1>4, <1>5, <2>2 DEF EditorsInv, FormsKept
  <2>3. QED
    BY <2>1, <2>2
<1>8. CallsKept'
  BY <1>4 DEF EditorsInv, CallsKept
<1>9. QED
  BY <1>3, <1>4, <1>6, <1>7, <1>8 DEF EditorsInv

\* The answer to a save: to the form it came from, or to whatever is open by then.
LEMMA AnsweredSaveKeeps ==
    ASSUME EditorsInv, NEW c \in calls, NEW ok \in BOOLEAN, Forms!Answered(c, ok)
    PROVE  EditorsInv'
<1>1. calls' = calls \ {c} /\ calls' \subseteq calls /\ UNCHANGED <<stored, gone>>
      /\ (ok => c.at = "stored")
  BY DEF Forms!Answered
<1>2. Forms!Away \in Places /\ Forms!Reached(Forms!Away) \in Places /\ question.to \in Places
  BY DEF Places, Forms!Reached, EditorsInv, EditorsTyped
<1>3. CASE /\ form.nr = c.nr /\ form' = Forms!Settled(c, ok)
           /\ UNCHANGED <<place, question, forms>>
  BY <1>1, <1>3, SettledKeeps
<1>4. CASE Forms!Show(Forms!Away) /\ UNCHANGED question
  BY <1>1, <1>2, <1>4, ShowKeeps
<1>5. CASE UNCHANGED <<place, form, question, forms>>
  BY <1>1, <1>2, <1>5, StaysKeeps
<1>6. CASE Forms!Leave(Forms!Away)
  BY <1>1, <1>2, <1>6, LeaveKeeps
<1>7. CASE Forms!LeaveLate(c)
  BY <1>4, <1>5, <1>6, <1>7 DEF Forms!LeaveLate
<1>8. QED
  BY <1>3, <1>4, <1>5, <1>7 DEF Forms!Answered

LEMMA StepEditors == EditorsInv /\ Forms!Next => EditorsInv'
<1> SUFFICES ASSUME EditorsInv, Forms!Next PROVE EditorsInv'
  OBVIOUS
<1>1. ASSUME NEW to \in EditorPages \cup {Forms!Away}, Forms!Navigate(to) PROVE EditorsInv'
  BY <1>1, LeaveKeeps DEF Forms!Navigate, Places
<1>2. ASSUME NEW discard \in BOOLEAN, Forms!Answer(discard) PROVE EditorsInv'
  BY <1>2, AnswerQuestionKeeps
<1>3. ASSUME NEW p \in EditorPages, Forms!Gone(p) PROVE EditorsInv'
  BY <1>3, GoneKeeps
<1>4. ASSUME NEW t \in Forms!Typings, Forms!Type(t) PROVE EditorsInv'
  BY <1>4, TypeKeeps
<1>5. ASSUME NEW c \in calls, Forms!Serve(c) PROVE EditorsInv'
  BY <1>5, ServeKeeps
<1>6. ASSUME NEW c \in calls, NEW ok \in BOOLEAN, Forms!Answered(c, ok) PROVE EditorsInv'
  BY <1>6, AnsweredSaveKeeps
<1>7. QED
  BY <1>1, <1>2, <1>3, <1>4, <1>5, <1>6, SubmitKeeps DEF Forms!Next

LEMMA FormsFollow == EditorsInv => Forms!FormKept
<1> SUFFICES ASSUME EditorsInv PROVE Forms!FormKept
  OBVIOUS
<1>1. Forms!CleanIsStored
  <2> SUFFICES ASSUME form.nr # 0, ~Forms!IsDirty
               PROVE  \E p \in EditorPages :
                         /\ p[1] = place[1] /\ (Forms!Editor(place).keyed => p = place)
                         /\ \E d \in stored[p] : d.text = form.draft.text
    BY DEF Forms!CleanIsStored
  <2>1. form.draft.text = form.base.text
    BY DEF Forms!IsDirty, Forms!IsSameDraft
  <2>2. QED
    BY <2>1 DEF EditorsInv, FormsKept, Rules
<1>2. Forms!SavedWhereTyped
  BY DEF EditorsInv, FormsKept, Rules, Forms!SavedWhereTyped
<1>3. Forms!FormsAgree
  BY DEF EditorsInv, CallsKept, Forms!FormsAgree
<1>4. QED
  BY <1>1, <1>2, <1>3 DEF Forms!FormKept

-----------------------------------------------------------------------------
\* What is typed: another form has another number.
LEMMA ShownIsNew ==
    ASSUME EditorsInv, NEW to \in Places, Forms!Show(to)
    PROVE  form'.nr = form.nr => form' = form
<1>1. form.nr \in Nat /\ forms \in Nat /\ form.nr <= forms
      /\ (form.nr = 0 => form = Forms!NoForm)
  BY FormIsRow DEF EditorsInv, EditorsTyped
<1>2. CASE form' = Forms!NoForm
  <2>1. form'.nr = 0
    BY <1>2 DEF Forms!NoForm
  <2>2. QED
    BY <1>1, <1>2, <2>1
<1>3. CASE form' = form
  BY <1>3
<1>4. CASE form'.nr = forms + 1
  BY <1>1, <1>4
<1>5. form' = Forms!NoForm \/ form' = form \/ form'.nr = forms + 1
  BY DEF Forms!Show
<1>6. QED
  BY <1>2, <1>3, <1>4, <1>5

\* A way out that does not ask leaves no unsaved work, or a dialog.
LEMMA LeavesClean ==
    ASSUME EditorsInv, NEW to \in Places, Forms!Leave(to)
    PROVE  Forms!TypingKept
<1>1. Forms!Reached(to) \in Places
  BY DEF Forms!Reached, Places
<1>2. CASE Forms!ShouldBlock /\ UNCHANGED form
  BY <1>2 DEF Forms!TypingKept, Forms!AskedBeforeLost, Forms!TypedIsKept
<1>3. CASE ~Forms!ShouldBlock /\ Forms!Show(Forms!Reached(to))
  <2>1. Forms!TypedIsKept
    BY <1>1, <1>3, ShownIsNew DEF Forms!TypedIsKept
  <2>2. Forms!AskedBeforeLost
    BY <1>3 DEF Forms!ShouldBlock, Forms!AskedBeforeLost
  <2>3. QED
    BY <2>1, <2>2 DEF Forms!TypingKept
<1>4. QED
  BY <1>2, <1>3 DEF Forms!Leave

LEMMA StepTyping == EditorsInv /\ Forms!Next => Forms!TypingKept
<1> SUFFICES ASSUME EditorsInv, Forms!Next PROVE Forms!TypingKept
  OBVIOUS
<1> USE DEF Forms!TypingKept
<1>1. ASSUME NEW to \in EditorPages \cup {Forms!Away}, Forms!Navigate(to) PROVE Forms!TypingKept
  BY <1>1, LeavesClean DEF Forms!Navigate, Places
<1>2. ASSUME NEW discard \in BOOLEAN, Forms!Answer(discard) PROVE Forms!TypingKept
  <2>1. question # Forms!None /\ question' = Forms!None
    BY <1>2 DEF Forms!Answer
  <2>2. Forms!AskedBeforeLost
    BY <2>1 DEF Forms!AskedBeforeLost
  <2>3. Forms!Reached(question.to) \in Places
    BY DEF Forms!Reached, Places, EditorsInv, EditorsTyped
  <2>4. Forms!Show(Forms!Reached(question.to)) \/ form' = form
    BY <1>2 DEF Forms!Answer
  <2>5. Forms!TypedIsKept
    BY <2>3, <2>4, ShownIsNew DEF Forms!TypedIsKept
  <2>6. QED
    BY <2>2, <2>5
<1>3. ASSUME NEW p \in EditorPages, Forms!Gone(p) PROVE Forms!TypingKept
  <2>1. form' = form \/ (place = p /\ gone' = gone \cup {p} /\ form' = Forms!NoForm)
    BY <1>3 DEF Forms!Gone
  <2>2. form.nr = 0 => form = Forms!NoForm
    BY DEF EditorsInv, EditorsTyped
  <2>3. Forms!NoForm.nr = 0
    BY DEF Forms!NoForm
  <2>4. QED
    BY <2>1, <2>2, <2>3 DEF Forms!AskedBeforeLost, Forms!TypedIsKept
<1>4. ASSUME NEW t \in Forms!Typings, Forms!Type(t) PROVE Forms!TypingKept
  <2>1. form'.nr = form.nr /\ form'.saving = form.saving
    BY <1>4, FormIsRow DEF Forms!Type, FormRow
  <2>2. QED
    BY <2>1 DEF Forms!AskedBeforeLost, Forms!TypedIsKept
<1>5. CASE Forms!Submit
  <2>1. form' = [form EXCEPT !.saving = TRUE, !.touched = FALSE]
    BY <1>5 DEF Forms!Submit
  <2>2. form'.nr = form.nr /\ form'.draft = form.draft
    BY <2>1, FormIsRow DEF FormRow
  <2>3. QED
    BY <2>2 DEF Forms!AskedBeforeLost, Forms!TypedIsKept
<1>6. ASSUME NEW c \in calls, Forms!Serve(c) PROVE Forms!TypingKept
  BY <1>6 DEF Forms!Serve, Forms!AskedBeforeLost, Forms!TypedIsKept
<1>7. ASSUME NEW c \in calls, NEW ok \in BOOLEAN, Forms!Answered(c, ok) PROVE Forms!TypingKept
  <2>1. calls' = calls \ {c} /\ UNCHANGED <<stored, gone>> /\ (ok => c.at = "stored")
    BY <1>7 DEF Forms!Answered
  <2>2. Forms!Away \in Places
    BY DEF Places
  <2>3. CASE /\ form.nr = c.nr /\ form' = Forms!Settled(c, ok)
             /\ UNCHANGED <<place, question, forms>>
    BY <2>1, <2>3, SettledKeeps DEF Forms!AskedBeforeLost, Forms!TypedIsKept
  <2>4. CASE form.nr = c.nr /\ ok /\ Forms!Show(Forms!Away)
    <3>1. c \in calls \ calls' /\ c.nr = form.nr /\ c.at = "stored"
      BY <2>1, <2>4
    <3>2. form.nr # 0 /\ form.touched => ~Forms!Editor(place).locked
      BY DEF EditorsInv, FormsKept, Rules
    <3>3. Forms!AskedBeforeLost
      BY <3>1, <3>2 DEF Forms!AskedBeforeLost
    <3>4. Forms!TypedIsKept
      BY <2>2, <2>4, ShownIsNew DEF Forms!TypedIsKept
    <3>5. QED
      BY <3>3, <3>4
  <2>5. CASE UNCHANGED form
    BY <2>5 DEF Forms!AskedBeforeLost, Forms!TypedIsKept
  <2>6. CASE Forms!LeaveLate(c)
    <3>1. CASE place[1] = "user" /\ Forms!Show(Forms!Away)
      <4>1. Forms!TypedIsKept
        BY <2>2, <3>1, ShownIsNew DEF Forms!TypedIsKept
      <4>2. form.nr # 0 => ~Forms!Editor(place).guarded
        BY <3>1, RulesOf DEF EditorsInv, EditorsTyped, Places, Rules
      <4>3. QED
        BY <4>1, <4>2 DEF Forms!AskedBeforeLost
    <3>2. CASE Forms!Leave(Forms!Away)
      BY <2>2, <3>2, LeavesClean
    <3>3. QED
      BY <2>5, <2>6, <3>1, <3>2 DEF Forms!LeaveLate
  <2>7. QED
    BY <1>7, <2>3, <2>4, <2>5, <2>6 DEF Forms!Answered
<1>8. QED
  BY <1>1, <1>2, <1>3, <1>4, <1>5, <1>6, <1>7 DEF Forms!Next

\* EditorsKept: whatever is opened, typed, saved, answered late and deleted elsewhere,
\* a form without changes shows what its entity held, an entity holds what was typed in a
\* form of it, no form lets through what is refused for what it says, and unsaved work is
\* dropped only by the answer to the question or for one of the reasons given.
THEOREM EditorsKeepWhatIsTyped == MCSpec => EditorsKept
<1> DEFINE Inv == part = "editors" => EditorsInv
           all == <<part, vars, cacheVars, secretsVars, formVars, restoreVars>>
<1>1. MCInit => Inv
  BY InitEditors DEF MCInit
<1>2. Inv /\ [MCNext]_all => Inv'
  <2> SUFFICES ASSUME Inv, [MCNext]_all, part' = "editors"
               PROVE  EditorsInv'
    OBVIOUS
  <2>1. CASE part = "editors" /\ Forms!Next
    BY <2>1, StepEditors
  <2>2. CASE UNCHANGED <<part, formVars>>
    <3>1. EditorsInv /\ UNCHANGED formVars
      BY <2>2
    <3>2. question'.to \in Places /\ calls' \subseteq calls
      BY <3>1 DEF formVars, EditorsInv, EditorsTyped
    <3>3. QED
      BY <3>1, <3>2, StaysKeeps DEF formVars
  <2>3. QED
    BY <2>1, <2>2 DEF MCNext
<1>3. Inv => (part = "editors" => Forms!FormKept)
  BY FormsFollow
<1>4. Inv /\ [MCNext]_all => [part = "editors" => Forms!TypingKept]_formVars
  <2> SUFFICES ASSUME Inv, [MCNext]_all, part = "editors", ~UNCHANGED formVars
               PROVE  Forms!TypingKept
    OBVIOUS
  <2>1. Forms!Next
    BY DEF MCNext
  <2>2. QED
    BY <2>1, StepTyping
<1>5. QED
  BY <1>1, <1>2, <1>3, <1>4, PTL DEF MCSpec, EditorsKept
-----------------------------------------------------------------------------
(***************************************************************************)
(* Secrets and their key (Secrets).                                        *)
(***************************************************************************)
KeyFile == [key : Nat, parses : BOOLEAN]
Stages == {"down", "generated", "validated", "migrating", "rebuilding", "protected", "up"}

SecretsTyped ==
    /\ file \in KeyFile /\ key \in Nat /\ made \in Nat /\ hashes \in Nat /\ layers \in Seq(Nat)
    /\ stage \in Stages

\* A server that can write the file writes back the key that is in it; one whose key is
\* saved has the file's.
KeyFollowsFile ==
    stage # "down" =>
        /\ key # 0
        /\ ~torn /\ ~edited =>
             /\ parsed /\ file.key # 0 => key = file.key
             /\ ~unsaved => key = file.key

\* What was encrypted once is under the file's key.
UnderTheKey == held /\ Len(layers) = 1 /\ ~torn /\ ~edited => layers = <<file.key>> /\ file.key # 0

\* Migration 18 is on record, or about to be, only once it went through.
Protected ==
    /\ ~held => layers = <<>>
    /\ stage = "up" => logged
    /\ logged \/ stage = "protected" => hashes >= 1 /\ (held => layers # <<>>)

SecretsInv == SecretsTyped /\ KeyFollowsFile /\ UnderTheKey /\ Protected

LEMMA InitSecrets == Config!Init => SecretsInv
<1> SUFFICES ASSUME Config!Init PROVE SecretsInv
  OBVIOUS
<1>1. SecretsTyped
  <2>1. file \in KeyFile
    <3> DEFINE yes == TRUE
    <3>1. yes \in BOOLEAN /\ file = [key |-> 0, parses |-> yes]
      BY DEF Config!Init
    <3> HIDE DEF yes
    <3>2. QED
      BY <3>1 DEF KeyFile
  <2>2. layers \in Seq(Nat)
    BY DEF Config!Init
  <2>3. key \in Nat /\ made \in Nat /\ hashes \in Nat /\ stage \in Stages
    BY DEF Config!Init, Stages
  <2>4. QED
    BY <2>1, <2>2, <2>3 DEF SecretsTyped
<1>2. KeyFollowsFile /\ UnderTheKey /\ Protected
  BY DEF Config!Init, KeyFollowsFile, UnderTheKey, Protected
<1>3. QED
  BY <1>1, <1>2 DEF SecretsInv

LEMMA LoadKeeps == SecretsInv /\ Config!Load => SecretsInv'
<1> SUFFICES ASSUME SecretsInv, Config!Load PROVE SecretsInv'
  OBVIOUS
<1>1. stage = "down" /\ parsed' = file.parses
      /\ UNCHANGED <<file, torn, edited, rebuild, logged, held, layers, hashes>>
  BY DEF Config!Load, Config!database
<1>2. \/ file.key # 0 /\ key' = file.key /\ unsaved' = FALSE /\ stage' = "validated" /\ UNCHANGED made
      \/ /\ file.key = 0 \/ ~file.parses
         /\ made' = made + 1 /\ key' = made' /\ unsaved' = TRUE /\ stage' = "generated"
  BY DEF Config!Load, Config!Generate
<1>3. SecretsTyped'
  BY <1>1, <1>2 DEF SecretsInv, SecretsTyped, KeyFile, Stages
<1>4. KeyFollowsFile'
  BY <1>1, <1>2 DEF KeyFollowsFile, SecretsInv, SecretsTyped
<1>5. UnderTheKey' /\ Protected'
  BY <1>1, <1>2 DEF SecretsInv, UnderTheKey, Protected
<1>6. QED
  BY <1>3, <1>4, <1>5 DEF SecretsInv

\* A write of config.yaml, complete, refused or cut short.
LEMMA SaveConfigKeeps ==
    ASSUME SecretsInv, NEW then \in Stages \ {"protected"}, Config!SaveConfig(then),
           stage # "down", then = "up" => logged,
           UNCHANGED <<key, parsed, rebuild, logged, held, layers, hashes, made, edited>>
    PROVE  SecretsInv'
<1>1. stage' \in {then, "down"}
  BY DEF Config!SaveConfig
<1>2. /\ file' \in KeyFile
      /\ file'.key = file.key \/ torn' \/ (parsed /\ file'.key = key)
  <2>1. CASE file' = [key |-> key, parses |-> TRUE] /\ parsed
    BY <2>1 DEF SecretsInv, SecretsTyped, KeyFile
  <2>2. CASE file' = file
    BY <2>2 DEF SecretsInv, SecretsTyped
  <2>3. CASE file' = [key |-> 0, parses |-> TRUE] /\ torn'
    BY <2>3 DEF KeyFile
  <2>4. QED
    BY <2>1, <2>2, <2>3 DEF Config!SaveConfig, Config!CanWrite
<1>3. /\ torn => torn'
      /\ ~torn' /\ ~unsaved' => file'.key = key \/ (~unsaved /\ file' = file)
  <2>1. CASE file' = [key |-> key, parses |-> TRUE] /\ UNCHANGED torn
    BY <2>1
  <2>2. CASE UNCHANGED <<file, unsaved, torn>>
    BY <2>2
  <2>3. CASE torn'
    BY <2>3
  <2>4. QED
    BY <2>1, <2>2, <2>3 DEF Config!SaveConfig
<1>4. SecretsTyped'
  BY <1>1, <1>2 DEF SecretsInv, SecretsTyped, Stages
<1>5. ~torn' /\ ~edited /\ file.key # 0 => file'.key = file.key
  BY <1>2, <1>3 DEF SecretsInv, KeyFollowsFile
<1>6. KeyFollowsFile'
  <2> SUFFICES ASSUME ~torn', ~edited', stage' # "down"
               PROVE  /\ parsed /\ file'.key # 0 => key = file'.key
                      /\ ~unsaved' => key = file'.key
    BY DEF SecretsInv, KeyFollowsFile
  <2>1. /\ parsed /\ file.key # 0 => key = file.key
        /\ ~unsaved => key = file.key
    BY <1>3 DEF SecretsInv, KeyFollowsFile
  <2>2. parsed /\ file'.key # 0 => key = file'.key
    BY <1>2, <2>1
  <2>3. ~unsaved' => key = file'.key
    BY <1>3, <2>1
  <2>4. QED
    BY <2>2, <2>3
<1>7. UnderTheKey'
  BY <1>3, <1>5 DEF SecretsInv, UnderTheKey
<1>8. Protected'
  BY <1>1 DEF SecretsInv, Protected
<1>9. QED
  BY <1>4, <1>6, <1>7, <1>8 DEF SecretsInv

LEMMA WriteKeeps ==
    SecretsInv /\ (Config!WriteKey \/ Config!WriteBack \/ Config!UpdateConfig) => SecretsInv'
<1>1. ASSUME SecretsInv, Config!WriteKey PROVE SecretsInv'
  BY <1>1, SaveConfigKeeps DEF Config!WriteKey, Config!database, Stages
<1>2. ASSUME SecretsInv, Config!WriteBack PROVE SecretsInv'
  BY <1>2, SaveConfigKeeps DEF Config!WriteBack, Config!database, Stages
<1>3. ASSUME SecretsInv, Config!UpdateConfig PROVE SecretsInv'
  BY <1>3, SaveConfigKeeps DEF Config!UpdateConfig, Config!database, Stages, SecretsInv, Protected
<1>4. QED
  BY <1>1, <1>2, <1>3

\* Only the stage changes, and it is not one that migration 18 leads to.
LEMMA StageKeeps ==
    ASSUME SecretsInv, stage' \in Stages \ {"up", "protected"}, stage' # "down" => stage # "down",
           UNCHANGED <<file, key, unsaved, parsed, logged, held, layers, hashes, made, torn, edited>>
    PROVE  SecretsInv'
<1>1. SecretsTyped'
  BY DEF SecretsInv, SecretsTyped
<1>2. KeyFollowsFile' /\ UnderTheKey' /\ Protected'
  BY DEF SecretsInv, KeyFollowsFile, UnderTheKey, Protected
<1>3. QED
  BY <1>1, <1>2 DEF SecretsInv

LEMMA RebuildKeeps == SecretsInv /\ (Config!Rebuild \/ Config!Rebuilt \/ Config!Kill) => SecretsInv'
<1>1. ASSUME SecretsInv, Config!Rebuild PROVE SecretsInv'
  BY <1>1, StageKeeps
     DEF Config!Rebuild, Config!Refuse, Config!database, Config!memory, Config!past, Stages
<1>2. ASSUME SecretsInv, Config!Rebuilt PROVE SecretsInv'
  BY <1>2, StageKeeps DEF Config!Rebuilt, Config!memory, Config!past, Stages
<1>3. ASSUME SecretsInv, Config!Kill PROVE SecretsInv'
  BY <1>3, StageKeeps DEF Config!Kill, Config!memory, Config!database, Stages
<1>4. QED
  BY <1>1, <1>2, <1>3

LEMMA ProtectSecretsKeeps == SecretsInv /\ Config!ProtectSecrets => SecretsInv'
<1> SUFFICES ASSUME SecretsInv, Config!ProtectSecrets PROVE SecretsInv'
  OBVIOUS
<1>1. stage = "migrating" /\ UNCHANGED <<file, key, unsaved, parsed, made, torn, edited>>
  BY DEF Config!ProtectSecrets, Config!memory, Config!past
<1>2. CASE Config!Refuse
  BY <1>1, <1>2, StageKeeps DEF Config!Refuse, Config!database, Stages
<1>3. CASE /\ held => ~unsaved
           /\ layers' = IF held THEN Append(layers, key) ELSE layers
           /\ hashes' = hashes + 1 /\ stage' = "protected" /\ UNCHANGED <<logged, held>>
  <2>1. layers \in Seq(Nat) /\ key \in Nat
    BY DEF SecretsInv, SecretsTyped
  <2>2. held => layers' \in Seq(Nat) /\ Len(layers') = Len(layers) + 1 /\ layers'[Len(layers')] = key
    BY <1>3, <2>1
  <2>3. held /\ Len(layers') = 1 => layers' = <<key>>
    BY <2>1, <2>2
  <2>4. held => layers' # <<>>
    BY <2>1, <2>2
  <2>5. SecretsTyped'
    BY <1>1, <1>3, <2>1, <2>2 DEF SecretsInv, SecretsTyped, Stages
  <2>6. KeyFollowsFile'
    BY <1>1, <1>3 DEF SecretsInv, KeyFollowsFile
  <2>7. UnderTheKey'
    BY <1>1, <1>3, <2>3 DEF SecretsInv, KeyFollowsFile, UnderTheKey
  <2>8. Protected'
    BY <1>3, <2>4 DEF SecretsInv, SecretsTyped, Protected
  <2>9. QED
    BY <2>5, <2>6, <2>7, <2>8 DEF SecretsInv
<1>4. QED
  BY <1>2, <1>3 DEF Config!ProtectSecrets, Config!MayEncrypt

LEMMA UpKeeps == SecretsInv /\ Config!Up => SecretsInv'
<1> SUFFICES ASSUME SecretsInv, Config!Up PROVE SecretsInv'
  OBVIOUS
<1>1. /\ stage # "down" /\ stage' = "up" /\ logged' = TRUE /\ (stage = "protected" \/ logged)
      /\ UNCHANGED <<file, key, unsaved, parsed, held, layers, hashes, made, torn, edited>>
  BY DEF Config!Up, Config!memory, Config!past
<1>2. SecretsTyped'
  BY <1>1 DEF SecretsInv, SecretsTyped, Stages
<1>3. KeyFollowsFile' /\ UnderTheKey' /\ Protected'
  BY <1>1 DEF SecretsInv, KeyFollowsFile, UnderTheKey, Protected
<1>4. QED
  BY <1>2, <1>3 DEF SecretsInv

LEMMA EncryptSecretKeeps == SecretsInv /\ Config!EncryptSecret => SecretsInv'
<1> SUFFICES ASSUME SecretsInv, Config!EncryptSecret PROVE SecretsInv'
  OBVIOUS
<1>1. /\ stage = "up" /\ ~unsaved /\ held' = TRUE /\ layers' = <<key>>
      /\ UNCHANGED <<file, stage, key, unsaved, parsed, logged, hashes, made, torn, edited>>
  BY DEF Config!EncryptSecret, Config!MayEncrypt, Config!memory, Config!past
<1>2. SecretsTyped'
  BY <1>1 DEF SecretsInv, SecretsTyped
<1>3. KeyFollowsFile' /\ UnderTheKey' /\ Protected'
  BY <1>1 DEF SecretsInv, KeyFollowsFile, UnderTheKey, Protected
<1>4. QED
  BY <1>2, <1>3 DEF SecretsInv

LEMMA HashTokenKeeps == SecretsInv /\ Config!HashToken => SecretsInv'
<1> SUFFICES ASSUME SecretsInv, Config!HashToken PROVE SecretsInv'
  OBVIOUS
<1>1. /\ stage = "up" /\ hashes' = 1
      /\ UNCHANGED <<file, stage, key, unsaved, parsed, logged, held, layers, made, torn, edited>>
  BY DEF Config!HashToken, Config!memory, Config!past
<1>2. SecretsTyped'
  BY <1>1 DEF SecretsInv, SecretsTyped
<1>3. KeyFollowsFile' /\ UnderTheKey' /\ Protected'
  BY <1>1 DEF SecretsInv, KeyFollowsFile, UnderTheKey, Protected
<1>4. QED
  BY <1>2, <1>3 DEF SecretsInv

\* Who takes the key out of the file is on record; all else leaves it there.
LEMMA EditKeeps == SecretsInv /\ Config!Edit => SecretsInv'
<1> SUFFICES ASSUME SecretsInv, Config!Edit PROVE SecretsInv'
  OBVIOUS
<1>1. UNCHANGED <<stage, key, unsaved, parsed, logged, held, layers, hashes, made, torn>>
  BY DEF Config!Edit, Config!memory, Config!database
<1>2. file' \in KeyFile /\ (edited' \/ (UNCHANGED edited /\ file'.key = file.key))
  <2> DEFINE yes == ~file.parses
  <2>1. file \in KeyFile
    BY DEF SecretsInv, SecretsTyped
  <2>2. yes \in BOOLEAN
    OBVIOUS
  <2>3. CASE file' = [file EXCEPT !.parses = yes] /\ UNCHANGED edited
    <3> HIDE DEF yes
    <3>1. QED
      BY <2>1, <2>2, <2>3 DEF KeyFile
  <2>4. CASE file' = [file EXCEPT !.key = 0] /\ edited' = TRUE
    BY <2>1, <2>4 DEF KeyFile
  <2>5. CASE UNCHANGED <<file, edited>>
    BY <2>1, <2>5
  <2>6. QED
    BY <2>3, <2>4, <2>5 DEF Config!Edit
<1>3. SecretsTyped'
  BY <1>1, <1>2 DEF SecretsInv, SecretsTyped
<1>4. KeyFollowsFile' /\ UnderTheKey' /\ Protected'
  BY <1>1, <1>2 DEF SecretsInv, KeyFollowsFile, UnderTheKey, Protected
<1>5. QED
  BY <1>3, <1>4 DEF SecretsInv

\* SecretsStored: however often the server is killed between two of its steps or the file
\* cannot be written, and whatever is edited by hand, a stored secret is under the key of
\* config.yaml, but for a torn file, a key taken out of it and a migration that ran twice.
THEOREM SecretsCanBeRead == MCSpec => []SecretsStored
<1> DEFINE Inv == part = "secrets" => SecretsInv
           all == <<part, vars, cacheVars, secretsVars, formVars, restoreVars>>
<1>1. MCInit => Inv
  BY InitSecrets DEF MCInit
<1>2. Inv /\ [MCNext]_all => Inv'
  <2> SUFFICES ASSUME Inv, [MCNext]_all, part' = "secrets"
               PROVE  SecretsInv'
    OBVIOUS
  <2>1. CASE part = "secrets" /\ Config!Next
    BY <2>1, LoadKeeps, WriteKeeps, RebuildKeeps, ProtectSecretsKeeps, UpKeeps,
       EncryptSecretKeeps, HashTokenKeeps, EditKeeps DEF Config!Next
  <2>2. CASE UNCHANGED <<part, secretsVars>>
    <3>1. SecretsInv
      BY <2>2
    <3>2. SecretsTyped' /\ KeyFollowsFile' /\ UnderTheKey' /\ Protected'
      BY <2>2, <3>1
         DEF secretsVars, SecretsInv, SecretsTyped, KeyFollowsFile, UnderTheKey, Protected
    <3>3. QED
      BY <3>2 DEF SecretsInv
  <2>3. QED
    BY <2>1, <2>2 DEF MCNext
<1>3. Inv => SecretsStored
  <2> SUFFICES ASSUME SecretsInv PROVE Config!SecretsKept
    BY DEF SecretsStored
  <2>1. layers \in Seq(Nat) /\ hashes \in Nat
    BY DEF SecretsInv, SecretsTyped
  <2>2. layers # <<>> /\ ~Config!Twice => Len(layers) = 1
    BY <2>1 DEF Config!Twice
  <2>3. held /\ layers # <<>> /\ ~torn /\ ~edited /\ ~Config!Twice => layers = <<file.key>>
    BY <2>2 DEF SecretsInv, UnderTheKey
  <2>4. stage = "up" /\ held => layers # <<>>
    BY DEF SecretsInv, Protected
  <2>5. stage = "up" /\ ~Config!Twice => hashes = 1
    BY <2>1 DEF SecretsInv, Protected, Config!Twice
  <2>6. stage = "up" /\ held /\ key = file.key /\ ~torn /\ ~edited /\ ~Config!Twice
          => Config!DecryptSecret
    BY <2>3, <2>4 DEF Config!DecryptSecret
  <2>7. QED
    BY <2>3, <2>4, <2>5, <2>6 DEF Config!SecretsKept
<1>4. QED
  BY <1>1, <1>2, <1>3, PTL DEF MCSpec
-----------------------------------------------------------------------------
(***************************************************************************)
(* The lists of a dashboard (QueryCache).                                  *)
(***************************************************************************)
Pushed == [way : {"list", "row", "mark"}, of : SUBSET Nat]
OwnChange == [op : {"optimistic", "read again", "patch"}, before : SUBSET Nat,
              answer : {"none", "taken", "failed"}, of : Nat]

DataTyped == data = <<>> \/ \E d \in SUBSET Nat : data = <<d>>
ReadingTyped ==
    \/ reading = <<>> \/ reading = <<Lists!Sent>>
    \/ \E d \in SUBSET Lists!Seen(listNow) : reading = <<d>>
CallTyped == call = <<>> \/ \E c \in OwnChange : call = <<c>>

PushesTyped ==
    /\ pushes \in Seq(Pushed)
    /\ \A i \in DOMAIN pushes :
          pushes[i].way \in Lists!Ways[list] /\ pushes[i].of \subseteq Lists!Seen(listNow)

ListTyped ==
    /\ list \in DOMAIN Lists!Ways /\ listNow \in Nat /\ sock \in {"new", "open", "down"}
    /\ DataTyped /\ ReadingTyped /\ CallTyped /\ PushesTyped

\* A change that is on its way: on the socket, with what the next connection brings, or,
\* where this tab's own change is not shown before, in the answer to it.
CatchesUp == sock = "down" \/ (sock = "new" /\ Lists!PushedOnConnect)
Answered(n) ==
    call # <<>> /\ call[1].answer = "taken" /\ list # "clients" /\ call[1].of = n
Coming(n) == (\E i \in DOMAIN pushes : n \in pushes[i].of) \/ CatchesUp \/ Answered(n)
Covered(S) == \A n \in Lists!Seen(listNow) : n \in S \/ n \in overlooked \/ Coming(n)

\* What the entry shows misses no change that is not on its way, unless it is to be read;
\* nor does the answer of a read. A list that is pushed whole is never behind.
NothingMissed ==
    /\ data # <<>> => (marked /\ reading = <<>> /\ ~onPage) \/ reading # <<>> \/ Covered(data[1])
    /\ data # <<>> /\ list = "clients" => Covered(data[1])
    /\ reading # <<>> /\ reading # <<Lists!Sent>> => Covered(reading[1])

\* A whole list is followed by everything later.
ToldInOrder ==
    /\ sock # "open" => pushes = <<>>
    /\ \A i \in DOMAIN pushes : pushes[i].way = "list" =>
          \A n \in Lists!Seen(listNow) : \E j \in DOMAIN pushes : j >= i /\ n \in pushes[j].of

\* A change shown before it was made is this tab's, under way.
OwnIsUnderWay ==
    /\ data # <<>> => data[1] \subseteq Lists!Seen(listNow) \cup {Lists!Own}
    /\ data # <<>> /\ Lists!Own \in data[1] => call # <<>> /\ call[1].op = "optimistic"
    /\ call # <<>> =>
         /\ call[1].op \in Lists!Ops[list]
         /\ call[1].before \subseteq Lists!Seen(listNow)
         /\ call[1].answer = "taken" => call[1].of \in Lists!Seen(listNow)

ListInv == ListTyped /\ NothingMissed /\ ToldInOrder /\ OwnIsUnderWay

LEMMA SeenIs ==
    ASSUME NEW n \in Nat
    PROVE  /\ Lists!Seen(n) \subseteq Nat /\ Lists!Own \notin Lists!Seen(n)
           /\ Lists!Seen(n + 1) = Lists!Seen(n) \cup {n + 1}
           /\ n + 1 \in Lists!Seen(n + 1) /\ n + 1 # Lists!Own
           /\ Lists!Seen(0) = {}
  BY DEF Lists!Seen, Lists!Own

\* How lists are told of: whole or row by row, or by a mark.
LEMMA WaysAre ==
    ASSUME list \in DOMAIN Lists!Ways
    PROVE  /\ list = "clients" => Lists!Ways[list] = {"list", "row"}
           /\ "list" \in Lists!Ways[list] => "untold" \notin Lists!Ways[list]
           /\ Lists!Ways[list] \subseteq {"list", "row", "mark", "untold"}
           /\ Lists!Ops[list] \subseteq {"optimistic", "read again", "patch"}
           /\ "optimistic" \in Lists!Ops[list] => list = "clients"
  BY DEF Lists!Ways, Lists!Ops

LEMMA InitLists == MCInit /\ part = "lists" => ListInv
<1> SUFFICES ASSUME MCInit PROVE ListInv
  OBVIOUS
<1>1. /\ list \in DOMAIN Lists!Ways /\ listNow = 0 /\ data = <<>> /\ reading = <<>>
      /\ sock = "new" /\ pushes = <<>> /\ call = <<>>
  BY DEF MCInit, Lists!Init
<1>2. ListTyped
  BY <1>1 DEF ListTyped, DataTyped, ReadingTyped, CallTyped, PushesTyped
<1>3. NothingMissed /\ ToldInOrder /\ OwnIsUnderWay
  BY <1>1 DEF NothingMissed, ToldInOrder, OwnIsUnderWay
<1>4. QED
  BY <1>2, <1>3 DEF ListInv

\* What a step does to the entry: it misses nothing afterwards, and shows no change of this
\* tab's that it did not show before.
EntryStep ==
    /\ DataTyped' /\ ReadingTyped' /\ NothingMissed'
    /\ data' # <<>> =>
         /\ data'[1] \subseteq Lists!Seen(listNow) \cup {Lists!Own}
         /\ Lists!Own \in data'[1] => data # <<>> /\ Lists!Own \in data[1]

LEMMA SteadyKeeps ==
    ASSUME ListInv, EntryStep, UNCHANGED <<list, listNow, sock, pushes, call>>
    PROVE  ListInv'
<1>1. ListTyped'
  BY DEF ListInv, EntryStep, ListTyped, CallTyped, PushesTyped
<1>2. ToldInOrder'
  BY DEF ListInv, ToldInOrder
<1>3. OwnIsUnderWay'
  BY DEF ListInv, EntryStep, OwnIsUnderWay
<1>4. QED
  BY <1>1, <1>2, <1>3 DEF ListInv, EntryStep

LEMMA ComingStays ==
    ASSUME UNCHANGED <<list, sock, pushes, call>>
    PROVE  \A n : Coming(n)' <=> Coming(n)
  BY DEF Coming, CatchesUp, Answered, Lists!PushedOnConnect

LEMMA MountKeeps ==
    ASSUME ListInv, NEW old \in BOOLEAN, Lists!Mount(old) \/ Lists!Unmount
    PROVE  ListInv'
<1>1. UNCHANGED <<list, listNow, data, marked, sock, pushes, call, overlooked>>
  BY DEF Lists!Mount, Lists!Unmount
<1>2. \/ reading' = <<Lists!Sent>> /\ reading = <<>>
      \/ reading' = reading /\ (~onPage' \/ reading # <<>> \/ ~marked)
      \/ reading' = reading /\ onPage' /\ data = <<>>
  BY DEF Lists!Mount, Lists!Unmount
<1>3. \A n : Coming(n)' <=> Coming(n)
  BY <1>1, ComingStays
<1>4. DataTyped' /\ ReadingTyped'
  BY <1>1, <1>2 DEF ListInv, ListTyped, DataTyped, ReadingTyped
<1>5. NothingMissed'
  BY <1>1, <1>2, <1>3 DEF ListInv, NothingMissed, Covered
<1>6. EntryStep
  BY <1>1, <1>4, <1>5 DEF ListInv, OwnIsUnderWay, EntryStep
<1>7. QED
  BY <1>1, <1>6, SteadyKeeps

LEMMA ForgetKeeps == ListInv /\ Lists!Forget => ListInv'
<1> SUFFICES ASSUME ListInv, Lists!Forget PROVE ListInv'
  OBVIOUS
<1>1. data' = <<>> /\ reading = <<>>
      /\ UNCHANGED <<list, listNow, reading, sock, pushes, call, overlooked>>
  BY DEF Lists!Forget
<1>2. EntryStep
  BY <1>1 DEF DataTyped, ReadingTyped, NothingMissed, EntryStep
<1>3. QED
  BY <1>1, <1>2, SteadyKeeps

LEMMA AnswerKeeps == ListInv /\ Lists!Answer => ListInv'
<1> SUFFICES ASSUME ListInv, Lists!Answer PROVE ListInv'
  OBVIOUS
<1>1. reading # <<>> /\ reading' = <<Lists!Seen(listNow)>>
      /\ UNCHANGED <<list, listNow, data, marked, onPage, sock, pushes, call, overlooked>>
  BY DEF Lists!Answer
<1>2. \A n : Coming(n)' <=> Coming(n)
  BY <1>1, ComingStays
<1>3. reading' # <<>> /\ reading'[1] = Lists!Seen(listNow)
  BY <1>1
<1>4. DataTyped' /\ ReadingTyped'
  BY <1>1 DEF ListInv, ListTyped, DataTyped, ReadingTyped
<1>5. NothingMissed'
  BY <1>1, <1>2, <1>3 DEF ListInv, NothingMissed, Covered
<1>6. EntryStep
  BY <1>1, <1>4, <1>5 DEF ListInv, OwnIsUnderWay, EntryStep
<1>7. QED
  BY <1>1, <1>6, SteadyKeeps

\* The answer of a read goes over everything else, and brings what it holds.
LEMMA ArriveKeeps == ListInv /\ Lists!Arrive => ListInv'
<1> SUFFICES ASSUME ListInv, Lists!Arrive PROVE ListInv'
  OBVIOUS
<1>1. reading # <<>> /\ reading # <<Lists!Sent>>
      /\ data' = reading /\ reading' = <<>> /\ overlooked' = overlooked \ reading[1]
      /\ UNCHANGED <<list, listNow, onPage, sock, pushes, call>>
  BY DEF Lists!Arrive
<1>2. PICK d \in SUBSET Lists!Seen(listNow) : reading = <<d>>
  BY <1>1 DEF ListInv, ListTyped, ReadingTyped
<1>3. reading[1] = d /\ data' = <<d>> /\ data'[1] = d
  BY <1>1, <1>2
<1>4. \A n : Coming(n)' <=> Coming(n)
  BY <1>1, ComingStays
<1>5. Lists!Seen(listNow) \subseteq Nat /\ Lists!Own \notin Lists!Seen(listNow)
  BY SeenIs DEF ListInv, ListTyped
<1>6. DataTyped' /\ ReadingTyped'
  BY <1>1, <1>3, <1>5 DEF DataTyped, ReadingTyped
<1>7. Covered(d)
  BY <1>1, <1>3 DEF ListInv, NothingMissed
<1>8. \A n \in Lists!Seen(listNow) : n \in d \/ n \in overlooked' \/ Coming(n)'
  BY <1>1, <1>3, <1>4, <1>7 DEF Covered
<1>9. NothingMissed'
  BY <1>1, <1>3, <1>8 DEF NothingMissed, Covered
<1>10. EntryStep
  BY <1>3, <1>5, <1>6, <1>9 DEF EntryStep
<1>11. QED
  BY <1>1, <1>10, SteadyKeeps

LEMMA FailReadKeeps == ListInv /\ Lists!FailRead => ListInv'
<1> SUFFICES ASSUME ListInv, Lists!FailRead PROVE ListInv'
  OBVIOUS
<1>1. /\ reading' = <<>> /\ (data' = <<{}>> \/ data' = data)
      /\ overlooked' = overlooked \cup Lists!Seen(listNow)
      /\ UNCHANGED <<list, listNow, sock, pushes, call>>
  BY DEF Lists!FailRead, Lists!Overlooks
<1>2. DataTyped' /\ ReadingTyped'
  BY <1>1 DEF ListInv, ListTyped, DataTyped, ReadingTyped
<1>3. NothingMissed'
  BY <1>1 DEF NothingMissed, Covered
<1>4. EntryStep
  BY <1>1, <1>2, <1>3 DEF ListInv, OwnIsUnderWay, EntryStep
<1>5. QED
  BY <1>1, <1>4, SteadyKeeps

\* An entry that is patched has everything it had, and the changes.
LEMMA PatchKeeps ==
    ASSUME ListInv, NEW changes \in SUBSET Lists!Seen(listNow), Lists!Patch(changes),
           UNCHANGED <<list, listNow, onPage>>,
           \A n \in Lists!Seen(listNow) : Coming(n) => Coming(n)' \/ n \in changes
    PROVE  EntryStep
<1>1. changes \subseteq Nat /\ Lists!Own \notin changes
  BY SeenIs DEF ListInv, ListTyped
<1>2. reading' = reading
  BY DEF Lists!Patch
<1>3. overlooked \subseteq overlooked' /\ (reading # <<>> => changes \subseteq overlooked')
  BY DEF Lists!Patch, Lists!Overlooks
<1>4. ReadingTyped' /\ (reading' # <<>> /\ reading' # <<Lists!Sent>> => Covered(reading[1])')
  <2>1. ReadingTyped'
    BY <1>2 DEF ListInv, ListTyped, ReadingTyped
  <2>2. reading # <<>> /\ reading # <<Lists!Sent>> => Covered(reading[1])
    BY DEF ListInv, NothingMissed
  <2>3. QED
    BY <1>2, <1>3, <2>1, <2>2 DEF Covered
<1>5. CASE data = <<>>
  <2>1. data' = <<>>
    BY <1>5 DEF Lists!Patch
  <2>2. NothingMissed'
    BY <1>2, <1>4, <2>1 DEF NothingMissed
  <2>3. QED
    BY <1>4, <2>1, <2>2 DEF EntryStep, DataTyped
<1>6. CASE data # <<>>
  <2>1. PICK d \in SUBSET Nat : data = <<d>>
    BY <1>6 DEF ListInv, ListTyped, DataTyped
  <2>2. data[1] = d
    BY <2>1
  <2>3. data' = <<d \cup changes>>
    BY <1>6, <2>2 DEF Lists!Patch
  <2>4. data'[1] = d \cup changes
    BY <2>3
  <2>5. marked /\ reading = <<>> => Lists!Seen(listNow) \subseteq overlooked'
    BY <1>6 DEF Lists!Patch, Lists!Overlooks
  <2>6. DataTyped'
    BY <1>1, <2>3 DEF DataTyped
  <2>7. Covered(d) => Covered(d \cup changes)'
    BY <1>3 DEF Covered
  <2>8. NothingMissed'
    <3>1. reading = <<>> => Covered(d \cup changes)'
      <4>1. marked => Covered(d \cup changes)' \/ reading # <<>>
        BY <2>5 DEF Covered
      <4>2. ~marked /\ reading = <<>> => Covered(d)
        BY <1>6, <2>2 DEF ListInv, NothingMissed
      <4>3. QED
        BY <2>7, <4>1, <4>2
    <3>2. list = "clients" => Covered(d \cup changes)'
      BY <1>6, <2>2, <2>7 DEF ListInv, NothingMissed
    <3>3. Covered(data[1])' <=> Covered(d \cup changes)'
      BY <2>4 DEF Covered
    <3>4. QED
      BY <1>2, <1>4, <3>1, <3>2, <3>3 DEF NothingMissed
  <2>9. QED
    BY <1>1, <1>4, <1>6, <2>2, <2>4, <2>6, <2>8 DEF ListInv, OwnIsUnderWay, EntryStep
<1>7. QED
  BY <1>5, <1>6

\* A whole list that is told, with everything later on its way.
LEMMA ReplaceKeeps ==
    ASSUME ListInv, NEW changes \in SUBSET Lists!Seen(listNow), Lists!Replace(changes),
           UNCHANGED <<list, listNow, onPage>>,
           \A n \in Lists!Seen(listNow) : Coming(n)' \/ n \in changes
    PROVE  EntryStep
<1>1. changes \subseteq Nat /\ Lists!Own \notin changes
  BY SeenIs DEF ListInv, ListTyped
<1>2. data' = <<changes>> /\ reading' = reading
      /\ (reading # <<>> => changes \subseteq overlooked')
  BY DEF Lists!Replace, Lists!Overlooks
<1>3. data'[1] = changes
  BY <1>2
<1>4. DataTyped' /\ ReadingTyped'
  BY <1>1, <1>2 DEF ListInv, ListTyped, DataTyped, ReadingTyped
<1>5. NothingMissed'
  BY <1>2, <1>3 DEF NothingMissed, Covered
<1>6. QED
  BY <1>1, <1>3, <1>4, <1>5 DEF EntryStep

\* A mark: the entry is read at once, or when it is next shown, or after the read under way,
\* for which the changes count as overlooked.
LEMMA InvalidateKeeps ==
    ASSUME ListInv, NEW restarts \in BOOLEAN, NEW changes \in SUBSET Lists!Seen(listNow),
           Lists!Invalidate(restarts, changes), UNCHANGED <<list, listNow, onPage>>,
           \A n \in Lists!Seen(listNow) : Coming(n) => Coming(n)' \/ n \in changes,
           list = "clients" => \A n : Coming(n) => Coming(n)'
    PROVE  EntryStep
<1>1. data' = data /\ (data # <<>> => marked') /\ overlooked \subseteq overlooked'
  BY DEF Lists!Invalidate, Lists!Overlooks
<1>2. \/ reading' = <<Lists!Sent>>
      \/ /\ reading' = reading /\ (onPage => reading # <<>>)
         /\ reading # <<>> => changes \subseteq overlooked'
  BY DEF Lists!Invalidate, Lists!Overlooks
<1>3. DataTyped' /\ ReadingTyped'
  BY <1>1, <1>2 DEF ListInv, ListTyped, DataTyped, ReadingTyped
<1>4. list = "clients" /\ data # <<>> => Covered(data[1])'
  BY <1>1 DEF ListInv, NothingMissed, Covered
<1>5. reading' # <<>> /\ reading' # <<Lists!Sent>> => Covered(reading[1])'
  <2> SUFFICES ASSUME reading' # <<>>, reading' # <<Lists!Sent>> PROVE Covered(reading[1])'
    OBVIOUS
  <2>1. reading' = reading /\ Covered(reading[1]) /\ changes \subseteq overlooked'
    BY <1>2 DEF ListInv, NothingMissed
  <2>2. QED
    BY <1>1, <2>1 DEF Covered
<1>6. NothingMissed'
  <2>1. reading' # <<>> \/ ~onPage'
    BY <1>2
  <2>2. QED
    BY <1>1, <1>4, <1>5, <2>1 DEF NothingMissed
<1>7. QED
  BY <1>1, <1>3, <1>6 DEF ListInv, OwnIsUnderWay, EntryStep

\* A step that may have taken a message off the socket, or lost it.
LEMMA SocketKeeps ==
    ASSUME ListInv, EntryStep, PushesTyped', ToldInOrder', sock' \in {"new", "open", "down"},
           UNCHANGED <<list, listNow, call>>
    PROVE  ListInv'
<1>1. ListTyped'
  BY DEF ListInv, EntryStep, ListTyped, CallTyped
<1>2. OwnIsUnderWay'
  BY DEF ListInv, EntryStep, OwnIsUnderWay
<1>3. QED
  BY <1>1, <1>2 DEF ListInv, EntryStep

LEMMA ReceiveKeeps == ListInv /\ Lists!Receive => ListInv'
<1> SUFFICES ASSUME ListInv, Lists!Receive PROVE ListInv'
  OBVIOUS
<1> DEFINE m == Head(pushes)
<1>1. /\ pushes # <<>> /\ pushes' = Tail(pushes)
      /\ \/ m.way = "list" /\ Lists!Replace(m.of)
         \/ m.way \in {"list", "row"} /\ Lists!Patch(m.of)
         \/ m.way = "mark" /\ Lists!Invalidate(list = "webhooks", m.of)
      /\ UNCHANGED <<list, listNow, onPage, sock, call>>
  BY DEF Lists!Receive
<1>2. pushes \in Seq(Pushed) /\ pushes' \in Seq(Pushed)
  BY <1>1 DEF ListInv, ListTyped, PushesTyped
<1>3. /\ 1 \in DOMAIN pushes /\ m = pushes[1]
      /\ \A i \in DOMAIN pushes' : i + 1 \in DOMAIN pushes /\ pushes'[i] = pushes[i + 1]
      /\ \A i \in DOMAIN pushes : i = 1 \/ (i - 1 \in DOMAIN pushes' /\ pushes'[i - 1] = pushes[i])
      /\ DOMAIN pushes \subseteq Nat /\ DOMAIN pushes' \subseteq Nat \ {0}
  <2>1. /\ DOMAIN pushes = 1 .. Len(pushes) /\ Len(pushes) \in Nat /\ Len(pushes) # 0
        /\ DOMAIN pushes' = 1 .. Len(pushes') /\ Len(pushes') = Len(pushes) - 1
    BY <1>1, <1>2
  <2>2. \A i \in 1 .. Len(pushes) - 1 : pushes'[i] = pushes[i + 1]
    BY <1>1, <1>2, <2>1
  <2>3. m = pushes[1]
    BY <1>1, <1>2
  <2>4. QED
    BY <2>1, <2>2, <2>3
<1>4. m \in Pushed /\ m.way \in Lists!Ways[list] /\ m.of \in SUBSET Lists!Seen(listNow)
  <2>1. m \in Pushed
    BY <1>1, <1>2
  <2>2. QED
    BY <1>3, <2>1 DEF ListInv, ListTyped, PushesTyped
<1> HIDE DEF m
<1>5. \A n : Coming(n) => Coming(n)' \/ n \in m.of
  BY <1>1, <1>3 DEF Coming, CatchesUp, Answered, Lists!PushedOnConnect
<1>6. m.way = "list" => \A n \in Lists!Seen(listNow) : Coming(n)' \/ n \in m.of
  <2> SUFFICES ASSUME m.way = "list", NEW n \in Lists!Seen(listNow) PROVE Coming(n)' \/ n \in m.of
    OBVIOUS
  <2>1. PICK j \in DOMAIN pushes : n \in pushes[j].of
    BY <1>3 DEF ListInv, ToldInOrder
  <2>2. QED
    BY <1>3, <2>1 DEF Coming
<1>7. PushesTyped'
  BY <1>1, <1>2, <1>3 DEF ListInv, ListTyped, PushesTyped
<1>8. ToldInOrder'
  <2>1. sock' # "open" => pushes' = <<>>
    BY <1>1 DEF ListInv, ToldInOrder
  <2>2. ASSUME NEW i \in DOMAIN pushes', pushes'[i].way = "list", NEW n \in Lists!Seen(listNow)
        PROVE  \E j \in DOMAIN pushes' : j >= i /\ n \in pushes'[j].of
    <3>1. i + 1 \in DOMAIN pushes /\ pushes[i + 1].way = "list" /\ i \in Nat \ {0}
      BY <1>3, <2>2
    <3>2. PICK j \in DOMAIN pushes : j >= i + 1 /\ n \in pushes[j].of
      BY <3>1 DEF ListInv, ToldInOrder
    <3>3. j - 1 \in DOMAIN pushes' /\ pushes'[j - 1] = pushes[j] /\ j - 1 >= i
      <4>1. j \in Nat /\ i \in Nat /\ j # 1 /\ j - 1 >= i
        BY <1>3, <3>1, <3>2
      <4>2. QED
        BY <1>3, <4>1
    <3>4. QED
      BY <3>2, <3>3
  <2>3. QED
    BY <1>1, <2>1, <2>2 DEF ToldInOrder
<1>9. EntryStep
  <2>1. CASE m.way = "list" /\ Lists!Replace(m.of)
    BY <1>1, <1>4, <1>6, <2>1, ReplaceKeeps
  <2>2. CASE Lists!Patch(m.of)
    BY <1>1, <1>4, <1>5, <2>2, PatchKeeps
  <2>3. CASE m.way = "mark" /\ Lists!Invalidate(list = "webhooks", m.of)
    <3> DEFINE restarts == list = "webhooks"
    <3>1. restarts \in BOOLEAN /\ Lists!Invalidate(restarts, m.of)
      BY <2>3
    <3> HIDE DEF restarts
    <3>2. list # "clients"
      BY <1>4, <2>3, WaysAre DEF ListInv, ListTyped
    <3>3. QED
      BY <1>1, <1>4, <1>5, <3>1, <3>2, InvalidateKeeps
  <2>4. QED
    BY <1>1, <2>1, <2>2, <2>3
<1>10. QED
  BY <1>1, <1>7, <1>8, <1>9, SocketKeeps DEF ListInv, ListTyped

\* The entry is as it was, and misses no more than it did.
LEMMA EntryStays ==
    ASSUME ListInv, UNCHANGED <<list, listNow, data, marked, reading, onPage, overlooked>>,
           \A n \in Lists!Seen(listNow) : Coming(n) => Coming(n)'
    PROVE  EntryStep
<1>1. DataTyped' /\ ReadingTyped'
  BY DEF ListInv, ListTyped, DataTyped, ReadingTyped
<1>2. NothingMissed'
  BY DEF ListInv, NothingMissed, Covered
<1>3. QED
  BY <1>1, <1>2 DEF ListInv, OwnIsUnderWay, EntryStep

LEMMA DropKeeps == ListInv /\ Lists!Drop => ListInv'
<1> SUFFICES ASSUME ListInv, Lists!Drop PROVE ListInv'
  OBVIOUS
<1>1. /\ sock' = "down" /\ pushes' = <<>>
      /\ UNCHANGED <<list, listNow, data, marked, reading, onPage, call, overlooked>>
  BY DEF Lists!Drop
<1>2. EntryStep
  BY <1>1, EntryStays DEF Coming, CatchesUp
<1>3. PushesTyped' /\ ToldInOrder'
  BY <1>1 DEF PushesTyped, ToldInOrder
<1>4. QED
  BY <1>1, <1>2, <1>3, SocketKeeps

LEMMA ReconnectKeeps == ListInv /\ Lists!Connect => ListInv'
<1> SUFFICES ASSUME ListInv, Lists!Connect PROVE ListInv'
  OBVIOUS
<1>1. /\ sock # "open" /\ sock' = "open" /\ pushes = <<>>
      /\ UNCHANGED <<list, listNow, onPage, call>>
  BY DEF Lists!Connect, ListInv, ToldInOrder
<1>2. CASE list = "clients"
  <2> DEFINE m == [way |-> "list", of |-> Lists!Seen(listNow)]
  <2>1. pushes' = <<m>> /\ UNCHANGED <<data, marked, reading, overlooked>>
    BY <1>2 DEF Lists!Connect, Lists!PushedOnConnect, Lists!Message
  <2>2. m.way = "list" /\ m.of = Lists!Seen(listNow) /\ m \in Pushed
    <3>1. Lists!Seen(listNow) \subseteq Nat
      BY SeenIs DEF ListInv, ListTyped
    <3>2. QED
      BY <3>1 DEF Pushed
  <2> HIDE DEF m
  <2>3. pushes' \in Seq(Pushed) /\ DOMAIN pushes' = {1} /\ pushes'[1] = m
    <3>1. pushes' \in Seq(Pushed) /\ Len(pushes') = 1 /\ pushes'[1] = m
      BY <2>1, <2>2
    <3>2. DOMAIN pushes' = 1 .. 1
      BY <3>1
    <3>3. QED
      BY <3>1, <3>2
  <2>4. PushesTyped'
    BY <1>1, <1>2, <2>2, <2>3, WaysAre DEF ListInv, ListTyped, PushesTyped
  <2>5. ToldInOrder'
    <3>1. \A n \in Lists!Seen(listNow) : \E j \in DOMAIN pushes' : j >= 1 /\ n \in pushes'[j].of
      BY <2>2, <2>3
    <3>2. QED
      BY <1>1, <2>3, <3>1 DEF ToldInOrder
  <2>6. EntryStep
    BY <1>1, <2>1, <2>2, <2>3, EntryStays DEF Coming
  <2>7. QED
    BY <1>1, <2>4, <2>5, <2>6, SocketKeeps
<1>3. CASE list # "clients"
  <2>1. pushes' = <<>>
    BY <1>3 DEF Lists!Connect, Lists!PushedOnConnect
  <2>2. PushesTyped' /\ ToldInOrder'
    BY <2>1 DEF PushesTyped, ToldInOrder
  <2>3. CASE sock = "down"
    <3>1. Lists!Invalidate(TRUE, Lists!Seen(listNow))
      BY <1>3, <2>3 DEF Lists!Connect, Lists!PushedOnConnect
    <3>2. EntryStep
      BY <1>1, <1>3, <3>1, InvalidateKeeps
    <3>3. QED
      BY <1>1, <2>2, <3>2, SocketKeeps
  <2>4. CASE sock # "down"
    <3>1. UNCHANGED <<data, marked, reading, overlooked>>
      BY <2>4 DEF Lists!Connect
    <3>2. \A n : Coming(n) => Coming(n)'
      BY <1>1, <1>3, <2>1, <2>4
         DEF Coming, CatchesUp, Answered, Lists!PushedOnConnect, ListInv, ListTyped
    <3>3. EntryStep
      BY <1>1, <3>1, <3>2, EntryStays
    <3>4. QED
      BY <1>1, <2>2, <3>3, SocketKeeps
  <2>5. QED
    BY <2>3, <2>4
<1>4. QED
  BY <1>2, <1>3

\* A change is told of on an open socket; it is what every list on its way has or is
\* followed by.
LEMMA TellKeeps ==
    ASSUME ListInv, NEW way \in Lists!Ways[list], Lists!Tell(way), listNow' = listNow + 1,
           UNCHANGED <<list, sock>>
    PROVE  /\ PushesTyped' /\ ToldInOrder'
           /\ \A n : (\E i \in DOMAIN pushes : n \in pushes[i].of)
                       => \E i \in DOMAIN pushes' : n \in pushes'[i].of
           /\ \/ Lists!Untellable(way) \/ CatchesUp'
              \/ \E i \in DOMAIN pushes' : listNow' \in pushes'[i].of
<1> DEFINE now1 == listNow + 1
           m == Lists!Message(way, now1)
<1>1. listNow \in Nat /\ now1 \in Nat /\ Lists!Seen(listNow) \subseteq Lists!Seen(now1)
      /\ Lists!Seen(now1) = Lists!Seen(listNow) \cup {now1} /\ Lists!Seen(now1) \subseteq Nat
  <2>1. listNow \in Nat /\ now1 \in Nat
    BY DEF ListInv, ListTyped
  <2>2. Lists!Seen(now1) = Lists!Seen(listNow) \cup {now1} /\ Lists!Seen(listNow) \subseteq Nat
    BY <2>1, SeenIs
  <2>3. QED
    BY <2>1, <2>2
<1>2. pushes \in Seq(Pushed) /\ DOMAIN pushes = 1 .. Len(pushes) /\ Len(pushes) \in Nat
  BY DEF ListInv, ListTyped, PushesTyped
<1>3. m.way = way /\ now1 \in m.of /\ m.of \subseteq Lists!Seen(now1)
      /\ (way = "list" => m.of = Lists!Seen(now1))
  BY <1>1 DEF Lists!Message
<1>4. CASE way # "untold" /\ sock = "open"
  <2>1. pushes' = Append(pushes, m)
    BY <1>4 DEF Lists!Tell
  <2>2. m \in Pushed
    <3>1. way \in {"list", "row", "mark"}
      BY <1>4, WaysAre DEF ListInv, ListTyped
    <3>2. m = [way |-> way, of |-> m.of] /\ m.of \in SUBSET Nat
      BY <1>1, <1>3 DEF Lists!Message
    <3> HIDE DEF m
    <3>3. QED
      BY <3>1, <3>2 DEF Pushed
  <2> HIDE DEF m
  <2>3. pushes' \in Seq(Pushed) /\ Len(pushes') = Len(pushes) + 1
    BY <1>2, <2>1, <2>2
  <2>4. DOMAIN pushes' = 1 .. Len(pushes) + 1
    BY <2>3
  <2>5. \A i \in DOMAIN pushes : i \in DOMAIN pushes' /\ pushes'[i] = pushes[i]
    BY <1>2, <2>1, <2>2, <2>4
  <2>6. pushes'[Len(pushes) + 1] = m
    BY <1>2, <2>1, <2>2
  <2> DEFINE k == Len(pushes) + 1
  <2>7. /\ k \in DOMAIN pushes' /\ pushes'[k] = m
        /\ \A i \in DOMAIN pushes' : i \in Nat /\ i <= k /\ (i = k \/ i \in DOMAIN pushes)
    BY <1>2, <2>4, <2>6
  <2> HIDE DEF k
  <2>8. PushesTyped'
    <3>1. \A i \in DOMAIN pushes' :
             pushes'[i].way \in Lists!Ways[list] /\ pushes'[i].of \subseteq Lists!Seen(now1)
      BY <1>1, <1>3, <2>5, <2>7 DEF ListInv, ListTyped, PushesTyped
    <3>2. QED
      BY <2>3, <3>1 DEF PushesTyped
  <2>9. ToldInOrder'
    <3>1. ASSUME NEW i \in DOMAIN pushes', pushes'[i].way = "list", NEW n \in Lists!Seen(now1)
          PROVE  \E j \in DOMAIN pushes' : j >= i /\ n \in pushes'[j].of
      <4>1. CASE i = k
        <5>1. n \in pushes'[k].of /\ k >= k
          BY <1>3, <2>7, <3>1, <4>1
        <5>2. QED
          BY <2>7, <4>1, <5>1
      <4>2. CASE i \in DOMAIN pushes /\ n \in Lists!Seen(listNow)
        <5>1. pushes[i].way = "list"
          BY <2>5, <3>1, <4>2
        <5>2. PICK j \in DOMAIN pushes : j >= i /\ n \in pushes[j].of
          BY <4>2, <5>1 DEF ListInv, ToldInOrder
        <5>3. QED
          BY <2>5, <5>2
      <4>3. CASE n = now1
        <5>1. k >= i /\ n \in pushes'[k].of
          BY <1>3, <2>7, <4>3
        <5>2. QED
          BY <2>7, <5>1
      <4>4. QED
        BY <1>1, <2>7, <3>1, <4>1, <4>2, <4>3
    <3>2. QED
      BY <1>4, <3>1 DEF ToldInOrder
  <2>10. \E i \in DOMAIN pushes' : listNow' \in pushes'[i].of
    BY <1>3, <2>7
  <2>11. QED
    BY <2>5, <2>8, <2>9, <2>10
<1>5. CASE ~(way # "untold" /\ sock = "open")
  <2>1. pushes' = pushes
    BY <1>5 DEF Lists!Tell
  <2>2. PushesTyped'
    BY <1>1, <2>1 DEF ListInv, ListTyped, PushesTyped
  <2>3. \A i \in DOMAIN pushes : pushes[i].way # "list"
    <3>1. CASE sock # "open"
      BY <3>1 DEF ListInv, ToldInOrder
    <3>2. CASE way = "untold"
      <4>1. "list" \notin Lists!Ways[list]
        BY <3>2, WaysAre DEF ListInv, ListTyped
      <4>2. QED
        BY <4>1 DEF ListInv, ListTyped, PushesTyped
    <3>3. QED
      BY <1>5, <3>1, <3>2
  <2>4. ToldInOrder'
    BY <2>1, <2>3 DEF ListInv, ToldInOrder
  <2>5. Lists!Untellable(way) \/ CatchesUp'
    BY <1>5 DEF Lists!Untellable, CatchesUp, Lists!PushedOnConnect, ListInv, ListTyped
  <2>6. QED
    BY <2>1, <2>2, <2>4, <2>5
<1>6. QED
  BY <1>4, <1>5

\* One more change: what covered the others covers it as well, or it is on its way.
LEMMA OneMoreCovered ==
    ASSUME ListInv, NEW k, k = listNow + 1, listNow' = k, UNCHANGED <<data, marked, reading, onPage, list>>,
           overlooked \subseteq overlooked',
           \A n \in Lists!Seen(listNow) : Coming(n) => Coming(n)',
           Coming(k)' \/ k \in overlooked'
    PROVE  DataTyped' /\ ReadingTyped' /\ NothingMissed'
<1>1. Lists!Seen(k) = Lists!Seen(listNow) \cup {k}
  BY SeenIs DEF ListInv, ListTyped
<1>2. DataTyped' /\ ReadingTyped'
  BY <1>1 DEF ListInv, ListTyped, DataTyped, ReadingTyped
<1>3. \A S : Covered(S) =>
        \A n \in Lists!Seen(listNow') : n \in S \/ n \in overlooked' \/ Coming(n)'
  BY <1>1 DEF Covered
<1>4. NothingMissed'
  BY <1>3 DEF ListInv, NothingMissed, Covered
<1>5. QED
  BY <1>2, <1>4

LEMMA ChangeKeepsList ==
    ASSUME ListInv, NEW way \in Lists!Ways[list], Lists!Change(way)
    PROVE  ListInv'
<1>0. PICK k : k = listNow + 1
  OBVIOUS
<1>1. /\ listNow' = listNow + 1 /\ Lists!Tell(way)
      /\ overlooked' = overlooked \cup (IF Lists!Untellable(way) THEN {listNow + 1} ELSE {})
      /\ UNCHANGED <<list, data, marked, reading, onPage, sock, call>>
  BY DEF Lists!Change, Lists!Overlooks
<1>2. /\ PushesTyped' /\ ToldInOrder'
      /\ \A n : (\E i \in DOMAIN pushes : n \in pushes[i].of)
                  => \E i \in DOMAIN pushes' : n \in pushes'[i].of
      /\ \/ Lists!Untellable(way) \/ CatchesUp'
         \/ \E i \in DOMAIN pushes' : listNow' \in pushes'[i].of
  BY <1>1, TellKeeps
<1>3. \A n : Coming(n) => Coming(n)'
  BY <1>1, <1>2 DEF Coming, CatchesUp, Answered, Lists!PushedOnConnect
<1>4. Coming(k)' \/ k \in overlooked'
  BY <1>0, <1>1, <1>2 DEF Coming
<1>5. DataTyped' /\ ReadingTyped' /\ NothingMissed'
  BY <1>0, <1>1, <1>3, <1>4, OneMoreCovered
<1>6. listNow' \in Nat /\ Lists!Seen(listNow) \subseteq Lists!Seen(listNow')
  BY <1>1, SeenIs DEF ListInv, ListTyped
<1>7. ListTyped'
  BY <1>1, <1>2, <1>5, <1>6 DEF ListInv, ListTyped, CallTyped
<1>8. OwnIsUnderWay'
  BY <1>1, <1>6 DEF ListInv, OwnIsUnderWay
<1>9. QED
  BY <1>2, <1>5, <1>7, <1>8 DEF ListInv

\* The server makes this tab's change; the answer tells which it was, or is lost.
LEMMA AcceptKeeps ==
    ASSUME ListInv, NEW way \in Lists!Ways[list], Lists!Accept(way)
    PROVE  ListInv'
<1>0. PICK k : k = listNow + 1
  OBVIOUS
<1>1. /\ listNow' = listNow + 1 /\ Lists!Tell(way) /\ way # "row"
      /\ UNCHANGED <<list, data, marked, reading, onPage, sock>>
  BY DEF Lists!Accept
<1>2. PICK c \in OwnChange : call = <<c>>
  BY DEF Lists!Accept, Lists!Pending, ListInv, ListTyped, CallTyped
<1>3. call[1] = c /\ call # <<>> /\ c.answer = "none"
  BY <1>2 DEF Lists!Accept, Lists!Pending
<1>4. listNow' \in Nat /\ Lists!Seen(listNow) \subseteq Lists!Seen(listNow')
      /\ listNow' \in Lists!Seen(listNow')
  BY <1>1, SeenIs DEF ListInv, ListTyped
<1>5. PICK d \in OwnChange :
          /\ call' = <<d>> /\ d.op = c.op /\ d.before = c.before
          /\ \/ /\ d.answer = "taken" /\ d.of = listNow' /\ overlooked' = overlooked
             \/ /\ d.answer = "failed"
                /\ overlooked' = overlooked
                                 \cup (IF Lists!Untellable(way) THEN {listNow + 1} ELSE {})
  <2>1. CASE /\ call' = <<[c EXCEPT !.answer = "taken", !.of = listNow + 1]>>
             /\ overlooked' = overlooked
    <3> DEFINE e == [c EXCEPT !.answer = "taken"]
               d == [e EXCEPT !.of = listNow + 1]
    <3>1. e \in OwnChange /\ e.op = c.op /\ e.before = c.before /\ e.answer = "taken"
      BY DEF OwnChange
    <3>2. call' = <<[e EXCEPT !.of = listNow + 1]>>
      BY <2>1, Zenon
    <3> HIDE DEF e
    <3>3. d \in OwnChange /\ d.op = c.op /\ d.before = c.before /\ d.answer = "taken"
          /\ d.of = listNow'
      BY <1>1, <1>4, <3>1 DEF OwnChange
    <3> HIDE DEF d
    <3>4. call' = <<d>>
      BY <3>2 DEF d
    <3>5. QED
      BY <2>1, <3>3, <3>4
  <2>2. CASE /\ call' = <<[c EXCEPT !.answer = "failed"]>>
             /\ overlooked' = overlooked
                              \cup (IF Lists!Untellable(way) THEN {listNow + 1} ELSE {})
    <3> DEFINE d == [c EXCEPT !.answer = "failed"]
    <3>1. d \in OwnChange /\ d.op = c.op /\ d.before = c.before /\ d.answer = "failed"
      BY DEF OwnChange
    <3> HIDE DEF d
    <3>2. call' = <<d>>
      BY <2>2 DEF d
    <3>3. QED
      BY <2>2, <3>1, <3>2
  <2>3. QED
    BY <1>3, <2>1, <2>2 DEF Lists!Accept, Lists!Overlooks
<1>6. call'[1] = d /\ call' # <<>>
  BY <1>5
<1>7. /\ PushesTyped' /\ ToldInOrder'
      /\ \A n : (\E i \in DOMAIN pushes : n \in pushes[i].of)
                  => \E i \in DOMAIN pushes' : n \in pushes'[i].of
      /\ \/ Lists!Untellable(way) \/ CatchesUp'
         \/ \E i \in DOMAIN pushes' : listNow' \in pushes'[i].of
  BY <1>1, TellKeeps
<1>8. \A n : Coming(n) => Coming(n)'
  BY <1>1, <1>3, <1>7 DEF Coming, CatchesUp, Answered, Lists!PushedOnConnect
<1>9. Coming(k)' \/ k \in overlooked'
  <2>1. CASE d.answer = "failed"
    BY <1>0, <1>1, <1>5, <1>7, <2>1 DEF Coming
  <2>2. CASE d.answer = "taken" /\ list # "clients"
    BY <1>0, <1>1, <1>5, <1>6, <2>2 DEF Coming, Answered
  <2>3. CASE list = "clients"
    <3>1. way = "list"
      BY <1>1, <2>3, WaysAre DEF ListInv, ListTyped
    <3>2. ~Lists!Untellable(way)
      BY <2>3, <3>1 DEF Lists!Untellable, Lists!PushedOnConnect
    <3>3. QED
      BY <1>0, <1>1, <1>7, <3>2 DEF Coming
  <2>4. QED
    BY <1>5, <2>1, <2>2, <2>3
<1>10. DataTyped' /\ ReadingTyped' /\ NothingMissed'
  <2>1. overlooked \subseteq overlooked'
    BY <1>5
  <2>2. QED
    BY <1>0, <1>1, <1>8, <1>9, <2>1, OneMoreCovered
<1>11. ListTyped'
  BY <1>1, <1>4, <1>5, <1>7, <1>10 DEF ListInv, ListTyped, CallTyped
<1>12. OwnIsUnderWay'
  BY <1>1, <1>3, <1>4, <1>5, <1>6 DEF ListInv, OwnIsUnderWay
<1>13. QED
  BY <1>7, <1>10, <1>11, <1>12 DEF ListInv

\* This tab asks for a change; one of a client is shown at once, over a read.
LEMMA RequestKeeps ==
    ASSUME ListInv, NEW op \in Lists!Ops[list], Lists!Request(op)
    PROVE  ListInv'
<1> DEFINE c == [op |-> op, before |-> Lists!Before(op), answer |-> "none", of |-> Lists!Own]
<1>1. /\ call = <<>> /\ call' = <<c>> /\ (op = "optimistic" => data # <<>>)
      /\ UNCHANGED <<list, listNow, onPage, sock, pushes, overlooked>>
  BY DEF Lists!Request
<1>2. op \in {"optimistic", "read again", "patch"} /\ (op = "optimistic" => list = "clients")
  BY WaysAre DEF ListInv, ListTyped
<1>3. Lists!Before(op) \in SUBSET Nat /\ Lists!Before(op) \subseteq Lists!Seen(listNow)
  <2>1. CASE op = "optimistic"
    <3>1. PICK d \in SUBSET Nat : data = <<d>>
      BY <1>1, <2>1 DEF ListInv, ListTyped, DataTyped
    <3>2. data[1] = d /\ Lists!Before(op) = d
      BY <2>1, <3>1 DEF Lists!Before
    <3>3. Lists!Own \notin d /\ d \subseteq Lists!Seen(listNow) \cup {Lists!Own}
      BY <1>1, <2>1, <3>2 DEF ListInv, OwnIsUnderWay
    <3>4. QED
      BY <3>2, <3>3
  <2>2. CASE op # "optimistic"
    BY <2>2 DEF Lists!Before
  <2>3. QED
    BY <2>1, <2>2
<1>4. c \in OwnChange /\ c.op = op /\ c.before = Lists!Before(op) /\ c.answer = "none"
  BY <1>2, <1>3 DEF OwnChange, Lists!Own
<1> HIDE DEF c
<1>5. call'[1] = c /\ call' # <<>>
  BY <1>1
<1>6. \A n : Coming(n) <=> Coming(n)'
  BY <1>1, <1>4, <1>5 DEF Coming, CatchesUp, Answered, Lists!PushedOnConnect
<1>7. PushesTyped' /\ ToldInOrder' /\ CallTyped'
  BY <1>1, <1>4 DEF ListInv, ListTyped, PushesTyped, ToldInOrder, CallTyped
<1>8. CASE op = "optimistic"
  <2>1. PICK d \in SUBSET Nat : data = <<d>>
    BY <1>1, <1>8 DEF ListInv, ListTyped, DataTyped
  <2>2. data[1] = d /\ data # <<>>
    BY <2>1
  <2>3. data' = <<d \cup {Lists!Own}>> /\ reading' = <<>>
    BY <1>8, <2>2 DEF Lists!Request
  <2>4. data'[1] = d \cup {Lists!Own} /\ data' # <<>>
    BY <2>3
  <2>5. DataTyped' /\ ReadingTyped'
    BY <2>3 DEF DataTyped, ReadingTyped, Lists!Own
  <2>6. Covered(d)
    BY <1>2, <1>8, <2>2 DEF ListInv, NothingMissed
  <2>7. NothingMissed'
    BY <1>1, <1>6, <2>3, <2>4, <2>6 DEF NothingMissed, Covered
  <2>8. OwnIsUnderWay'
    BY <1>1, <1>3, <1>4, <1>5, <1>8, <2>2, <2>4 DEF ListInv, OwnIsUnderWay
  <2>9. QED
    BY <1>1, <1>7, <2>5, <2>7, <2>8 DEF ListInv, ListTyped
<1>9. CASE op # "optimistic"
  <2>1. UNCHANGED <<data, reading, marked>>
    BY <1>9 DEF Lists!Request
  <2>2. EntryStep
    BY <1>1, <1>6, <2>1, EntryStays
  <2>3. OwnIsUnderWay'
    BY <1>1, <1>3, <1>4, <1>5, <2>1 DEF ListInv, OwnIsUnderWay
  <2>4. QED
    BY <1>1, <1>7, <2>2, <2>3 DEF EntryStep, ListInv, ListTyped
<1>10. QED
  BY <1>8, <1>9

LEMMA RefuseKeepsList == ListInv /\ Lists!Refuse => ListInv'
<1> SUFFICES ASSUME ListInv, Lists!Refuse PROVE ListInv'
  OBVIOUS
<1>1. UNCHANGED <<list, listNow, data, marked, reading, onPage, sock, pushes, overlooked>>
  BY DEF Lists!Refuse
<1>2. PICK c \in OwnChange : call = <<c>>
  BY DEF Lists!Refuse, Lists!Pending, ListInv, ListTyped, CallTyped
<1> DEFINE d == [c EXCEPT !.answer = "failed"]
<1>3. call[1] = c /\ call # <<>> /\ c.answer = "none"
  BY <1>2 DEF Lists!Refuse, Lists!Pending
<1>4. d \in OwnChange /\ d.op = c.op /\ d.before = c.before /\ d.answer = "failed"
  BY DEF OwnChange
<1>5. call' = <<d>>
  BY <1>3 DEF Lists!Refuse
<1> HIDE DEF d
<1>6. call'[1] = d /\ call' # <<>>
  BY <1>5
<1>7. \A n : Coming(n) <=> Coming(n)'
  BY <1>1, <1>3, <1>4, <1>6 DEF Coming, CatchesUp, Answered, Lists!PushedOnConnect
<1>8. EntryStep
  BY <1>1, <1>7, EntryStays
<1>9. PushesTyped' /\ ToldInOrder' /\ CallTyped'
  BY <1>1, <1>4, <1>5 DEF ListInv, ListTyped, PushesTyped, ToldInOrder, CallTyped
<1>10. OwnIsUnderWay'
  BY <1>1, <1>3, <1>4, <1>6 DEF ListInv, OwnIsUnderWay
<1>11. QED
  BY <1>1, <1>8, <1>9, <1>10 DEF EntryStep, ListInv, ListTyped

\* The change that was shown is the server's now.
LEMMA ConfirmedKeeps ==
    ASSUME ListInv, NEW of \in Lists!Seen(listNow), call # <<>>, call[1].of = of,
           call[1].op = "optimistic", Lists!Confirm,
           UNCHANGED <<list, listNow, onPage, marked, reading, overlooked>>,
           \A n : Coming(n) => Coming(n)'
    PROVE  DataTyped' /\ ReadingTyped' /\ NothingMissed'
           /\ (data' # <<>> => data'[1] \subseteq Lists!Seen(listNow))
<1>1. ReadingTyped'
  BY DEF ListInv, ListTyped, ReadingTyped
<1>2. Lists!Seen(listNow) \subseteq Nat /\ Lists!Own \notin Lists!Seen(listNow)
  BY SeenIs DEF ListInv, ListTyped
<1>3. list = "clients"
  BY WaysAre DEF ListInv, ListTyped, OwnIsUnderWay
<1>4. CASE data = <<>>
  <2>1. data' = <<>>
    BY <1>4 DEF Lists!Confirm
  <2>2. QED
    BY <1>1, <2>1 DEF ListInv, DataTyped, NothingMissed, Covered
<1>5. CASE data # <<>>
  <2>1. PICK d \in SUBSET Nat : data = <<d>>
    BY <1>5 DEF ListInv, ListTyped, DataTyped
  <2>2. data[1] = d
    BY <2>1
  <2> DEFINE e == IF Lists!Own \in d THEN (d \ {Lists!Own}) \cup {of} ELSE d
  <2>3. data' = <<e>>
    <3>1. data' = IF Lists!Own \in d THEN <<(d \ {Lists!Own}) \cup {of}>> ELSE data
      BY <1>5, <2>2 DEF Lists!Confirm
    <3>2. QED
      BY <2>1, <3>1
  <2>4. d \subseteq Lists!Seen(listNow) \cup {Lists!Own} /\ Covered(d)
    BY <1>3, <1>5, <2>2 DEF ListInv, OwnIsUnderWay, NothingMissed
  <2>5. e \in SUBSET Nat /\ e \subseteq Lists!Seen(listNow) /\ d \cap Lists!Seen(listNow) \subseteq e
    BY <1>2, <2>4
  <2> HIDE DEF e
  <2>6. data'[1] = e /\ data' # <<>>
    BY <2>3
  <2>7. DataTyped'
    BY <2>3, <2>5 DEF DataTyped
  <2>8. Covered(e)'
    BY <2>4, <2>5 DEF Covered
  <2>9. NothingMissed'
    BY <2>6, <2>8 DEF ListInv, NothingMissed, Covered
  <2>10. QED
    BY <1>1, <2>5, <2>6, <2>7, <2>9
<1>6. QED
  BY <1>4, <1>5

\* A change that was refused: what it put an older list over is overlooked.
LEMMA PutBackKeeps ==
    ASSUME ListInv, call # <<>>, call[1].op = "optimistic", Lists!PutBack,
           UNCHANGED <<list, listNow, onPage>>, \A n : Coming(n) => Coming(n)'
    PROVE  DataTyped' /\ ReadingTyped' /\ NothingMissed'
           /\ (data' # <<>> => data'[1] \subseteq Lists!Seen(listNow))
<1> DEFINE before == call[1].before
<1>1. before \subseteq Lists!Seen(listNow) /\ list = "clients"
  BY WaysAre DEF ListInv, ListTyped, OwnIsUnderWay
<1>2. /\ data' = <<before>> /\ reading' = reading
      /\ overlooked' = overlooked \cup (IF data = <<>> THEN Lists!Seen(listNow)
                                        ELSE data[1] \ (before \cup {Lists!Own}))
  BY DEF Lists!PutBack, Lists!Overlooks
<1>3. Lists!Seen(listNow) \subseteq Nat /\ Lists!Own \notin Lists!Seen(listNow)
  BY SeenIs DEF ListInv, ListTyped
<1>0. PICK b : b = before
  OBVIOUS
<1> HIDE DEF before
<1>4. data'[1] = b /\ data' # <<>>
  BY <1>0, <1>2
<1>5. DataTyped' /\ ReadingTyped'
  <2>1. data' = <<b>> /\ b \in SUBSET Nat
    BY <1>0, <1>1, <1>2, <1>3
  <2>2. QED
    BY <1>2, <2>1 DEF ListInv, ListTyped, DataTyped, ReadingTyped
<1>6. \A n \in Lists!Seen(listNow) : n \in b \/ n \in overlooked' \/ Coming(n)'
  <2>1. CASE data = <<>>
    BY <1>2, <2>1
  <2>2. CASE data # <<>>
    <3>1. Covered(data[1])
      BY <1>1, <2>2 DEF ListInv, NothingMissed
    <3>2. QED
      BY <1>0, <1>2, <1>3, <2>2, <3>1 DEF Covered
  <2>3. QED
    BY <2>1, <2>2
<1>7. reading # <<>> /\ reading # <<Lists!Sent>> => Covered(reading[1])'
  <2>1. reading # <<>> /\ reading # <<Lists!Sent>> => Covered(reading[1])
    BY DEF ListInv, NothingMissed
  <2>2. QED
    BY <1>2, <2>1 DEF Covered
<1>8. NothingMissed'
  BY <1>2, <1>4, <1>6, <1>7 DEF NothingMissed, Covered
<1>9. QED
  BY <1>0, <1>1, <1>4, <1>5, <1>8

LEMMA SettleKeepsList == ListInv /\ Lists!Settle => ListInv'
<1> SUFFICES ASSUME ListInv, Lists!Settle PROVE ListInv'
  OBVIOUS
<1>1. /\ call # <<>> /\ call[1].answer # "none" /\ call' = <<>>
      /\ UNCHANGED <<list, listNow, onPage, sock, pushes>>
  BY DEF Lists!Settle
<1>2. PICK c \in OwnChange : call = <<c>>
  BY <1>1 DEF ListInv, ListTyped, CallTyped
<1>3. call[1] = c
  BY <1>2
<1>4. c.op \in Lists!Ops[list] /\ (c.answer = "taken" => c.of \in Lists!Seen(listNow))
  BY <1>1, <1>3 DEF ListInv, OwnIsUnderWay
<1>5. c.op = "optimistic" => list = "clients"
  BY <1>4, WaysAre DEF ListInv, ListTyped
<1>6. \A n : Coming(n) => Coming(n)' \/ (n = c.of /\ c.answer = "taken" /\ list # "clients")
  BY <1>1, <1>3 DEF Coming, CatchesUp, Answered, Lists!PushedOnConnect
<1>7. \/ c.op = "optimistic" /\ c.answer = "taken" /\ Lists!Confirm
         /\ UNCHANGED <<marked, reading, overlooked>>
      \/ c.op = "optimistic" /\ Lists!PutBack
      \/ c.op = "read again" /\ c.answer = "taken" /\ Lists!Invalidate(TRUE, {c.of})
      \/ c.op = "patch" /\ c.answer = "taken" /\ Lists!Patch({c.of})
      \/ c.op # "optimistic" /\ c.answer # "taken" /\ UNCHANGED <<data, marked, reading, overlooked>>
  BY <1>3 DEF Lists!Settle
<1>8. /\ DataTyped' /\ ReadingTyped' /\ NothingMissed'
      /\ data' # <<>> => data'[1] \subseteq Lists!Seen(listNow)
  <2>1. CASE /\ c.op = "optimistic" /\ c.answer = "taken" /\ Lists!Confirm
             /\ UNCHANGED <<marked, reading, overlooked>>
    BY <1>1, <1>3, <1>4, <1>5, <1>6, <2>1, ConfirmedKeeps
  <2>2. CASE c.op = "optimistic" /\ Lists!PutBack
    BY <1>1, <1>3, <1>5, <1>6, <2>2, PutBackKeeps
  <2>3. CASE c.op # "optimistic"
    <3>1. EntryStep
      <4>1. CASE c.answer = "taken" /\ Lists!Invalidate(TRUE, {c.of})
        BY <1>1, <1>4, <1>6, <4>1, InvalidateKeeps
      <4>2. CASE c.answer = "taken" /\ Lists!Patch({c.of})
        BY <1>1, <1>4, <1>6, <4>2, PatchKeeps
      <4>3. CASE c.answer # "taken" /\ UNCHANGED <<data, marked, reading, overlooked>>
        BY <1>1, <1>6, <4>3, EntryStays
      <4>4. QED
        BY <1>7, <2>3, <4>1, <4>2, <4>3
    <3>2. data # <<>> => Lists!Own \notin data[1]
      BY <1>3, <2>3 DEF ListInv, OwnIsUnderWay
    <3>3. QED
      BY <3>1, <3>2 DEF EntryStep
  <2>4. QED
    BY <1>7, <2>1, <2>2, <2>3
<1>9. PushesTyped' /\ ToldInOrder' /\ CallTyped'
  BY <1>1 DEF ListInv, ListTyped, PushesTyped, ToldInOrder, CallTyped
<1>10. OwnIsUnderWay'
  <2>1. Lists!Own \notin Lists!Seen(listNow)
    BY SeenIs DEF ListInv, ListTyped
  <2>2. QED
    BY <1>1, <1>8, <2>1 DEF OwnIsUnderWay
<1>11. QED
  BY <1>1, <1>8, <1>9, <1>10 DEF ListInv, ListTyped

\* ListsKept: once nothing is under way, a page shows every change of the server's list and
\* nothing else, but for the changes overlooked for the reasons given, whatever was lost,
\* refused, told or read out of order. Whatever the number of changes and faults.
THEOREM PagesShowEveryChange == MCSpec => []ListsKept
<1> DEFINE Inv == part = "lists" => ListInv
           all == <<part, vars, cacheVars, secretsVars, formVars, restoreVars>>
<1>1. MCInit => Inv
  BY InitLists
<1>2. Inv /\ [MCNext]_all => Inv'
  <2> SUFFICES ASSUME Inv, [MCNext]_all, part' = "lists"
               PROVE  ListInv'
    OBVIOUS
  <2>1. CASE part = "lists" /\ Lists!Next
    BY <2>1, MountKeeps, ForgetKeeps, AnswerKeeps, ArriveKeeps, FailReadKeeps, ChangeKeepsList,
       AcceptKeeps, ReceiveKeeps, DropKeeps, ReconnectKeeps, RequestKeeps, RefuseKeepsList,
       SettleKeepsList DEF Lists!Next
  <2>2. CASE UNCHANGED <<part, cacheVars>>
    <3>1. ListInv /\ UNCHANGED <<list, listNow, data, marked, reading, onPage, sock, pushes, call,
                                 overlooked>>
      BY <2>2 DEF cacheVars
    <3>2. \A n : Coming(n)' <=> Coming(n)
      BY <3>1, ComingStays
    <3>3. EntryStep
      BY <3>1, <3>2, EntryStays
    <3>4. QED
      BY <3>1, <3>3, SteadyKeeps
  <2>3. QED
    BY <2>1, <2>2 DEF MCNext
<1>3. Inv => ListsKept
  <2> SUFFICES ASSUME ListInv, Lists!Quiet, data # <<>>
               PROVE  /\ Lists!Seen(listNow) \subseteq data[1] \cup overlooked
                      /\ data[1] \subseteq Lists!Seen(listNow)
    BY DEF ListsKept, Lists!ShowsEveryChange
  <2>1. onPage /\ sock = "open" /\ pushes = <<>> /\ reading = <<>> /\ call = <<>>
    BY DEF Lists!Quiet
  <2>2. \A n : ~Coming(n)
    BY <2>1 DEF Coming, CatchesUp, Answered
  <2>3. Covered(data[1])
    BY <2>1 DEF ListInv, NothingMissed
  <2>4. QED
    BY <2>1, <2>2, <2>3 DEF Covered, ListInv, OwnIsUnderWay
<1>4. QED
  BY <1>1, <1>2, <1>3, PTL DEF MCSpec
-----------------------------------------------------------------------------
(***************************************************************************)
(* The jobs of an agent (JobConfig).  The agent's own files and the times  *)
(* of its jobs need to know of the rest only that every copy under way has *)
(* a time that is known of the job; that is what the second invariant is   *)
(* for.                                                                    *)
(***************************************************************************)
Some(S) == UNION {[D -> S] : D \in SUBSET Jobs}

\* A job as it is listed; in an editor; a list of them.  K has the times that are
\* known of each job.
Timed == [edit : 0 .. MaxEdits, linked : BOOLEAN, next : Starts]
InEditor(K) == {e \in [job : Jobs, copy : Timed] : e.copy.next \in K[e.job]}
JobLists(K) == {l \in Some(Timed) : \A j \in DOMAIN l : l[j].next \in K[j]}
Cached(K) == [known : BOOLEAN, list : JobLists(K)]

Askers == Processes \cup {Nobody}
ListAsk == [type : {"list"}, proc : Askers]
AnySave == [type : {"save"}, proc : Askers, by : {"operator", "server"}, job : Jobs, copy : Timed]
SaveAsk(K) == {m \in AnySave : m.copy.next \in K[m.job]}
DeleteAsk == [type : {"delete"}, proc : Askers, job : Jobs]
Asks(K) == ListAsk \cup SaveAsk(K) \cup DeleteAsk

ListTell(K) == [type : {"list"}, proc : Askers, list : JobLists(K)]
DoneTell == [type : {"done"}, proc : Askers, ok : BOOLEAN]
NextTell(K) == {m \in [type : {"next"}, proc : {Nobody}, job : Jobs, at : Starts] : m.at \in K[m.job]}
Tells(K) == ListTell(K) \cup DoneTell \cup NextTell(K)

\* A process that goes through a list has had a job, or is to have its first.
FirstJob == CHOOSE j \in Jobs : TRUE
Backfills(K, js) == [kind : {"backfill"}, job : js, todo : SUBSET Jobs, list : JobLists(K),
                     live : BOOLEAN, then : SUBSET InEditor(K)]
Distributions(K, js) == [kind : {"distribute"}, job : js, todo : SUBSET Jobs, list : JobLists(K),
                         live : BOOLEAN, done : BOOLEAN]
Listings(K) == [kind : {"list"}, then : SUBSET InEditor(K)]
Process(K) == {Idle} \cup Listings(K) \cup [kind : {"save", "delete"}]
                     \cup Backfills(K, Jobs) \cup Distributions(K, Jobs)

AgentTyped ==
    /\ jobs \in Some(Job) /\ jobsFile = jobs
    /\ next \in Some(Starts) /\ nextFile \in Some(Starts) /\ now \in 0 .. MaxTime
    /\ wanted \in Some(0 .. MaxEdits)
    /\ copied \subseteq Jobs /\ rewound \subseteq Jobs /\ repeated \subseteq Jobs
    /\ started \in [Jobs -> SUBSET Starts]

\* Every job has a next run; one it started for before was set back.
TimesKept ==
    /\ DOMAIN jobs \subseteq DOMAIN next /\ DOMAIN jobs \subseteq DOMAIN nextFile
    /\ \A j \in DOMAIN next : next[j] \in started[j] => j \in rewound
    /\ \A j \in Jobs : \A t \in started[j] : t <= now

AgentInv == AgentTyped /\ TimesKept /\ SavesLast /\ OneRunPerTime

ServerTyped(K) ==
    /\ up \in BOOLEAN /\ toAgent \in Seq(Asks(K)) /\ toServer \in Seq(Tells(K))
    /\ cache \in Cached(K) /\ shown \in Cached(K)
    /\ procs \in [Processes -> Process(K)]
    /\ editor \subseteq InEditor(K)
    /\ edits \in Nat

\* What is left to do for a process is in the list it goes through, and a backfill
\* stamps only what a repository matches.
TodoOf(q, entry) ==
    /\ q.kind = "backfill" => q.todo \subseteq DOMAIN q.list \cap Matched /\ q.job \in Matched /\ entry.known
    /\ q.kind = "distribute" =>
          q.todo \subseteq (IF q.live THEN DOMAIN entry.list ELSE DOMAIN q.list)

\* A process waits for one message, the answer to what it asked.
Silent(s, p) == \A i \in DOMAIN s : s[i].proc # p
Single(s, p) == \A i, k \in DOMAIN s : s[i].proc = p /\ s[k].proc = p => i = k
AskFits(m, q) ==
    /\ m.type = "list" => q.kind = "list"
    /\ m.type = "delete" => q.kind = "delete"
    /\ m.type = "save" /\ m.by = "operator" => q.kind = "save"
    /\ m.type = "save" /\ m.by = "server" =>
          q.kind \in {"backfill", "distribute"} /\ m.job = q.job /\ m.copy.linked
TellFits(m, q) ==
    /\ m.type = "list" => q.kind = "list"
    /\ m.type = "done" => q.kind \in {"save", "delete", "backfill", "distribute"}
AsksFit(a, p, q) == \A i \in DOMAIN a : a[i].proc = p => AskFits(a[i], q)
TellsFit(s, p, q) == \A i \in DOMAIN s : s[i].proc = p => TellFits(s[i], q)
Fits(p, q, a, s) ==
    /\ Single(a, p) /\ Single(s, p) /\ (Silent(a, p) \/ Silent(s, p))
    /\ AsksFit(a, p, q) /\ TellsFit(s, p, q)
    /\ q = Idle => Silent(a, p) /\ Silent(s, p)

\* A process that is still about the same.
SameTask(q, r) == r.kind = q.kind /\ (q.kind \in {"backfill", "distribute"} => r.job = q.job)
SameJobs(v, w) == DOMAIN w.list = DOMAIN v.list /\ w.known = v.known

ServerInv(K) ==
    /\ ServerTyped(K)
    /\ \A p \in Processes : TodoOf(procs[p], cache)
    /\ \A p \in Processes : Fits(p, procs[p], toAgent, toServer)

\* The times of the jobs at the agent are known.
TimesIn(K) ==
    /\ \A j \in DOMAIN next : next[j] \in K[j]
    /\ \A j \in DOMAIN nextFile : nextFile[j] \in K[j]

\* Of a job that was not set back one time is known that it has not started for.
OneStart(K) ==
    \E c \in [Jobs -> Starts] : \A j \in Jobs :
        K[j] = IF j \in rewound THEN Starts ELSE started[j] \cup {c[j]}

Times == [Jobs -> SUBSET Starts]
JobsInv == AgentInv /\ \E K \in Times : OneStart(K) /\ TimesIn(K) /\ ServerInv(K)

\* Functions over some jobs.
LEMMA SomeIs ==
    ASSUME NEW S, NEW f
    PROVE  f \in Some(S) <=> DOMAIN f \subseteq Jobs /\ f \in [DOMAIN f -> S]
  BY DEF Some

\* One of them with an entry set.
Sets(S, f, j, v) ==
    /\ With(f, j, v) \in Some(S)
    /\ DOMAIN With(f, j, v) = DOMAIN f \cup {j}
    /\ With(f, j, v)[j] = v
    /\ \A k \in DOMAIN f \ {j} : With(f, j, v)[k] = f[k]

LEMMA SomeWith ==
    ASSUME NEW S, NEW f \in Some(S), NEW j \in Jobs, NEW v \in S
    PROVE  Sets(S, f, j, v)
<1>1. DOMAIN f \subseteq Jobs /\ f \in [DOMAIN f -> S]
  BY SomeIs
<1>2. With(f, j, v) \in [DOMAIN f \cup {j} -> S]
  BY <1>1 DEF With
<1>3. QED
  BY <1>1, <1>2, SomeIs DEF With, Sets

LEMMA SomeWithout ==
    ASSUME NEW S, NEW f \in Some(S), NEW j
    PROVE  /\ Without(f, j) \in Some(S)
           /\ DOMAIN Without(f, j) = DOMAIN f \ {j}
           /\ \A k \in DOMAIN f \ {j} : Without(f, j)[k] = f[k]
<1>1. DOMAIN f \subseteq Jobs /\ f \in [DOMAIN f -> S]
  BY SomeIs
<1>2. Without(f, j) \in [DOMAIN f \ {j} -> S]
  BY <1>1 DEF Without
<1>3. QED
  BY <1>1, <1>2, SomeIs DEF Without

LEMMA SomeEmpty == ASSUME NEW S PROVE <<>> \in Some(S) /\ DOMAIN <<>> = {}
<1>1. <<>> \in [{} -> S] /\ DOMAIN <<>> = {}
  OBVIOUS
<1>2. QED
  BY <1>1 DEF Some

\* The first time after now.
LEMMA AfterNow ==
    ASSUME NEW i \in Nat \ {0}, NEW from \in Nat, NEW to \in Nat, from <= to
    PROVE  /\ from + i * ((to - from) \div i + 1) > to
           /\ from + i * ((to - from) \div i + 1) <= to + i
           /\ from + i * ((to - from) \div i + 1) \in Nat
<1> DEFINE d == to - from
           q == d \div i
<1>1. d \in Nat
  OBVIOUS
<1> HIDE DEF d
<1>2. q \in Nat /\ i * q <= d /\ d < i * q + i
  BY <1>1
<1> HIDE DEF q
<1>3. i * (q + 1) = i * q + i /\ i * q \in Nat
  BY <1>2
<1>4. QED
  BY <1>1, <1>2, <1>3 DEF d

LEMMA FirstAfter ==
    ASSUME NEW from \in Nat, AgentInv, from <= now
    PROVE  FirstAfterNow(from) \in Starts /\ FirstAfterNow(from) > now
<1>1. Interval \in Nat \ {0} /\ MaxTime \in Nat /\ now \in Nat /\ now <= MaxTime
  BY JobAssumption DEF AgentInv, AgentTyped
<1>2. /\ FirstAfterNow(from) > now /\ FirstAfterNow(from) <= now + Interval
      /\ FirstAfterNow(from) \in Nat
  BY <1>1, AfterNow DEF FirstAfterNow
<1>3. QED
  BY <1>1, <1>2 DEF Starts

\* A sequence of what there is to tell.
LEMMA InSequence ==
    ASSUME NEW S, IsFiniteSet(S)
    PROVE  SetToSeq(S) \in Seq(S)
<1>1. Cardinality(S) \in Nat /\ ExistsBijection(1 .. Cardinality(S), S)
  BY FS_CardinalityType
<1>2. \E f \in [1 .. Cardinality(S) -> S] : IsInjective(f)
  BY <1>1 DEF ExistsBijection, Bijection, Injection
<1>3. SetToSeq(S) \in [1 .. Cardinality(S) -> S]
  BY <1>2 DEF SetToSeq
<1>4. QED
  BY <1>1, <1>3

\* Tick tells of finitely many jobs.
TellsOf(D) == {[type |-> "next", proc |-> Nobody, job |-> j, at |-> NextOf(j)] : j \in D}
LEMMA TellsAreFinite ==
    ASSUME NEW D, D \subseteq Jobs
    PROVE  IsFiniteSet(TellsOf(D))
<1> DEFINE f == [t \in TellsOf(D) |-> t.job]
<1>1. IsFiniteSet(D)
  BY JobAssumption, FS_Subset
<1>2. \A t \in TellsOf(D) : t.job \in D /\ t = [type |-> "next", proc |-> Nobody, job |-> t.job, at |-> NextOf(t.job)]
  BY DEF TellsOf
<1>3. f \in [TellsOf(D) -> D]
  BY <1>2
<1>4. \A s, t \in TellsOf(D) : s.job = t.job => s = t
  BY <1>2
<1>5. IsInjective(f)
  BY <1>4 DEF IsInjective
<1>6. f \in Injection(TellsOf(D), D)
  BY <1>3, <1>5 DEF Injection
<1>7. QED
  BY <1>1, <1>6, FS_Injection

LEMMA InitAgent == Init => AgentInv
<1> SUFFICES ASSUME Init PROVE AgentInv
  OBVIOUS
<1>1. /\ jobs = [j \in Jobs |-> [edit |-> 0, linked |-> j \notin Unlinked]] /\ jobsFile = jobs
      /\ next = [j \in Jobs |-> 1] /\ nextFile = next /\ now = 0
      /\ wanted = [j \in Jobs |-> 0] /\ copied = {} /\ started = [j \in Jobs |-> {}]
      /\ repeated = {} /\ rewound = {}
  BY DEF Init
<1>2. 0 \in 0 .. MaxEdits /\ 1 \in Starts /\ 0 \in 0 .. MaxTime
  BY JobAssumption DEF Starts
<1>3. jobs \in [Jobs -> Job]
  <2>1. \A j \in Jobs : [edit |-> 0, linked |-> j \notin Unlinked] \in Job
    <3> TAKE j \in Jobs
    <3> DEFINE yes == j \notin Unlinked
    <3>1. yes \in BOOLEAN
      OBVIOUS
    <3> HIDE DEF yes
    <3>2. [edit |-> 0, linked |-> yes] \in Job
      BY <1>2, <3>1 DEF Job
    <3>3. QED
      BY <3>2 DEF yes
  <2>2. QED
    BY <1>1, <2>1
<1>4. DOMAIN jobs = Jobs /\ DOMAIN next = Jobs /\ DOMAIN wanted = Jobs
  BY <1>1
<1>5. AgentTyped
  BY <1>1, <1>2, <1>3, <1>4, SomeIs DEF AgentTyped
<1>6. TimesKept
  BY <1>1, <1>4 DEF TimesKept
<1>7. SavesLast
  <2>1. \A j \in Jobs : jobsFile[j].edit = 0 /\ wanted[j] = 0
    BY <1>1
  <2>2. QED
    BY <1>1, <1>4, <2>1 DEF SavesLast
<1>8. QED
  BY <1>1, <1>5, <1>6, <1>7 DEF AgentInv, OneRunPerTime

LEMMA ListingTyped ==
    ASSUME NEW K, AgentInv, TimesIn(K)
    PROVE  Listing \in JobLists(K)
<1>1. /\ DOMAIN jobs \subseteq Jobs /\ jobs \in [DOMAIN jobs -> Job]
      /\ next \in [DOMAIN next -> Starts]
      /\ DOMAIN jobs \subseteq DOMAIN next
  BY SomeIs DEF AgentInv, AgentTyped, TimesKept
<1>2. \A j \in DOMAIN jobs :
        [edit |-> jobs[j].edit, linked |-> jobs[j].linked,
         next |-> IF j \in DOMAIN next THEN next[j] ELSE Never] \in Timed
  <2> TAKE j \in DOMAIN jobs
  <2> DEFINE yes == jobs[j].linked
             e == jobs[j].edit
             n == next[j]
  <2>1. yes \in BOOLEAN /\ e \in 0 .. MaxEdits /\ n \in Starts
    BY <1>1 DEF Job
  <2> HIDE DEF yes, e, n
  <2>2. [edit |-> e, linked |-> yes, next |-> n] \in Timed
    BY <2>1 DEF Timed
  <2>3. QED
    BY <1>1, <2>2 DEF yes, e, n
<1>3. Listing \in [DOMAIN jobs -> Timed] /\ DOMAIN Listing = DOMAIN jobs
  BY <1>2 DEF Listing
<1>4. \A j \in DOMAIN Listing : Listing[j].next \in K[j]
  BY <1>1 DEF Listing, TimesIn
<1>5. QED
  BY <1>1, <1>3, <1>4, SomeIs DEF JobLists

AgentRests == UNCHANGED <<jobs, jobsFile, next, nextFile, now, wanted, copied, started, repeated, rewound>>

LEMMA AgentRestKeeps ==
    ASSUME AgentInv, AgentRests
    PROVE  AgentInv'
  BY DEF AgentInv, AgentRests, AgentTyped, TimesKept, SavesLast, OneRunPerTime

\* A save moves the next run of its job only, and says so if it started then.
LEMMA SaveKeeps ==
    ASSUME AgentInv, NEW m \in AnySave, HandleJobSave(m), UNCHANGED <<now, started, repeated>>
    PROVE  AgentInv'
<1>1. CASE Refuse(m)
  BY <1>1, AgentRestKeeps DEF Refuse, AgentRests
<1>2. CASE ~Refuse(m)
  <2> DEFINE mj == m.job
             me == m.copy.edit
             mn == m.copy.next
             job == [edit |-> me, linked |-> m.copy.linked]
             at == With(next, mj, mn)
             back == {mj} \cap {j \in DOMAIN at : at[j] \in started[j]}
  <2>1. mj \in Jobs /\ m.copy \in Timed /\ m.by \in {"operator", "server"}
    BY DEF AnySave
  <2>2. SetNext(m) = at
    BY <2>1, JobAssumption DEF SetNext, Timed, Starts, Never
  <2>3. /\ jobs' = With(jobs, mj, job) /\ jobsFile' = jobs'
        /\ next' = at /\ nextFile' = at
        /\ rewound' = rewound \cup back
        /\ IF m.by = "operator"
           THEN wanted' = With(wanted, mj, me) /\ copied' = copied \ {mj}
           ELSE /\ copied' = IF mj \in DOMAIN wanted /\ wanted[mj] = me
                             THEN copied ELSE copied \cup {mj}
                /\ UNCHANGED wanted
    BY <1>2, <2>2 DEF HandleJobSave, Commit
  <2>4. job \in Job /\ mn \in Starts /\ me \in 0 .. MaxEdits
    <3> DEFINE yes == m.copy.linked
               e == m.copy.edit
    <3>1. yes \in BOOLEAN /\ e \in 0 .. MaxEdits /\ mn \in Starts
      BY <2>1 DEF Timed
    <3> HIDE DEF yes, e
    <3>2. [edit |-> e, linked |-> yes] \in Job
      BY <3>1 DEF Job
    <3>3. QED
      BY <3>1, <3>2 DEF yes, e
  <2> HIDE DEF mj, me, mn, job
  <2>5. /\ jobs \in Some(Job) /\ next \in Some(Starts) /\ wanted \in Some(0 .. MaxEdits)
        /\ jobsFile = jobs
    BY DEF AgentInv, AgentTyped
  <2>6. /\ jobs' \in Some(Job) /\ DOMAIN jobs' = DOMAIN jobs \cup {mj}
        /\ jobs'[mj] = job /\ \A k \in DOMAIN jobs \ {mj} : jobs'[k] = jobs[k]
    <3>1. Sets(Job, jobs, mj, job)
      BY <2>1, <2>4, <2>5, SomeWith
    <3>2. QED
      BY <2>3, <3>1 DEF Sets
  <2>7. /\ at \in Some(Starts) /\ DOMAIN at = DOMAIN next \cup {mj}
        /\ \A k \in DOMAIN next \ {mj} : at[k] = next[k]
    <3>1. Sets(Starts, next, mj, mn)
      BY <2>1, <2>4, <2>5, SomeWith
    <3>2. QED
      BY <3>1 DEF Sets
  <2> DEFINE want == With(wanted, mj, me)
  <2>8. /\ want \in Some(0 .. MaxEdits) /\ DOMAIN want = DOMAIN wanted \cup {mj}
        /\ want[mj] = me
        /\ \A k \in DOMAIN wanted \ {mj} : want[k] = wanted[k]
    <3>1. Sets(0 .. MaxEdits, wanted, mj, me)
      BY <2>1, <2>4, <2>5, SomeWith
    <3>2. QED
      BY <3>1 DEF Sets
  <2>9. job.edit = me
    BY DEF job
  <2>10. back \subseteq Jobs /\ (mj \in DOMAIN at /\ at[mj] \in started[mj] => mj \in back)
    BY <2>1
  <2> HIDE DEF at, want, back
  <2>11. AgentTyped'
    BY <2>1, <2>3, <2>6, <2>7, <2>8, <2>10 DEF AgentInv, AgentTyped, want
  <2>12. TimesKept'
    <3>1. DOMAIN jobs' \subseteq DOMAIN next' /\ DOMAIN jobs' \subseteq DOMAIN nextFile'
      BY <2>3, <2>6, <2>7 DEF AgentInv, TimesKept
    <3>2. \A j \in DOMAIN next' : next'[j] \in started'[j] => j \in rewound'
      BY <2>3, <2>7, <2>10 DEF AgentInv, TimesKept
    <3>3. QED
      BY <3>1, <3>2 DEF AgentInv, TimesKept
  <2>13. SavesLast'
    <3> SUFFICES ASSUME NEW j \in Jobs \ copied'
                 PROVE  /\ j \in DOMAIN jobsFile' <=> j \in DOMAIN wanted'
                        /\ j \in DOMAIN wanted' => jobsFile'[j].edit = wanted'[j]
      BY DEF SavesLast
    <3>1. CASE j # mj
      <4>1. j \notin copied
        BY <2>3, <3>1
      <4>2. /\ j \in DOMAIN jobs <=> j \in DOMAIN wanted
            /\ j \in DOMAIN wanted => jobs[j].edit = wanted[j]
        BY <2>5, <4>1 DEF AgentInv, SavesLast
      <4>3. (j \in DOMAIN wanted' <=> j \in DOMAIN wanted) /\ (j \in DOMAIN wanted => wanted'[j] = wanted[j])
        BY <2>3, <2>8, <3>1 DEF want
      <4>4. QED
        BY <2>3, <2>6, <3>1, <4>2, <4>3
    <3>2. CASE j = mj
      <4>1. CASE m.by = "operator"
        BY <2>3, <2>6, <2>8, <2>9, <3>2, <4>1 DEF want
      <4>2. CASE m.by # "operator"
        <5>1. mj \in DOMAIN wanted /\ wanted[mj] = me /\ wanted' = wanted
          BY <2>3, <3>2, <4>2
        <5>2. QED
          BY <2>3, <2>6, <2>9, <3>2, <5>1
      <4>3. QED
        BY <4>1, <4>2
    <3>3. QED
      BY <3>1, <3>2
  <2>14. OneRunPerTime'
    BY <2>3 DEF AgentInv, OneRunPerTime
  <2>15. QED
    BY <2>11, <2>12, <2>13, <2>14 DEF AgentInv
<1>3. QED
  BY <1>1, <1>2

LEMMA DeleteKeeps ==
    ASSUME AgentInv, NEW m \in DeleteAsk, HandleJobDelete(m), UNCHANGED <<now, started, repeated>>
    PROVE  AgentInv'
<1>1. CASE UNCHANGED <<jobs, jobsFile, next, nextFile, wanted, copied, rewound>>
  BY <1>1, AgentRestKeeps DEF AgentRests
<1>2. CASE ~UNCHANGED <<jobs, jobsFile, next, nextFile, wanted, copied, rewound>>
  <2> DEFINE mj == m.job
  <2>1. /\ jobs' = Without(jobs, mj) /\ jobsFile' = jobs'
        /\ next' = Without(next, mj) /\ nextFile' = next'
        /\ wanted' = Without(wanted, mj) /\ copied' = copied \ {mj} /\ rewound' = rewound
    BY <1>2 DEF HandleJobDelete, Commit
  <2> HIDE DEF mj
  <2>2. /\ jobs \in Some(Job) /\ next \in Some(Starts) /\ wanted \in Some(0 .. MaxEdits)
        /\ jobsFile = jobs
    BY DEF AgentInv, AgentTyped
  <2>3. /\ jobs' \in Some(Job) /\ DOMAIN jobs' = DOMAIN jobs \ {mj}
        /\ \A k \in DOMAIN jobs \ {mj} : jobs'[k] = jobs[k]
    BY <2>1, <2>2, SomeWithout
  <2>4. /\ next' \in Some(Starts) /\ DOMAIN next' = DOMAIN next \ {mj}
        /\ \A k \in DOMAIN next \ {mj} : next'[k] = next[k]
    BY <2>1, <2>2, SomeWithout
  <2>5. /\ wanted' \in Some(0 .. MaxEdits) /\ DOMAIN wanted' = DOMAIN wanted \ {mj}
        /\ \A k \in DOMAIN wanted \ {mj} : wanted'[k] = wanted[k]
    BY <2>1, <2>2, SomeWithout
  <2>6. AgentTyped'
    BY <2>1, <2>3, <2>4, <2>5 DEF AgentInv, AgentTyped
  <2>7. TimesKept'
    BY <2>1, <2>3, <2>4 DEF AgentInv, TimesKept
  <2>8. SavesLast'
    <3> SUFFICES ASSUME NEW j \in Jobs \ copied'
                 PROVE  /\ j \in DOMAIN jobs' <=> j \in DOMAIN wanted'
                        /\ j \in DOMAIN wanted' => jobs'[j].edit = wanted'[j]
      BY <2>1 DEF SavesLast
    <3>1. CASE j = mj
      BY <2>3, <2>5, <3>1
    <3>2. CASE j # mj
      <4>1. /\ j \in DOMAIN jobs <=> j \in DOMAIN wanted
            /\ j \in DOMAIN wanted => jobs[j].edit = wanted[j]
        BY <2>1, <2>2, <3>2 DEF AgentInv, SavesLast
      <4>2. QED
        BY <2>3, <2>5, <3>2, <4>1
    <3>3. QED
      BY <3>1, <3>2
  <2>9. QED
    BY <2>1, <2>6, <2>7, <2>8 DEF AgentInv, OneRunPerTime
<1>3. QED
  BY <1>1, <1>2

\* A restart drops the times of jobs there are no more, and marks those set back.
LEMMA RestartKeeps ==
    ASSUME AgentInv, Restart
    PROVE  AgentInv'
<1>1. /\ jobs' = jobsFile /\ next' = WithoutOrphans(nextFile, jobsFile) /\ nextFile' = next'
      /\ rewound' = rewound \cup {j \in DOMAIN next' : next'[j] \in started[j]}
      /\ UNCHANGED <<jobsFile, now, wanted, copied, started, repeated>>
  BY DEF Restart
<1>2. /\ jobsFile = jobs /\ DOMAIN jobs \subseteq Jobs /\ DOMAIN jobs \subseteq DOMAIN nextFile
      /\ nextFile \in [DOMAIN nextFile -> Starts]
  BY SomeIs DEF AgentInv, AgentTyped, TimesKept
<1>3. next' \in [DOMAIN jobs -> Starts] /\ DOMAIN next' = DOMAIN jobs
  BY <1>1, <1>2 DEF WithoutOrphans
<1>4. next' \in Some(Starts)
  BY <1>2, <1>3, SomeIs
<1>5. AgentTyped'
  BY <1>1, <1>2, <1>3, <1>4 DEF AgentInv, AgentTyped
<1>6. TimesKept'
  BY <1>1, <1>2, <1>3 DEF AgentInv, TimesKept
<1>7. SavesLast'
  BY <1>1 DEF AgentInv, SavesLast
<1>8. QED
  BY <1>1, <1>5, <1>6, <1>7 DEF AgentInv, OneRunPerTime

LEMMA NoneIsNew == AgentInv => New = {}
  BY DEF AgentInv, TimesKept, New

\* A tick: what is due moves to a time after now, for which nothing has started yet.
LEMMA TickKeeps ==
    ASSUME AgentInv, Tick
    PROVE  AgentInv'
<1>1. /\ next' = [j \in DOMAIN next |-> IF j \in Due THEN FirstAfterNow(next[j]) ELSE next[j]]
      /\ nextFile' \in {next', nextFile}
      /\ started' = [j \in Jobs |-> IF j \in Due THEN started[j] \cup {next[j]} ELSE started[j]]
      /\ repeated' = repeated \cup {j \in Due : next[j] \in started[j]}
      /\ UNCHANGED <<jobs, jobsFile, now, wanted, copied, rewound>>
  BY NoneIsNew DEF Tick, NextOf
<1>2. /\ DOMAIN next \subseteq Jobs /\ next \in [DOMAIN next -> Starts]
      /\ DOMAIN jobs \subseteq DOMAIN next
      /\ started \in [Jobs -> SUBSET Starts]
  BY SomeIs DEF AgentInv, AgentTyped, TimesKept
<1>3. \A j \in Due : /\ j \in DOMAIN next /\ j \in Jobs /\ next[j] \in Starts /\ next[j] <= now
                     /\ next[j] \in Nat
  BY <1>2 DEF Due, Starts
<1>4. \A j \in Due : FirstAfterNow(next[j]) \in Starts /\ FirstAfterNow(next[j]) > now
  BY <1>3, FirstAfter
<1>5. next' \in [DOMAIN next -> Starts] /\ DOMAIN next' = DOMAIN next
  BY <1>1, <1>2, <1>4
<1>6. next' \in Some(Starts)
  BY <1>2, <1>5, SomeIs
<1>7. started' \in [Jobs -> SUBSET Starts]
  BY <1>1, <1>2, <1>3
<1>8. \A j \in Jobs : \A t \in started'[j] : t <= now
  BY <1>1, <1>3 DEF AgentInv, TimesKept
<1>9. repeated' \subseteq rewound
  BY <1>1, <1>3 DEF AgentInv, TimesKept, OneRunPerTime
<1>10. \A j \in DOMAIN next' : next'[j] \in started'[j] => j \in rewound
  <2> SUFFICES ASSUME NEW j \in DOMAIN next', next'[j] \in started'[j] PROVE j \in rewound
    OBVIOUS
  <2>1. CASE j \in Due
    <3>1. next'[j] > now /\ next'[j] \in Nat /\ now \in Nat
      BY <1>1, <1>3, <1>4, <2>1 DEF AgentInv, AgentTyped, Starts
    <3>2. next'[j] <= now
      BY <1>3, <1>8, <2>1
    <3>3. QED
      BY <3>1, <3>2
  <2>2. CASE j \notin Due
    BY <1>1, <1>2, <1>5, <2>2 DEF AgentInv, TimesKept
  <2>3. QED
    BY <2>1, <2>2
<1>11. AgentTyped'
  <2>1. repeated' \subseteq Jobs
    BY <1>1, <1>3 DEF AgentInv, AgentTyped
  <2>2. QED
    BY <1>1, <1>6, <1>7, <2>1 DEF AgentInv, AgentTyped
<1>12. TimesKept'
  <2>1. DOMAIN jobs' \subseteq DOMAIN nextFile'
    BY <1>1, <1>2, <1>5 DEF AgentInv, TimesKept
  <2>2. QED
    BY <1>1, <1>2, <1>5, <1>8, <1>10, <2>1 DEF TimesKept
<1>13. QED
  BY <1>1, <1>9, <1>11, <1>12 DEF AgentInv, SavesLast, OneRunPerTime

LEMMA PassesKeeps ==
    ASSUME AgentInv, Passes
    PROVE  AgentInv'
<1>1. now' \in 0 .. MaxTime /\ now' = now + 1 /\ now \in Nat
  BY JobAssumption DEF AgentInv, AgentTyped, Passes
<1>2. UNCHANGED <<jobs, jobsFile, next, nextFile, wanted, copied, started, repeated, rewound>>
  BY DEF Passes, past
<1>3. \A j \in Jobs : \A t \in started[j] : t \in Nat
  BY DEF AgentInv, AgentTyped, Starts
<1>4. TimesKept'
  BY <1>1, <1>2, <1>3 DEF AgentInv, TimesKept
<1>5. QED
  BY <1>1, <1>2, <1>4 DEF AgentInv, AgentTyped, SavesLast, OneRunPerTime

-----------------------------------------------------------------------------
\* t has of process p nothing that s has not.
Fewer(s, t, p) ==
    /\ Single(s, p) => Single(t, p)
    /\ Silent(s, p) => Silent(t, p)
    /\ \A i \in DOMAIN t : t[i].proc = p => \E k \in DOMAIN s : s[k] = t[i]

LEMMA FewerFits ==
    ASSUME NEW p, NEW q, NEW r, NEW a, NEW b, NEW s, NEW t, Fits(p, q, a, s),
           Fewer(a, b, p), Fewer(s, t, p), SameTask(q, r), r = Idle => q = Idle
    PROVE  Fits(p, r, b, t)
<1>1. \A m : (AskFits(m, q) => AskFits(m, r)) /\ (TellFits(m, q) => TellFits(m, r))
  BY DEF SameTask, AskFits, TellFits
<1>3. AsksFit(b, p, r)
  BY <1>1 DEF Fits, Fewer, AsksFit
<1>4. TellsFit(t, p, r)
  BY <1>1 DEF Fits, Fewer, TellsFit
<1>2. QED
  BY <1>3, <1>4 DEF Fits, Fewer

LEMMA FewerSame == ASSUME NEW s, NEW p PROVE Fewer(s, s, p)
  BY DEF Fewer

LEMMA FewerTail ==
    ASSUME NEW S, NEW s \in Seq(S), s # <<>>, NEW p
    PROVE  /\ Tail(s) \in Seq(S) /\ Fewer(s, Tail(s), p)
           /\ Head(s).proc = p /\ Single(s, p) => Silent(Tail(s), p)
           /\ Head(s).proc = p => ~Silent(s, p)
<1>1. /\ Tail(s) \in Seq(S) /\ 1 \in DOMAIN s /\ Head(s) = s[1]
      /\ \A i \in DOMAIN Tail(s) : i + 1 \in DOMAIN s /\ Tail(s)[i] = s[i + 1] /\ i + 1 # 1
      /\ \A i, k \in DOMAIN Tail(s) : i + 1 = k + 1 => i = k
  OBVIOUS
<1>2. QED
  BY <1>1 DEF Fewer, Single, Silent

LEMMA FewerAppend ==
    ASSUME NEW S, NEW s \in Seq(S), NEW m \in S, NEW p
    PROVE  /\ Append(s, m) \in Seq(S)
           /\ m.proc # p => Fewer(s, Append(s, m), p)
           /\ Silent(s, p) => Single(Append(s, m), p)
           /\ \A i \in DOMAIN Append(s, m) : Append(s, m)[i].proc = p =>
                 Append(s, m)[i] = m \/ ~Silent(s, p)
<1>1. /\ Append(s, m) \in Seq(S)
      /\ \A i \in DOMAIN Append(s, m) : (i \in DOMAIN s /\ Append(s, m)[i] = s[i])
                                        \/ (i = Len(s) + 1 /\ Append(s, m)[i] = m)
  OBVIOUS
<1>2. QED
  BY <1>1 DEF Fewer, Single, Silent

LEMMA FewerMore ==
    ASSUME NEW S, NEW s \in Seq(S), NEW t \in Seq(S), NEW p, \A i \in DOMAIN t : t[i].proc # p
    PROVE  s \o t \in Seq(S) /\ Fewer(s, s \o t, p)
<1>1. /\ s \o t \in Seq(S)
      /\ \A i \in DOMAIN (s \o t) : (i \in DOMAIN s /\ (s \o t)[i] = s[i])
                                    \/ (i - Len(s) \in DOMAIN t /\ (s \o t)[i] = t[i - Len(s)])
  OBVIOUS
<1>2. QED
  BY <1>1 DEF Fewer, Single, Silent

LEMMA UnaskedTyped ==
    ASSUME NEW K
    PROVE
    /\ \A m \in Asks(K) : [m EXCEPT !.proc = Nobody] \in Asks(K)
    /\ \A m \in Tells(K) : [m EXCEPT !.proc = Nobody] \in Tells(K)
    /\ \A m \in Asks(K) \cup Tells(K) : /\ [m EXCEPT !.proc = Nobody].type = m.type
                                  /\ [m EXCEPT !.proc = Nobody].proc = Nobody
<1>1. Nobody \in Askers
  BY DEF Askers
<1>2. \A m \in ListAsk : [m EXCEPT !.proc = Nobody] \in ListAsk
  BY <1>1 DEF ListAsk
<1>3. \A m \in SaveAsk(K) : [m EXCEPT !.proc = Nobody] \in SaveAsk(K)
  BY <1>1 DEF SaveAsk, AnySave
<1>4. \A m \in DeleteAsk : [m EXCEPT !.proc = Nobody] \in DeleteAsk
  BY <1>1 DEF DeleteAsk
<1>5. \A m \in ListTell(K) : [m EXCEPT !.proc = Nobody] \in ListTell(K)
  BY <1>1 DEF ListTell
<1>6. \A m \in DoneTell : [m EXCEPT !.proc = Nobody] \in DoneTell
  BY <1>1 DEF DoneTell
<1>7. \A m \in NextTell(K) : [m EXCEPT !.proc = Nobody] \in NextTell(K)
  BY DEF NextTell
<1>8. \A m \in Asks(K) \cup Tells(K) : /\ [m EXCEPT !.proc = Nobody].type = m.type
                                 /\ [m EXCEPT !.proc = Nobody].proc = Nobody
  <2>1. \A m \in Asks(K) : [m EXCEPT !.proc = Nobody].type = m.type /\ [m EXCEPT !.proc = Nobody].proc = Nobody
    BY DEF Asks, ListAsk, SaveAsk, AnySave, DeleteAsk
  <2>2. \A m \in Tells(K) : [m EXCEPT !.proc = Nobody].type = m.type /\ [m EXCEPT !.proc = Nobody].proc = Nobody
    BY DEF Tells, ListTell, DoneTell, NextTell
  <2>3. QED
    BY <2>1, <2>2
<1>9. QED
  BY <1>2, <1>3, <1>4, <1>5, <1>6, <1>7, <1>8 DEF Asks, Tells

LEMMA FewerAnonymous ==
    ASSUME NEW K, NEW S, S \in {Asks(K), Tells(K)}, NEW s \in Seq(S), NEW p \in Processes, NEW r \in Processes
    PROVE  /\ Anonymous(s, p) \in Seq(S) /\ Fewer(s, Anonymous(s, p), r)
           /\ Silent(Anonymous(s, p), p)
<1>1. \A m \in S : /\ [m EXCEPT !.proc = Nobody] \in S
                   /\ [m EXCEPT !.proc = Nobody].type = m.type
                   /\ [m EXCEPT !.proc = Nobody].proc = Nobody
  BY UnaskedTyped
<1>2. p # Nobody /\ r # Nobody
  BY JobAssumption DEF Nobody
<1> DEFINE t == Anonymous(s, p)
<1>3. \A i \in DOMAIN s : s[i] \in S
  OBVIOUS
<1>4. /\ DOMAIN t = DOMAIN s
      /\ \A i \in DOMAIN s : t[i] = IF s[i].proc = p THEN [s[i] EXCEPT !.proc = Nobody] ELSE s[i]
  BY DEF Anonymous
<1>5. t = [i \in DOMAIN s |-> t[i]] /\ DOMAIN s = 1 .. Len(s) /\ Len(s) \in Nat
  BY DEF Anonymous
<1> HIDE DEF t
<1>6. \A i \in DOMAIN s : t[i] \in S
  BY <1>1, <1>3, <1>4
<1>7. t \in [1 .. Len(s) -> S]
  BY <1>4, <1>5, <1>6
<1>10. t \in Seq(S)
  BY <1>5, <1>7
<1>8. \A i \in DOMAIN s : /\ t[i].type = s[i].type /\ t[i].proc # p
                          /\ t[i].proc = r => t[i] = s[i]
  <2> TAKE i \in DOMAIN s
  <2>1. CASE s[i].proc # p
    BY <1>4, <2>1
  <2>2. CASE s[i].proc = p
    <3>1. t[i] = [s[i] EXCEPT !.proc = Nobody] /\ s[i] \in S
      BY <1>3, <1>4, <2>2
    <3>2. t[i].type = s[i].type /\ t[i].proc = Nobody
      BY <1>1, <3>1
    <3>3. QED
      BY <1>2, <3>2
  <2>3. QED
    BY <2>1, <2>2
<1>9. QED
  BY <1>4, <1>10, <1>8 DEF Fewer, Single, Silent, t

\* What a process asks, and who it becomes: it waits for the answer or is idle.
Goes(K, p, at) ==
    \/ Finish(p, at)
    \/ \E m \in Asks(K), q \in Process(K) :
         /\ Ask(p, m, q, at) /\ m.proc = p /\ q # Idle /\ TodoOf(q, cache')
         /\ AskFits(m, q)

\* While one process goes on, nothing of the others changes.
OthersRest(p, at) ==
    \A r \in Processes \ {p} :
        /\ Fewer(toAgent, at.sent, r) /\ Fewer(toServer, toServer', r)
        /\ SameTask(procs[r], at.procs[r]) /\ (at.procs[r] = Idle => procs[r] = Idle)
        /\ TodoOf(at.procs[r], cache')

LEMMA GoesKeeps ==
    ASSUME NEW K, ServerInv(K), NEW p \in Processes, NEW at, Goes(K, p, at), OthersRest(p, at),
           at.sent \in Seq(Asks(K)), at.procs \in [Processes -> Process(K)],
           Silent(at.sent, p), Silent(toServer', p),
           toServer' \in Seq(Tells(K)), cache' \in Cached(K), shown' \in Cached(K),
           up' \in BOOLEAN, editor' \subseteq InEditor(K), edits' \in Nat
    PROVE  ServerInv(K)'
<1>1. CASE Finish(p, at)
  <2>1. toAgent' = at.sent /\ procs' = [at.procs EXCEPT ![p] = Idle]
    BY <1>1 DEF Finish
  <2>2. \A r \in Processes : procs'[r] = IF r = p THEN Idle ELSE at.procs[r]
    BY <2>1
  <2>3. procs' \in [Processes -> Process(K)]
    BY <2>1 DEF Process
  <2>4. \A r \in Processes : TodoOf(procs'[r], cache')
    BY <2>2 DEF OthersRest, TodoOf, Idle
  <2>5. Fits(p, procs'[p], toAgent', toServer')
    BY <2>1, <2>2 DEF Fits, Silent, Single, AsksFit, TellsFit
  <2>6. \A r \in Processes \ {p} : Fits(r, procs'[r], toAgent', toServer')
    <3> TAKE r \in Processes \ {p}
    <3>1. Fits(r, procs[r], toAgent, toServer)
      BY DEF ServerInv
    <3>2. QED
      BY <2>1, <2>2, <3>1, FewerFits DEF OthersRest
  <2>7. QED
    BY <2>1, <2>3, <2>4, <2>5, <2>6 DEF ServerInv, ServerTyped
<1>2. ASSUME NEW m \in Asks(K), NEW q \in Process(K), Ask(p, m, q, at), m.proc = p, q # Idle,
             TodoOf(q, cache'), AskFits(m, q)
      PROVE  ServerInv(K)'
  <2>1. toAgent' = Append(at.sent, m) /\ procs' = [at.procs EXCEPT ![p] = q]
    BY <1>2 DEF Ask
  <2>2. \A r \in Processes : procs'[r] = IF r = p THEN q ELSE at.procs[r]
    BY <2>1
  <2>3. procs' \in [Processes -> Process(K)]
    BY <2>1, <1>2
  <2>4. \A r \in Processes : TodoOf(procs'[r], cache')
    BY <1>2, <2>2 DEF OthersRest
  <2>5. Fits(p, procs'[p], toAgent', toServer')
    <3>1. Single(toAgent', p) /\ \A i \in DOMAIN toAgent' : toAgent'[i].proc = p => toAgent'[i] = m
      BY <2>1, FewerAppend
    <3>2. AsksFit(toAgent', p, q)
      BY <1>2, <3>1 DEF AsksFit
    <3>3. QED
      BY <1>2, <2>2, <3>1, <3>2 DEF Fits, Silent, Single, AsksFit, TellsFit
  <2>6. \A r \in Processes \ {p} : Fits(r, procs'[r], toAgent', toServer')
    <3> TAKE r \in Processes \ {p}
    <3>1. Fits(r, procs[r], toAgent, toServer) /\ m.proc # r
      BY <1>2 DEF ServerInv
    <3>2. Fewer(at.sent, toAgent', r) /\ Fewer(toAgent, at.sent, r) /\ Fewer(toServer, toServer', r)
      BY <2>1, <3>1, FewerAppend DEF OthersRest
    <3>3. Fewer(toAgent, toAgent', r)
      BY <3>2 DEF Fewer
    <3>4. QED
      BY <2>2, <3>1, <3>2, <3>3, FewerFits DEF OthersRest
  <2>7. toAgent' \in Seq(Asks(K))
    BY <1>2, <2>1, FewerAppend
  <2>8. QED
    BY <2>3, <2>4, <2>5, <2>6, <2>7 DEF ServerInv, ServerTyped
<1>3. QED
  BY <1>1, <1>2 DEF Goes

LEMMA AskListGoes ==
    ASSUME NEW K, NEW p \in Processes, NEW w \in SUBSET InEditor(K), NEW at, AskList(p, w, at)
    PROVE  Goes(K, p, at)
<1>1. [type |-> "list", proc |-> p] \in Asks(K)
  BY DEF Asks, ListAsk, Askers
<1>2. [kind |-> "list", then |-> w] \in Process(K) /\ [kind |-> "list", then |-> w] # Idle
  <2>1. [kind |-> "list", then |-> w].kind = "list" /\ Idle.kind = "idle"
    BY DEF Idle
  <2>2. QED
    BY <2>1 DEF Process, Listings
<1>3. QED
  BY <1>1, <1>2 DEF AskList, Goes, TodoOf, AskFits

\* A whole job is sent, with an id or as it was listed.
LEMMA AskSaveGoes ==
    ASSUME NEW K, NEW p \in Processes, NEW by \in {"operator", "server"}, NEW j \in Jobs,
           NEW v \in Timed, NEW q \in Process(K), NEW at, AskSave(p, by, j, v, q, at), q # Idle,
           TodoOf(q, cache'), v.next \in K[j], by = "operator" => q.kind = "save",
           by = "server" => q.kind \in {"backfill", "distribute"} /\ q.job = j /\ v.linked
    PROVE  Goes(K, p, at)
<1> DEFINE m == [type |-> "save", proc |-> p, by |-> by, job |-> j, copy |-> v]
<1>1. m \in AnySave /\ m.proc = p /\ m.type = "save" /\ m.by = by /\ m.job = j /\ m.copy = v
  BY DEF AnySave, Askers
<1>2. Ask(p, m, q, at)
  BY DEF AskSave
<1> HIDE DEF m
<1>3. m \in Asks(K)
  BY <1>1 DEF Asks, SaveAsk
<1>4. AskFits(m, q)
  BY <1>1 DEF AskFits
<1>5. QED
  BY <1>1, <1>2, <1>3, <1>4 DEF Goes

LEMMA LinkedIs ==
    ASSUME NEW v \in Timed
    PROVE  /\ [v EXCEPT !.linked = TRUE] \in Timed /\ [v EXCEPT !.linked = TRUE].linked
           /\ [v EXCEPT !.linked = TRUE].next = v.next
  BY DEF Timed

LEMMA SavingIs ==
    ASSUME NEW K
    PROVE  [kind |-> "save"] \in Process(K) /\ [kind |-> "save"] # Idle /\ [kind |-> "save"].kind = "save"
<1>1. [kind |-> "save"].kind = "save" /\ Idle.kind = "idle"
  BY DEF Idle
<1>2. QED
  BY <1>1 DEF Process

LEMMA EndRefreshGoes ==
    ASSUME NEW K, NEW p \in Processes, NEW w \in SUBSET InEditor(K), NEW at, EndRefresh(p, w, at)
    PROVE  Goes(K, p, at)
<1>1. CASE ~\E s \in w : s.job \in DOMAIN cache'.list
  BY <1>1 DEF EndRefresh, Goes
<1>2. CASE \E s \in w : s.job \in DOMAIN cache'.list
  <2>1. (CHOOSE s \in w : TRUE) \in w
    BY <1>2
  <2>2. PICK e \in w : e = CHOOSE s \in w : TRUE
    BY <2>1
  <2>3. AskSave(p, "operator", e.job, e.copy, [kind |-> "save"], at)
    BY <1>2, <2>2 DEF EndRefresh
  <2>4. e.job \in Jobs /\ e.copy \in Timed /\ e.copy.next \in K[e.job]
    BY DEF InEditor
  <2>5. TodoOf([kind |-> "save"], cache')
    BY SavingIs DEF TodoOf
  <2>6. QED
    BY <2>3, <2>4, <2>5, SavingIs, AskSaveGoes
<1>3. QED
  BY <1>1, <1>2

AnyJob == Jobs \cup {FirstJob}

LEMMA GoBackfillGoes ==
    ASSUME NEW K, NEW p \in Processes, NEW b \in Backfills(K, AnyJob), NEW at, GoBackfill(p, b, at),
           b.todo \subseteq DOMAIN b.list \cap Matched, cache'.known, cache' \in Cached(K), shown \in Cached(K)
    PROVE  Goes(K, p, at) /\ shown' \in Cached(K)
<1>0. b.then \in SUBSET InEditor(K) /\ b.todo \subseteq Jobs
  BY DEF Backfills
<1>1. CASE b.todo = {}
  <2>1. shown' = [known |-> TRUE, list |-> cache'.list] /\ EndRefresh(p, b.then, at)
    BY <1>1 DEF GoBackfill
  <2>2. shown' \in Cached(K)
    BY <2>1 DEF Cached
  <2>3. QED
    BY <1>0, <2>1, <2>2, EndRefreshGoes
<1>2. CASE b.todo # {}
  <2>1. PICK j \in b.todo : AskSave(p, "server", j, [b.list[j] EXCEPT !.linked = TRUE],
                                    [b EXCEPT !.job = j, !.todo = @ \ {j}], at)
    BY <1>2 DEF GoBackfill
  <2>2. shown' = shown
    BY <1>2 DEF GoBackfill
  <2> DEFINE e == [b EXCEPT !.job = j]
             f == [e EXCEPT !.todo = e.todo \ {j}]
  <2>3. j \in Jobs
    BY <1>0
  <2>4. e \in Backfills(K, Jobs) /\ e.todo = b.todo /\ e.list = b.list /\ e.job = j
    BY <2>3 DEF Backfills
  <2>5. [b EXCEPT !.job = j, !.todo = @ \ {j}] = f
    BY Zenon DEF Backfills
  <2> HIDE DEF e
  <2>6. /\ f \in Backfills(K, Jobs) /\ f.todo \subseteq DOMAIN f.list \cap Matched
        /\ f.kind = "backfill" /\ f.job = j
    BY <2>4 DEF Backfills
  <2> HIDE DEF f
  <2>7. f \in Process(K) /\ f # Idle /\ TodoOf(f, cache')
    BY <2>6 DEF Process, Idle, TodoOf
  <2>8. b.list[j] \in Timed /\ b.list[j].next \in K[j]
    BY SomeIs DEF Backfills, JobLists
  <2>9. QED
    BY <2>1, <2>2, <2>3, <2>5, <2>6, <2>7, <2>8, LinkedIs, AskSaveGoes
<1>3. QED
  BY <1>1, <1>2

LEMMA GoDistributeGoes ==
    ASSUME NEW K, NEW p \in Processes, NEW d \in Distributions(K, AnyJob), NEW at, GoDistribute(p, d, at),
           d.todo \subseteq (IF d.live THEN DOMAIN cache'.list ELSE DOMAIN d.list), cache' \in Cached(K)
    PROVE  Goes(K, p, at)
<1>0. d.todo \subseteq Jobs
  BY DEF Distributions
<1>1. CASE d.todo = {}
  <2>1. CASE d.done
    BY <1>1, <2>1, AskListGoes DEF GoDistribute
  <2>2. CASE ~d.done
    BY <1>1, <2>2 DEF GoDistribute, Goes
  <2>3. QED
    BY <2>1, <2>2
<1>2. CASE d.todo # {}
  <2> DEFINE from == IF d.live THEN cache'.list ELSE d.list
  <2>1. PICK j \in d.todo : AskSave(p, "server", j, [from[j] EXCEPT !.linked = TRUE],
                                    [d EXCEPT !.job = j, !.todo = @ \ {j}], at)
    BY <1>2 DEF GoDistribute
  <2>2. from \in JobLists(K) /\ j \in DOMAIN from
    BY DEF Distributions, Cached
  <2> HIDE DEF from
  <2> DEFINE e == [d EXCEPT !.job = j]
             f == [e EXCEPT !.todo = e.todo \ {j}]
  <2>3. j \in Jobs
    BY <1>0
  <2>4. /\ e \in Distributions(K, Jobs) /\ e.todo = d.todo /\ e.list = d.list /\ e.live = d.live
        /\ e.job = j
    BY <2>3 DEF Distributions
  <2>5. [d EXCEPT !.job = j, !.todo = @ \ {j}] = f
    BY Zenon DEF Distributions
  <2> HIDE DEF e
  <2>6. /\ f \in Distributions(K, Jobs) /\ f.kind = "distribute" /\ f.job = j
        /\ f.todo \subseteq d.todo /\ f.list = d.list /\ f.live = d.live
    BY <2>4 DEF Distributions
  <2> HIDE DEF f
  <2>7. f \in Process(K) /\ f # Idle /\ TodoOf(f, cache')
    BY <2>6 DEF Process, Idle, TodoOf
  <2>8. from[j] \in Timed /\ from[j].next \in K[j]
    BY <2>2, SomeIs DEF JobLists
  <2>9. QED
    BY <2>1, <2>3, <2>5, <2>6, <2>7, <2>8, LinkedIs, AskSaveGoes
<1>3. QED
  BY <1>1, <1>2

\* A list with one entry changed.
LEMMA StampedTyped ==
    ASSUME NEW K, NEW v \in Cached(K), NEW j
    PROVE  /\ [v EXCEPT !.list[j].linked = TRUE] \in Cached(K)
           /\ SameJobs(v, [v EXCEPT !.list[j].linked = TRUE])
<1> DEFINE l == v.list
           k == [l EXCEPT ![j].linked = TRUE]
           w == [v EXCEPT !.list = k]
<1>1. DOMAIN l \subseteq Jobs /\ l \in [DOMAIN l -> Timed] /\ l \in JobLists(K)
  BY SomeIs DEF Cached, JobLists
<1>2. [v EXCEPT !.list[j].linked = TRUE] = w
  BY Zenon
<1>3. k \in [DOMAIN l -> Timed] /\ DOMAIN k = DOMAIN l
  BY <1>1, LinkedIs
<1>7. \A i \in DOMAIN l : k[i].next = l[i].next
  BY <1>1, LinkedIs
<1>4. k \in JobLists(K)
  BY <1>1, <1>3, <1>7, SomeIs DEF JobLists
<1> HIDE DEF k
<1>5. w \in Cached(K) /\ w.list = k /\ w.known = v.known
  BY <1>4 DEF Cached
<1> HIDE DEF w
<1>6. QED
  BY <1>2, <1>3, <1>5 DEF SameJobs

LEMMA MovedTyped ==
    ASSUME NEW K, NEW v \in Cached(K), NEW j \in Jobs, NEW t \in Starts, t \in K[j]
    PROVE  Moved(v, j, t) \in Cached(K) /\ SameJobs(v, Moved(v, j, t))
<1>1. CASE j \notin DOMAIN v.list
  BY <1>1 DEF Moved, SameJobs
<1>2. CASE j \in DOMAIN v.list
  <2> DEFINE l == v.list
             k == [l EXCEPT ![j].next = t]
             w == [v EXCEPT !.list = k]
  <2>1. DOMAIN l \subseteq Jobs /\ l \in [DOMAIN l -> Timed] /\ l \in JobLists(K)
    BY SomeIs DEF Cached, JobLists
  <2>2. Moved(v, j, t) = w
    BY <1>2, Zenon DEF Moved
  <2>3. [l[j] EXCEPT !.next = t] \in Timed /\ [l[j] EXCEPT !.next = t].next = t
    BY <1>2, <2>1 DEF Timed
  <2>4. k \in [DOMAIN l -> Timed] /\ DOMAIN k = DOMAIN l
    BY <2>1, <2>3
  <2>8. \A i \in DOMAIN l : k[i].next \in K[i]
    BY <2>1, <2>3 DEF JobLists
  <2>5. k \in JobLists(K)
    BY <2>1, <2>4, <2>8, SomeIs DEF JobLists
  <2> HIDE DEF k
  <2>6. w \in Cached(K) /\ w.list = k /\ w.known = v.known
    BY <2>5 DEF Cached
  <2> HIDE DEF w
  <2>7. QED
    BY <2>2, <2>4, <2>6 DEF SameJobs
<1>3. QED
  BY <1>1, <1>2

LEMMA GoOnGoes ==
    ASSUME NEW K, ServerInv(K), NEW p \in Processes, NEW ok \in BOOLEAN, NEW at, GoOn(p, ok, at)
    PROVE  /\ Goes(K, p, at) /\ cache' \in Cached(K) /\ shown' \in Cached(K)
           /\ SameJobs(cache, cache')
<1>1. cache \in Cached(K) /\ shown \in Cached(K) /\ procs[p] \in Process(K) /\ TodoOf(procs[p], cache)
  BY DEF ServerInv, ServerTyped
<1>2. CASE procs[p].kind = "list"
  <2>1. procs[p].then \in SUBSET InEditor(K)
    BY <1>1, <1>2 DEF Process, Idle, Listings, Backfills, Distributions
  <2>2. UNCHANGED <<cache, shown>> /\ EndRefresh(p, procs[p].then, at)
    BY <1>2 DEF GoOn
  <2>3. QED
    BY <1>1, <2>1, <2>2, EndRefreshGoes DEF SameJobs
<1>3. CASE procs[p].kind = "backfill"
  <2>1. procs[p] \in Backfills(K, Jobs)
    BY <1>1, <1>3 DEF Process, Idle, Listings, Distributions
  <2>2. /\ procs[p] \in Backfills(K, AnyJob) /\ procs[p].todo \subseteq DOMAIN procs[p].list \cap Matched
        /\ cache.known
    BY <1>1, <1>3, <2>1 DEF Backfills, AnyJob, TodoOf
  <2>3. /\ cache' = IF ok /\ procs[p].live THEN [cache EXCEPT !.list[procs[p].job].linked = TRUE]
                    ELSE cache
        /\ GoBackfill(p, procs[p], at)
    BY <1>3 DEF GoOn
  <2>4. cache' \in Cached(K) /\ SameJobs(cache, cache') /\ cache'.known
    <3>1. CASE ok /\ procs[p].live
      <4>1. cache' = [cache EXCEPT !.list[procs[p].job].linked = TRUE]
        BY <2>3, <3>1
      <4>2. cache' \in Cached(K) /\ SameJobs(cache, cache')
        BY <1>1, <4>1, StampedTyped, Zenon
      <4>3. QED
        BY <2>2, <4>2 DEF SameJobs
    <3>2. CASE ~(ok /\ procs[p].live)
      <4>1. cache' = cache
        BY <2>3, <3>2
      <4>2. QED
        BY <1>1, <2>2, <4>1 DEF SameJobs
    <3>3. QED
      BY <3>1, <3>2
  <2>5. QED
    BY <1>1, <2>2, <2>3, <2>4, GoBackfillGoes
<1>4. CASE procs[p].kind = "distribute"
  <2> DEFINE q == procs[p]
             yes == q.done \/ ok
             d == [q EXCEPT !.done = yes]
  <2>1. q \in Distributions(K, Jobs)
    BY <1>1, <1>4 DEF Process, Idle, Listings, Backfills
  <2>2. UNCHANGED <<cache, shown>> /\ GoDistribute(p, d, at)
    BY <1>4 DEF GoOn
  <2>3. yes \in BOOLEAN
    OBVIOUS
  <2> HIDE DEF yes
  <2>4. d \in Distributions(K, AnyJob) /\ d.todo = q.todo /\ d.list = q.list /\ d.live = q.live
    BY <2>1, <2>3 DEF Distributions, AnyJob
  <2>5. d.todo \subseteq (IF d.live THEN DOMAIN cache'.list ELSE DOMAIN d.list)
    BY <1>1, <1>4, <2>2, <2>4 DEF TodoOf
  <2>6. QED
    BY <1>1, <2>2, <2>4, <2>5, GoDistributeGoes DEF SameJobs
<1>5. CASE procs[p].kind \in {"save", "delete"}
  <2>1. UNCHANGED <<cache, shown>> /\ (AskList(p, {}, at) \/ Finish(p, at))
    BY <1>5 DEF GoOn
  <2>2. QED
    BY <1>1, <2>1, AskListGoes DEF Goes, SameJobs
<1>6. QED
  BY <1>2, <1>3, <1>4, <1>5 DEF GoOn

\* Here: nothing but the process that goes on changes, and one whose list is replaced
\* keeps it.
LEMMA HereRests ==
    ASSUME NEW K, ServerInv(K), NEW p \in Processes, SameJobs(cache, cache'),
           \A r \in Processes \ {p} : Fewer(toServer, toServer', r)
    PROVE  OthersRest(p, Here) /\ Here.sent = toAgent /\ Here.procs = procs
<1>1. Here.sent = toAgent /\ Here.procs = procs
  BY DEF Here
<1>2. \A r \in Processes : TodoOf(procs[r], cache')
  BY DEF ServerInv, TodoOf, SameJobs
<1>3. QED
  BY <1>1, <1>2, FewerSame DEF OthersRest, SameTask

LEMMA LetGoKeeps ==
    ASSUME NEW K, ServerInv(K), cache'.known
    PROVE  /\ LetGo \in [Processes -> Process(K)]
           /\ \A r \in Processes : /\ SameTask(procs[r], LetGo[r])
                                   /\ LetGo[r] = Idle => procs[r] = Idle
                                   /\ TodoOf(LetGo[r], cache')
<1>1. \A r \in Processes : LetGo[r] \in Process(K) /\ SameTask(procs[r], LetGo[r])
                           /\ (LetGo[r] = Idle => procs[r] = Idle) /\ TodoOf(LetGo[r], cache')
  <2> TAKE r \in Processes
  <2> DEFINE q == procs[r]
  <2>1. q \in Process(K) /\ TodoOf(q, cache) /\ cache.list \in JobLists(K)
    BY DEF ServerInv, ServerTyped, Cached
  <2>2. CASE q.kind = "distribute" /\ q.live
    <3> DEFINE e == [q EXCEPT !.list = cache.list]
               f == [e EXCEPT !.live = FALSE]
    <3>1. q \in Distributions(K, Jobs)
      BY <2>1, <2>2 DEF Process, Idle, Listings, Backfills
    <3>2. /\ e \in Distributions(K, Jobs) /\ e.list = cache.list /\ e.todo = q.todo
          /\ e.job = q.job
      BY <2>1, <3>1 DEF Distributions
    <3>3. LetGo[r] = [q EXCEPT !.list = cache.list, !.live = FALSE]
      BY <2>2 DEF LetGo
    <3>4. [q EXCEPT !.list = cache.list, !.live = FALSE] = f
      BY <3>1, Zenon DEF Distributions
    <3> HIDE DEF e
    <3>5. /\ f \in Distributions(K, Jobs) /\ f.kind = "distribute" /\ ~f.live
          /\ f.todo = q.todo /\ f.list = cache.list /\ f.job = q.job
      BY <3>2 DEF Distributions
    <3> HIDE DEF f
    <3>6. f # Idle /\ f \in Process(K)
      BY <3>5 DEF Idle, Process
    <3>7. TodoOf(f, cache')
      BY <2>1, <2>2, <3>5 DEF TodoOf
    <3>8. LetGo[r] = f
      BY <3>3, <3>4
    <3>9. QED
      BY <2>2, <3>5, <3>6, <3>7, <3>8 DEF SameTask
  <2>3. CASE q.kind = "backfill"
    <3> DEFINE f == [q EXCEPT !.live = FALSE]
    <3>1. q \in Backfills(K, Jobs)
      BY <2>1, <2>3 DEF Process, Idle, Listings, Distributions
    <3>2. LetGo[r] = f
      BY <2>3 DEF LetGo
    <3>3. /\ f \in Backfills(K, Jobs) /\ f.kind = "backfill" /\ f.todo = q.todo
          /\ f.list = q.list /\ f.job = q.job
      BY <3>1 DEF Backfills
    <3> HIDE DEF f
    <3>4. f # Idle /\ f \in Process(K) /\ TodoOf(f, cache')
      BY <2>1, <2>3, <3>3 DEF Idle, Process, TodoOf
    <3>5. QED
      BY <2>3, <3>2, <3>3, <3>4 DEF SameTask
  <2>4. CASE q.kind # "backfill" /\ ~(q.kind = "distribute" /\ q.live)
    <3>1. LetGo[r] = q
      BY <2>4 DEF LetGo
    <3>2. TodoOf(q, cache')
      BY <2>1, <2>4 DEF TodoOf
    <3>3. QED
      BY <2>1, <3>1, <3>2 DEF SameTask
  <2>5. QED
    BY <2>2, <2>3, <2>4
<1>2. DOMAIN LetGo = Processes /\ LetGo = [r \in Processes |-> LetGo[r]]
  BY DEF LetGo
<1>3. QED
  BY <1>1, <1>2

LEMMA ServerReceiveKeeps ==
    ASSUME NEW K, ServerInv(K), ServerReceive
    PROVE  ServerInv(K)'
<1> DEFINE m == Head(toServer)
<1>1. /\ up /\ toServer # <<>> /\ toServer' = Tail(toServer)
      /\ UNCHANGED <<up, editor, edits>>
      /\ toServer \in Seq(Tells(K)) /\ toAgent \in Seq(Asks(K)) /\ cache \in Cached(K) /\ shown \in Cached(K)
      /\ procs \in [Processes -> Process(K)]
  BY DEF ServerReceive, ServerInv, ServerTyped, bounds
<1>2. m \in Tells(K)
  BY <1>1
<1>3. /\ toServer' \in Seq(Tells(K))
      /\ \A r \in Processes : Fewer(toServer, toServer', r)
  BY <1>1, FewerTail
<1> HIDE DEF m
<1>4. m.proc \in Processes => Silent(toServer', m.proc) /\ Silent(toAgent, m.proc)
  <2> SUFFICES ASSUME m.proc \in Processes PROVE Silent(toServer', m.proc) /\ Silent(toAgent, m.proc)
    OBVIOUS
  <2>1. Fits(m.proc, procs[m.proc], toAgent, toServer)
    BY DEF ServerInv
  <2>2. QED
    BY <1>1, <2>1, FewerTail DEF Fits, m
<1>5. m.proc \in Processes \/ Unasked(m)
  BY <1>2 DEF Tells, ListTell, DoneTell, NextTell, Askers, Unasked
<1>6. ServerTyped(K) => up' \in BOOLEAN /\ editor' \subseteq InEditor(K) /\ edits' \in Nat
  BY <1>1 DEF ServerTyped
<1>7. CASE m.type = "next" /\ TakeNext(m.job, m.at)
  <2>1. m.job \in Jobs /\ m.at \in Starts /\ m.at \in K[m.job]
    BY <1>2, <1>7 DEF Tells, ListTell, DoneTell, NextTell
  <2>2. cache' \in Cached(K) /\ shown' \in Cached(K) /\ SameJobs(cache, cache')
    BY <1>1, <1>7, <2>1, MovedTyped DEF TakeNext
  <2>3. UNCHANGED <<toAgent, procs>>
    BY <1>7 DEF TakeNext
  <2>4. \A r \in Processes : Fits(r, procs'[r], toAgent', toServer')
    <3> TAKE r \in Processes
    <3>1. Fits(r, procs[r], toAgent, toServer)
      BY DEF ServerInv
    <3>2. QED
      BY <1>3, <2>3, <3>1, FewerSame, FewerFits DEF SameTask
  <2>5. \A r \in Processes : TodoOf(procs'[r], cache')
    BY <2>2, <2>3 DEF ServerInv, TodoOf, SameJobs
  <2>6. QED
    BY <1>1, <1>3, <1>6, <2>2, <2>3, <2>4, <2>5 DEF ServerInv, ServerTyped
<1>8. CASE Unasked(m) /\ UNCHANGED <<toAgent, server>>
  <2>1. UNCHANGED <<toAgent, cache, shown, procs>>
    BY <1>8 DEF server
  <2>2. \A r \in Processes : Fits(r, procs'[r], toAgent', toServer')
    <3> TAKE r \in Processes
    <3>1. Fits(r, procs[r], toAgent, toServer)
      BY DEF ServerInv
    <3>2. QED
      BY <1>3, <2>1, <3>1, FewerSame, FewerFits DEF SameTask
  <2>3. QED
    BY <1>1, <1>3, <1>6, <2>1, <2>2 DEF ServerInv, ServerTyped
<1>9. CASE m.type = "list" /\ ~Unasked(m) /\ TakeList(m.proc, m.list)
  <2> DEFINE p == m.proc
             b == [kind |-> "backfill", job |-> FirstJob, todo |-> ToStamp(m.list), list |-> m.list,
                   live |-> TRUE, then |-> procs[m.proc].then]
             at == [Here EXCEPT !.procs = LetGo]
  <2>1. p \in Processes
    BY <1>5, <1>9
  <2>2. m.list \in JobLists(K)
    BY <1>2, <1>9 DEF Tells, ListTell, DoneTell, NextTell
  <2>3. cache' = [known |-> TRUE, list |-> m.list] /\ GoBackfill(p, b, at)
    BY <1>9 DEF TakeList, FirstJob
  <2>4. cache' \in Cached(K) /\ cache'.known
    BY <2>2, <2>3 DEF Cached
  <2>5. procs[p].kind = "list"
    <3>1. Fits(p, procs[p], toAgent, toServer)
      BY <2>1 DEF ServerInv
    <3>2. 1 \in DOMAIN toServer /\ toServer[1] = m
      BY <1>1 DEF m
    <3>3. QED
      BY <1>9, <3>1, <3>2 DEF Fits, TellsFit, TellFits
  <2>6. procs[p].then \in SUBSET InEditor(K)
    <3>1. procs[p] \in Process(K)
      BY <1>1, <2>1
    <3>2. QED
      BY <2>5, <3>1 DEF Process, Idle, Listings, Backfills, Distributions
  <2>7. ToStamp(m.list) \subseteq DOMAIN m.list \cap Matched /\ ToStamp(m.list) \subseteq Jobs
    BY <2>2, SomeIs DEF ToStamp, JobLists
  <2>8. b \in Backfills(K, AnyJob) /\ b.todo \subseteq DOMAIN b.list \cap Matched
    <3> DEFINE yes == TRUE
               c == [kind |-> "backfill", job |-> FirstJob, todo |-> ToStamp(m.list),
                     list |-> m.list, live |-> yes, then |-> procs[m.proc].then]
    <3>1. yes \in BOOLEAN /\ FirstJob \in AnyJob
      BY DEF AnyJob
    <3> HIDE DEF yes
    <3>2. c \in Backfills(K, AnyJob) /\ c.todo = ToStamp(m.list) /\ c.list = m.list
      BY <2>2, <2>6, <2>7, <3>1 DEF Backfills
    <3>3. QED
      BY <2>7, <3>2 DEF yes
  <2>9. at.sent = toAgent /\ at.procs = LetGo
    BY DEF Here
  <2> HIDE DEF b, at
  <2>10. Goes(K, p, at) /\ shown' \in Cached(K)
    BY <1>1, <2>1, <2>3, <2>4, <2>8, GoBackfillGoes
  <2>11. OthersRest(p, at) /\ at.procs \in [Processes -> Process(K)]
    BY <1>3, <2>4, <2>9, LetGoKeeps, FewerSame DEF OthersRest
  <2>12. ServerTyped(K)
    BY DEF ServerInv
  <2> HIDE DEF p
  <2>13. Silent(at.sent, p) /\ Silent(toServer', p)
    BY <1>4, <2>1, <2>9 DEF p
  <2>14. QED
    BY <1>1, <1>3, <1>6, <2>1, <2>4, <2>9, <2>10, <2>11, <2>12, <2>13, GoesKeeps
<1>10. CASE m.type = "done" /\ ~Unasked(m) /\ GoOn(m.proc, m.ok, Here)
  <2>1. m.proc \in Processes
    BY <1>5, <1>10
  <2>2. m.ok \in BOOLEAN
    BY <1>2, <1>10 DEF Tells, ListTell, DoneTell, NextTell
  <2>3. /\ Goes(K, m.proc, Here) /\ cache' \in Cached(K) /\ shown' \in Cached(K)
        /\ SameJobs(cache, cache')
    BY <1>10, <2>1, <2>2, GoOnGoes
  <2>4. OthersRest(m.proc, Here) /\ Here.sent = toAgent /\ Here.procs = procs
    BY <1>3, <2>1, <2>3, HereRests
  <2>5. ServerTyped(K)
    BY DEF ServerInv
  <2>6. QED
    BY <1>1, <1>3, <1>4, <1>6, <2>1, <2>3, <2>4, <2>5, GoesKeeps
<1>11. QED
  BY <1>7, <1>8, <1>9, <1>10 DEF ServerReceive, m

LEMMA TimesOutKeeps ==
    ASSUME NEW K, ServerInv(K), NEW p \in Processes, TimesOut(p)
    PROVE  ServerInv(K)'
<1> DEFINE at == [Here EXCEPT !.sent = Anonymous(toAgent, p)]
<1>1. /\ toServer' = Anonymous(toServer, p) /\ GoOn(p, FALSE, at)
      /\ UNCHANGED <<up, editor, edits>>
  BY DEF TimesOut, Fault, bounds
<1>2. /\ toServer \in Seq(Tells(K)) /\ toAgent \in Seq(Asks(K)) /\ procs \in [Processes -> Process(K)]
      /\ up' \in BOOLEAN /\ editor' \subseteq InEditor(K) /\ edits' \in Nat
  BY <1>1 DEF ServerInv, ServerTyped
<1>3. at.sent = Anonymous(toAgent, p) /\ at.procs = procs
  BY DEF Here
<1>4. /\ toServer' \in Seq(Tells(K)) /\ Silent(toServer', p)
      /\ at.sent \in Seq(Asks(K)) /\ Silent(at.sent, p)
      /\ \A r \in Processes : Fewer(toServer, toServer', r) /\ Fewer(toAgent, at.sent, r)
  BY <1>1, <1>2, <1>3, FewerAnonymous
<1> HIDE DEF at
<1>5. /\ Goes(K, p, at) /\ cache' \in Cached(K) /\ shown' \in Cached(K)
      /\ SameJobs(cache, cache')
  BY <1>1, GoOnGoes
<1>6. OthersRest(p, at)
  <2>1. \A r \in Processes : TodoOf(procs[r], cache')
    BY <1>5 DEF ServerInv, TodoOf, SameJobs
  <2>2. QED
    BY <1>3, <1>4, <2>1 DEF OthersRest, SameTask
<1>7. QED
  BY <1>2, <1>3, <1>4, <1>5, <1>6, GoesKeeps

\* A free process asks.
LEMMA FreeAsks ==
    ASSUME NEW K, ServerInv(K), NEW p \in Processes, Free(p), NEW at, Goes(K, p, at), at.procs = procs,
           at.sent = toAgent \/ at.sent = <<>>, toServer' = toServer \/ toServer' = <<>>,
           UNCHANGED <<cache, shown>>,
           up' \in BOOLEAN, editor' \subseteq InEditor(K), edits' \in Nat
    PROVE  ServerInv(K)'
<1>1. /\ toServer \in Seq(Tells(K)) /\ toAgent \in Seq(Asks(K)) /\ procs \in [Processes -> Process(K)]
      /\ cache \in Cached(K) /\ shown \in Cached(K)
  BY DEF ServerInv, ServerTyped
<1>2. Silent(toAgent, p) /\ Silent(toServer, p)
  BY DEF ServerInv, Free, Fits
<1>3. at.sent \in Seq(Asks(K)) /\ toServer' \in Seq(Tells(K))
  <2>1. <<>> \in Seq(Asks(K)) /\ <<>> \in Seq(Tells(K))
    OBVIOUS
  <2>2. QED
    BY <1>1, <2>1
<1>4. Silent(at.sent, p) /\ Silent(toServer', p)
  BY <1>2 DEF Silent
<1>5. \A r \in Processes : Fewer(toAgent, at.sent, r) /\ Fewer(toServer, toServer', r)
  <2> TAKE r \in Processes
  <2>1. \A s : Fewer(s, <<>>, r) /\ Fewer(s, s, r)
    BY DEF Fewer, Single, Silent
  <2>2. QED
    BY <2>1
<1>6. OthersRest(p, at)
  <2>1. \A r \in Processes : TodoOf(procs[r], cache')
    BY DEF ServerInv
  <2>2. QED
    BY <1>5, <2>1 DEF OthersRest, SameTask
<1>7. QED
  BY <1>1, <1>3, <1>4, <1>6, GoesKeeps

LEMMA HereIs ==
    /\ Here.sent = toAgent /\ Here.procs = procs
    /\ [Here EXCEPT !.sent = <<>>].sent = <<>> /\ [Here EXCEPT !.sent = <<>>].procs = procs
  BY DEF Here

LEMMA ConnectKeeps ==
    ASSUME NEW K, ServerInv(K), Connect \/ Replace
    PROVE  ServerInv(K)'
<1>1. up' \in BOOLEAN /\ editor' \subseteq InEditor(K) /\ edits' \in Nat
  BY DEF ServerInv, ServerTyped, Connect, Replace, Drop, bounds
<1>2. CASE Connect
  <2>1. PICK p \in Processes : Free(p) /\ AskList(p, {}, Here)
    BY <1>2 DEF Connect
  <2>2. toServer' = toServer /\ UNCHANGED <<cache, shown>>
    BY <1>2 DEF Connect
  <2>3. Goes(K, p, Here)
    BY <2>1, AskListGoes
  <2>4. QED
    BY <1>1, <2>1, <2>2, <2>3, HereIs, FreeAsks
<1>3. CASE Replace
  <2>1. PICK p \in Processes : Free(p) /\ AskList(p, {}, [Here EXCEPT !.sent = <<>>])
    BY <1>3 DEF Replace
  <2>2. toServer' = <<>> /\ UNCHANGED <<cache, shown>>
    BY <1>3 DEF Replace
  <2>3. Goes(K, p, [Here EXCEPT !.sent = <<>>])
    BY <2>1, AskListGoes
  <2>4. QED
    BY <1>1, <2>1, <2>2, <2>3, HereIs, FreeAsks
<1>4. QED
  BY <1>2, <1>3

LEMMA LostKeeps ==
    ASSUME NEW K, ServerInv(K), LostSession, UNCHANGED <<editor, edits>>
    PROVE  ServerInv(K)'
<1>1. /\ up' = FALSE /\ toAgent' = <<>> /\ toServer' = <<>> /\ cache' = NoList
      /\ procs' = [p \in Processes |-> Idle]
      /\ shown' = [known |-> \E p \in Processes : procs[p].kind = "backfill", list |-> <<>>]
  BY DEF LostSession
<1>2. <<>> \in JobLists(K)
  BY SomeEmpty DEF JobLists
<1>3. \A yes \in BOOLEAN : [known |-> yes, list |-> <<>>] \in Cached(K)
  BY <1>2 DEF Cached
<1>4. shown' \in Cached(K)
  BY <1>1, <1>3
<1>5. cache' \in Cached(K)
  BY <1>1, <1>3 DEF NoList
<1>6. procs' \in [Processes -> Process(K)] /\ \A p \in Processes : procs'[p] = Idle
  BY <1>1 DEF Process
<1>7. \A p \in Processes : TodoOf(procs'[p], cache')
  BY <1>6 DEF TodoOf, Idle
<1>8. \A p \in Processes : Fits(p, procs'[p], toAgent', toServer')
  BY <1>1, <1>6 DEF Fits, Silent, Single, AsksFit, TellsFit
<1>9. <<>> \in Seq(Asks(K)) /\ <<>> \in Seq(Tells(K))
  OBVIOUS
<1>10. ServerTyped(K)'
  BY <1>1, <1>4, <1>5, <1>6, <1>9 DEF ServerInv, ServerTyped
<1>11. QED
  BY <1>7, <1>8, <1>10 DEF ServerInv

LEMMA OperatorKeeps ==
    ASSUME NEW K, ServerInv(K), SaveJob \/ Distribute \/ \E j \in Jobs : OpenEditor(j) \/ DeleteJob(j)
    PROVE  ServerInv(K)'
<1>1. /\ up \in BOOLEAN /\ editor \subseteq InEditor(K) /\ edits \in Nat
      /\ cache \in Cached(K) /\ shown \in Cached(K) /\ MaxEdits \in Nat
  BY JobAssumption DEF ServerInv, ServerTyped
<1>2. ASSUME NEW j \in Jobs, OpenEditor(j) PROVE ServerInv(K)'
  <2>1. /\ j \in DOMAIN shown.list /\ editor' = {[job |-> j, copy |-> shown.list[j]]}
        /\ UNCHANGED <<up, toAgent, toServer, cache, procs, shown, edits>>
    BY <1>2 DEF OpenEditor, wire, server, bounds
  <2>2. shown.list[j] \in Timed /\ shown.list[j].next \in K[j]
    BY <1>1, <2>1, SomeIs DEF Cached, JobLists
  <2>3. editor' \subseteq InEditor(K)
    BY <2>1, <2>2 DEF InEditor
  <2>4. QED
    BY <2>1, <2>3 DEF ServerInv, ServerTyped
<1>3. ASSUME NEW j \in Jobs, DeleteJob(j) PROVE ServerInv(K)'
  <2>1. PICK p \in Processes :
           Free(p) /\ Ask(p, [type |-> "delete", proc |-> p, job |-> j], [kind |-> "delete"], Here)
    BY <1>3 DEF DeleteJob
  <2>2. /\ edits' \in Nat /\ UNCHANGED <<up, toServer, cache, shown, editor>>
    BY <1>1, <1>3 DEF DeleteJob, Edit
  <2> DEFINE m == [type |-> "delete", proc |-> p, job |-> j]
             q == [kind |-> "delete"]
  <2>3. m \in Asks(K) /\ m.proc = p /\ m.type = "delete"
    BY DEF Asks, DeleteAsk, Askers
  <2>4. q \in Process(K) /\ q # Idle /\ q.kind = "delete"
    <3>1. q.kind = "delete" /\ Idle.kind = "idle"
      BY DEF Idle
    <3>2. QED
      BY <3>1 DEF Process
  <2>5. TodoOf(q, cache')
    BY <2>4 DEF TodoOf
  <2>6. Ask(p, m, q, Here)
    BY <2>1
  <2> HIDE DEF m, q
  <2>7. Goes(K, p, Here)
    <3>1. AskFits(m, q)
      BY <2>3, <2>4 DEF AskFits
    <3>2. QED
      BY <2>3, <2>4, <2>5, <2>6, <3>1 DEF Goes
  <2>8. QED
    BY <1>1, <2>1, <2>2, <2>7, HereIs, FreeAsks
<1>4. CASE SaveJob
  <2>1. PICK e \in editor, p \in Processes :
           /\ Free(p)
           /\ IF SecretAtHand(e.job, Draft(e, edits'))
              THEN AskSave(p, "operator", e.job, Draft(e, edits'), [kind |-> "save"], Here)
              ELSE AskList(p, {[job |-> e.job, copy |-> Draft(e, edits')]}, Here)
    BY <1>4 DEF SaveJob
  <2>2. /\ edits' \in 0 .. MaxEdits /\ UNCHANGED <<up, toServer, cache, shown, editor>>
    BY <1>1, <1>4 DEF SaveJob, Edit
  <2>3. e.job \in Jobs /\ e.copy \in Timed /\ e.copy.next \in K[e.job]
    BY <1>1 DEF InEditor
  <2>4. Draft(e, edits') \in Timed /\ Draft(e, edits').next = e.copy.next
    BY <2>2, <2>3 DEF Draft, Timed
  <2>5. Goes(K, p, Here)
    <3>1. CASE SecretAtHand(e.job, Draft(e, edits'))
      <4>1. AskSave(p, "operator", e.job, Draft(e, edits'), [kind |-> "save"], Here)
        BY <2>1, <3>1
      <4>2. TodoOf([kind |-> "save"], cache')
        BY SavingIs DEF TodoOf
      <4>3. QED
        BY <2>3, <2>4, <4>1, <4>2, SavingIs, AskSaveGoes
    <3>2. CASE ~SecretAtHand(e.job, Draft(e, edits'))
      <4>1. AskList(p, {[job |-> e.job, copy |-> Draft(e, edits')]}, Here)
        BY <2>1, <3>2
      <4>2. {[job |-> e.job, copy |-> Draft(e, edits')]} \in SUBSET InEditor(K)
        BY <2>3, <2>4 DEF InEditor
      <4>3. QED
        BY <4>1, <4>2, AskListGoes
    <3>3. QED
      BY <3>1, <3>2
  <2>6. edits' \in Nat
    BY <2>2
  <2>7. QED
    BY <1>1, <2>1, <2>2, <2>5, <2>6, HereIs, FreeAsks
<1>5. CASE Distribute
  <2> DEFINE d == [kind |-> "distribute", job |-> FirstJob, todo |-> DOMAIN cache.list,
                   list |-> cache.list, live |-> TRUE, done |-> FALSE]
  <2>1. PICK p \in Processes : Free(p) /\ GoDistribute(p, d, Here)
    BY <1>5 DEF Distribute, FirstJob
  <2>2. UNCHANGED <<up, toServer, cache, shown, editor, edits>>
    BY <1>5 DEF Distribute
  <2>3. cache.list \in JobLists(K) /\ DOMAIN cache.list \subseteq Jobs
    BY <1>1, SomeIs DEF Cached, JobLists
  <2>4. d \in Distributions(K, AnyJob) /\ d.todo = DOMAIN cache.list /\ d.live
    <3> DEFINE yes == TRUE
               no == FALSE
               c == [kind |-> "distribute", job |-> FirstJob, todo |-> DOMAIN cache.list,
                     list |-> cache.list, live |-> yes, done |-> no]
    <3>1. yes \in BOOLEAN /\ no \in BOOLEAN /\ FirstJob \in AnyJob
      BY DEF AnyJob
    <3>2. yes
      OBVIOUS
    <3> HIDE DEF yes, no
    <3>3. c \in Distributions(K, AnyJob) /\ c.todo = DOMAIN cache.list /\ c.live
      BY <2>3, <3>1, <3>2 DEF Distributions
    <3>4. QED
      BY <3>3 DEF yes, no
  <2> HIDE DEF d
  <2>5. Goes(K, p, Here)
    BY <1>1, <2>1, <2>2, <2>4, GoDistributeGoes
  <2>6. QED
    BY <1>1, <2>1, <2>2, <2>5, HereIs, FreeAsks
<1>6. QED
  BY <1>2, <1>3, <1>4, <1>5

\* The agent answers what it receives, or does not.
LEMMA ReplyKeeps ==
    ASSUME NEW K, ServerInv(K), toAgent # <<>>, toAgent' = Tail(toAgent),
           NEW t \in Tells(K), t.proc = Head(toAgent).proc,
           t.type \in {"list", "done"}, t.type = "list" <=> Head(toAgent).type = "list",
           toServer' = Append(toServer, t) \/ toServer' = toServer,
           UNCHANGED <<up, cache, procs, shown, editor, edits>>
    PROVE  ServerInv(K)'
<1>1. toAgent \in Seq(Asks(K)) /\ toServer \in Seq(Tells(K))
  BY DEF ServerInv, ServerTyped
<1>2. toAgent' \in Seq(Asks(K)) /\ toServer' \in Seq(Tells(K))
  BY <1>1, FewerTail, FewerAppend
<1>3. \A r \in Processes : Fits(r, procs[r], toAgent', toServer')
  <2> TAKE r \in Processes
  <2>1. Fits(r, procs[r], toAgent, toServer)
    BY DEF ServerInv
  <2>2. Fewer(toAgent, toAgent', r)
    BY <1>1, FewerTail
  <2>3. CASE toServer' = toServer \/ t.proc # r
    <3>1. Fewer(toServer, toServer', r)
      BY <1>1, <2>3, FewerAppend, FewerSame
    <3>2. QED
      BY <2>1, <2>2, <3>1, FewerFits DEF SameTask
  <2>4. CASE toServer' = Append(toServer, t) /\ t.proc = r
    <3>1. /\ Head(toAgent).proc = r /\ 1 \in DOMAIN toAgent /\ Head(toAgent) = toAgent[1]
      BY <1>1, <2>4
    <3>2. /\ Silent(toAgent', r) /\ ~Silent(toAgent, r) /\ Silent(toServer, r)
      BY <1>1, <2>1, <3>1, FewerTail DEF Fits
    <3>3. /\ Single(toServer', r)
          /\ \A i \in DOMAIN toServer' : toServer'[i].proc = r => toServer'[i] = t
      BY <1>1, <2>4, <3>2, FewerAppend
    <3>4. TellFits(t, procs[r])
      <4>1. AskFits(Head(toAgent), procs[r]) /\ Head(toAgent) \in Asks(K)
        BY <1>1, <2>1, <3>1 DEF Fits, AsksFit
      <4>2. Head(toAgent).type \in {"list", "save", "delete"}
        BY <4>1 DEF Asks, ListAsk, SaveAsk, AnySave, DeleteAsk
      <4>3. Head(toAgent).type = "save" => Head(toAgent).by \in {"operator", "server"}
        BY <4>1 DEF Asks, ListAsk, SaveAsk, AnySave, DeleteAsk
      <4>4. QED
        BY <4>1, <4>2, <4>3 DEF AskFits, TellFits
    <3>5. TellsFit(toServer', r, procs[r])
      BY <3>3, <3>4 DEF TellsFit
    <3>6. procs[r] # Idle
      BY <2>1, <3>2 DEF Fits
    <3>7. QED
      BY <3>2, <3>3, <3>5, <3>6 DEF Fits, Silent, Single, AsksFit, TellsFit
  <2>5. QED
    BY <2>3, <2>4
<1>4. QED
  BY <1>2, <1>3 DEF ServerInv, ServerTyped

\* What more times are known for is still typed.
LEMMA MoreTimes ==
    ASSUME NEW K, NEW L, \A j \in Jobs : K[j] \subseteq L[j]
    PROVE  /\ Asks(K) \subseteq Asks(L) /\ Tells(K) \subseteq Tells(L) /\ Cached(K) \subseteq Cached(L)
           /\ Process(K) \subseteq Process(L) /\ InEditor(K) \subseteq InEditor(L)
<1>1. InEditor(K) \subseteq InEditor(L)
  BY DEF InEditor
<1>2. JobLists(K) \subseteq JobLists(L)
  BY SomeIs DEF JobLists
<1>3. Asks(K) \subseteq Asks(L)
  BY DEF Asks, SaveAsk, AnySave
<1>4. Tells(K) \subseteq Tells(L)
  <2>1. ListTell(K) \subseteq ListTell(L)
    BY <1>2 DEF ListTell
  <2>2. NextTell(K) \subseteq NextTell(L)
    BY DEF NextTell
  <2>3. QED
    BY <2>1, <2>2 DEF Tells
<1>5. Cached(K) \subseteq Cached(L)
  BY <1>2 DEF Cached
<1>6. Process(K) \subseteq Process(L)
  <2>1. Backfills(K, Jobs) \subseteq Backfills(L, Jobs)
    BY <1>1, <1>2 DEF Backfills
  <2>2. Distributions(K, Jobs) \subseteq Distributions(L, Jobs)
    BY <1>2 DEF Distributions
  <2>3. Listings(K) \subseteq Listings(L)
    BY <1>1 DEF Listings
  <2>4. QED
    BY <2>1, <2>2, <2>3 DEF Process
<1>7. QED
  BY <1>1, <1>3, <1>4, <1>5, <1>6

LEMMA TimesGrow ==
    ASSUME NEW K, NEW L, \A j \in Jobs : K[j] \subseteq L[j]
    PROVE  (ServerInv(K) => ServerInv(L)) /\ (ServerInv(K)' => ServerInv(L)')
<1>1. /\ Asks(K) \subseteq Asks(L) /\ Tells(K) \subseteq Tells(L) /\ Cached(K) \subseteq Cached(L)
      /\ Process(K) \subseteq Process(L) /\ InEditor(K) \subseteq InEditor(L)
  BY MoreTimes
<1>2. Seq(Asks(K)) \subseteq Seq(Asks(L)) /\ Seq(Tells(K)) \subseteq Seq(Tells(L))
  <2>1. ASSUME NEW S, NEW T, S \subseteq T, NEW s \in Seq(S) PROVE s \in Seq(T)
    BY <2>1
  <2>2. QED
    BY <1>1, <2>1
<1>3. [Processes -> Process(K)] \subseteq [Processes -> Process(L)]
  BY <1>1
<1>4. (ServerTyped(K) => ServerTyped(L)) /\ (ServerTyped(K)' => ServerTyped(L)')
  BY <1>1, <1>2, <1>3 DEF ServerTyped
<1>5. QED
  BY <1>4 DEF ServerInv

\* The agent takes a request: what it tells, and the times it has, were known.
LEMMA AgentTells ==
    ASSUME NEW K, AgentInv, TimesIn(K), ServerInv(K), AgentReceive
    PROVE  ServerInv(K)' /\ TimesIn(K)'
<1> DEFINE m == Head(toAgent)
<1>1. /\ toAgent # <<>> /\ toAgent' = Tail(toAgent) /\ toAgent \in Seq(Asks(K))
      /\ UNCHANGED <<now, up, cache, procs, shown, editor, started, repeated>>
  BY DEF AgentReceive, server, ServerInv, ServerTyped
<1>2. m \in Asks(K)
  BY <1>1
<1>3. m.proc \in Askers
  BY <1>2 DEF Asks, ListAsk, SaveAsk, AnySave, DeleteAsk
<1> HIDE DEF m
<1>4. \A yes \in BOOLEAN : [type |-> "done", proc |-> m.proc, ok |-> yes] \in Tells(K)
  BY <1>3 DEF Tells, DoneTell
<1>5. \A yes \in BOOLEAN : /\ [type |-> "done", proc |-> m.proc, ok |-> yes].type = "done"
                           /\ [type |-> "done", proc |-> m.proc, ok |-> yes].proc = m.proc
  OBVIOUS
<1>6. CASE m.type = "list" /\ HandleJobList(m)
  <2> DEFINE t == [type |-> "list", proc |-> m.proc, list |-> Listing]
  <2>1. /\ toServer' = Append(toServer, t) /\ UNCHANGED <<edits, next, nextFile>>
    BY <1>6 DEF HandleJobList, Reply, bounds
  <2>2. Listing \in JobLists(K)
    BY ListingTyped
  <2>3. t \in Tells(K) /\ t.proc = m.proc /\ t.type = "list"
    BY <1>3, <2>2 DEF Tells, ListTell
  <2> HIDE DEF t
  <2>4. ServerInv(K)'
    BY <1>1, <1>6, <2>1, <2>3, ReplyKeeps DEF m
  <2>5. TimesIn(K)'
    BY <2>1 DEF TimesIn
  <2>6. QED
    BY <2>4, <2>5
<1>7. CASE m.type = "save" /\ HandleJobSave(m)
  <2>1. m \in AnySave /\ m.copy.next \in K[m.job]
    BY <1>2, <1>7 DEF Asks, ListAsk, DeleteAsk, SaveAsk
  <2>2. PICK yes \in BOOLEAN : toServer' = Append(toServer, [type |-> "done", proc |-> m.proc, ok |-> yes])
    <3>1. \/ toServer' = Append(toServer, [type |-> "done", proc |-> m.proc, ok |-> TRUE])
          \/ toServer' = Append(toServer, [type |-> "done", proc |-> m.proc, ok |-> FALSE])
      BY <1>7 DEF HandleJobSave, Refuse, Reply
    <3>2. QED
      BY <3>1
  <2>3. UNCHANGED edits
    BY <1>7 DEF HandleJobSave, Refuse, Fault, bounds
  <2>4. ServerInv(K)'
    BY <1>1, <1>4, <1>5, <1>7, <2>2, <2>3, ReplyKeeps DEF m
  <2>5. TimesIn(K)'
    <3>1. UNCHANGED <<next, nextFile>> \/ (next' = SetNext(m) /\ nextFile' = next')
      BY <1>7 DEF HandleJobSave, Refuse
    <3>2. CASE UNCHANGED <<next, nextFile>>
      BY <3>2 DEF TimesIn
    <3>3. CASE next' = SetNext(m) /\ nextFile' = next'
      <4>1. \A j \in DOMAIN next' : \/ next'[j] = m.copy.next /\ j = m.job
                                    \/ j \in DOMAIN next /\ next'[j] = next[j]
        BY <3>3 DEF SetNext, With
      <4>2. \A j \in DOMAIN next' : next'[j] \in K[j]
        BY <2>1, <4>1 DEF TimesIn
      <4>3. QED
        BY <3>3, <4>2 DEF TimesIn
    <3>4. QED
      BY <3>1, <3>2, <3>3
  <2>6. QED
    BY <2>4, <2>5
<1>8. CASE m.type = "delete" /\ HandleJobDelete(m)
  <2>1. PICK yes \in BOOLEAN : \/ toServer' = Append(toServer, [type |-> "done", proc |-> m.proc, ok |-> yes])
                               \/ toServer' = toServer
    BY <1>8 DEF HandleJobDelete, Reply
  <2>2. UNCHANGED edits
    BY <1>8 DEF HandleJobDelete, Fault, bounds
  <2>3. ServerInv(K)'
    BY <1>1, <1>4, <1>5, <1>8, <2>1, <2>2, ReplyKeeps DEF m
  <2>4. TimesIn(K)'
    BY <1>8 DEF HandleJobDelete, TimesIn, Without
  <2>5. QED
    BY <2>3, <2>4
<1>9. QED
  BY <1>6, <1>7, <1>8 DEF AgentReceive, m

LEMMA AgentReceiveKeeps ==
    ASSUME AgentInv, NEW K, ServerInv(K), AgentReceive
    PROVE  AgentInv' /\ started' = started /\ rewound \subseteq rewound'
<1> DEFINE m == Head(toAgent)
<1>1. toAgent # <<>> /\ toAgent \in Seq(Asks(K)) /\ UNCHANGED <<now, started, repeated>>
  BY DEF AgentReceive, ServerInv, ServerTyped
<1>2. m \in Asks(K)
  BY <1>1
<1> HIDE DEF m
<1>3. CASE m.type = "list" /\ HandleJobList(m)
  BY <1>1, <1>3, AgentRestKeeps DEF HandleJobList, AgentRests
<1>4. CASE m.type = "save" /\ HandleJobSave(m)
  <2>1. m \in AnySave
    BY <1>2, <1>4 DEF Asks, ListAsk, DeleteAsk, SaveAsk
  <2>2. rewound \subseteq rewound'
    BY <1>4 DEF HandleJobSave, Refuse
  <2>3. QED
    BY <1>1, <1>4, <2>1, <2>2, SaveKeeps
<1>5. CASE m.type = "delete" /\ HandleJobDelete(m)
  <2>1. m \in DeleteAsk
    BY <1>2, <1>5 DEF Asks, ListAsk, SaveAsk, AnySave
  <2>2. rewound \subseteq rewound'
    BY <1>5 DEF HandleJobDelete
  <2>3. QED
    BY <1>1, <1>5, <2>1, <2>2, DeleteKeeps
<1>6. QED
  BY <1>3, <1>4, <1>5 DEF AgentReceive, m

LEMMA TickTells ==
    ASSUME NEW K, AgentInv, ServerInv(K), Tick, \A j \in Due : NextOf(j) \in Starts /\ NextOf(j) \in K[j]
    PROVE  ServerInv(K)'
<1>1. /\ toServer' = toServer \/ toServer' = toServer \o SetToSeq(TellsOf(Due \cup New))
      /\ UNCHANGED <<up, toAgent, cache, procs, shown, editor, edits>>
  BY DEF Tick, TellsOf, server, Fault, bounds
<1>2. Due \cup New \subseteq Jobs /\ New = {}
  BY NoneIsNew, SomeIs DEF AgentInv, AgentTyped, Due
<1>3. TellsOf(Due \cup New) \subseteq NextTell(K)
  BY <1>2 DEF TellsOf, NextTell
<1> DEFINE s == SetToSeq(TellsOf(Due \cup New))
<1>4. s \in Seq(TellsOf(Due \cup New))
  BY <1>2, TellsAreFinite, InSequence
<1> HIDE DEF s
<1>5. s \in Seq(Tells(K)) /\ \A i \in DOMAIN s : s[i] \in NextTell(K)
  BY <1>3, <1>4 DEF Tells
<1>6. toServer \in Seq(Tells(K))
  BY DEF ServerInv, ServerTyped
<1>7. \A r \in Processes : r # Nobody
  BY JobAssumption DEF Nobody
<1>8. \A i \in DOMAIN s : s[i].proc = Nobody
  BY <1>5 DEF NextTell
<1>9. \A r \in Processes : toServer \o s \in Seq(Tells(K)) /\ Fewer(toServer, toServer \o s, r)
  BY <1>5, <1>6, <1>7, <1>8, FewerMore
<1>10. toServer \o s \in Seq(Tells(K))
  BY <1>5, <1>6
<1>11. \A r \in Processes : Fewer(toServer, toServer', r)
  BY <1>1, <1>9, FewerSame DEF s
<1>12. \A r \in Processes : Fits(r, procs'[r], toAgent', toServer')
  <2> TAKE r \in Processes
  <2>1. Fits(r, procs[r], toAgent, toServer)
    BY DEF ServerInv
  <2>2. QED
    BY <1>1, <1>11, <2>1, FewerSame, FewerFits DEF SameTask
<1>13. QED
  BY <1>1, <1>6, <1>10, <1>12 DEF ServerInv, ServerTyped, s

\* A time that was not started for is the one that is known, so a tick knows one more.
LEMMA TickTimes ==
    ASSUME JobsInv, Tick
    PROVE  \E L \in Times : OneStart(L)' /\ TimesIn(L)' /\ ServerInv(L)'
<1>1. PICK K \in Times : OneStart(K) /\ TimesIn(K) /\ ServerInv(K)
  BY DEF JobsInv
<1>2. PICK c \in [Jobs -> Starts] :
         \A j \in Jobs : K[j] = IF j \in rewound THEN Starts ELSE started[j] \cup {c[j]}
  BY <1>1 DEF OneStart
<1>3. /\ next' = [j \in DOMAIN next |-> IF j \in Due THEN NextOf(j) ELSE next[j]]
      /\ nextFile' \in {next', nextFile}
      /\ started' = [j \in Jobs |-> IF j \in Due THEN started[j] \cup {next[j]} ELSE started[j]]
      /\ rewound' = rewound
  BY NoneIsNew DEF Tick, JobsInv
<1>4. /\ DOMAIN next \subseteq Jobs /\ next \in [DOMAIN next -> Starts] /\ started \in [Jobs -> SUBSET Starts]
      /\ DOMAIN nextFile \subseteq Jobs
  BY SomeIs DEF JobsInv, AgentInv, AgentTyped
<1>5. \A j \in Due : j \in DOMAIN next /\ j \in Jobs /\ NextOf(j) \in Starts
  <2> TAKE j \in Due
  <2>1. j \in DOMAIN next /\ j \in Jobs /\ next[j] \in Starts /\ next[j] <= now
    BY <1>4 DEF Due
  <2>2. next[j] \in Nat
    BY <2>1 DEF Starts
  <2>3. NextOf(j) = FirstAfterNow(next[j])
    BY NoneIsNew DEF NextOf, JobsInv
  <2>4. QED
    BY <2>1, <2>2, <2>3, FirstAfter DEF JobsInv
<1>6. PICK d \in [Jobs -> Starts] : \A j \in Jobs : d[j] = IF j \in Due THEN NextOf(j) ELSE c[j]
  <2>1. [j \in Jobs |-> IF j \in Due THEN NextOf(j) ELSE c[j]] \in [Jobs -> Starts]
    BY <1>5
  <2>2. QED
    BY <2>1
<1>7. PICK L \in Times : \A j \in Jobs : L[j] = IF j \in rewound THEN Starts ELSE started'[j] \cup {d[j]}
  <2>1. [j \in Jobs |-> IF j \in rewound THEN Starts ELSE started'[j] \cup {d[j]}] \in Times
    BY <1>3, <1>4, <1>5 DEF Times
  <2>2. QED
    BY <2>1
<1>8. \A j \in Jobs : K[j] \subseteq L[j]
  <2> TAKE j \in Jobs
  <2>1. CASE j \in Due /\ j \notin rewound
    <3>1. next[j] \notin started[j] /\ next[j] \in K[j]
      BY <1>1, <1>5, <2>1 DEF JobsInv, AgentInv, TimesKept, TimesIn
    <3>2. next[j] = c[j]
      BY <1>2, <2>1, <3>1
    <3>3. QED
      BY <1>2, <1>3, <1>7, <2>1, <3>2
  <2>2. CASE j \notin Due /\ j \notin rewound
    BY <1>2, <1>3, <1>6, <1>7, <2>2
  <2>3. CASE j \in rewound
    BY <1>2, <1>7, <2>3
  <2>4. QED
    BY <2>1, <2>2, <2>3
<1>9. \A j \in Due : NextOf(j) \in L[j]
  BY <1>5, <1>6, <1>7
<1>10. ServerInv(L)'
  <2>1. ServerInv(L)
    BY <1>1, <1>8, TimesGrow
  <2>2. QED
    BY <1>5, <1>9, <2>1, TickTells DEF JobsInv
<1>11. TimesIn(L)'
  <2>1. \A j \in DOMAIN next' : next'[j] \in L[j]
    BY <1>1, <1>3, <1>4, <1>8, <1>9 DEF TimesIn
  <2>2. \A j \in DOMAIN nextFile : nextFile[j] \in L[j]
    BY <1>1, <1>4, <1>8 DEF TimesIn
  <2>3. QED
    BY <1>3, <2>1, <2>2 DEF TimesIn
<1>12. OneStart(L)'
  BY <1>3, <1>7 DEF OneStart
<1>13. QED
  BY <1>10, <1>11, <1>12

\* Jobs that are set back may have any time.
LEMMA SetBackTimes ==
    ASSUME AgentInv, AgentInv', NEW K \in Times, OneStart(K), TimesIn(K)', ServerInv(K)',
           started' = started, rewound \subseteq rewound'
    PROVE  JobsInv'
<1>1. PICK c \in [Jobs -> Starts] :
         \A j \in Jobs : K[j] = IF j \in rewound THEN Starts ELSE started[j] \cup {c[j]}
  BY DEF OneStart
<1>2. started \in [Jobs -> SUBSET Starts]
  BY DEF AgentInv, AgentTyped
<1>3. PICK L \in Times : \A j \in Jobs : L[j] = IF j \in rewound' THEN Starts ELSE started[j] \cup {c[j]}
  <2>1. [j \in Jobs |-> IF j \in rewound' THEN Starts ELSE started[j] \cup {c[j]}] \in Times
    BY <1>2 DEF Times
  <2>2. QED
    BY <2>1
<1>4. \A j \in Jobs : K[j] \subseteq L[j]
  BY <1>1, <1>3 DEF Times
<1>5. ServerInv(L)'
  BY <1>4, TimesGrow
<1>6. TimesIn(L)'
  <2>1. DOMAIN next' \subseteq Jobs /\ DOMAIN nextFile' \subseteq Jobs
    BY SomeIs DEF AgentInv, AgentTyped
  <2>2. QED
    BY <1>4, <2>1 DEF TimesIn
<1>7. OneStart(L)'
  BY <1>3 DEF OneStart
<1>8. QED
  BY <1>5, <1>6, <1>7 DEF JobsInv

LEMMA InitJobs == Init => JobsInv
<1> SUFFICES ASSUME Init PROVE JobsInv
  OBVIOUS
<1>1. /\ up = FALSE /\ toAgent = <<>> /\ toServer = <<>> /\ cache = NoList /\ shown = NoList
      /\ procs = [p \in Processes |-> Idle] /\ editor = {} /\ edits = 0
      /\ next = [j \in Jobs |-> 1] /\ nextFile = next /\ started = [j \in Jobs |-> {}] /\ rewound = {}
  BY DEF Init
<1>2. PICK K \in Times : K = [j \in Jobs |-> {1}]
  <2>1. 1 \in Starts
    BY JobAssumption DEF Starts
  <2>2. [j \in Jobs |-> {1}] \in Times
    BY <2>1 DEF Times
  <2>3. QED
    BY <2>2
<1>3. <<>> \in JobLists(K)
  BY SomeEmpty DEF JobLists
<1>4. \A yes \in BOOLEAN : [known |-> yes, list |-> <<>>] \in Cached(K)
  BY <1>3 DEF Cached
<1>5. NoList \in Cached(K)
  BY <1>4 DEF NoList
<1>6. procs \in [Processes -> Process(K)] /\ \A p \in Processes : procs[p] = Idle
  BY <1>1 DEF Process
<1>7. <<>> \in Seq(Asks(K)) /\ <<>> \in Seq(Tells(K))
  OBVIOUS
<1>8. ServerTyped(K)
  BY <1>1, <1>5, <1>6, <1>7 DEF ServerTyped
<1>9. \A p \in Processes : TodoOf(procs[p], cache)
  BY <1>6 DEF TodoOf, Idle
<1>10. \A p \in Processes : Fits(p, procs[p], toAgent, toServer)
  BY <1>1, <1>6 DEF Fits, Silent, Single, AsksFit, TellsFit
<1>11. TimesIn(K)
  BY <1>1, <1>2 DEF TimesIn
<1>12. OneStart(K)
  <2>1. [j \in Jobs |-> 1] \in [Jobs -> Starts]
    BY JobAssumption DEF Starts
  <2>2. \A j \in Jobs : K[j] = IF j \in rewound THEN Starts ELSE started[j] \cup {[i \in Jobs |-> 1][j]}
    BY <1>1, <1>2
  <2>3. QED
    BY <2>1, <2>2 DEF OneStart
<1>13. QED
  BY <1>8, <1>9, <1>10, <1>11, <1>12, InitAgent DEF ServerInv, JobsInv

LEMMA StepJobs ==
    ASSUME JobsInv, [Next]_vars
    PROVE  JobsInv'
<1>0. PICK K \in Times : OneStart(K) /\ TimesIn(K) /\ ServerInv(K)
  BY DEF JobsInv
<1>1. ASSUME Connect \/ Replace \/ Disconnect \/ ServerReceive \/ (\E p \in Processes : TimesOut(p))
             \/ SaveJob \/ Distribute \/ (\E j \in Jobs : OpenEditor(j) \/ DeleteJob(j))
      PROVE  JobsInv'
  <2>1. AgentRests
    BY <1>1 DEF AgentRests, Connect, Replace, Disconnect, ServerReceive, TimesOut, SaveJob, Distribute,
                OpenEditor, DeleteJob, agent, past
  <2>2. AgentInv'
    BY <2>1, AgentRestKeeps DEF JobsInv
  <2>3. Disconnect => ServerInv(K)'
    BY <1>0, LostKeeps DEF Disconnect, Drop
  <2>4. ServerInv(K)'
    BY <1>0, <1>1, <2>3, ConnectKeeps, ServerReceiveKeeps, TimesOutKeeps, OperatorKeeps
  <2>5. TimesIn(K)'
    BY <1>0, <2>1 DEF AgentRests, TimesIn
  <2>6. QED
    BY <1>0, <2>1, <2>2, <2>4, <2>5, SetBackTimes DEF JobsInv, AgentRests
<1>2. CASE Restart
  <2>1. ServerInv(K)'
    BY <1>0, <1>2, LostKeeps DEF Restart, Drop
  <2>2. TimesIn(K)'
    BY <1>0, <1>2 DEF Restart, WithoutOrphans, TimesIn
  <2>3. AgentInv' /\ started' = started /\ rewound \subseteq rewound'
    BY <1>2, RestartKeeps DEF JobsInv, Restart
  <2>4. QED
    BY <1>0, <2>1, <2>2, <2>3, SetBackTimes DEF JobsInv
<1>3. CASE AgentReceive
  BY <1>0, <1>3, AgentReceiveKeeps, AgentTells, SetBackTimes DEF JobsInv
<1>4. CASE Passes
  <2>1. ServerInv(K)' /\ TimesIn(K)' /\ started' = started /\ rewound' = rewound
    BY <1>0, <1>4 DEF ServerInv, ServerTyped, TimesIn, Passes, wire, server, bounds, past
  <2>2. QED
    BY <1>0, <1>4, <2>1, PassesKeeps, SetBackTimes DEF JobsInv
<1>5. CASE Tick
  BY <1>5, TickKeeps, TickTimes DEF JobsInv
<1>6. CASE UNCHANGED vars
  <2>1. AgentRests /\ UNCHANGED <<up, toAgent, toServer, cache, procs, shown, editor, edits>>
    BY <1>6 DEF vars, AgentRests, agent, wire, server, past, bounds
  <2>2. AgentInv'
    BY <2>1, AgentRestKeeps DEF JobsInv
  <2>3. ServerInv(K)' /\ TimesIn(K)'
    BY <1>0, <2>1 DEF AgentRests, ServerInv, ServerTyped, TimesIn
  <2>4. QED
    BY <1>0, <2>1, <2>2, <2>3, SetBackTimes DEF JobsInv, AgentRests
<1>7. QED
  BY <1>1, <1>2, <1>3, <1>4, <1>5, <1>6 DEF Next


-----------------------------------------------------------------------------
(***************************************************************************)
(* What the server has of the agent's jobs.  In touch, unless a list is    *)
(* still to be read, the last list on its way is right, and without one    *)
(* the cache is; the last that tells of the time of a job is right, too.   *)
(***************************************************************************)
\* The last of T in s is in G; when there is none, b.
LastIs(s, T, G, b) ==
    /\ \A i \in DOMAIN s : s[i] \in T /\ (\A k \in DOMAIN s : k > i => s[k] \notin T) => s[i] \in G
    /\ (\A i \in DOMAIN s : s[i] \notin T) => b

AnyTime == [j \in Jobs |-> Starts]
AnyTells == Tells(AnyTime)
ListTells == {t \in AnyTells : t.type = "list"}
TimeTells(j) == {t \in AnyTells : t.type = "list" \/ (t.type = "next" /\ t.job = j)}

\* A job is listed as it is; an id it has may be missing only where it is stamped.
IsListed(j, l) ==
    /\ j \in DOMAIN l <=> j \in DOMAIN jobs
    /\ j \in DOMAIN jobs => /\ l[j].edit = jobs[j].edit
                            /\ l[j].linked => jobs[j].linked
                            /\ jobs[j].linked => l[j].linked \/ j \in Matched
StartsThen(j, l, at) == j \in DOMAIN l => l[j].next = at

TrueLists(j) == {t \in ListTells : IsListed(j, t.list)}
TrueTimes(j) ==
    {t \in TimeTells(j) : IF t.type = "list" THEN StartsThen(j, t.list, next[j]) ELSE t.at = next[j]}

Arrives == LastIs(toServer, ListTells, ListTells, cache.known)
TrueJob(j) == LastIs(toServer, ListTells, TrueLists(j), IsListed(j, cache.list))
TrueTime(j) == LastIs(toServer, TimeTells(j), TrueTimes(j), StartsThen(j, cache.list, next[j]))
Right ==
    /\ Arrives
    /\ \A j \in Jobs \ copied : TrueJob(j)
    /\ \A j \in DOMAIN jobs \ (copied \cup rewound) : TrueTime(j)

\* A list is asked for, or will be once what was answered is taken.
Awaited(m, q) == m.type = "done" /\ m.ok /\ q.kind \in {"save", "delete", "distribute"}
Rolled(q) == q.kind = "distribute" /\ q.done
ListComing ==
    \/ \E i \in DOMAIN toAgent : toAgent[i].type = "list"
    \/ \E p \in Processes : \/ Rolled(procs[p])
                            \/ \E i \in DOMAIN toServer :
                                 toServer[i].proc = p /\ Awaited(toServer[i], procs[p])

\* A stamp that is to be marked in the cached list was made.
Stamping(m, q) == m.type = "done" /\ m.ok /\ q.kind = "backfill" /\ q.live
Stamped ==
    (\A i \in DOMAIN toServer : toServer[i].type # "list") =>
    \A p \in Processes : \A i \in DOMAIN toServer :
        toServer[i].proc = p /\ Stamping(toServer[i], procs[p]) /\ procs[p].job \in DOMAIN jobs
            => jobs[procs[p].job].linked

\* What the cached list has without an id it could have is being stamped, or a write failed.
Marks(q, j) == q.kind = "backfill" /\ q.live /\ j \in q.todo \cup {q.job}
Stamps ==
    \A j \in DOMAIN cache.list \cap Matched :
        cache.list[j].linked \/ faults # 0 \/ \E p \in Processes : Marks(procs[p], j)

\* The dashboards have the list once the backfill that follows it has ended.
Showing == cache.known /\ shown # cache => \E p \in Processes : procs[p].kind = "backfill"

InTouch == up /\ ~lapsed
Asleep ==
    ~up => /\ toAgent = <<>> /\ toServer = <<>> /\ cache = NoList
           /\ \A p \in Processes : procs[p] = Idle
Heard ==
    ~lapsed => /\ \A i \in DOMAIN toAgent : toAgent[i].proc # Nobody
               /\ \A i \in DOMAIN toServer : toServer[i].type # "next" => toServer[i].proc # Nobody
Told == \A i \in DOMAIN toServer : toServer[i].type = "done" /\ ~toServer[i].ok => faults # 0
OneEditor == editor = {} \/ \E e : editor = {e}

Session == Asleep /\ Heard /\ Told /\ OneEditor /\ faults \in Nat
CacheInv ==
    /\ Session
    /\ InTouch => Showing /\ Stamps /\ (~ListComing => Right /\ Stamped)

LEMMA LastNone ==
    ASSUME NEW s, NEW T, NEW G, NEW b, LastIs(s, T, G, b), \A i \in DOMAIN s : s[i] \notin T
    PROVE  b
  BY DEF LastIs

LEMMA LastSame ==
    ASSUME NEW s, NEW T, NEW G, NEW H, NEW b, NEW c, LastIs(s, T, G, b), G \subseteq H,
           (\A i \in DOMAIN s : s[i] \notin T) /\ b => c
    PROVE  LastIs(s, T, H, c)
  BY DEF LastIs

LEMMA LastAppend ==
    ASSUME NEW S, NEW s \in Seq(S), NEW m \in S, NEW T, NEW G, NEW b,
           \/ m \in T /\ m \in G
           \/ m \notin T /\ LastIs(s, T, G, b)
    PROVE  LastIs(Append(s, m), T, G, b)
<1> DEFINE t == Append(s, m)
<1>1. /\ Len(s) \in Nat /\ DOMAIN s = 1 .. Len(s) /\ DOMAIN t = 1 .. Len(s) + 1 /\ t[Len(s) + 1] = m
      /\ \A i \in DOMAIN s : i \in DOMAIN t /\ t[i] = s[i]
      /\ \A i \in DOMAIN t : i \in DOMAIN s \/ i = Len(s) + 1
      /\ Len(s) + 1 \in DOMAIN t /\ \A i \in DOMAIN s : Len(s) + 1 > i
  OBVIOUS
<1> HIDE DEF t
<1>2. CASE m \in T /\ m \in G
  BY <1>1, <1>2 DEF LastIs, t
<1>3. CASE m \notin T /\ LastIs(s, T, G, b)
  <2>1. ASSUME NEW i \in DOMAIN t, t[i] \in T, \A k \in DOMAIN t : k > i => t[k] \notin T PROVE t[i] \in G
    <3>1. i \in DOMAIN s /\ s[i] = t[i]
      BY <1>1, <1>3, <2>1
    <3>2. \A k \in DOMAIN s : k > i => s[k] \notin T
      BY <1>1, <2>1
    <3>3. QED
      BY <1>3, <2>1, <3>1, <3>2 DEF LastIs
  <2>2. (\A i \in DOMAIN t : t[i] \notin T) => b
    BY <1>1, <1>3 DEF LastIs
  <2>3. QED
    BY <2>1, <2>2 DEF LastIs, t
<1>4. QED
  BY <1>2, <1>3

LEMMA LastMore ==
    ASSUME NEW S, NEW s \in Seq(S), NEW u \in Seq(S), NEW T, NEW G, NEW b,
           \A i \in DOMAIN u : u[i] \in T => u[i] \in G,
           LastIs(s, T, G, b) \/ \E i \in DOMAIN u : u[i] \in T
    PROVE  LastIs(s \o u, T, G, b)
<1> DEFINE t == s \o u
<1>1. /\ Len(s) \in Nat /\ DOMAIN s = 1 .. Len(s) /\ Len(u) \in Nat /\ DOMAIN u = 1 .. Len(u)
      /\ DOMAIN t = 1 .. Len(s) + Len(u)
      /\ \A i \in DOMAIN s : i \in DOMAIN t /\ t[i] = s[i]
      /\ \A i \in DOMAIN u : i + Len(s) \in DOMAIN t /\ t[i + Len(s)] = u[i]
  OBVIOUS
<1> HIDE DEF t
<1>2. /\ \A i \in DOMAIN t : i \in DOMAIN s \/ (i - Len(s) \in DOMAIN u /\ t[i] = u[i - Len(s)])
      /\ \A i \in DOMAIN s, k \in DOMAIN u : k + Len(s) > i
  <2>1. \A i \in DOMAIN t : i \in DOMAIN s \/ (i - Len(s) \in DOMAIN u /\ (i - Len(s)) + Len(s) = i)
    BY <1>1
  <2>2. \A i \in DOMAIN s, k \in DOMAIN u : k + Len(s) > i
    BY <1>1
  <2>3. QED
    BY <1>1, <2>1, <2>2
<1>3. ASSUME NEW i \in DOMAIN t, t[i] \in T, \A k \in DOMAIN t : k > i => t[k] \notin T PROVE t[i] \in G
  <2>1. CASE i \in DOMAIN s
    <3>1. \A k \in DOMAIN u : u[k] \notin T
      BY <1>1, <1>2, <1>3, <2>1
    <3>2. \A k \in DOMAIN s : k > i => s[k] \notin T
      BY <1>1, <1>3
    <3>3. QED
      BY <1>1, <1>3, <2>1, <3>1, <3>2 DEF LastIs
  <2>2. CASE i \notin DOMAIN s
    BY <1>2, <1>3, <2>2
  <2>3. QED
    BY <2>1, <2>2
<1>4. (\A i \in DOMAIN t : t[i] \notin T) => b
  <2> SUFFICES ASSUME \A i \in DOMAIN t : t[i] \notin T PROVE b
    OBVIOUS
  <2>1. (\A k \in DOMAIN u : u[k] \notin T) /\ \A k \in DOMAIN s : s[k] \notin T
    BY <1>1
  <2>2. QED
    BY <2>1 DEF LastIs
<1>5. QED
  BY <1>3, <1>4 DEF LastIs, t

\* The first is taken: it decides if it was the last.
LEMMA LastTail ==
    ASSUME NEW S, NEW s \in Seq(S), s # <<>>, NEW T, NEW G, NEW b, NEW c, LastIs(s, T, G, b),
           Head(s) \in T /\ Head(s) \in G => c,
           (\A i \in DOMAIN s : s[i] \notin T) /\ b => c
    PROVE  LastIs(Tail(s), T, G, c)
<1> DEFINE t == Tail(s)
<1>1. /\ Len(s) \in Nat /\ DOMAIN s = 1 .. Len(s) /\ 1 \in DOMAIN s /\ Head(s) = s[1]
      /\ DOMAIN t = 1 .. Len(s) - 1
      /\ \A i \in DOMAIN t : i + 1 \in DOMAIN s /\ t[i] = s[i + 1]
  OBVIOUS
<1> HIDE DEF t
<1>2. /\ \A i \in DOMAIN s : i = 1 \/ (i - 1 \in DOMAIN t /\ s[i] = t[i - 1])
  <2>1. \A i \in DOMAIN s : i = 1 \/ (i - 1 \in DOMAIN t /\ (i - 1) + 1 = i)
    BY <1>1
  <2>2. QED
    BY <1>1, <2>1
<1>3. ASSUME NEW i \in DOMAIN t, t[i] \in T, \A k \in DOMAIN t : k > i => t[k] \notin T PROVE t[i] \in G
  <2>1. i + 1 \in DOMAIN s /\ s[i + 1] = t[i] /\ i \in Nat /\ i >= 1
    BY <1>1
  <2>2. ASSUME NEW k \in DOMAIN s, k > i + 1 PROVE s[k] \notin T
    <3>1. k # 1 /\ k - 1 > i
      BY <1>1, <2>1, <2>2
    <3>2. QED
      BY <1>2, <1>3, <3>1
  <2>3. QED
    BY <1>3, <2>1, <2>2 DEF LastIs
<1>4. ASSUME \A i \in DOMAIN t : t[i] \notin T PROVE c
  <2>1. \A k \in DOMAIN s : k # 1 => s[k] \notin T
    BY <1>2, <1>4
  <2>2. CASE s[1] \in T
    <3>1. \A k \in DOMAIN s : k > 1 => s[k] \notin T
      BY <2>1
    <3>2. QED
      BY <1>1, <2>2, <3>1 DEF LastIs
  <2>3. CASE s[1] \notin T
    BY <2>1, <2>3 DEF LastIs
  <2>4. QED
    BY <2>2, <2>3
<1>5. QED
  BY <1>3, <1>4 DEF LastIs, t

LEMMA SomeTells ==
    ASSUME NEW K \in Times
    PROVE  Tells(K) \subseteq AnyTells
<1>1. \A j \in Jobs : K[j] \subseteq AnyTime[j]
  BY DEF Times, AnyTime
<1>2. QED
  BY <1>1, MoreTimes DEF AnyTells

-----------------------------------------------------------------------------
\* Where process p goes on to, and what it may ask.
Moves(p, at, q) ==
    /\ procs' = [at.procs EXCEPT ![p] = q]
    /\ toAgent' = at.sent \/ \E m : m.proc = p /\ toAgent' = Append(at.sent, m)
AsksList(p, at) == toAgent' = Append(at.sent, [type |-> "list", proc |-> p])

LEMMA AskMoves ==
    ASSUME NEW p, NEW m, NEW q, NEW at, Ask(p, m, q, at), m.proc = p
    PROVE  Moves(p, at, q)
  BY DEF Ask, Moves

LEMMA AskListMoves ==
    ASSUME NEW p, NEW w, NEW at, AskList(p, w, at)
    PROVE  AsksList(p, at) /\ \E q : Moves(p, at, q) /\ q.kind = "list"
<1> DEFINE m == [type |-> "list", proc |-> p]
           q == [kind |-> "list", then |-> w]
<1>1. Ask(p, m, q, at) /\ m.proc = p /\ q.kind = "list"
  BY DEF AskList
<1>2. AsksList(p, at)
  BY <1>1 DEF Ask, AsksList
<1> HIDE DEF m, q
<1>3. QED
  BY <1>1, <1>2, AskMoves

LEMMA AskSaveMoves ==
    ASSUME NEW p, NEW by, NEW j, NEW v, NEW q, NEW at, AskSave(p, by, j, v, q, at)
    PROVE  Moves(p, at, q)
<1> DEFINE m == [type |-> "save", proc |-> p, by |-> by, job |-> j, copy |-> v]
<1>1. Ask(p, m, q, at) /\ m.proc = p
  BY DEF AskSave
<1> HIDE DEF m
<1>2. QED
  BY <1>1, AskMoves

LEMMA FinishMoves ==
    ASSUME NEW p, NEW at, Finish(p, at)
    PROVE  Moves(p, at, Idle) /\ Idle.kind = "idle"
  BY DEF Finish, Moves, Idle

LEMMA EndRefreshMoves ==
    ASSUME NEW p, NEW w, NEW at, EndRefresh(p, w, at)
    PROVE  \E q : Moves(p, at, q) /\ q.kind \in {"idle", "save"}
<1>1. CASE ~\E s \in w : s.job \in DOMAIN cache'.list
  BY <1>1, FinishMoves DEF EndRefresh
<1>2. CASE \E s \in w : s.job \in DOMAIN cache'.list
  <2> DEFINE s == CHOOSE s \in w : TRUE
             q == [kind |-> "save"]
  <2>1. AskSave(p, "operator", s.job, s.copy, q, at) /\ q.kind = "save"
    BY <1>2 DEF EndRefresh
  <2> HIDE DEF s, q
  <2>2. QED
    BY <2>1, AskSaveMoves
<1>3. QED
  BY <1>1, <1>2

\* A backfill has its next job, or has ended and was shown.
Filled(b, q) ==
    \/ /\ b.todo = {} /\ q.kind \in {"idle", "save"}
       /\ shown' = [known |-> TRUE, list |-> cache'.list]
    \/ /\ shown' = shown
       /\ q.kind = "backfill" /\ q.live = b.live /\ q.job \in b.todo
       /\ q.todo \cup {q.job} = b.todo

LEMMA GoBackfillMoves ==
    ASSUME NEW K, NEW p, NEW b \in Backfills(K, AnyJob), NEW at, GoBackfill(p, b, at)
    PROVE  \E q : Moves(p, at, q) /\ Filled(b, q)
<1>1. CASE b.todo = {}
  BY <1>1, EndRefreshMoves DEF GoBackfill, Filled
<1>2. CASE b.todo # {}
  <2>1. PICK j \in b.todo : AskSave(p, "server", j, [b.list[j] EXCEPT !.linked = TRUE],
                                    [b EXCEPT !.job = j, !.todo = @ \ {j}], at)
    BY <1>2, Zenon DEF GoBackfill
  <2>2. shown' = shown
    BY <1>2, Zenon DEF GoBackfill
  <2> DEFINE e == [b EXCEPT !.job = j]
             f == [e EXCEPT !.todo = e.todo \ {j}]
  <2>3. /\ e.kind = "backfill" /\ e.live = b.live /\ e.job = j /\ e.todo = b.todo
        /\ e \in Backfills(K, AnyJob)
    BY <2>1 DEF Backfills, AnyJob
  <2>4. [b EXCEPT !.job = j, !.todo = @ \ {j}] = f
    BY Zenon DEF Backfills
  <2> HIDE DEF e
  <2>5. f.kind = "backfill" /\ f.live = b.live /\ f.job = j /\ f.todo = b.todo \ {j}
    BY <2>3 DEF Backfills
  <2> HIDE DEF f
  <2>6. Moves(p, at, f)
    BY <2>1, <2>4, AskSaveMoves
  <2>7. Filled(b, f)
    BY <2>2, <2>5 DEF Filled
  <2>8. QED
    BY <2>6, <2>7
<1>3. QED
  BY <1>1, <1>2

\* A distribution reads the list at its end if anything was saved.
LEMMA GoDistributeMoves ==
    ASSUME NEW K, NEW p, NEW d \in Distributions(K, AnyJob), NEW at, GoDistribute(p, d, at)
    PROVE  \E q : /\ Moves(p, at, q) /\ q.kind \in {"idle", "list", "distribute"}
                  /\ d.done => Rolled(q) \/ AsksList(p, at)
<1>1. CASE d.todo = {}
  <2>1. CASE d.done
    BY <1>1, <2>1, AskListMoves DEF GoDistribute
  <2>2. CASE ~d.done
    BY <1>1, <2>2, FinishMoves DEF GoDistribute
  <2>3. QED
    BY <2>1, <2>2
<1>2. CASE d.todo # {}
  <2> DEFINE from == IF d.live THEN cache'.list ELSE d.list
  <2>1. PICK j \in d.todo : AskSave(p, "server", j, [from[j] EXCEPT !.linked = TRUE],
                                    [d EXCEPT !.job = j, !.todo = @ \ {j}], at)
    BY <1>2, Zenon DEF GoDistribute
  <2> HIDE DEF from
  <2> DEFINE e == [d EXCEPT !.job = j]
             f == [e EXCEPT !.todo = e.todo \ {j}]
  <2>3. e.kind = "distribute" /\ e.done = d.done /\ e \in Distributions(K, AnyJob)
    BY <2>1 DEF Distributions, AnyJob
  <2>4. [d EXCEPT !.job = j, !.todo = @ \ {j}] = f
    BY Zenon DEF Distributions
  <2> HIDE DEF e
  <2>5. f.kind = "distribute" /\ f.done = d.done
    BY <2>3 DEF Distributions
  <2> HIDE DEF f
  <2>6. Moves(p, at, f)
    BY <2>1, <2>4, AskSaveMoves
  <2>7. QED
    BY <2>5, <2>6 DEF Rolled
<1>3. QED
  BY <1>1, <1>2

\* What is answered with ok to anything but a backfill makes the list be read.
LEMMA GoOnMoves ==
    ASSUME NEW K, ServerInv(K), NEW p \in Processes, NEW ok \in BOOLEAN, NEW at, GoOn(p, ok, at),
           procs[p].kind \in {"save", "delete", "distribute"}
    PROVE  /\ UNCHANGED <<cache, shown>>
           /\ \E q : /\ Moves(p, at, q) /\ q.kind # "backfill"
                     /\ ok \/ Rolled(procs[p]) => Rolled(q) \/ AsksList(p, at)
<1>1. procs[p] \in Process(K)
  BY DEF ServerInv, ServerTyped
<1>2. CASE procs[p].kind = "distribute"
  <2> DEFINE q == procs[p]
             yes == q.done \/ ok
             d == [q EXCEPT !.done = yes]
  <2>1. q \in Distributions(K, Jobs)
    BY <1>1, <1>2 DEF Process, Idle, Listings, Backfills
  <2>2. UNCHANGED <<cache, shown>> /\ GoDistribute(p, d, at)
    BY <1>2 DEF GoOn
  <2>3. yes \in BOOLEAN
    OBVIOUS
  <2>4. ok \/ Rolled(q) => yes
    BY DEF Rolled
  <2> HIDE DEF yes
  <2>5. d \in Distributions(K, AnyJob) /\ d.done = yes
    BY <2>1, <2>3 DEF Distributions, AnyJob
  <2>6. PICK r : /\ Moves(p, at, r) /\ r.kind \in {"idle", "list", "distribute"}
                 /\ d.done => Rolled(r) \/ AsksList(p, at)
    BY <2>2, <2>5, GoDistributeMoves
  <2>7. QED
    BY <2>2, <2>4, <2>5, <2>6
<1>3. CASE procs[p].kind \in {"save", "delete"}
  <2>1. UNCHANGED <<cache, shown>> /\ IF ok THEN AskList(p, {}, at) ELSE Finish(p, at)
    BY <1>3 DEF GoOn
  <2>2. ~Rolled(procs[p])
    BY <1>3 DEF Rolled
  <2>3. QED
    BY <2>1, <2>2, AskListMoves, FinishMoves
<1>4. QED
  BY <1>2, <1>3

\* Who keeps the list it goes through is about the same.
LEMMA LetGoIs ==
    ASSUME NEW K, ServerInv(K)
    PROVE  \A r \in Processes : /\ LetGo[r].kind = procs[r].kind
                                /\ Rolled(procs[r]) => Rolled(LetGo[r])
                                /\ LetGo[r].kind = "backfill" => ~LetGo[r].live
<1> TAKE r \in Processes
<1> DEFINE q == procs[r]
<1>1. q \in Process(K)
  BY DEF ServerInv, ServerTyped
<1>2. CASE q.kind = "distribute" /\ q.live
  <2> DEFINE e == [q EXCEPT !.list = cache.list]
             f == [e EXCEPT !.live = FALSE]
  <2>1. q \in Distributions(K, Jobs)
    BY <1>1, <1>2 DEF Process, Idle, Listings, Backfills
  <2>2. e.kind = "distribute" /\ e.done = q.done
    BY <2>1 DEF Distributions
  <2>3. LetGo[r] = [q EXCEPT !.list = cache.list, !.live = FALSE]
    BY <1>2 DEF LetGo
  <2>4. [q EXCEPT !.list = cache.list, !.live = FALSE] = f
    BY <2>1, Zenon DEF Distributions
  <2>5. f.kind = e.kind /\ f.done = e.done
    BY <2>1 DEF Distributions
  <2>6. QED
    BY <1>2, <2>2, <2>3, <2>4, <2>5 DEF Rolled
<1>3. CASE q.kind = "backfill"
  <2>1. q \in Backfills(K, Jobs)
    BY <1>1, <1>3 DEF Process, Idle, Listings, Distributions
  <2>2. LetGo[r] = [q EXCEPT !.live = FALSE]
    BY <1>3 DEF LetGo
  <2>3. [q EXCEPT !.live = FALSE].kind = "backfill" /\ ~[q EXCEPT !.live = FALSE].live
    BY <2>1 DEF Backfills
  <2>4. QED
    BY <1>3, <2>2, <2>3 DEF Rolled
<1>4. CASE q.kind # "backfill" /\ ~(q.kind = "distribute" /\ q.live)
  BY <1>4 DEF LetGo
<1>5. QED
  BY <1>2, <1>3, <1>4

\* Only the process that goes on can end the wait for a list.
LEMMA ListComingStays ==
    ASSUME NEW K, ServerInv(K), NEW p \in Processes, NEW at, NEW q, Moves(p, at, q), at.sent = toAgent,
           DOMAIN at.procs = Processes,
           \A r \in Processes : at.procs[r].kind = procs[r].kind /\ (Rolled(procs[r]) => Rolled(at.procs[r])),
           \/ toServer' = toServer
           \/ toServer # <<>> /\ toServer' = Tail(toServer) /\ Head(toServer).proc = p,
           ListComing
    PROVE  \/ ListComing'
           \/ Rolled(procs[p])
           \/ \E i \in DOMAIN toServer : toServer[i].proc = p /\ Awaited(toServer[i], procs[p])
<1>1. toAgent \in Seq(Asks(K)) /\ toServer \in Seq(Tells(K))
  BY DEF ServerInv, ServerTyped
<1>2. \A r \in Processes : procs'[r] = IF r = p THEN q ELSE at.procs[r]
  BY DEF Moves
<1>3. ASSUME NEW i \in DOMAIN toAgent, toAgent[i].type = "list" PROVE ListComing'
  <2>1. CASE toAgent' = toAgent
    BY <1>3, <2>1 DEF ListComing
  <2>2. ASSUME NEW m, toAgent' = Append(toAgent, m) PROVE ListComing'
    <3>1. i \in DOMAIN toAgent' /\ toAgent'[i] = toAgent[i]
      BY <1>1, <2>2
    <3>2. QED
      BY <1>3, <3>1 DEF ListComing
  <2>3. QED
    BY <2>1, <2>2 DEF Moves
<1>4. ASSUME NEW r \in Processes \ {p}, Rolled(procs[r]) PROVE ListComing'
  BY <1>2, <1>4 DEF ListComing
<1>5. ASSUME NEW r \in Processes \ {p}, NEW i \in DOMAIN toServer, toServer[i].proc = r,
             Awaited(toServer[i], procs[r])
      PROVE  ListComing'
  <2>1. PICK k \in DOMAIN toServer' : toServer'[k] = toServer[i]
    <3>1. CASE toServer' = toServer
      BY <3>1
    <3>2. CASE toServer # <<>> /\ toServer' = Tail(toServer) /\ Head(toServer).proc = p
      <4>1. i # 1
        BY <1>1, <1>5, <3>2
      <4>2. i - 1 \in DOMAIN Tail(toServer) /\ Tail(toServer)[i - 1] = toServer[i]
        BY <1>1, <3>2, <4>1
      <4>3. QED
        BY <3>2, <4>2
    <3>3. QED
      BY <3>1, <3>2
  <2>2. Awaited(toServer'[k], procs'[r])
    BY <1>2, <1>5, <2>1 DEF Awaited
  <2>3. QED
    BY <1>5, <2>1, <2>2 DEF ListComing
<1>6. QED
  BY <1>3, <1>4, <1>5 DEF ListComing

\* What changes when the server takes the next message.
Takes ==
    /\ up /\ toServer # <<>> /\ toServer' = Tail(toServer)
    /\ UNCHANGED <<jobs, next, copied, rewound, up, lapsed, editor, faults>>
NoLists == \A i \in DOMAIN toServer : toServer[i] \notin ListTells

\* The next message, and what is left.
LEMMA FirstOf ==
    ASSUME NEW S, NEW s \in Seq(S), s # <<>>
    PROVE  /\ Head(s) \in S /\ 1 \in DOMAIN s /\ Head(s) = s[1]
           /\ \A i \in DOMAIN Tail(s) : i + 1 \in DOMAIN s /\ Tail(s)[i] = s[i + 1]
           /\ \A i \in DOMAIN s : i = 1 \/ (i - 1 \in DOMAIN Tail(s) /\ Tail(s)[i - 1] = s[i])
<1>1. Head(s) \in S /\ 1 \in DOMAIN s /\ Head(s) = s[1]
  OBVIOUS
<1>2. \A i \in DOMAIN Tail(s) : i + 1 \in DOMAIN s /\ Tail(s)[i] = s[i + 1]
  OBVIOUS
<1>3. \A i \in DOMAIN s : i = 1 \/ (i - 1 \in DOMAIN Tail(s) /\ Tail(s)[i - 1] = s[i])
  OBVIOUS
<1>4. QED
  BY <1>1, <1>2, <1>3

LEMMA RightTail ==
    ASSUME NEW K \in Times, ServerInv(K), Takes, Right,
           Head(toServer) \in ListTells \/ cache.known => cache'.known,
           \A j \in Jobs :
               /\ Head(toServer) \in TrueLists(j) => IsListed(j, cache'.list)
               /\ NoLists /\ IsListed(j, cache.list) => IsListed(j, cache'.list)
               /\ Head(toServer) \in TrueTimes(j) => StartsThen(j, cache'.list, next[j])
               /\ (\A i \in DOMAIN toServer : toServer[i] \notin TimeTells(j))
                     /\ StartsThen(j, cache.list, next[j]) => StartsThen(j, cache'.list, next[j]),
           DOMAIN jobs \subseteq Jobs
    PROVE  Right'
<1>1. toServer \in Seq(Tells(K)) /\ toServer # <<>> /\ toServer' = Tail(toServer)
  BY DEF ServerInv, ServerTyped, Takes
<1>2. Arrives'
  <2>1. LastIs(Tail(toServer), ListTells, ListTells, cache'.known)
    BY <1>1, LastTail DEF Right, Arrives
  <2>2. QED
    BY <1>1, <2>1 DEF Arrives, ListTells, AnyTells, LastIs
<1>3. ASSUME NEW j \in Jobs \ copied PROVE TrueJob(j)'
  <2>1. TrueJob(j)
    BY DEF Right
  <2>2. LastIs(Tail(toServer), ListTells, TrueLists(j), IsListed(j, cache'.list))
    BY <1>1, <2>1, LastTail DEF TrueJob, NoLists, TrueLists
  <2>3. TrueLists(j)' = TrueLists(j) /\ IsListed(j, cache.list)' = IsListed(j, cache'.list)
    BY DEF TrueLists, IsListed, Takes
  <2>4. QED
    BY <1>1, <2>2, <2>3 DEF TrueJob
<1>4. ASSUME NEW j \in DOMAIN jobs \ (copied \cup rewound) PROVE TrueTime(j)'
  <2>1. TrueTime(j) /\ j \in Jobs
    BY DEF Right
  <2>2. LastIs(Tail(toServer), TimeTells(j), TrueTimes(j), StartsThen(j, cache'.list, next[j]))
    BY <1>1, <2>1, LastTail DEF TrueTime
  <2>3. TrueTimes(j)' = TrueTimes(j) /\ StartsThen(j, cache.list, next[j])' = StartsThen(j, cache'.list, next[j])
    BY DEF TrueTimes, StartsThen, Takes
  <2>4. QED
    BY <1>1, <2>2, <2>3 DEF TrueTime
<1>5. QED
  BY <1>2, <1>3, <1>4 DEF Right, Takes

LEMMA HeardMoves ==
    ASSUME NEW K, ServerInv(K), Session, NEW p \in Processes, NEW at, NEW q, Moves(p, at, q),
           at.sent = toAgent, Takes
    PROVE  Session'
<1>1. toAgent \in Seq(Asks(K)) /\ toServer \in Seq(Tells(K))
  BY DEF ServerInv, ServerTyped
<1>2. p # Nobody
  BY JobAssumption DEF Nobody
<1>3. ASSUME ~lapsed, NEW i \in DOMAIN toAgent' PROVE toAgent'[i].proc # Nobody
  <2>1. CASE toAgent' = toAgent
    BY <1>3, <2>1 DEF Session, Heard
  <2>2. ASSUME NEW m, m.proc = p, toAgent' = Append(toAgent, m) PROVE toAgent'[i].proc # Nobody
    <3>1. (i \in DOMAIN toAgent /\ toAgent'[i] = toAgent[i]) \/ toAgent'[i] = m
      BY <1>1, <1>3, <2>2
    <3>2. QED
      BY <1>2, <1>3, <2>2, <3>1 DEF Session, Heard
  <2>3. QED
    BY <2>1, <2>2 DEF Moves
<1>5. \A i \in DOMAIN toServer' : \E k \in DOMAIN toServer : toServer'[i] = toServer[k]
  BY <1>1, FirstOf DEF Takes
<1>6. Heard'
  BY <1>3, <1>5 DEF Session, Heard, Takes
<1>7. Told'
  BY <1>5 DEF Session, Told, Takes
<1>8. QED
  BY <1>6, <1>7 DEF Session, Asleep, OneEditor, Takes

\* One entry of the cached list gets another time, or its mark.
SameEntries(v, w) ==
    /\ DOMAIN w.list = DOMAIN v.list /\ w.known = v.known
    /\ \A i \in DOMAIN v.list : w.list[i].edit = v.list[i].edit

LEMMA MovedIs ==
    ASSUME NEW K, NEW v \in Cached(K), NEW j \in Jobs, NEW t
    PROVE  /\ SameEntries(v, Moved(v, j, t))
           /\ \A i \in DOMAIN v.list : Moved(v, j, t).list[i].linked = v.list[i].linked
           /\ \A i \in DOMAIN v.list : Moved(v, j, t).list[i].next = IF i = j THEN t ELSE v.list[i].next
<1>1. CASE j \notin DOMAIN v.list
  BY <1>1 DEF Moved, SameEntries
<1>2. CASE j \in DOMAIN v.list
  <2> DEFINE l == v.list
             k == [l EXCEPT ![j].next = t]
             w == [v EXCEPT !.list = k]
  <2>1. DOMAIN l \subseteq Jobs /\ l \in [DOMAIN l -> Timed]
    BY SomeIs DEF Cached, JobLists
  <2>2. Moved(v, j, t) = w
    BY <1>2, Zenon DEF Moved
  <2>3. /\ [l[j] EXCEPT !.next = t].next = t
        /\ [l[j] EXCEPT !.next = t].edit = l[j].edit /\ [l[j] EXCEPT !.next = t].linked = l[j].linked
    BY <1>2, <2>1 DEF Timed
  <2>4. /\ DOMAIN k = DOMAIN l
        /\ \A i \in DOMAIN l : k[i] = IF i = j THEN [l[j] EXCEPT !.next = t] ELSE l[i]
    BY <2>1
  <2> HIDE DEF k
  <2>5. w.list = k /\ w.known = v.known
    BY DEF Cached
  <2> HIDE DEF w
  <2>6. QED
    BY <2>2, <2>3, <2>4, <2>5 DEF SameEntries
<1>3. QED
  BY <1>1, <1>2

StampIn(v, w, j) ==
    /\ SameEntries(v, w)
    /\ \A i \in DOMAIN v.list : IF i = j THEN w.list[i].linked ELSE w.list[i].linked = v.list[i].linked
    /\ \A i \in DOMAIN v.list : w.list[i].next = v.list[i].next

LEMMA StampedIs ==
    ASSUME NEW K, NEW v \in Cached(K), NEW j, NEW w, w = [v EXCEPT !.list[j].linked = TRUE]
    PROVE  StampIn(v, w, j)
<1> DEFINE l == v.list
           k == [l EXCEPT ![j].linked = TRUE]
           u == [v EXCEPT !.list = k]
<1>1. DOMAIN l \subseteq Jobs /\ l \in [DOMAIN l -> Timed]
  BY SomeIs DEF Cached, JobLists
<1>2. w = u
  BY Zenon
<1>3. \A i \in DOMAIN l : /\ [l[i] EXCEPT !.linked = TRUE].linked
                          /\ [l[i] EXCEPT !.linked = TRUE].edit = l[i].edit
                          /\ [l[i] EXCEPT !.linked = TRUE].next = l[i].next
  BY <1>1 DEF Timed
<1>4. /\ DOMAIN k = DOMAIN l
      /\ \A i \in DOMAIN l : k[i] = IF i = j THEN [l[i] EXCEPT !.linked = TRUE] ELSE l[i]
  BY <1>1
<1> HIDE DEF k
<1>5. u.list = k /\ u.known = v.known
  BY DEF Cached
<1> HIDE DEF u
<1>6. QED
  BY <1>2, <1>3, <1>4, <1>5 DEF StampIn, SameEntries

LEMMA TailComing ==
    ASSUME NEW K, ServerInv(K), Takes, Head(toServer).type # "done", UNCHANGED <<toAgent, procs>>, ListComing
    PROVE  ListComing'
<1>1. toServer \in Seq(Tells(K)) /\ toServer # <<>> /\ toServer' = Tail(toServer)
  BY DEF ServerInv, ServerTyped, Takes
<1>2. \A i \in DOMAIN toServer : toServer[i].type = "done" => \E k \in DOMAIN toServer' : toServer'[k] = toServer[i]
  BY <1>1, FirstOf
<1>3. ASSUME NEW p \in Processes, NEW i \in DOMAIN toServer, toServer[i].proc = p, Awaited(toServer[i], procs[p])
      PROVE  ListComing'
  BY <1>2, <1>3 DEF ListComing, Awaited
<1>4. QED
  BY <1>3 DEF ListComing

LEMMA HeadIs ==
    ASSUME NEW K \in Times, ServerInv(K), Takes
    PROVE  /\ Head(toServer) \in Tells(K) /\ Head(toServer) \in AnyTells
           /\ 1 \in DOMAIN toServer /\ Head(toServer) = toServer[1]
           /\ \A p \in Processes : Head(toServer).proc = p =>
                 /\ TellFits(Head(toServer), procs[p])
                 /\ Silent(toServer', p)
                 /\ \A i \in DOMAIN toServer : toServer[i].proc = p => i = 1
<1>1. toServer \in Seq(Tells(K)) /\ toServer # <<>> /\ toServer' = Tail(toServer)
  BY DEF ServerInv, ServerTyped, Takes
<1>2. Head(toServer) \in Tells(K) /\ 1 \in DOMAIN toServer /\ Head(toServer) = toServer[1]
  BY <1>1, FirstOf
<1>3. ASSUME NEW p \in Processes, Head(toServer).proc = p
      PROVE  /\ TellFits(Head(toServer), procs[p]) /\ Silent(toServer', p)
             /\ \A i \in DOMAIN toServer : toServer[i].proc = p => i = 1
  <2>1. Fits(p, procs[p], toAgent, toServer)
    BY DEF ServerInv
  <2>2. Single(toServer, p)
    BY <2>1 DEF Fits
  <2>3. Silent(toServer', p)
    BY <1>1, <1>3, <2>2, FewerTail
  <2>4. QED
    BY <1>2, <1>3, <2>1, <2>2, <2>3 DEF Fits, TellsFit, Single
<1>4. QED
  BY <1>2, <1>3, SomeTells

\* The head of the queue is no list, or is asked for.
LEMMA NoListsLeft ==
    ASSUME NEW K \in Times, ServerInv(K), Takes, Head(toServer).type # "list",
           \A i \in DOMAIN toServer' : toServer'[i].type # "list"
    PROVE  \A i \in DOMAIN toServer : toServer[i].type # "list"
<1>1. toServer \in Seq(Tells(K)) /\ toServer # <<>> /\ toServer' = Tail(toServer)
  BY DEF ServerInv, ServerTyped, Takes
<1>2. TAKE i \in DOMAIN toServer
<1>3. i = 1 \/ (i - 1 \in DOMAIN toServer' /\ toServer'[i - 1] = toServer[i])
  BY <1>1, FirstOf
<1>4. Head(toServer) = toServer[1]
  BY <1>1, FirstOf
<1>5. QED
  BY <1>3, <1>4

LEMMA NoListsAre ==
    ASSUME NEW K \in Times, ServerInv(K), NoLists
    PROVE  \A i \in DOMAIN toServer : toServer[i].type # "list"
<1>1. toServer \in Seq(Tells(K))
  BY DEF ServerInv, ServerTyped
<1>2. QED
  BY <1>1, SomeTells DEF NoLists, ListTells

\* A run that moved is taken.
LEMMA NextTaken ==
    ASSUME NEW K \in Times, ServerInv(K), AgentTyped, CacheInv, Takes, NEW m, m = Head(toServer),
           m.type = "next", TakeNext(m.job, m.at)
    PROVE  CacheInv'
<1>1. /\ m \in Tells(K) /\ m \in AnyTells /\ 1 \in DOMAIN toServer /\ m = toServer[1]
      /\ toServer \in Seq(Tells(K)) /\ cache \in Cached(K) /\ shown \in Cached(K)
  BY HeadIs DEF ServerInv, ServerTyped
<1>2. m.job \in Jobs
  BY <1>1 DEF Tells, ListTell, DoneTell, NextTell
<1>3. /\ cache' = Moved(cache, m.job, m.at) /\ shown' = Moved(shown, m.job, m.at)
      /\ UNCHANGED <<toAgent, procs>>
  BY DEF TakeNext
<1>4. /\ SameEntries(cache, cache')
      /\ \A i \in DOMAIN cache.list : cache'.list[i].linked = cache.list[i].linked
      /\ \A i \in DOMAIN cache.list : cache'.list[i].next = IF i = m.job THEN m.at ELSE cache.list[i].next
  BY <1>1, <1>2, <1>3, MovedIs
<1>5. Session'
  <2>1. \A i \in DOMAIN toServer' : \E k \in DOMAIN toServer : toServer'[i] = toServer[k]
    BY <1>1, FirstOf DEF Takes
  <2>2. Heard'
    BY <1>3, <2>1 DEF CacheInv, Session, Heard, Takes
  <2>3. Told'
    BY <2>1 DEF CacheInv, Session, Told, Takes
  <2>4. QED
    BY <2>2, <2>3 DEF CacheInv, Session, Asleep, OneEditor, Takes
<1>6. SUFFICES ASSUME InTouch' PROVE Showing' /\ Stamps' /\ (~ListComing' => Right' /\ Stamped')
  BY <1>5 DEF CacheInv
<1>7. Showing /\ Stamps /\ (~ListComing => Right /\ Stamped)
  BY <1>6 DEF CacheInv, InTouch, Takes
<1>8. Showing'
  BY <1>3, <1>4, <1>7 DEF Showing, SameEntries
<1>9. Stamps'
  BY <1>3, <1>4, <1>7 DEF Stamps, SameEntries, Takes
<1>10. ASSUME ~ListComing' PROVE Right' /\ Stamped'
  <2>1. ~ListComing /\ Right /\ Stamped
    BY <1>3, <1>7, <1>10, TailComing
  <2>2. m \notin ListTells
    BY DEF ListTells
  <2>3. ASSUME NEW j \in Jobs
        PROVE  /\ IsListed(j, cache.list) => IsListed(j, cache'.list)
               /\ m \in TrueTimes(j) => StartsThen(j, cache'.list, next[j])
               /\ (\A i \in DOMAIN toServer : toServer[i] \notin TimeTells(j))
                     /\ StartsThen(j, cache.list, next[j]) => StartsThen(j, cache'.list, next[j])
    <3>1. IsListed(j, cache.list) => IsListed(j, cache'.list)
      BY <1>4 DEF IsListed, SameEntries
    <3>2. m \in TrueTimes(j) => StartsThen(j, cache'.list, next[j])
      BY <1>4 DEF TrueTimes, TimeTells, StartsThen, SameEntries
    <3>3. m.job # j => (StartsThen(j, cache.list, next[j]) => StartsThen(j, cache'.list, next[j]))
      BY <1>4 DEF StartsThen, SameEntries
    <3>4. m.job = j => ~(\A i \in DOMAIN toServer : toServer[i] \notin TimeTells(j))
      BY <1>1 DEF TimeTells
    <3>5. QED
      BY <3>1, <3>2, <3>3, <3>4
  <2>4. \A j \in Jobs : m \notin TrueLists(j)
    BY <2>2 DEF TrueLists
  <2>5. DOMAIN jobs \subseteq Jobs /\ cache'.known = cache.known
    BY <1>4, SomeIs DEF AgentTyped, SameEntries
  <2>6. Right'
    BY <2>1, <2>2, <2>3, <2>4, <2>5, RightTail
  <2>7. Stamped'
    <3>1. SUFFICES ASSUME \A i \in DOMAIN toServer' : toServer'[i].type # "list",
                          NEW p \in Processes, NEW i \in DOMAIN toServer',
                          toServer'[i].proc = p, Stamping(toServer'[i], procs'[p]), procs'[p].job \in DOMAIN jobs'
                   PROVE  jobs'[procs'[p].job].linked
      BY DEF Stamped, Stamping
    <3>2. \A k \in DOMAIN toServer : toServer[k].type # "list"
      BY <3>1, NoListsLeft
    <3>3. PICK k \in DOMAIN toServer : toServer[k] = toServer'[i]
      BY <1>1, FirstOf DEF Takes
    <3>4. QED
      BY <1>3, <2>1, <3>1, <3>2, <3>3 DEF Stamped, Stamping, Takes
  <2>8. QED
    BY <2>6, <2>7
<1>11. QED
  BY <1>8, <1>9, <1>10

\* A list that was asked for is taken.
LEMMA ListTaken ==
    ASSUME NEW K \in Times, ServerInv(K), ServerInv(K)', AgentTyped, CacheInv, Takes, NEW m, m = Head(toServer),
           m.type = "list", m.proc \in Processes, TakeList(m.proc, m.list)
    PROVE  CacheInv'
<1> DEFINE p == m.proc
           b == [kind |-> "backfill", job |-> FirstJob, todo |-> ToStamp(m.list), list |-> m.list,
                 live |-> TRUE, then |-> procs[m.proc].then]
           at == [Here EXCEPT !.procs = LetGo]
<1>1. /\ m \in Tells(K) /\ m \in AnyTells /\ 1 \in DOMAIN toServer /\ m = toServer[1]
      /\ TellFits(m, procs[p]) /\ Silent(toServer', p)
      /\ toServer \in Seq(Tells(K)) /\ procs \in [Processes -> Process(K)]
  BY HeadIs DEF ServerInv, ServerTyped
<1>2. procs[p].kind = "list" /\ p \in Processes
  BY <1>1 DEF TellFits
<1>3. m.list \in JobLists(K)
  BY <1>1 DEF Tells, ListTell, DoneTell, NextTell
<1>4. cache' = [known |-> TRUE, list |-> m.list] /\ GoBackfill(p, b, at)
  BY DEF TakeList, FirstJob
<1>5. procs[p].then \in SUBSET InEditor(K)
  <2>1. procs[p] \in Process(K)
    BY <1>1, <1>2
  <2>2. QED
    BY <1>2, <2>1 DEF Process, Idle, Listings, Backfills, Distributions
<1>6. b \in Backfills(K, AnyJob) /\ b.todo = ToStamp(m.list) /\ b.live
  <2> DEFINE yes == TRUE
             c == [kind |-> "backfill", job |-> FirstJob, todo |-> ToStamp(m.list),
                   list |-> m.list, live |-> yes, then |-> procs[m.proc].then]
  <2>1. ToStamp(m.list) \subseteq Jobs
    BY <1>3, SomeIs DEF ToStamp, JobLists
  <2>2. yes \in BOOLEAN /\ FirstJob \in AnyJob /\ yes
    BY DEF AnyJob
  <2> HIDE DEF yes
  <2>3. c \in Backfills(K, AnyJob) /\ c.todo = ToStamp(m.list) /\ c.live
    BY <1>3, <1>5, <2>1, <2>2 DEF Backfills
  <2>4. QED
    BY <2>3 DEF yes
<1>7. at.sent = toAgent /\ at.procs = LetGo /\ DOMAIN at.procs = Processes
  BY DEF Here, LetGo
<1> HIDE DEF b, at
<1>8. PICK q : Moves(p, at, q) /\ Filled(b, q)
  BY <1>4, <1>6, GoBackfillMoves
<1>9. \A r \in Processes : procs'[r] = IF r = p THEN q ELSE LetGo[r]
  BY <1>7, <1>8 DEF Moves
<1> HIDE DEF p
<1>10. Session'
  BY <1>2, <1>7, <1>8, HeardMoves DEF CacheInv
<1>11. SUFFICES ASSUME InTouch' PROVE Showing' /\ Stamps' /\ (~ListComing' => Right' /\ Stamped')
  BY <1>10 DEF CacheInv
<1>12. ~ListComing => Right /\ Stamped
  BY <1>11 DEF CacheInv, InTouch, Takes
<1>13. cache'.known /\ cache'.list = m.list
  BY <1>4
<1>14. Showing'
  <2>1. CASE q.kind = "backfill"
    BY <1>2, <1>9, <2>1 DEF Showing
  <2>2. CASE q.kind # "backfill"
    BY <1>4, <1>8, <2>2 DEF Filled, Showing
  <2>3. QED
    BY <2>1, <2>2
<1>15. Stamps'
  <2> SUFFICES ASSUME NEW j \in DOMAIN m.list \cap Matched, ~m.list[j].linked
               PROVE  \E r \in Processes : Marks(procs'[r], j)
    BY <1>13 DEF Stamps, Marks
  <2>1. j \in b.todo
    BY <1>6 DEF ToStamp
  <2>2. Marks(q, j)
    BY <1>6, <1>8, <2>1 DEF Filled, Marks
  <2>3. QED
    BY <1>2, <1>9, <2>2
<1>16. ASSUME ~ListComing' PROVE Right' /\ Stamped'
  <2>1. \A r \in Processes : LetGo[r].kind = procs[r].kind /\ (Rolled(procs[r]) => Rolled(LetGo[r]))
                             /\ (LetGo[r].kind = "backfill" => ~LetGo[r].live)
    BY LetGoIs
  <2>2. ~Rolled(procs[p]) /\ \A i \in DOMAIN toServer : ~Awaited(toServer[i], procs[p])
    BY <1>2 DEF Rolled, Awaited
  <2>3. toServer # <<>> /\ toServer' = Tail(toServer) /\ Head(toServer).proc = p
    BY DEF Takes, p
  <2>4. ~ListComing
    BY <1>2, <1>7, <1>8, <1>16, <2>1, <2>2, <2>3, ListComingStays
  <2>5. Right
    BY <1>12, <2>4
  <2>6. m \in ListTells /\ ~NoLists
    BY <1>1 DEF ListTells, NoLists
  <2>7. ASSUME NEW j \in Jobs
        PROVE  /\ m \in TrueLists(j) => IsListed(j, cache'.list)
               /\ m \in TrueTimes(j) => StartsThen(j, cache'.list, next[j])
               /\ ~(\A i \in DOMAIN toServer : toServer[i] \notin TimeTells(j))
    <3>1. m \in TrueLists(j) => IsListed(j, cache'.list)
      BY <1>13 DEF TrueLists
    <3>2. m \in TrueTimes(j) => StartsThen(j, cache'.list, next[j])
      BY <1>13 DEF TrueTimes
    <3>3. m \in TimeTells(j)
      BY <1>1 DEF TimeTells
    <3>4. QED
      BY <1>1, <3>1, <3>2, <3>3
  <2>8. DOMAIN jobs \subseteq Jobs
    BY SomeIs DEF AgentTyped
  <2>9. Right'
    BY <1>13, <2>5, <2>6, <2>7, <2>8, RightTail
  <2>10. Stamped'
    <3>1. ASSUME NEW r \in Processes, NEW i \in DOMAIN toServer', toServer'[i].proc = r
          PROVE  ~Stamping(toServer'[i], procs'[r])
      <4>1. r # p
        BY <1>1, <3>1 DEF Silent, p
      <4>2. QED
        BY <1>9, <2>1, <4>1 DEF Stamping
    <3>2. QED
      BY <3>1 DEF Stamped, Stamping
  <2>11. QED
    BY <2>9, <2>10
<1>17. QED
  BY <1>14, <1>15, <1>16

\* While the server takes an answer, the processes but the one that asked stay.
Others(p, q) == \A r \in Processes : procs'[r] = IF r = p THEN q ELSE procs[r]

LEMMA HereMoves ==
    ASSUME NEW K, ServerInv(K), NEW p \in Processes, NEW q, Moves(p, Here, q)
    PROVE  /\ Here.sent = toAgent /\ Here.procs = procs /\ DOMAIN Here.procs = Processes
           /\ Others(p, q)
<1>1. Here.sent = toAgent /\ Here.procs = procs
  BY DEF Here
<1>2. procs \in [Processes -> Process(K)]
  BY DEF ServerInv, ServerTyped
<1>3. procs' = [procs EXCEPT ![p] = q]
  BY <1>1 DEF Moves
<1>4. QED
  BY <1>1, <1>2, <1>3 DEF Others

LEMMA StampedTail ==
    ASSUME NEW K \in Times, ServerInv(K), Takes, Stamped, Head(toServer).type # "list",
           NEW p \in Processes, NEW q, Others(p, q), Silent(toServer', p)
    PROVE  Stamped'
<1>1. SUFFICES ASSUME \A i \in DOMAIN toServer' : toServer'[i].type # "list",
                      NEW r \in Processes, NEW i \in DOMAIN toServer',
                      toServer'[i].proc = r, Stamping(toServer'[i], procs'[r]), procs'[r].job \in DOMAIN jobs'
               PROVE  jobs'[procs'[r].job].linked
  BY DEF Stamped, Stamping
<1>2. toServer \in Seq(Tells(K)) /\ toServer # <<>> /\ toServer' = Tail(toServer)
  BY DEF ServerInv, ServerTyped, Takes
<1>3. \A k \in DOMAIN toServer : toServer[k].type # "list"
  BY <1>1, NoListsLeft
<1>4. PICK k \in DOMAIN toServer : toServer[k] = toServer'[i]
  BY <1>1, <1>2, FirstOf
<1>5. r # p
  BY <1>1 DEF Silent
<1>6. procs'[r] = procs[r]
  BY <1>5 DEF Others
<1>7. QED
  BY <1>1, <1>3, <1>4, <1>6 DEF Stamped, Stamping, Takes

\* What was saved or deleted was done or refused: then a list is asked for, or nothing changed.
LEMMA DoneTaken ==
    ASSUME NEW K \in Times, ServerInv(K), AgentTyped, CacheInv, Takes, NEW m, m = Head(toServer),
           m.type = "done", m.proc \in Processes, GoOn(m.proc, m.ok, Here),
           procs[m.proc].kind \in {"save", "delete", "distribute"}
    PROVE  CacheInv'
<1> DEFINE p == m.proc
<1>1. /\ m \in Tells(K) /\ 1 \in DOMAIN toServer /\ m = toServer[1]
      /\ Silent(toServer', p) /\ \A i \in DOMAIN toServer : toServer[i].proc = p => i = 1
  BY HeadIs
<1>2. m.ok \in BOOLEAN
  BY <1>1 DEF Tells, ListTell, DoneTell, NextTell
<1>3. PICK q : /\ Moves(p, Here, q) /\ q.kind # "backfill"
               /\ m.ok \/ Rolled(procs[p]) => Rolled(q) \/ AsksList(p, Here)
  BY <1>2, GoOnMoves
<1>4. UNCHANGED <<cache, shown>>
  BY <1>2, GoOnMoves
<1>5. Here.sent = toAgent /\ Here.procs = procs /\ DOMAIN Here.procs = Processes /\ Others(p, q)
  BY <1>3, HereMoves
<1>6. Session'
  BY <1>3, <1>5, HeardMoves DEF CacheInv
<1>7. SUFFICES ASSUME InTouch' PROVE Showing' /\ Stamps' /\ (~ListComing' => Right' /\ Stamped')
  BY <1>6 DEF CacheInv
<1>8. Showing /\ Stamps /\ (~ListComing => Right /\ Stamped)
  BY <1>7 DEF CacheInv, InTouch, Takes
<1>9. \A r \in Processes : procs[r].kind = "backfill" => procs'[r] = procs[r]
  BY <1>5 DEF Others
<1>10. Showing'
  BY <1>4, <1>8, <1>9 DEF Showing
<1>11. Stamps'
  BY <1>4, <1>8, <1>9 DEF Stamps, Marks, Takes
<1>12. ASSUME ~ListComing' PROVE Right' /\ Stamped'
  <2>1. ~AsksList(p, Here)
    <3> SUFFICES ASSUME AsksList(p, Here) PROVE FALSE
      OBVIOUS
    <3>1. toAgent \in Seq(Asks(K)) /\ toAgent' = Append(toAgent, [type |-> "list", proc |-> p])
      BY <1>5 DEF AsksList, ServerInv, ServerTyped
    <3>2. Len(toAgent) + 1 \in DOMAIN toAgent' /\ toAgent'[Len(toAgent) + 1].type = "list"
      BY <3>1
    <3>3. QED
      BY <1>12, <3>2 DEF ListComing
  <2>2. ~Rolled(q)
    BY <1>5, <1>12 DEF Others, ListComing
  <2>3. ~m.ok /\ ~Rolled(procs[p])
    BY <1>3, <2>1, <2>2
  <2>4. \A i \in DOMAIN toServer : toServer[i].proc = p => ~Awaited(toServer[i], procs[p])
    BY <1>1, <2>3 DEF Awaited
  <2>5. ~ListComing
    BY <1>3, <1>5, <1>12, <2>3, <2>4, ListComingStays DEF Takes
  <2>6. Right /\ Stamped
    BY <1>8, <2>5
  <2>7. m \notin ListTells /\ \A j \in Jobs : m \notin TrueLists(j) /\ m \notin TrueTimes(j)
    BY DEF ListTells, TrueLists, TrueTimes, TimeTells
  <2>8. DOMAIN jobs \subseteq Jobs
    BY SomeIs DEF AgentTyped
  <2>9. Right'
    BY <1>4, <2>6, <2>7, <2>8, RightTail
  <2>10. Stamped'
    BY <1>1, <1>5, <2>6, StampedTail
  <2>11. QED
    BY <2>9, <2>10
<1>13. QED
  BY <1>10, <1>11, <1>12

\* A stamp was answered.
LEMMA StampTaken ==
    ASSUME NEW K \in Times, ServerInv(K), ServerInv(K)', AgentTyped, CacheInv, Takes, NEW m, m = Head(toServer),
           m.type = "done", m.proc \in Processes, GoOn(m.proc, m.ok, Here),
           procs[m.proc].kind = "backfill"
    PROVE  CacheInv'
<1> DEFINE p == m.proc
           b == procs[p]
<1>1. /\ m \in Tells(K) /\ 1 \in DOMAIN toServer /\ m = toServer[1]
      /\ Silent(toServer', p) /\ \A i \in DOMAIN toServer : toServer[i].proc = p => i = 1
  BY HeadIs
<1>2. /\ b \in Process(K) /\ cache \in Cached(K) /\ cache' \in Cached(K) /\ TodoOf(b, cache)
      /\ m.ok \in BOOLEAN
  BY <1>1 DEF ServerInv, ServerTyped, Tells, ListTell, DoneTell, NextTell
<1>3. b \in Backfills(K, AnyJob) /\ cache.known
  BY <1>2 DEF Process, Idle, Listings, Backfills, Distributions, AnyJob, TodoOf
<1>4. /\ cache' = IF m.ok /\ b.live THEN [cache EXCEPT !.list[b.job].linked = TRUE] ELSE cache
      /\ GoBackfill(p, b, Here)
  BY DEF GoOn
<1> DEFINE hits == m.ok /\ b.live
<1>5. /\ SameEntries(cache, cache')
      /\ \A i \in DOMAIN cache.list : cache'.list[i].linked =
            IF hits /\ i = b.job THEN cache'.list[i].linked ELSE cache.list[i].linked
      /\ \A i \in DOMAIN cache.list : hits /\ i = b.job => cache'.list[i].linked
      /\ \A i \in DOMAIN cache.list : cache'.list[i].next = cache.list[i].next
  <2>1. CASE hits
    <3>1. cache' = [cache EXCEPT !.list[b.job].linked = TRUE]
      BY <1>4, <2>1
    <3>2. StampIn(cache, cache', b.job)
      BY <1>2, <3>1, StampedIs, Zenon
    <3>3. QED
      BY <2>1, <3>2 DEF StampIn
  <2>2. CASE ~hits
    <3>1. cache' = cache
      BY <1>4, <2>2
    <3>2. QED
      BY <2>2, <3>1 DEF SameEntries
  <2>3. QED
    BY <2>1, <2>2
<1> HIDE DEF b, hits
<1>6. PICK q : Moves(p, Here, q) /\ Filled(b, q)
  BY <1>3, <1>4, GoBackfillMoves
<1>7. Here.sent = toAgent /\ Here.procs = procs /\ DOMAIN Here.procs = Processes /\ Others(p, q)
  BY <1>6, HereMoves
<1>8. Session'
  BY <1>6, <1>7, HeardMoves DEF CacheInv
<1>9. SUFFICES ASSUME InTouch' PROVE Showing' /\ Stamps' /\ (~ListComing' => Right' /\ Stamped')
  BY <1>8 DEF CacheInv
<1>10. Showing /\ Stamps /\ (~ListComing => Right /\ Stamped)
  BY <1>9 DEF CacheInv, InTouch, Takes
<1>11. cache'.known
  BY <1>3, <1>5 DEF SameEntries
<1>12. Showing'
  <2>1. CASE q.kind = "backfill"
    BY <1>7, <2>1 DEF Showing, Others
  <2>2. CASE q.kind # "backfill"
    <3>1. shown' = [known |-> TRUE, list |-> cache'.list]
      BY <1>6, <2>2 DEF Filled
    <3>2. cache' = [known |-> cache'.known, list |-> cache'.list] /\ cache'.known \in BOOLEAN
      BY <1>2 DEF Cached
    <3>3. shown' = cache'
      BY <1>11, <3>1, <3>2
    <3>4. QED
      BY <3>3 DEF Showing
  <2>3. QED
    BY <2>1, <2>2
<1>13. Stamps'
  <2> SUFFICES ASSUME NEW j \in DOMAIN cache.list \cap Matched, ~cache'.list[j].linked, faults = 0
               PROVE  \E r \in Processes : Marks(procs'[r], j)
    BY <1>5 DEF Stamps, SameEntries, Takes, Marks
  <2>1. ~(hits /\ j = b.job) /\ ~cache.list[j].linked
    BY <1>5
  <2>2. PICK r \in Processes : Marks(procs[r], j)
    BY <1>10, <2>1 DEF Stamps
  <2>3. CASE r # p
    BY <1>7, <2>2, <2>3 DEF Others
  <2>4. CASE r = p
    <3>1. b.live /\ j \in b.todo \cup {b.job}
      BY <2>2, <2>4 DEF Marks, b
    <3>2. m.ok
      BY <1>1 DEF CacheInv, Session, Told
    <3>3. j \in b.todo
      BY <2>1, <3>1, <3>2 DEF hits
    <3>4. Marks(q, j)
      BY <1>6, <3>1, <3>3 DEF Filled, Marks
    <3>5. QED
      BY <1>7, <2>4, <3>4 DEF Others
  <2>5. QED
    BY <2>3, <2>4
<1>14. ASSUME ~ListComing' PROVE Right' /\ Stamped'
  <2>1. ~Rolled(procs[p]) /\ \A i \in DOMAIN toServer : ~Awaited(toServer[i], procs[p])
    BY DEF Rolled, Awaited
  <2>2. ~ListComing
    BY <1>6, <1>7, <1>14, <2>1, ListComingStays DEF Takes
  <2>3. Right /\ Stamped
    BY <1>10, <2>2
  <2>4. m \notin ListTells /\ \A j \in Jobs : m \notin TrueLists(j) /\ m \notin TrueTimes(j)
    BY DEF ListTells, TrueLists, TrueTimes, TimeTells
  <2>5. DOMAIN jobs \subseteq Jobs
    BY SomeIs DEF AgentTyped
  <2>6. ASSUME NEW j \in Jobs
        PROVE  /\ NoLists /\ IsListed(j, cache.list) => IsListed(j, cache'.list)
               /\ StartsThen(j, cache.list, next[j]) => StartsThen(j, cache'.list, next[j])
    <3>1. StartsThen(j, cache.list, next[j]) => StartsThen(j, cache'.list, next[j])
      BY <1>5 DEF StartsThen, SameEntries
    <3>2. ASSUME NoLists, IsListed(j, cache.list) PROVE IsListed(j, cache'.list)
      <4>1. \A i \in DOMAIN toServer : toServer[i].type # "list"
        BY <3>2, NoListsAre
      <4>2. hits /\ j = b.job /\ j \in DOMAIN jobs => jobs[j].linked
        BY <1>1, <2>3, <4>1 DEF Stamped, Stamping, hits, b
      <4>3. CASE hits /\ j = b.job
        BY <1>5, <3>2, <4>2, <4>3 DEF IsListed, SameEntries
      <4>4. CASE ~(hits /\ j = b.job)
        BY <1>5, <3>2, <4>4 DEF IsListed, SameEntries
      <4>5. QED
        BY <4>3, <4>4
    <3>3. QED
      BY <3>1, <3>2
  <2>7. Right'
    BY <1>11, <2>3, <2>4, <2>5, <2>6, RightTail
  <2>8. Stamped'
    BY <1>1, <1>7, <2>3, StampedTail
  <2>9. QED
    BY <2>7, <2>8
<1>15. QED
  BY <1>12, <1>13, <1>14

LEMMA ServerReceiveCache ==
    ASSUME NEW K \in Times, ServerInv(K), ServerInv(K)', AgentTyped, CacheInv, ServerReceive
    PROVE  CacheInv'
<1> DEFINE m == Head(toServer)
<1>1. Takes
  BY DEF ServerReceive, Takes, agent, past, bounds
<1>2. /\ m \in Tells(K) /\ m = toServer[1] /\ 1 \in DOMAIN toServer
      /\ \A p \in Processes : m.proc = p => TellFits(m, procs[p])
  BY <1>1, HeadIs
<1>3. /\ m.type \in {"next", "list", "done"} /\ m.proc \in Askers /\ (m.type = "next" => m.proc = Nobody)
  BY <1>2 DEF Tells, ListTell, DoneTell, NextTell, Askers
<1> HIDE DEF m
<1>4. m.proc \in Processes \/ Unasked(m)
  BY <1>3 DEF Askers, Unasked
<1>5. CASE m.type = "next" /\ TakeNext(m.job, m.at)
  BY <1>1, <1>5, NextTaken DEF m
<1>6. CASE m.type # "next" /\ Unasked(m) /\ UNCHANGED <<toAgent, server>>
  <2>1. lapsed
    BY <1>2, <1>6 DEF CacheInv, Session, Heard, Unasked
  <2>2. lapsed' /\ up' /\ UNCHANGED <<editor, faults>>
    BY <1>1, <2>1 DEF Takes
  <2>3. \A i \in DOMAIN toServer' : \E k \in DOMAIN toServer : toServer'[i] = toServer[k]
    <3>1. toServer \in Seq(Tells(K)) /\ toServer # <<>> /\ toServer' = Tail(toServer)
      BY <1>1 DEF ServerInv, ServerTyped, Takes
    <3>2. QED
      BY <3>1, FirstOf
  <2>4. Told'
    BY <2>2, <2>3 DEF CacheInv, Session, Told
  <2>5. QED
    BY <2>2, <2>4 DEF CacheInv, Session, Asleep, Heard, OneEditor, InTouch
<1>7. CASE m.type = "list" /\ ~Unasked(m) /\ TakeList(m.proc, m.list)
  BY <1>1, <1>4, <1>7, ListTaken DEF m
<1>8. CASE m.type = "done" /\ ~Unasked(m) /\ GoOn(m.proc, m.ok, Here)
  <2>1. procs[m.proc].kind \in {"save", "delete", "backfill", "distribute"}
    BY <1>2, <1>4, <1>8 DEF TellFits
  <2>2. CASE procs[m.proc].kind = "backfill"
    BY <1>1, <1>4, <1>8, <2>2, StampTaken DEF m
  <2>3. CASE procs[m.proc].kind # "backfill"
    BY <1>1, <1>4, <1>8, <2>1, <2>3, DoneTaken DEF m
  <2>4. QED
    BY <2>2, <2>3
<1>9. QED
  BY <1>5, <1>6, <1>7, <1>8 DEF ServerReceive, m

-----------------------------------------------------------------------------
\* The session, the timers and the operators.
LEMMA LostCache == CacheInv /\ LostSession /\ editor' = editor /\ faults' = faults => CacheInv'
<1> SUFFICES ASSUME CacheInv, LostSession, editor' = editor, faults' = faults PROVE CacheInv'
  OBVIOUS
<1>1. /\ up' = FALSE /\ toAgent' = <<>> /\ toServer' = <<>> /\ cache' = NoList
      /\ procs' = [p \in Processes |-> Idle]
  BY DEF LostSession
<1>2. QED
  BY <1>1 DEF CacheInv, Session, Asleep, Heard, Told, OneEditor, InTouch

LEMMA ConnectCache ==
    ASSUME NEW K, ServerInv(K), CacheInv, Connect
    PROVE  CacheInv'
<1>1. /\ ~up /\ up' = TRUE /\ UNCHANGED <<toServer, cache, shown, editor, faults>>
      /\ toAgent = <<>> /\ toServer = <<>> /\ cache = NoList
  BY DEF Connect, CacheInv, Session, Asleep, bounds
<1>2. PICK p \in Processes : AskList(p, {}, Here)
  BY DEF Connect
<1>3. toAgent' = Append(<<>>, [type |-> "list", proc |-> p])
  <2>1. AsksList(p, Here) /\ Here.sent = toAgent
    BY <1>2, AskListMoves DEF Here
  <2>2. QED
    BY <1>1, <2>1 DEF AsksList
<1>4. 1 \in DOMAIN toAgent' /\ \A i \in DOMAIN toAgent' : toAgent'[i] = [type |-> "list", proc |-> p]
  BY <1>3
<1>5. p # Nobody
  BY JobAssumption DEF Nobody
<1>6. Session'
  BY <1>1, <1>4, <1>5 DEF CacheInv, Session, Asleep, Heard, Told, OneEditor
<1>7. ListComing'
  BY <1>4 DEF ListComing
<1>8. ~cache'.known /\ DOMAIN cache'.list = {}
  BY <1>1, SomeEmpty DEF NoList
<1>9. QED
  BY <1>6, <1>7, <1>8 DEF CacheInv, Showing, Stamps

LEMMA ReplaceCache ==
    ASSUME CacheInv, Replace
    PROVE  CacheInv'
<1>1. /\ up' /\ lapsed' /\ toServer' = <<>> /\ UNCHANGED <<editor, faults>>
  BY DEF Replace, Drop
<1>2. DOMAIN toServer' = {}
  BY <1>1
<1>3. Told' /\ Heard' /\ Asleep'
  BY <1>1, <1>2 DEF Told, Heard, Asleep
<1>4. QED
  BY <1>1, <1>3 DEF CacheInv, Session, OneEditor, InTouch

LEMMA TimesOutCache ==
    ASSUME NEW K, ServerInv(K), CacheInv, NEW p \in Processes, TimesOut(p)
    PROVE  CacheInv'
<1>1. /\ up' /\ lapsed' /\ toServer' = Anonymous(toServer, p) /\ editor' = editor
  BY DEF TimesOut
<1>2. faults' \in Nat /\ (faults # 0 => faults' # 0)
  <2>1. faults' = faults \/ faults' = faults + 1
    BY DEF TimesOut, Fault, bounds
  <2>2. QED
    BY <2>1 DEF CacheInv, Session
<1>3. toServer \in Seq(Tells(K))
  BY DEF ServerInv, ServerTyped
<1>4. \A m \in Tells(K) : m.type = "done" => [m EXCEPT !.proc = Nobody].ok = m.ok
  <2> SUFFICES ASSUME NEW m \in Tells(K), m.type = "done" PROVE [m EXCEPT !.proc = Nobody].ok = m.ok
    OBVIOUS
  <2>1. m \in DoneTell
    BY DEF Tells, ListTell, NextTell
  <2>2. QED
    BY <2>1 DEF DoneTell
<1>5. \A m \in Tells(K) : [m EXCEPT !.proc = Nobody].type = m.type
  BY UnaskedTyped
<1>6. \A i \in DOMAIN toServer' : /\ i \in DOMAIN toServer
                                  /\ toServer'[i].type = toServer[i].type
                                  /\ toServer'[i].type = "done" => toServer'[i].ok = toServer[i].ok
  <2>1. /\ DOMAIN toServer' = DOMAIN toServer
        /\ \A i \in DOMAIN toServer : toServer'[i] =
              IF toServer[i].proc = p THEN [toServer[i] EXCEPT !.proc = Nobody] ELSE toServer[i]
    BY <1>1 DEF Anonymous
  <2>2. \A i \in DOMAIN toServer : toServer[i] \in Tells(K)
    BY <1>3
  <2>3. QED
    BY <1>4, <1>5, <2>1, <2>2
<1>7. Told'
  BY <1>2, <1>6 DEF CacheInv, Session, Told
<1>8. QED
  BY <1>1, <1>2, <1>7 DEF CacheInv, Session, Asleep, Heard, OneEditor, InTouch

\* What the list and the times at the agent are compared with stays.
SeenRests == UNCHANGED <<jobs, next, copied, rewound, toServer, cache>>
LEMMA RightRests == Right /\ SeenRests => Right'
  BY DEF Right, SeenRests, Arrives, TrueJob, TrueTime, TrueLists, TrueTimes, IsListed

\* A process that was free asks.
LEMMA FreeCache ==
    ASSUME NEW K, ServerInv(K), CacheInv, NEW p \in Processes, Free(p), NEW q, Moves(p, Here, q), up, SeenRests,
           UNCHANGED <<up, lapsed, shown, editor, faults>>
    PROVE  CacheInv'
<1>1. Here.sent = toAgent /\ Here.procs = procs /\ DOMAIN Here.procs = Processes /\ Others(p, q)
  BY HereMoves
<1>2. procs[p] = Idle /\ procs[p].kind = "idle" /\ Silent(toServer, p)
  BY DEF Free, Idle, ServerInv, Fits
<1>3. toAgent \in Seq(Asks(K))
  BY DEF ServerInv, ServerTyped
<1>4. ASSUME ~lapsed, NEW i \in DOMAIN toAgent' PROVE toAgent'[i].proc # Nobody
  <2>1. CASE toAgent' = toAgent
    BY <1>4, <2>1 DEF CacheInv, Session, Heard
  <2>2. ASSUME NEW m, m.proc = p, toAgent' = Append(toAgent, m) PROVE toAgent'[i].proc # Nobody
    <3>1. (i \in DOMAIN toAgent /\ toAgent'[i] = toAgent[i]) \/ toAgent'[i] = m
      BY <1>3, <1>4, <2>2
    <3>2. p # Nobody
      BY JobAssumption DEF Nobody
    <3>3. QED
      BY <1>4, <2>2, <3>1, <3>2 DEF CacheInv, Session, Heard
  <2>3. QED
    BY <1>1, <2>1, <2>2 DEF Moves
<1>5. Session'
  BY <1>4 DEF CacheInv, Session, Asleep, Heard, Told, OneEditor, SeenRests
<1>6. SUFFICES ASSUME InTouch' PROVE Showing' /\ Stamps' /\ (~ListComing' => Right' /\ Stamped')
  BY <1>5 DEF CacheInv
<1>7. Showing /\ Stamps /\ (~ListComing => Right /\ Stamped)
  BY <1>6 DEF CacheInv, InTouch
<1>8. \A r \in Processes : procs[r].kind = "backfill" => procs'[r] = procs[r]
  BY <1>1, <1>2 DEF Others
<1>9. Showing'
  BY <1>7, <1>8 DEF Showing, SeenRests
<1>10. Stamps'
  BY <1>7, <1>8 DEF Stamps, Marks, SeenRests
<1>11. ASSUME ~ListComing' PROVE Right' /\ Stamped'
  <2>1. ~Rolled(procs[p]) /\ \A i \in DOMAIN toServer : ~Awaited(toServer[i], procs[p])
    BY <1>2 DEF Rolled, Awaited
  <2>2. ~ListComing
    BY <1>1, <1>11, <2>1, ListComingStays DEF SeenRests
  <2>3. Right'
    BY <1>7, <2>2, RightRests
  <2>4. \A r \in Processes : \A i \in DOMAIN toServer : toServer[i].proc = r => procs'[r] = procs[r]
    BY <1>1, <1>2 DEF Others, Silent
  <2>5. Stamped'
    BY <1>7, <2>2, <2>4 DEF Stamped, Stamping, SeenRests
  <2>6. QED
    BY <2>3, <2>5
<1>12. QED
  BY <1>9, <1>10, <1>11

LEMMA OperatorCache ==
    ASSUME NEW K, ServerInv(K), CacheInv,
           SaveJob \/ Distribute \/ \E j \in Jobs : OpenEditor(j) \/ DeleteJob(j)
    PROVE  CacheInv'
<1>1. ASSUME NEW j \in Jobs, OpenEditor(j) PROVE CacheInv'
  <2>1. /\ OneEditor'
        /\ SeenRests /\ UNCHANGED <<up, lapsed, toAgent, procs, shown, faults>>
    BY <1>1 DEF OpenEditor, OneEditor, SeenRests, agent, wire, server, past, bounds
  <2>2. Session'
    BY <2>1 DEF CacheInv, Session, Asleep, Heard, Told, SeenRests
  <2>3. QED
    BY <2>1, <2>2, RightRests DEF CacheInv, InTouch, Showing, Stamps, ListComing, Stamped, SeenRests
<1>2. ASSUME NEW j \in Jobs, DeleteJob(j) PROVE CacheInv'
  <2>1. PICK p \in Processes :
           Free(p) /\ Ask(p, [type |-> "delete", proc |-> p, job |-> j], [kind |-> "delete"], Here)
    BY <1>2 DEF DeleteJob
  <2> DEFINE m == [type |-> "delete", proc |-> p, job |-> j]
             q == [kind |-> "delete"]
  <2>2. Ask(p, m, q, Here) /\ m.proc = p
    BY <2>1
  <2> HIDE DEF m, q
  <2>3. Moves(p, Here, q)
    BY <2>2, AskMoves
  <2>4. up /\ SeenRests /\ UNCHANGED <<up, lapsed, shown, editor, faults>>
    BY <1>2 DEF DeleteJob, SeenRests, agent, past, Edit
  <2>5. QED
    BY <2>1, <2>3, <2>4, FreeCache
<1>3. CASE SaveJob
  <2>1. up /\ SeenRests /\ UNCHANGED <<up, lapsed, shown, editor, faults>>
    BY <1>3 DEF SaveJob, SeenRests, agent, past, Edit
  <2>2. PICK e \in editor, p \in Processes :
           /\ Free(p)
           /\ IF SecretAtHand(e.job, Draft(e, edits'))
              THEN AskSave(p, "operator", e.job, Draft(e, edits'), [kind |-> "save"], Here)
              ELSE AskList(p, {[job |-> e.job, copy |-> Draft(e, edits')]}, Here)
    BY <1>3 DEF SaveJob
  <2>3. PICK q : Moves(p, Here, q)
    BY <2>2, AskSaveMoves, AskListMoves
  <2>4. p \in Processes
    BY <2>2
  <2>5. QED
    BY <2>1, <2>2, <2>3, <2>4, FreeCache
<1>4. CASE Distribute
  <2> DEFINE d == [kind |-> "distribute", job |-> FirstJob, todo |-> DOMAIN cache.list,
                   list |-> cache.list, live |-> TRUE, done |-> FALSE]
  <2>1. PICK p \in Processes : Free(p) /\ GoDistribute(p, d, Here)
    BY <1>4 DEF Distribute, FirstJob
  <2>2. cache.list \in JobLists(K) /\ DOMAIN cache.list \subseteq Jobs
    BY SomeIs DEF ServerInv, ServerTyped, Cached, JobLists
  <2>3. d \in Distributions(K, AnyJob)
    <3> DEFINE yes == TRUE
               no == FALSE
               c == [kind |-> "distribute", job |-> FirstJob, todo |-> DOMAIN cache.list,
                     list |-> cache.list, live |-> yes, done |-> no]
    <3>1. yes \in BOOLEAN /\ no \in BOOLEAN /\ FirstJob \in AnyJob
      BY DEF AnyJob
    <3> HIDE DEF yes, no
    <3>2. c \in Distributions(K, AnyJob)
      BY <2>2, <3>1 DEF Distributions
    <3>3. QED
      BY <3>2 DEF yes, no
  <2> HIDE DEF d
  <2>4. PICK q : Moves(p, Here, q)
    BY <2>1, <2>3, GoDistributeMoves
  <2>5. up /\ SeenRests /\ UNCHANGED <<up, lapsed, shown, editor, faults>>
    BY <1>4 DEF Distribute, SeenRests, agent, past
  <2>6. QED
    BY <2>1, <2>4, <2>5, FreeCache
<1>5. QED
  BY <1>1, <1>2, <1>3, <1>4

-----------------------------------------------------------------------------
\* The agent answers.
Answers ==
    /\ up /\ toAgent # <<>> /\ toAgent' = Tail(toAgent)
    /\ UNCHANGED <<up, lapsed, cache, procs, shown, editor>>
    /\ faults' \in Nat /\ (faults # 0 => faults' # 0)

\* The answer to the first request, if there is one.
Answer(t) ==
    /\ t.proc = Head(toAgent).proc
    /\ t.type = "done" /\ ~t.ok => faults' # 0

LEMMA AskerIs ==
    ASSUME NEW K, ServerInv(K), CacheInv, Answers
    PROVE  /\ Head(toAgent) \in Asks(K) /\ (~lapsed => Head(toAgent).proc \in Processes)
           /\ \A p \in Processes : Head(toAgent).proc = p => AskFits(Head(toAgent), procs[p])
<1>1. toAgent \in Seq(Asks(K)) /\ toAgent # <<>>
  BY DEF ServerInv, ServerTyped, Answers
<1>2. Head(toAgent) \in Asks(K) /\ 1 \in DOMAIN toAgent /\ Head(toAgent) = toAgent[1]
  BY <1>1, FirstOf
<1>3. Head(toAgent).proc \in Askers
  BY <1>2 DEF Asks, ListAsk, SaveAsk, AnySave, DeleteAsk
<1>4. ~lapsed => Head(toAgent).proc # Nobody
  BY <1>2 DEF CacheInv, Session, Heard
<1>5. \A p \in Processes : AsksFit(toAgent, p, procs[p])
  BY DEF ServerInv, Fits
<1>6. QED
  BY <1>2, <1>3, <1>4, <1>5 DEF Askers, AsksFit

LEMMA AnsweredKeeps ==
    ASSUME NEW K, ServerInv(K), CacheInv, Answers,
           toServer' = toServer \/ \E t \in Tells(K) : Answer(t) /\ toServer' = Append(toServer, t)
    PROVE  /\ Session'
           /\ InTouch' => InTouch /\ Showing' /\ Stamps'
<1>1. toAgent \in Seq(Asks(K)) /\ toServer \in Seq(Tells(K))
  BY DEF ServerInv, ServerTyped
<1>2. \A i \in DOMAIN toAgent' : \E k \in DOMAIN toAgent : toAgent'[i] = toAgent[k]
  BY <1>1, FirstOf DEF Answers
<1>3. \A i \in DOMAIN toServer' : \/ \E k \in DOMAIN toServer : toServer'[i] = toServer[k]
                                  \/ Answer(toServer'[i])
  <2>1. CASE toServer' = toServer
    BY <2>1
  <2>2. ASSUME NEW t \in Tells(K), Answer(t), toServer' = Append(toServer, t)
        PROVE  \A i \in DOMAIN toServer' : \/ \E k \in DOMAIN toServer : toServer'[i] = toServer[k]
                                           \/ Answer(toServer'[i])
    <3> TAKE i \in DOMAIN toServer'
    <3>1. (i \in DOMAIN toServer /\ toServer'[i] = toServer[i]) \/ toServer'[i] = t
      BY <1>1, <2>2
    <3>2. CASE toServer'[i] = t
      BY <2>2, <3>2
    <3>3. CASE i \in DOMAIN toServer /\ toServer'[i] = toServer[i]
      BY <3>3
    <3>4. QED
      BY <3>1, <3>2, <3>3
  <2>3. QED
    BY <2>1, <2>2
<1>4. Heard'
  <2>1. ~lapsed => Head(toAgent).proc # Nobody
    BY <1>1, FirstOf DEF CacheInv, Session, Heard, Answers
  <2>2. QED
    BY <1>2, <1>3, <2>1 DEF CacheInv, Session, Heard, Answer, Answers
<1>5. Told'
  BY <1>3 DEF CacheInv, Session, Told, Answer, Answers
<1>6. Session'
  BY <1>4, <1>5 DEF CacheInv, Session, Asleep, OneEditor, Answers
<1>7. InTouch' => InTouch /\ Showing' /\ Stamps'
  BY DEF CacheInv, InTouch, Showing, Stamps, Answers
<1>8. QED
  BY <1>6, <1>7

LEMMA AnswerComing ==
    ASSUME NEW K, ServerInv(K), Answers, ListComing, Head(toAgent).type # "list",
           toServer' = toServer \/ \E t \in Tells(K) : toServer' = Append(toServer, t)
    PROVE  ListComing'
<1>1. toAgent \in Seq(Asks(K)) /\ toServer \in Seq(Tells(K))
  BY DEF ServerInv, ServerTyped
<1>2. ASSUME NEW i \in DOMAIN toAgent, toAgent[i].type = "list" PROVE ListComing'
  <2>1. i # 1 /\ toAgent' = Tail(toAgent) /\ toAgent # <<>>
    BY <1>1, <1>2, FirstOf DEF Answers
  <2>2. i - 1 \in DOMAIN toAgent' /\ toAgent'[i - 1] = toAgent[i]
    BY <1>1, <2>1, FirstOf
  <2>3. QED
    BY <1>2, <2>2 DEF ListComing
<1>3. \A i \in DOMAIN toServer : i \in DOMAIN toServer' /\ toServer'[i] = toServer[i]
  BY <1>1
<1>4. QED
  BY <1>2, <1>3 DEF ListComing, Answers

\* A list is told as it is.
LEMMA ListAnswered ==
    ASSUME NEW K \in Times, ServerInv(K), AgentInv, TimesIn(K), CacheInv, Answers, UNCHANGED faults,
           Head(toAgent).type = "list", HandleJobList(Head(toAgent))
    PROVE  CacheInv'
<1> DEFINE m == Head(toAgent)
           t == [type |-> "list", proc |-> m.proc, list |-> Listing]
<1>1. toAgent \in Seq(Asks(K)) /\ toServer \in Seq(Tells(K)) /\ m \in Asks(K)
  BY FirstOf DEF ServerInv, ServerTyped, Answers
<1>2. m.proc \in Askers
  BY <1>1 DEF Asks, ListAsk, SaveAsk, AnySave, DeleteAsk
<1>3. t \in Tells(K) /\ t.type = "list" /\ t.list = Listing /\ t.proc = m.proc
  BY <1>2, ListingTyped DEF Tells, ListTell
<1>4. toServer' = Append(toServer, t) /\ UNCHANGED <<jobs, next, copied, rewound>>
  BY DEF HandleJobList, Reply
<1> HIDE DEF m, t
<1>5. Answer(t)
  BY <1>3 DEF Answer, m
<1>6. Session' /\ (InTouch' => InTouch /\ Showing' /\ Stamps')
  BY <1>3, <1>4, <1>5, AnsweredKeeps
<1>7. t \in ListTells /\ \A j \in Jobs : t \in TimeTells(j)
  BY <1>3, SomeTells DEF ListTells, TimeTells
<1>8. /\ DOMAIN jobs \subseteq Jobs /\ DOMAIN jobs \subseteq DOMAIN next
      /\ jobs \in [DOMAIN jobs -> Job]
  BY SomeIs DEF AgentInv, AgentTyped, TimesKept
<1>9. \A j \in Jobs : IsListed(j, Listing) /\ (j \in DOMAIN jobs => StartsThen(j, Listing, next[j]))
  <2>1. DOMAIN Listing = DOMAIN jobs
    BY DEF Listing
  <2>2. \A j \in DOMAIN jobs : /\ Listing[j].edit = jobs[j].edit /\ Listing[j].linked = jobs[j].linked
                               /\ Listing[j].next = next[j]
    BY <1>8 DEF Listing
  <2>3. QED
    BY <2>1, <2>2 DEF IsListed, StartsThen
<1>10. Right'
  <2>1. Arrives'
    BY <1>1, <1>3, <1>4, <1>7, LastAppend DEF Arrives
  <2>2. ASSUME NEW j \in Jobs PROVE TrueJob(j)'
    <3>1. t \in TrueLists(j)
      BY <1>3, <1>7, <1>9 DEF TrueLists
    <3>2. LastIs(Append(toServer, t), ListTells, TrueLists(j), IsListed(j, cache.list))
      BY <1>1, <1>3, <1>7, <3>1, LastAppend
    <3>3. TrueLists(j)' = TrueLists(j) /\ IsListed(j, cache.list)' = IsListed(j, cache.list)
      BY <1>4 DEF TrueLists, IsListed, Answers
    <3>4. QED
      BY <1>4, <3>2, <3>3 DEF TrueJob
  <2>3. ASSUME NEW j \in DOMAIN jobs PROVE TrueTime(j)'
    <3>1. t \in TrueTimes(j)
      BY <1>3, <1>7, <1>8, <1>9 DEF TrueTimes
    <3>2. t \in TimeTells(j)
      BY <1>7, <1>8
    <3>3. LastIs(Append(toServer, t), TimeTells(j), TrueTimes(j), StartsThen(j, cache.list, next[j]))
      BY <1>1, <1>3, <3>1, <3>2, LastAppend
    <3>4. /\ TrueTimes(j)' = TrueTimes(j)
          /\ StartsThen(j, cache.list, next[j])' = StartsThen(j, cache.list, next[j])
      BY <1>4 DEF TrueTimes, StartsThen, Answers
    <3>5. QED
      BY <1>4, <3>3, <3>4 DEF TrueTime
  <2>4. QED
    BY <1>4, <2>1, <2>2, <2>3 DEF Right
<1>11. Stamped'
  <2>1. Len(toServer) + 1 \in DOMAIN toServer' /\ toServer'[Len(toServer) + 1] = t
    BY <1>1, <1>4
  <2>2. QED
    BY <1>3, <2>1 DEF Stamped
<1>12. QED
  BY <1>6, <1>10, <1>11 DEF CacheInv

\* Nothing but what was stamped changed, and no list or time is told.
LEMMA RightAnswered ==
    ASSUME NEW K \in Times, ServerInv(K), Right, UNCHANGED cache,
           \/ toServer' = toServer
           \/ \E t \in Tells(K) : t.type = "done" /\ toServer' = Append(toServer, t),
           \A j \in Jobs \ copied' : j \notin copied /\ \A l : IsListed(j, l) => IsListed(j, l)',
           \A j \in DOMAIN jobs' \ (copied' \cup rewound') :
               j \in DOMAIN jobs \ (copied \cup rewound) /\ next'[j] = next[j]
    PROVE  Right'
<1>1. toServer \in Seq(Tells(K))
  BY DEF ServerInv, ServerTyped
<1>2. ASSUME NEW T, NEW G, NEW b, LastIs(toServer, T, G, b), \A t \in T : t.type # "done"
      PROVE  LastIs(toServer', T, G, b)
  <2>1. CASE toServer' = toServer
    BY <1>2, <2>1
  <2>2. ASSUME NEW t \in Tells(K), t.type = "done", toServer' = Append(toServer, t)
        PROVE  LastIs(toServer', T, G, b)
    BY <1>1, <1>2, <2>2, LastAppend
  <2>3. QED
    BY <2>1, <2>2
<1>3. /\ \A t \in ListTells : t.type # "done"
      /\ \A j : \A t \in TimeTells(j) : t.type # "done"
  BY DEF ListTells, TimeTells
<1>4. Arrives'
  BY <1>2, <1>3 DEF Right, Arrives
<1>5. ASSUME NEW j \in Jobs \ copied' PROVE TrueJob(j)'
  <2>1. TrueJob(j) /\ \A l : IsListed(j, l) => IsListed(j, l)'
    BY <1>5 DEF Right
  <2>2. PICK G, b : G = TrueLists(j)' /\ (b <=> IsListed(j, cache.list)')
    OBVIOUS
  <2>3. TrueLists(j) \subseteq G /\ (IsListed(j, cache.list) => b)
    <3>1. \A t : IsListed(j, t.list) => IsListed(j, t.list)'
      BY <2>1
    <3>2. TrueLists(j) \subseteq G
      BY <2>2, <3>1 DEF TrueLists
    <3>3. IsListed(j, cache.list) => b
      BY <2>1, <2>2 DEF IsListed
    <3>4. QED
      BY <3>2, <3>3
  <2>4. LastIs(toServer, ListTells, G, b)
    BY <2>1, <2>3, LastSame DEF TrueJob
  <2>5. LastIs(toServer', ListTells, G, b)
    BY <1>2, <1>3, <2>4
  <2>6. QED
    BY <2>2, <2>5 DEF TrueJob, LastIs
<1>6. ASSUME NEW j \in DOMAIN jobs' \ (copied' \cup rewound') PROVE TrueTime(j)'
  <2>1. TrueTime(j) /\ next'[j] = next[j]
    BY <1>6 DEF Right
  <2>2. LastIs(toServer', TimeTells(j), TrueTimes(j), StartsThen(j, cache.list, next[j]))
    BY <1>2, <1>3, <2>1 DEF TrueTime
  <2>3. TrueTimes(j)' = TrueTimes(j) /\ StartsThen(j, cache.list, next[j])' = StartsThen(j, cache.list, next[j])
    BY <2>1 DEF TrueTimes, StartsThen
  <2>4. QED
    BY <2>2, <2>3 DEF TrueTime
<1>7. QED
  BY <1>4, <1>5, <1>6 DEF Right

\* An answer, or none, when nothing was done.
LEMMA NothingDone ==
    ASSUME NEW K \in Times, ServerInv(K), CacheInv, Answers, Head(toAgent).type # "list",
           UNCHANGED <<jobs, next, copied, rewound>>,
           \/ toServer' = toServer
           \/ \E t \in Tells(K) : Answer(t) /\ t.type = "done" /\ ~t.ok /\ toServer' = Append(toServer, t)
    PROVE  CacheInv'
<1>1. Session' /\ (InTouch' => InTouch /\ Showing' /\ Stamps')
  BY AnsweredKeeps
<1>2. SUFFICES ASSUME InTouch, ~ListComing' PROVE Right' /\ Stamped'
  BY <1>1 DEF CacheInv
<1>3. Right /\ Stamped
  BY <1>2, AnswerComing DEF CacheInv
<1>4. Right'
  <2>1. \A j, l : IsListed(j, l) => IsListed(j, l)'
    BY DEF IsListed
  <2>2. QED
    BY <1>3, <2>1, RightAnswered DEF Answers
<1>5. toServer \in Seq(Tells(K))
  BY DEF ServerInv, ServerTyped
<1>6. \A i \in DOMAIN toServer : i \in DOMAIN toServer' /\ toServer'[i] = toServer[i]
  BY <1>5
<1>7. \A i \in DOMAIN toServer' : \/ i \in DOMAIN toServer /\ toServer'[i] = toServer[i]
                                  \/ toServer'[i].type = "done" /\ ~toServer'[i].ok
  BY <1>5
<1>8. Stamped'
  BY <1>3, <1>6, <1>7 DEF Stamped, Stamping, Answers
<1>9. QED
  BY <1>4, <1>8

\* What was done for anything but a backfill makes the list be read.
LEMMA DoneAnswered ==
    ASSUME NEW K \in Times, ServerInv(K), CacheInv, Answers,
           NEW t \in Tells(K), Answer(t), t.type = "done", t.ok, toServer' = Append(toServer, t),
           \A p \in Processes : Head(toAgent).proc = p => procs[p].kind \in {"save", "delete", "distribute"}
    PROVE  CacheInv'
<1>1. Session' /\ (InTouch' => InTouch /\ Showing' /\ Stamps')
  BY AnsweredKeeps
<1>2. SUFFICES ASSUME InTouch PROVE ListComing'
  BY <1>1 DEF CacheInv
<1>3. Head(toAgent).proc \in Processes
  BY <1>2, AskerIs DEF InTouch
<1>4. toServer \in Seq(Tells(K))
  BY DEF ServerInv, ServerTyped
<1>5. Len(toServer) + 1 \in DOMAIN toServer' /\ toServer'[Len(toServer) + 1] = t
  BY <1>4
<1>6. PICK p \in Processes : p = Head(toAgent).proc
  BY <1>3
<1>7. t.proc = p /\ Awaited(t, procs'[p])
  BY <1>6 DEF Answer, Awaited, Answers
<1>8. QED
  BY <1>5, <1>6, <1>7 DEF ListComing

\* A stamp is a copy of the job with an id: if it is not an older one, nothing else
\* of the job changes, and the time it came with is the one the job has.
LEMMA StampAnswered ==
    ASSUME NEW K \in Times, OneStart(K), TimesIn(K), ServerInv(K), AgentInv, CacheInv, Answers,
           NEW m, m = Head(toAgent), m.type = "save",
           NEW p \in Processes, m.proc = p, procs[p].kind = "backfill",
           NEW t \in Tells(K), Answer(t), t.type = "done", toServer' = Append(toServer, t),
           jobs' = With(jobs, m.job, [edit |-> m.copy.edit, linked |-> m.copy.linked]),
           next' = SetNext(m),
           rewound' = rewound \cup ({m.job} \cap {j \in DOMAIN next' : next'[j] \in started[j]}),
           copied' = IF m.job \in DOMAIN wanted /\ wanted[m.job] = m.copy.edit
                     THEN copied ELSE copied \cup {m.job}
    PROVE  CacheInv'
<1> DEFINE mj == m.job
           me == m.copy.edit
           mn == m.copy.next
           job == [edit |-> me, linked |-> m.copy.linked]
<1>1. /\ m \in AnySave /\ mn \in K[mj] /\ AskFits(m, procs[p])
  BY AskerIs DEF Asks, ListAsk, DeleteAsk, SaveAsk
<1>2. mj \in Jobs /\ m.copy \in Timed /\ mn \in Starts /\ m.by \in {"operator", "server"}
  BY <1>1 DEF AnySave, Timed
<1>3. m.copy.linked /\ procs[p].job = mj
  BY <1>1, <1>2 DEF AskFits
<1>4. mj \in Matched
  BY <1>3 DEF ServerInv, TodoOf
<1>5. next' = With(next, mj, mn)
  BY <1>2, JobAssumption DEF SetNext, Starts, Never
<1>6. /\ DOMAIN jobs' = DOMAIN jobs \cup {mj}
      /\ jobs'[mj].edit = me /\ jobs'[mj].linked
      /\ \A k \in DOMAIN jobs \ {mj} : jobs'[k] = jobs[k]
  <2>1. job.edit = me /\ job.linked = m.copy.linked /\ jobs' = With(jobs, mj, job)
    OBVIOUS
  <2> HIDE DEF job, me, mj
  <2>2. QED
    BY <1>3, <2>1 DEF With
<1>7. /\ DOMAIN next' = DOMAIN next \cup {mj}
      /\ next'[mj] = mn
      /\ \A k \in DOMAIN next \ {mj} : next'[k] = next[k]
  BY <1>5 DEF With
<1> HIDE DEF mj, me, mn, job
<1>8. copied \subseteq copied' /\ rewound \subseteq rewound'
  OBVIOUS
<1>9. mj \notin copied' => mj \in DOMAIN jobs /\ jobs[mj].edit = me
  <2> SUFFICES ASSUME mj \notin copied' PROVE mj \in DOMAIN jobs /\ jobs[mj].edit = me
    OBVIOUS
  <2>1. mj \in DOMAIN wanted /\ wanted[mj] = me /\ mj \notin copied
    BY DEF mj, me
  <2>2. QED
    BY <1>2, <2>1 DEF AgentInv, AgentTyped, SavesLast
<1>10. Session' /\ (InTouch' => InTouch /\ Showing' /\ Stamps')
  BY AnsweredKeeps
<1>11. SUFFICES ASSUME InTouch, ~ListComing' PROVE Right' /\ Stamped'
  BY <1>10 DEF CacheInv
<1>12. Right /\ Stamped
  BY <1>11, AnswerComing DEF CacheInv
<1>13. ASSUME NEW j \in Jobs \ copied' PROVE j \notin copied /\ \A l : IsListed(j, l) => IsListed(j, l)'
  <2>1. CASE j = mj
    BY <1>4, <1>6, <1>8, <1>9, <1>13, <2>1 DEF IsListed
  <2>2. CASE j # mj
    BY <1>6, <1>8, <1>13, <2>2 DEF IsListed
  <2>3. QED
    BY <2>1, <2>2
<1>14. ASSUME NEW j \in DOMAIN jobs' \ (copied' \cup rewound')
       PROVE  j \in DOMAIN jobs \ (copied \cup rewound) /\ next'[j] = next[j]
  <2>0. DOMAIN jobs \subseteq DOMAIN next
    BY DEF AgentInv, TimesKept
  <2>1. CASE j # mj
    BY <1>6, <1>7, <1>8, <1>14, <2>0, <2>1
  <2>2. CASE j = mj
    <3>1. mj \in DOMAIN jobs \ (copied \cup rewound) /\ mj \in DOMAIN next
      BY <1>8, <1>9, <1>14, <2>0, <2>2
    <3>2. mn \notin started[mj]
      BY <1>7, <1>14, <2>2 DEF mj
    <3>3. next[mj] \in K[mj] /\ next[mj] \notin started[mj]
      BY <3>1 DEF TimesIn, AgentInv, TimesKept
    <3>4. PICK c : K[mj] = started[mj] \cup {c}
      BY <1>2, <3>1 DEF OneStart
    <3>5. mn = next[mj]
      BY <1>1, <3>2, <3>3, <3>4 DEF mj, mn
    <3>6. QED
      BY <1>7, <2>2, <3>1, <3>5
  <2>3. QED
    BY <2>1, <2>2
<1>15. Right'
  BY <1>12, <1>13, <1>14, RightAnswered DEF Answers
<1>16. Stamped'
  <2>1. SUFFICES ASSUME \A i \in DOMAIN toServer' : toServer'[i].type # "list",
                        NEW r \in Processes, NEW i \in DOMAIN toServer', toServer'[i].proc = r,
                        Stamping(toServer'[i], procs'[r]), procs'[r].job \in DOMAIN jobs'
                 PROVE  jobs'[procs'[r].job].linked
    BY DEF Stamped, Stamping
  <2>2. procs' = procs
    BY DEF Answers
  <2>3. CASE procs[r].job = mj
    BY <1>6, <2>2, <2>3
  <2>4. CASE procs[r].job # mj
    <3>1. toServer \in Seq(Tells(K))
      BY DEF ServerInv, ServerTyped
    <3>2. \A k \in DOMAIN toServer : k \in DOMAIN toServer' /\ toServer'[k] = toServer[k]
      BY <3>1
    <3>3. (i \in DOMAIN toServer /\ toServer'[i] = toServer[i]) \/ toServer'[i] = t
      BY <3>1
    <3>4. r # p
      BY <1>3, <2>4
    <3>5. i \in DOMAIN toServer /\ toServer'[i] = toServer[i]
      BY <2>1, <3>3, <3>4 DEF Answer
    <3>6. \A k \in DOMAIN toServer : toServer[k].type # "list"
      BY <2>1, <3>2
    <3>7. procs[r].job \in DOMAIN jobs /\ jobs'[procs[r].job] = jobs[procs[r].job]
      BY <1>6, <2>1, <2>2, <2>4
    <3>8. QED
      BY <1>12, <2>1, <2>2, <3>5, <3>6, <3>7 DEF Stamped
  <2>5. QED
    BY <2>3, <2>4
<1>17. QED
  BY <1>15, <1>16

LEMMA AgentReceiveCache ==
    ASSUME NEW K \in Times, OneStart(K), TimesIn(K), ServerInv(K), AgentInv, CacheInv, AgentReceive
    PROVE  CacheInv'
<1> DEFINE m == Head(toAgent)
<1>1. /\ up /\ toAgent # <<>> /\ toAgent' = Tail(toAgent)
      /\ UNCHANGED <<up, lapsed, cache, procs, shown, editor>>
  BY DEF AgentReceive, server
<1>2. toAgent \in Seq(Asks(K)) /\ m \in Asks(K)
  BY <1>1, FirstOf DEF ServerInv, ServerTyped
<1>3. m.proc \in Askers
  BY <1>2 DEF Asks, ListAsk, SaveAsk, AnySave, DeleteAsk
<1>4. faults \in Nat
  BY DEF CacheInv, Session
<1> DEFINE t(yes) == [type |-> "done", proc |-> m.proc, ok |-> yes]
<1>5. \A yes \in BOOLEAN : /\ t(yes) \in Tells(K) /\ t(yes).type = "done" /\ t(yes).proc = m.proc
                           /\ t(yes).ok = yes
  BY <1>3 DEF Tells, DoneTell
<1> HIDE DEF m
<1>6. t(TRUE).ok /\ ~t(FALSE).ok
  OBVIOUS
<1> HIDE DEF t
<1>7. CASE m.type = "list" /\ HandleJobList(m)
  <2>1. Answers /\ faults' = faults
    BY <1>1, <1>4, <1>7 DEF HandleJobList, bounds, Answers
  <2>2. QED
    BY <1>7, <2>1, ListAnswered DEF m
<1>8. CASE m.type = "save" /\ Refuse(m)
  <2>1. faults' = faults + 1 /\ UNCHANGED <<jobs, next, copied, rewound>> /\ toServer' = Append(toServer, t(FALSE))
    BY <1>8 DEF Refuse, Fault, Reply, t
  <2>2. Answers /\ faults' # 0
    BY <1>1, <1>4, <2>1 DEF Answers
  <2>3. Answer(t(FALSE)) /\ t(FALSE) \in Tells(K) /\ t(FALSE).type = "done"
    BY <1>5, <2>2 DEF Answer, m
  <2>4. QED
    BY <1>6, <1>8, <2>1, <2>2, <2>3, NothingDone DEF m
<1>9. CASE m.type = "save" /\ HandleJobSave(m) /\ ~Refuse(m)
  <2>1. /\ jobs' = With(jobs, m.job, [edit |-> m.copy.edit, linked |-> m.copy.linked])
        /\ next' = SetNext(m) /\ faults' = faults
        /\ toServer' = Append(toServer, t(TRUE))
        /\ rewound' = rewound \cup ({m.job} \cap {j \in DOMAIN next' : next'[j] \in started[j]})
        /\ m.by # "operator" =>
             copied' = IF m.job \in DOMAIN wanted /\ wanted[m.job] = m.copy.edit
                       THEN copied ELSE copied \cup {m.job}
    BY <1>9 DEF HandleJobSave, Commit, Reply, bounds, t
  <2>2. Answers
    BY <1>1, <1>4, <2>1 DEF Answers
  <2>3. Answer(t(TRUE)) /\ t(TRUE) \in Tells(K) /\ t(TRUE).type = "done"
    BY <1>5, <1>6 DEF Answer, m
  <2>4. \A p \in Processes : m.proc = p => AskFits(m, procs[p])
    BY <2>2, AskerIs DEF m
  <2>5. m.by \in {"operator", "server"}
    BY <1>2, <1>9 DEF Asks, ListAsk, SaveAsk, AnySave, DeleteAsk
  <2>6. CASE \A p \in Processes : m.proc = p => procs[p].kind \in {"save", "delete", "distribute"}
    BY <1>6, <2>1, <2>2, <2>3, <2>6, DoneAnswered DEF m
  <2>7. ASSUME NEW p \in Processes, m.proc = p, procs[p].kind \notin {"save", "delete", "distribute"}
        PROVE  CacheInv'
    <3>1. m.by = "server" /\ procs[p].kind = "backfill"
      BY <1>9, <2>4, <2>5, <2>7 DEF AskFits
    <3>2. QED
      BY <1>9, <2>1, <2>2, <2>3, <2>7, <3>1, StampAnswered DEF m
  <2>8. QED
    BY <2>6, <2>7
<1>10. CASE m.type = "delete" /\ HandleJobDelete(m)
  <2>1. CASE Fault /\ UNCHANGED <<jobs, jobsFile, next, nextFile, toServer, wanted, copied, rewound>>
    <3>1. faults' = faults + 1
      BY <2>1 DEF Fault
    <3>2. Answers
      BY <1>1, <1>4, <3>1 DEF Answers
    <3>3. QED
      BY <1>10, <2>1, <3>2, NothingDone DEF m
  <2>2. CASE ~(Fault /\ UNCHANGED <<jobs, jobsFile, next, nextFile, toServer, wanted, copied, rewound>>)
    <3>1. faults' = faults /\ toServer' = Append(toServer, t(TRUE))
      BY <1>10, <2>2 DEF HandleJobDelete, Reply, bounds, t
    <3>2. Answers
      BY <1>1, <1>4, <3>1 DEF Answers
    <3>3. Answer(t(TRUE)) /\ t(TRUE) \in Tells(K) /\ t(TRUE).type = "done"
      BY <1>5, <1>6 DEF Answer, m
    <3>4. \A p \in Processes : m.proc = p => procs[p].kind = "delete"
      BY <1>10, <3>2, AskerIs DEF AskFits, m
    <3>5. QED
      BY <1>6, <3>1, <3>2, <3>3, <3>4, DoneAnswered DEF m
  <2>3. QED
    BY <2>1, <2>2
<1>11. QED
  BY <1>7, <1>8, <1>9, <1>10 DEF AgentReceive, m

-----------------------------------------------------------------------------
\* Whatever there is to tell is told.
LEMMA AllInSequence ==
    ASSUME NEW S, IsFiniteSet(S), NEW x \in S
    PROVE  \E i \in DOMAIN SetToSeq(S) : SetToSeq(S)[i] = x
<1> DEFINE n == Cardinality(S)
           f == SetToSeq(S)
<1>1. n \in Nat /\ ExistsBijection(1 .. n, S)
  BY FS_CardinalityType
<1>2. \E g \in [1 .. n -> S] : IsInjective(g)
  BY <1>1 DEF ExistsBijection, Bijection, Injection
<1>3. f \in [1 .. n -> S] /\ IsInjective(f)
  BY <1>2 DEF SetToSeq
<1>4. IsFiniteSet(1 .. n) /\ Cardinality(1 .. n) = n
  BY <1>1, FS_Interval
<1> HIDE DEF f
<1>5. f \in Injection(1 .. n, S)
  BY <1>3 DEF Injection, IsInjective
<1>6. f \in Surjection(1 .. n, S)
  BY <1>4, <1>5, FS_Injection
<1>7. \E i \in 1 .. n : f[i] = x
  BY <1>6 DEF Surjection
<1>8. QED
  BY <1>3, <1>7 DEF f

\* The times a tick tells of are those the jobs have then, of all that moved.
LEMMA TickTold ==
    ASSUME AgentInv, Tick
    PROVE  \E s \in Seq(AnyTells) :
              /\ toServer' = IF up THEN toServer \o s ELSE toServer
              /\ \A i \in DOMAIN s : s[i].type = "next" /\ s[i].job \in Due /\ s[i].at = next'[s[i].job]
              /\ \A j \in Due : \E i \in DOMAIN s : s[i].job = j
<1>1. New = {} /\ Due \subseteq DOMAIN next /\ Due \subseteq Jobs /\ next \in [DOMAIN next -> Starts]
  BY NoneIsNew, SomeIs DEF AgentInv, AgentTyped, Due
<1>2. /\ next' = [j \in DOMAIN next |-> IF j \in Due THEN NextOf(j) ELSE next[j]]
      /\ toServer' = IF up THEN toServer \o SetToSeq(TellsOf(Due)) ELSE toServer
  BY <1>1 DEF Tick, TellsOf
<1>3. \A j \in Due : NextOf(j) \in Starts /\ next'[j] = NextOf(j)
  <2> TAKE j \in Due
  <2>1. next[j] \in Starts /\ next[j] <= now
    BY <1>1 DEF Due
  <2>2. next[j] \in Nat
    BY <2>1 DEF Starts
  <2>3. NextOf(j) = FirstAfterNow(next[j])
    BY <1>1 DEF NextOf
  <2>4. QED
    BY <1>1, <1>2, <2>1, <2>2, <2>3, FirstAfter
<1>4. IsFiniteSet(TellsOf(Due))
  BY <1>1, TellsAreFinite
<1> DEFINE s == SetToSeq(TellsOf(Due))
<1>5. s \in Seq(TellsOf(Due)) /\ \A t \in TellsOf(Due) : \E i \in DOMAIN s : s[i] = t
  BY <1>4, InSequence, AllInSequence
<1> HIDE DEF s
<1>6. ASSUME NEW t \in TellsOf(Due)
      PROVE  t \in AnyTells /\ t.type = "next" /\ t.job \in Due /\ t.at = next'[t.job]
  <2>1. PICK j \in Due : t = [type |-> "next", proc |-> Nobody, job |-> j, at |-> NextOf(j)]
    BY DEF TellsOf
  <2>2. t \in NextTell(AnyTime)
    BY <1>1, <1>3, <2>1 DEF NextTell, AnyTime
  <2>3. QED
    BY <1>3, <2>1, <2>2 DEF AnyTells, Tells
<1>7. s \in Seq(AnyTells)
  BY <1>5, <1>6
<1>8. \A i \in DOMAIN s : s[i].type = "next" /\ s[i].job \in Due /\ s[i].at = next'[s[i].job]
  BY <1>5, <1>6
<1>9. ASSUME NEW j \in Due PROVE \E i \in DOMAIN s : s[i].job = j
  <2> DEFINE t == [type |-> "next", proc |-> Nobody, job |-> j, at |-> NextOf(j)]
  <2>1. t \in TellsOf(Due) /\ t.job = j
    BY DEF TellsOf
  <2> HIDE DEF t
  <2>2. QED
    BY <1>5, <2>1
<1>10. QED
  BY <1>2, <1>7, <1>8, <1>9 DEF s

LEMMA TickCache ==
    ASSUME NEW K \in Times, ServerInv(K), AgentInv, CacheInv, Tick
    PROVE  CacheInv'
<1>1. UNCHANGED <<jobs, up, lapsed, toAgent, cache, procs, shown, editor, copied, rewound>>
  BY DEF Tick, server
<1>2. faults' \in Nat /\ (faults # 0 => faults' # 0)
  <2>1. faults' = faults \/ faults' = faults + 1
    BY DEF Tick, Fault, bounds
  <2>2. QED
    BY <2>1 DEF CacheInv, Session
<1>3. PICK s \in Seq(AnyTells) :
        /\ toServer' = IF up THEN toServer \o s ELSE toServer
        /\ \A i \in DOMAIN s : s[i].type = "next" /\ s[i].job \in Due /\ s[i].at = next'[s[i].job]
        /\ \A j \in Due : \E i \in DOMAIN s : s[i].job = j
  BY TickTold
<1>4. toServer \in Seq(AnyTells)
  <2>1. toServer \in Seq(Tells(K)) /\ Tells(K) \subseteq AnyTells
    BY SomeTells DEF ServerInv, ServerTyped
  <2>2. QED
    BY <2>1
<1>5. \A i \in DOMAIN toServer' : \/ i \in DOMAIN toServer /\ toServer'[i] = toServer[i]
                                  \/ toServer'[i].type = "next"
  <2>1. ASSUME up, NEW i \in DOMAIN toServer'
        PROVE  \/ i \in DOMAIN toServer /\ toServer'[i] = toServer[i]
               \/ \E k \in DOMAIN s : toServer'[i] = s[k]
    <3>1. toServer' = toServer \o s
      BY <1>3, <2>1
    <3>2. CASE i \in DOMAIN toServer
      BY <1>4, <3>1, <3>2
    <3>3. CASE i \notin DOMAIN toServer
      <4>1. i - Len(toServer) \in DOMAIN s /\ toServer'[i] = s[i - Len(toServer)]
        BY <1>4, <2>1, <3>1, <3>3
      <4>2. QED
        BY <4>1
    <3>4. QED
      BY <3>2, <3>3
  <2>2. QED
    BY <1>3, <2>1
<1>6. \A i \in DOMAIN toServer : i \in DOMAIN toServer' /\ toServer'[i] = toServer[i]
  BY <1>3, <1>4
<1>7. Session'
  <2>1. Asleep'
    BY <1>1, <1>3 DEF CacheInv, Session, Asleep
  <2>2. Heard' /\ Told'
    BY <1>1, <1>2, <1>5 DEF CacheInv, Session, Heard, Told
  <2>3. QED
    BY <1>1, <1>2, <2>1, <2>2 DEF CacheInv, Session, OneEditor
<1>8. SUFFICES ASSUME InTouch' PROVE Showing' /\ Stamps' /\ (~ListComing' => Right' /\ Stamped')
  BY <1>7 DEF CacheInv
<1>9. up /\ toServer' = toServer \o s /\ Showing /\ Stamps /\ (~ListComing => Right /\ Stamped)
  BY <1>1, <1>3, <1>8 DEF CacheInv, InTouch
<1>10. Showing' /\ Stamps'
  BY <1>1, <1>2, <1>9 DEF Showing, Stamps
<1>11. SUFFICES ASSUME ~ListComing' PROVE Right' /\ Stamped'
  BY <1>10
<1>12. ~ListComing
  BY <1>1, <1>6, <1>11 DEF ListComing
<1>13. Right /\ Stamped
  BY <1>9, <1>12
<1>14. \A i \in DOMAIN s : s[i] \notin ListTells
  BY <1>3 DEF ListTells
<1>15. Arrives'
  <2>1. LastIs(toServer \o s, ListTells, ListTells, cache.known)
    BY <1>4, <1>13, <1>14, LastMore DEF Right, Arrives
  <2>2. QED
    BY <1>1, <1>9, <2>1 DEF Arrives
<1>16. ASSUME NEW j \in Jobs \ copied PROVE TrueJob(j)'
  <2>1. LastIs(toServer, ListTells, TrueLists(j), IsListed(j, cache.list))
    BY <1>13 DEF Right, TrueJob
  <2>2. LastIs(toServer \o s, ListTells, TrueLists(j), IsListed(j, cache.list))
    BY <1>4, <1>14, <2>1, LastMore
  <2>3. TrueLists(j)' = TrueLists(j) /\ IsListed(j, cache.list)' = IsListed(j, cache.list)
    BY <1>1 DEF TrueLists, IsListed
  <2>4. QED
    BY <1>9, <2>2, <2>3 DEF TrueJob
<1>17. ASSUME NEW j \in DOMAIN jobs \ (copied \cup rewound) PROVE TrueTime(j)'
  <2>1. LastIs(toServer, TimeTells(j), TrueTimes(j), StartsThen(j, cache.list, next[j]))
    BY <1>13 DEF Right, TrueTime
  <2>2. PICK G, b : G = TrueTimes(j)' /\ (b <=> StartsThen(j, cache.list, next[j])')
    OBVIOUS
  <2>3. \A i \in DOMAIN s : s[i] \in TimeTells(j) => s[i] \in G
    BY <1>3, <2>2 DEF TimeTells, TrueTimes
  <2>4. CASE j \in Due
    <3>1. \E i \in DOMAIN s : s[i] \in TimeTells(j)
      BY <1>3, <2>4 DEF TimeTells
    <3>2. LastIs(toServer \o s, TimeTells(j), G, b)
      BY <1>4, <2>3, <3>1, LastMore
    <3>3. QED
      BY <1>9, <2>2, <3>2 DEF TrueTime, LastIs
  <2>5. CASE j \notin Due
    <3>1. next'[j] = next[j]
      BY <2>5, NoneIsNew DEF Tick, AgentInv, TimesKept
    <3>2. TrueTimes(j) \subseteq G /\ (StartsThen(j, cache.list, next[j]) => b)
      BY <1>1, <2>2, <3>1 DEF TrueTimes, StartsThen
    <3>3. LastIs(toServer, TimeTells(j), G, b)
      BY <2>1, <3>2, LastSame
    <3>4. LastIs(toServer \o s, TimeTells(j), G, b)
      BY <1>4, <2>3, <3>3, LastMore
    <3>5. QED
      BY <1>9, <2>2, <3>4 DEF TrueTime, LastIs
  <2>6. QED
    BY <2>4, <2>5
<1>18. Right'
  BY <1>1, <1>15, <1>16, <1>17 DEF Right
<1>19. Stamped'
  BY <1>1, <1>5, <1>6, <1>13 DEF Stamped, Stamping
<1>20. QED
  BY <1>18, <1>19

LEMMA InitCache == Init => CacheInv
<1> SUFFICES ASSUME Init PROVE CacheInv
  OBVIOUS
<1>1. /\ up = FALSE /\ toAgent = <<>> /\ toServer = <<>> /\ cache = NoList
      /\ procs = [p \in Processes |-> Idle] /\ editor = {} /\ faults = 0
  BY DEF Init
<1>2. QED
  BY <1>1 DEF CacheInv, Session, Asleep, Heard, Told, OneEditor, InTouch

\* Nothing the cache is compared with changes.
LEMMA StillCache ==
    ASSUME CacheInv, SeenRests, UNCHANGED <<up, lapsed, toAgent, procs, shown, editor, faults>>
    PROVE  CacheInv'
  BY RightRests DEF CacheInv, Session, Asleep, Heard, Told, OneEditor, InTouch, Showing, Stamps, ListComing, Stamped,
                    SeenRests

LEMMA StepCache ==
    ASSUME JobsInv, CacheInv, [Next]_vars
    PROVE  CacheInv'
<1>1. PICK K \in Times : OneStart(K) /\ TimesIn(K) /\ ServerInv(K)
  BY DEF JobsInv
<1>2. AgentInv /\ AgentTyped
  BY DEF JobsInv, AgentInv
<1>3. CASE Connect
  BY <1>1, <1>3, ConnectCache
<1>4. CASE Replace
  BY <1>4, ReplaceCache
<1>5. CASE Disconnect \/ Restart
  BY <1>5, LostCache DEF Disconnect, Restart, Drop
<1>6. CASE ServerReceive
  BY <1>1, <1>2, <1>6, ServerReceiveKeeps, ServerReceiveCache
<1>7. ASSUME NEW p \in Processes, TimesOut(p) PROVE CacheInv'
  BY <1>1, <1>7, TimesOutCache
<1>8. CASE SaveJob \/ Distribute \/ \E j \in Jobs : OpenEditor(j) \/ DeleteJob(j)
  BY <1>1, <1>8, OperatorCache
<1>9. CASE AgentReceive
  BY <1>1, <1>2, <1>9, AgentReceiveCache
<1>10. CASE Tick
  BY <1>1, <1>2, <1>10, TickCache
<1>11. CASE Passes
  BY <1>11, StillCache DEF Passes, SeenRests, wire, server, past, bounds
<1>12. CASE UNCHANGED vars
  BY <1>12, StillCache DEF vars, SeenRests, agent, wire, server, past, bounds
<1>13. QED
  BY <1>3, <1>4, <1>5, <1>6, <1>7, <1>8, <1>9, <1>10, <1>11, <1>12 DEF Next

\* What is typed for the proof is what TypeOK says.
LEMMA JobsTyped == JobsInv /\ OneEditor /\ lapsed \in BOOLEAN => TypeOK
<1> SUFFICES ASSUME JobsInv, OneEditor, lapsed \in BOOLEAN PROVE TypeOK
  OBVIOUS
<1>1. AgentTyped
  BY DEF JobsInv, AgentInv
<1>2. PICK K \in Times : ServerInv(K)
  BY DEF JobsInv
<1>3. /\ toAgent \in Seq(Asks(K)) /\ toServer \in Seq(Tells(K))
      /\ cache \in Cached(K) /\ shown \in Cached(K)
      /\ procs \in [Processes -> Process(K)] /\ editor \subseteq InEditor(K) /\ up \in BOOLEAN
  BY <1>2 DEF ServerInv, ServerTyped
<1>4. Timed \subseteq Copy
  BY DEF Timed, Copy
<1>5. InEditor(K) \subseteq Pending
  BY <1>4 DEF InEditor, Pending
<1>6. \A S, f : f \in Some(S) => IsSome(f, S)
  <2> TAKE S, f
  <2>1. f \in Some(S) => DOMAIN f \subseteq Jobs /\ f \in [DOMAIN f -> S]
    BY SomeIs
  <2>2. QED
    BY <2>1 DEF IsSome
<1>7. \A l \in JobLists(K) : IsSome(l, Copy)
  BY <1>4, <1>6 DEF JobLists, IsSome
<1>8. IsList(cache) /\ IsList(shown)
  BY <1>3, <1>7 DEF Cached, IsList
<1>9. \A i \in DOMAIN toAgent : toAgent[i].proc \in Processes \cup {Nobody}
  <2>1. \A m \in Asks(K) : m.proc \in Askers
    BY DEF Asks, ListAsk, SaveAsk, AnySave, DeleteAsk
  <2>2. QED
    BY <1>3, <2>1 DEF Askers
<1>10. \A i \in DOMAIN toServer : toServer[i].proc \in Processes \cup {Nobody}
  <2>1. \A m \in Tells(K) : m.proc \in Askers
    BY DEF Tells, ListTell, DoneTell, NextTell, Askers
  <2>2. QED
    BY <1>3, <2>1 DEF Askers
<1>11. \A p \in Processes : IsProcess(procs[p])
  <2> TAKE p \in Processes
  <2>1. procs[p] \in Process(K)
    BY <1>3
  <2>2. CASE procs[p] \in Backfills(K, Jobs) \cup Distributions(K, Jobs)
    BY <1>7, <2>2 DEF Backfills, Distributions, IsProcess
  <2>3. CASE procs[p] \in Listings(K)
    BY <1>5, <2>3 DEF Listings, IsProcess
  <2>4. CASE procs[p] \in {Idle} \cup [kind : {"save", "delete"}]
    BY <2>4 DEF IsProcess
  <2>5. QED
    BY <2>1, <2>2, <2>3, <2>4 DEF Process
<1>12. Cardinality(editor) <= 1
  <2>1. Cardinality(editor) \in {0, 1}
    BY FS_EmptySet, FS_Singleton DEF OneEditor
  <2>2. QED
    BY <2>1
<1>13. /\ IsSome(jobs, Job) /\ IsSome(jobsFile, Job)
       /\ IsSome(next, Starts) /\ IsSome(nextFile, Starts) /\ IsSome(wanted, 0 .. MaxEdits)
  BY <1>1, <1>6 DEF AgentTyped
<1>14. QED
  BY <1>1, <1>3, <1>5, <1>8, <1>9, <1>10, <1>11, <1>12, <1>13 DEF AgentTyped, TypeOK

LEMMA LapsedTyped == lapsed \in BOOLEAN /\ [Next]_vars => lapsed' \in BOOLEAN
<1> SUFFICES ASSUME lapsed \in BOOLEAN, [Next]_vars PROVE lapsed' \in BOOLEAN
  OBVIOUS
<1>1. ASSUME NEW j \in Jobs, OpenEditor(j) \/ DeleteJob(j) PROVE lapsed' \in BOOLEAN
  BY <1>1 DEF OpenEditor, DeleteJob, past
<1>2. CASE Connect \/ Replace \/ Disconnect \/ Restart \/ ServerReceive \/ \E p \in Processes : TimesOut(p)
  BY <1>2 DEF Connect, Replace, Disconnect, Restart, ServerReceive, TimesOut, past
<1>3. CASE SaveJob \/ Distribute \/ AgentReceive \/ Passes \/ Tick
  BY <1>3 DEF SaveJob, Distribute, AgentReceive, Passes, Tick, past
<1>4. CASE UNCHANGED vars
  BY <1>4 DEF vars, past
<1>5. QED
  BY <1>1, <1>2, <1>3, <1>4 DEF Next

\* With nothing under way the cache is what the last list said, and that is what
\* the agent has.
LEMMA QuietFollows ==
    ASSUME JobsInv, CacheInv, Quiet
    PROVE  cache.known /\ shown = cache /\ \A j \in Jobs \ copied : ListedAsItIs(j)
<1>1. /\ InTouch /\ toAgent = <<>> /\ toServer = <<>>
      /\ \A p \in Processes : procs[p].kind = "idle"
  BY DEF Quiet, InTouch, Idle
<1>2. DOMAIN toAgent = {} /\ DOMAIN toServer = {}
  BY <1>1
<1>3. ~ListComing
  BY <1>1, <1>2 DEF ListComing, Rolled
<1>4. Right /\ Showing /\ Stamps
  BY <1>1, <1>3 DEF CacheInv
<1>5. cache.known
  BY <1>2, <1>4, LastNone DEF Right, Arrives
<1>6. shown = cache
  BY <1>1, <1>4, <1>5 DEF Showing
<1>7. ASSUME NEW j \in Jobs \ copied PROVE ListedAsItIs(j)
  <2>1. IsListed(j, cache.list)
    BY <1>2, <1>4, LastNone DEF Right, TrueJob
  <2> SUFFICES ASSUME j \in DOMAIN jobs
               PROVE  /\ j \in rewound \/ cache.list[j].next = Listing[j].next
                      /\ jobs[j].linked => cache.list[j].linked \/ faults # 0
    BY <2>1 DEF IsListed, ListedAsItIs
  <2>2. j \in DOMAIN cache.list
    BY <2>1 DEF IsListed
  <2>3. Listing[j].next = next[j]
    BY DEF JobsInv, AgentInv, TimesKept, Listing
  <2>4. j \notin rewound => StartsThen(j, cache.list, next[j])
    BY <1>2, <1>4, LastNone DEF Right, TrueTime
  <2>5. j \in Matched => cache.list[j].linked \/ faults # 0
    BY <1>1, <1>4, <2>2 DEF Stamps, Marks
  <2>6. QED
    BY <2>1, <2>2, <2>3, <2>4, <2>5 DEF IsListed, StartsThen
<1>8. QED
  BY <1>5, <1>6, <1>7

LEMMA CacheFollows == JobsInv /\ CacheInv /\ lapsed \in BOOLEAN => CacheFollowsAgent
<1> SUFFICES ASSUME JobsInv, CacheInv, lapsed \in BOOLEAN PROVE CacheFollowsAgent
  OBVIOUS
<1>1. TypeOK
  BY JobsTyped DEF CacheInv, Session
<1>2. cache.known => up
  BY DEF CacheInv, Session, Asleep, NoList
<1>3. QED
  BY <1>1, <1>2, QuietFollows DEF CacheFollowsAgent

\* EditsHold: what an operator saved or deleted last is what a restart finds, for every
\* job no older copy was written over, and a scheduled time starts one run, unless a save
\* or a restart set the next run back to it. Whatever is saved, distributed, backfilled,
\* timed out, replaced or restarted, with any number of jobs and requests under way.
THEOREM SavesLastAndRunOnce == MCSpec => []EditsHold
<1> DEFINE all == <<part, vars, cacheVars, secretsVars, formVars, restoreVars>>
<1>1. MCInit => JobsInv
  BY InitJobs DEF MCInit
<1>2. JobsInv /\ [MCNext]_all => JobsInv'
  <2> SUFFICES ASSUME JobsInv, [MCNext]_all PROVE JobsInv'
    OBVIOUS
  <2>1. [Next]_vars
    BY DEF MCNext
  <2>2. QED
    BY <2>1, StepJobs
<1>3. JobsInv => EditsHold
  BY DEF JobsInv, AgentInv, EditsHold
<1>4. QED
  BY <1>1, <1>2, <1>3, PTL DEF MCSpec

\* CacheFollowsAgent: the server has a list of jobs only of an agent that is connected, and
\* once nothing is under way it is the agent's own, the dashboards were sent the same, and
\* every job no older copy was written over is listed as it is, whichever lists, saves,
\* stamps, runs and restarts crossed each other before. Whatever the number of jobs and of
\* requests under way.
THEOREM CacheIsTheAgents == MCSpec => []CacheFollowsAgent
<1> DEFINE Inv == JobsInv /\ CacheInv /\ lapsed \in BOOLEAN
           all == <<part, vars, cacheVars, secretsVars, formVars, restoreVars>>
<1>1. MCInit => Inv
  BY InitJobs, InitCache DEF MCInit, Init
<1>2. Inv /\ [MCNext]_all => Inv'
  <2> SUFFICES ASSUME Inv, [MCNext]_all PROVE Inv'
    OBVIOUS
  <2>1. [Next]_vars
    BY DEF MCNext
  <2>2. QED
    BY <2>1, StepJobs, StepCache, LapsedTyped
<1>3. Inv => CacheFollowsAgent
  BY CacheFollows
<1>4. QED
  BY <1>1, <1>2, <1>3, PTL DEF MCSpec
=============================================================================
