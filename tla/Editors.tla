------------------------------ MODULE Editors ------------------------------
(***************************************************************************)
(* The editors of the dashboard. Each is a form over a copy of what the    *)
(* server holds (useEntityForm), checked by the rules the server has, and  *)
(* a page the operator leaves by a navigation that asks about unsaved work *)
(* (useUnsavedChangesGuard). They differ in whether another entity starts  *)
(* the form over, whether the fields are locked while a save is under way, *)
(* and whether a save leaves the page. A save outlives its page: its       *)
(* answer may come when the operator is in another editor.                 *)
(***************************************************************************)
EXTENDS Naturals, FiniteSets

CONSTANTS
  Pages,     \* <<editor, entity>> of the editors there are; entity "new" creates one
  MaxForms,  \* bound: forms opened
  MaxSaves,  \* bound: saves sent
  MaxGone    \* bound: entities deleted by somebody else

Away == <<"away", "">>  \* a page that is no editor
None == [to |-> Away, nr |-> 0]

\* What a form can hold. `extra` is typed and not shown any more once it is stored: the
\* blanks around a client's name, the secret of a repository, a password. `at` is where
\* it was typed. The schemas refuse "bad".
Typings == {[text |-> "old", extra |-> FALSE], [text |-> "new", extra |-> FALSE],
            [text |-> "new", extra |-> TRUE], [text |-> "bad", extra |-> FALSE]}

VARIABLES
  place,     \* the editor the operator is in, or Away
  form,      \* its state; nr 0: none is mounted
  question,  \* where the way out leads that a form asks about
  calls,     \* saves under way
  stored,    \* what an entity held at some time
  gone,      \* entities deleted by somebody else
  forms, saves

vars == <<place, form, question, calls, stored, gone, forms, saves>>

Blank == [text |-> "old", extra |-> FALSE, at |-> Away]
NoForm == [nr |-> 0, base |-> Blank, draft |-> Blank, saving |-> FALSE, touched |-> FALSE]

IsNew(p) == p[2] = "new"

\* Whether the fields are locked while a save is under way. In the editor of a stored
\* repository the measured fingerprint can still be adopted.
IdentityCardLocks == TRUE
JobEditorLocks == FALSE

\* keyed: another entity starts the form over. stays: the page is not left after a save.
\* rebases: after a save the form shows what is stored, without `extra`.
ClientEditor(p) == [keyed |-> FALSE, stays |-> TRUE, locked |-> IdentityCardLocks,
                    guarded |-> TRUE, rebases |-> TRUE]
RepositoryEditor(p) == [keyed |-> TRUE, stays |-> ~IsNew(p), locked |-> IsNew(p),
                        guarded |-> TRUE, rebases |-> TRUE]
JobEditorPage(p) == [keyed |-> TRUE, stays |-> ~IsNew(p), locked |-> JobEditorLocks,
                     guarded |-> TRUE, rebases |-> FALSE]
WebhookEditor(p) == [keyed |-> TRUE, stays |-> FALSE, locked |-> FALSE,
                     guarded |-> TRUE, rebases |-> FALSE]
UserDialog(p) == [keyed |-> TRUE, stays |-> FALSE, locked |-> FALSE,
                  guarded |-> FALSE, rebases |-> FALSE]

Editor(p) ==
  CASE p[1] = "client" -> ClientEditor(p)
    [] p[1] = "repository" -> RepositoryEditor(p)
    [] p[1] = "job" -> JobEditorPage(p)
    [] p[1] = "webhook" -> WebhookEditor(p)
    [] p[1] = "user" -> UserDialog(p)

---------------------------------------------------------------------------
(* The form *)

IsSameDraft(a, b) == a.text = b.text /\ a.extra = b.extra

IsDirty == ~IsSameDraft(form.draft, form.base)

\* What the form knows beyond the schema: a new repository needs its secret, a new user
\* its password.
RepositoryRules(p, d) == IsNew(p) => d.extra
UserRules(p, d) == IsNew(p) => d.extra

CheckDraft(p, d) ==
  /\ d.text # "bad"
  /\ p[1] = "repository" => RepositoryRules(p, d)
  /\ p[1] = "user" => UserRules(p, d)

CanSave == IsDirty /\ CheckDraft(place, form.draft) /\ ~form.saving

\* What the server keeps of a draft.
StoredDraft(d) == [d EXCEPT !.extra = FALSE]

\* What the form holds once the save of `c` went through.
Rebased(c) == IF Editor(c.page).rebases THEN StoredDraft(c.sent) ELSE c.sent

---------------------------------------------------------------------------
(* Pages *)

\* The page of a deleted entity says that there is none.
Reached(to) == IF to \in gone THEN Away ELSE to

\* The route keeps its element, and with it the form, when only the entity changes.
SameForm(to) == /\ place # Away /\ to # Away
                /\ place[1] = to[1]
                /\ ~Editor(to).keyed
                /\ IsNew(place) = IsNew(to)

\* The router renders `to`. A new form copies what the list holds, which may be behind.
Show(to) ==
  /\ place' = to
  /\ \/ to = Away /\ form' = NoForm /\ UNCHANGED forms
     \/ to # Away /\ SameForm(to) /\ UNCHANGED <<form, forms>>
     \/ /\ to # Away /\ ~SameForm(to) /\ forms < MaxForms
        /\ forms' = forms + 1
        /\ \E d \in stored[to] :
             LET shown == [d EXCEPT !.at = to]
             IN  form' = [nr |-> forms', base |-> shown, draft |-> shown,
                          saving |-> FALSE, touched |-> FALSE]

\* The router's blocker asks the mounted form.
ShouldBlock == form.nr # 0 /\ Editor(place).guarded /\ IsDirty

Leave(to) ==
  IF ShouldBlock
  THEN /\ question' = [to |-> to, nr |-> form.nr]
       /\ UNCHANGED <<place, form, forms>>
  ELSE Show(Reached(to)) /\ UNCHANGED question

\* Any way out or in: the X, Escape, the sidebar, the browser's history. A dialog is
\* closed before another can be opened.
Navigate(to) ==
  /\ question = None /\ to # place
  /\ ~(place[1] = "user" /\ to[1] = "user")
  /\ Leave(to)
  /\ UNCHANGED <<calls, stored, gone, saves>>

\* The answer to the question. The form it is about may be gone by then.
Answer(discard) ==
  /\ question # None
  /\ question' = None
  /\ IF discard /\ form.nr = question.nr
     THEN Show(Reached(question.to))
     ELSE UNCHANGED <<place, form, forms>>
  /\ UNCHANGED <<calls, stored, gone, saves>>

\* An entity is deleted elsewhere. Its page goes; the dialog of a user stays.
Gone(p) ==
  /\ ~IsNew(p) /\ p \notin gone /\ Cardinality(gone) < MaxGone
  /\ gone' = gone \cup {p}
  /\ IF place = p /\ p[1] # "user"
     THEN place' = Away /\ form' = NoForm
     ELSE UNCHANGED <<place, form>>
  /\ UNCHANGED <<question, calls, stored, forms, saves>>

---------------------------------------------------------------------------
(* Typing and saving *)

Type(t) ==
  /\ form.nr # 0 /\ question = None
  /\ Editor(place).locked => ~form.saving
  /\ ~IsSameDraft(t, form.draft)
  /\ form' = [form EXCEPT !.draft = [text |-> t.text, extra |-> t.extra, at |-> place],
                          !.touched = form.saving]
  /\ UNCHANGED <<place, question, calls, stored, gone, forms, saves>>

Submit ==
  /\ form.nr # 0 /\ question = None /\ CanSave
  /\ saves < MaxSaves
  /\ saves' = saves + 1
  /\ calls' = calls \cup {[nr |-> form.nr, page |-> place, sent |-> form.draft, at |-> "asked"]}
  /\ form' = [form EXCEPT !.saving = TRUE, !.touched = FALSE]
  /\ UNCHANGED <<place, question, stored, gone, forms>>

\* What the controllers ask of a request, beyond the schema.
CreateRepository(d) == d.extra
CreateUser(d) == d.extra

Accepted(c) ==
  /\ c.sent.text # "bad" /\ c.page \notin gone
  /\ c.page = <<"repository", "new">> => CreateRepository(c.sent)
  /\ c.page = <<"user", "new">> => CreateUser(c.sent)

\* The server handles a request: it stores what it accepts, unless that fails.
Serve(c) ==
  /\ c.at = "asked"
  /\ \/ /\ Accepted(c)
        /\ stored' = [stored EXCEPT ![c.page] = @ \cup {StoredDraft(c.sent)}]
        /\ calls' = (calls \ {c}) \cup {[c EXCEPT !.at = "stored"]}
     \/ /\ ~Accepted(c)
        /\ calls' = (calls \ {c}) \cup {[c EXCEPT !.at = "refused"]}
        /\ UNCHANGED stored
     \/ calls' = (calls \ {c}) \cup {[c EXCEPT !.at = "failed"]} /\ UNCHANGED stored
  /\ UNCHANGED <<place, form, question, gone, forms, saves>>

\* Mutant: the answer replaces what was typed meanwhile.
SettledOver(c, ok) ==
  IF ok THEN [form EXCEPT !.saving = FALSE, !.base = Rebased(c), !.draft = Rebased(c)]
  ELSE [form EXCEPT !.saving = FALSE]

\* What the form makes of the answer to its own save: what was typed meanwhile stays.
Settled(c, ok) ==
  IF ~ok THEN [form EXCEPT !.saving = FALSE]
  ELSE [form EXCEPT !.saving = FALSE, !.base = Rebased(c),
                    !.draft = IF form.touched THEN form.draft ELSE Rebased(c)]

\* The save was answered in a page that is gone: a page that leaves after a save still
\* does, wherever the operator is. A dialog's answer closes the one that is open now,
\* if the page around it is the same.
LeaveLate(c) ==
  IF c.page[1] = "user"
  THEN UNCHANGED question /\ \/ place[1] = "user" /\ Show(Away)
                             \/ UNCHANGED <<place, form, forms>>
  ELSE IF ShouldBlock /\ question # None
       THEN UNCHANGED <<place, form, question, forms>>  \* one question at a time
       ELSE Leave(Away)

\* An answer arrives; one that is lost on the way is a failure to the form.
Answered(c, ok) ==
  /\ c.at # "asked"
  /\ ok => c.at = "stored"
  /\ calls' = calls \ {c}
  /\ \/ form.nr = c.nr /\ (ok => Editor(c.page).stays)
        /\ form' = Settled(c, ok)
        /\ UNCHANGED <<place, question, forms>>
     \/ form.nr = c.nr /\ ok /\ ~Editor(c.page).stays
        /\ Show(Away) /\ UNCHANGED question
     \/ form.nr # c.nr /\ ok /\ ~Editor(c.page).stays
        /\ LeaveLate(c)
     \/ form.nr # c.nr /\ (ok => Editor(c.page).stays)
        /\ UNCHANGED <<place, form, question, forms>>
  /\ UNCHANGED <<stored, gone, saves>>

---------------------------------------------------------------------------
Init ==
  /\ place = Away /\ form = NoForm /\ question = None /\ calls = {}
  /\ stored = [p \in Pages |-> {[text |-> "old", extra |-> FALSE, at |-> p]}]
  /\ gone = {} /\ forms = 0 /\ saves = 0

Next ==
  \/ \E to \in Pages \cup {Away} : Navigate(to)
  \/ \E discard \in BOOLEAN : Answer(discard)
  \/ \E p \in Pages : Gone(p)
  \/ \E t \in Typings : Type(t)
  \/ Submit
  \/ \E c \in calls : Serve(c) \/ \E ok \in BOOLEAN : Answered(c, ok)

---------------------------------------------------------------------------
(* Properties *)

\* A form without changes shows what its entity held at some time, and never what a
\* refused save sent. A client's form may hold what another client does: ClientEditRoute
\* has no key, and the form outlives a step from one to the other in the browser's history.
CleanIsStored ==
  form.nr # 0 /\ ~IsDirty
    => \E p \in Pages : /\ p[1] = place[1] /\ (Editor(place).keyed => p = place)
                        /\ \E d \in stored[p] : d.text = form.draft.text

\* What an entity holds was typed in a form opened for it, again but for clients.
SavedWhereTyped ==
  \A p \in Pages : Editor(p).keyed => \A d \in stored[p] : d.at = p

\* What a form lets through is not refused for what it says.
FormsAgree == \A c \in calls : c.at = "refused" => c.page \in gone

\* Unsaved work is dropped only by the answer to the question. The exceptions: a dialog
\* does not ask; the entity was deleted; and the page leaves when its own save went
\* through, with what was typed meanwhile where the fields are not locked.
AskedBeforeLost ==
  form.nr # 0 /\ IsDirty /\ form'.nr # form.nr
    => \/ question # None /\ question' = None
       \/ ~Editor(place).guarded
       \/ place \in gone'
       \/ /\ \E c \in calls \ calls' : c.nr = form.nr /\ c.at = "stored"
          /\ form.touched => ~Editor(place).locked

\* An answer leaves what was typed since the save was sent.
TypedIsKept ==
  form.touched /\ form'.nr = form.nr /\ form.saving /\ ~form'.saving
    => form'.draft = form.draft

\* The editors keep what is typed until it is stored or given up.
FormKept == CleanIsStored /\ SavedWhereTyped /\ FormsAgree
TypingKept == AskedBeforeLost /\ TypedIsKept
=============================================================================
