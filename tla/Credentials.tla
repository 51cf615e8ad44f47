---------------------------- MODULE Credentials ----------------------------
(***************************************************************************)
(* What a job needs to reach its PBS, and the copies there are of it: the  *)
(* fingerprint to pin, the secret of the token and the encryption key.     *)
(* The server keeps fingerprint and secret of the managed repository, the  *)
(* agent keeps a copy of all three in the job it runs from, the server     *)
(* caches that job, and the browser gets repository and job without their  *)
(* secrets.                                                                *)
(*                                                                         *)
(* There is one managed repository and one job, which names it or, as a    *)
(* job from before repository ids, carries another login.  An operator has *)
(* an editor open on each.  `confirmed' is a history: the fingerprints an  *)
(* operator has stored.                                                    *)
(***************************************************************************)
EXTENDS Naturals, Sequences, FiniteSets

CONSTANTS
  Certs,        \* certificates a PBS may answer with
  Trusted,      \* those that pass CA validation for its host name
  NoCert,       \* no fingerprint
  MaxSecrets,   \* secrets the token of the managed repository gets
  MaxKeys,      \* encryption keys generated
  MaxChanges,   \* changes by the operator
  MaxRenewals,  \* changes of the certificate
  MaxLosses     \* sessions of the agent that end

Prints    == Certs \cup {NoCert}
Redacted  == 0                  \* the secret a browser sees, and no secret at all
OldSecret == MaxSecrets + 1     \* of the login a job without repository id has
NoKey     == 0
Copies == [login : {"managed", "old"}, print : Prints,
           secret : 0..OldSecret, enabled : BOOLEAN, key : 0..MaxKeys]

VARIABLES
  served,      \* the certificate the PBS answers with
  repository,  \* <<>> once deleted, or <<[print, secret]>>
  job,         \* the job in the agent's jobs.json
  cached,      \* <<>> or <<the job>> as the server last heard of it
  online,      \* the agent's session
  toAgent,     \* saves on their way to the agent
  editor,      \* the repository editor: draft fingerprint, offered by its check
  form,        \* the job editor's draft
  saving,      \* <<>> or <<the job as the form sent it>>, while the cache is refreshed
  rollout,     \* <<>> or <<the job>> a distribution is to send
  run,         \* a run: what it read, and what it pins
  observed,    \* the fingerprint an agent reported last
  keys, confirmed, changes, renewals, losses

past == <<keys, confirmed, changes, renewals, losses>>
vars == <<served, repository, job, cached, online, toAgent, editor, form, saving,
          rollout, run, observed, past>>

NoRun     == [stage |-> "none", tunnelled |-> FALSE, stored |-> NoCert, pin |-> NoCert]
NoEditor  == [open |-> FALSE, print |-> NoCert, offer |-> NoCert]
Redact(j) == [j EXCEPT !.secret = Redacted, !.key = NoKey]
Form(j, held) == [open |-> TRUE, job |-> j, held |-> held, generating |-> FALSE]
NoForm == [Form([login |-> "old", print |-> NoCert, secret |-> Redacted,
                 enabled |-> FALSE, key |-> NoKey], FALSE) EXCEPT !.open = FALSE]

Init ==
  /\ served \in Certs
  /\ repository = <<[print |-> NoCert, secret |-> 1]>>
  /\ job \in {[login |-> l, print |-> NoCert,
               secret |-> IF l = "old" THEN OldSecret ELSE 1,
               enabled |-> FALSE, key |-> NoKey] : l \in {"managed", "old"}}
  /\ cached = <<>> /\ online = FALSE /\ toAgent = <<>>
  /\ editor = NoEditor /\ form = NoForm /\ saving = <<>> /\ rollout = <<>>
  /\ run = NoRun /\ observed = NoCert
  /\ keys = 0 /\ confirmed = {NoCert} /\ changes = 0 /\ renewals = 0 /\ losses = 0

Change == changes < MaxChanges /\ changes' = changes + 1

-----------------------------------------------------------------------------
(***************************************************************************)
(* The session of the agent, and what the server knows of its job.         *)
(***************************************************************************)
\* refreshJobCache after the connection, a save or a distribution: an answer.
Refresh ==
  /\ online /\ toAgent = <<>> /\ cached # <<job>>
  /\ cached' = <<job>>
  /\ UNCHANGED <<served, repository, job, online, toAgent, editor, form, saving, rollout,
                 run, observed, past>>

Connect ==
  /\ ~online
  /\ online' = TRUE
  /\ UNCHANGED <<served, repository, job, cached, toAgent, editor, form, saving, rollout,
                 run, observed, past>>

\* clearJobCache; requests under way are rejected.
Disconnect ==
  /\ online /\ losses < MaxLosses
  /\ losses' = losses + 1 /\ online' = FALSE
  /\ cached' = <<>> /\ toAgent' = <<>> /\ saving' = <<>> /\ rollout' = <<>>
  /\ UNCHANGED <<served, repository, job, editor, form, run, observed,
                 keys, confirmed, changes, renewals>>

\* handleJobSave stores the job whole.
AgentSaves ==
  /\ toAgent # <<>>
  /\ job' = Head(toAgent) /\ toAgent' = Tail(toAgent)
  /\ UNCHANGED <<served, repository, cached, online, editor, form, saving, rollout, run,
                 observed, past>>

\* The PBS renews its certificate, or another one answers in its place.
Renew ==
  /\ renewals < MaxRenewals
  /\ renewals' = renewals + 1
  /\ served' \in Certs \ {served}
  /\ UNCHANGED <<repository, job, cached, online, toAgent, editor, form, saving, rollout,
                 run, observed, keys, confirmed, changes, losses>>

-----------------------------------------------------------------------------
(***************************************************************************)
(* The repository editor.                                                  *)
(***************************************************************************)
\* The editor opens on the repository as it is stored.
OpenEditor ==
  /\ ~editor.open /\ repository # <<>> /\ Change
  /\ editor' = [open |-> TRUE, print |-> repository[1].print, offer |-> NoCert]
  /\ UNCHANGED <<served, repository, job, cached, online, toAgent, form, saving, rollout,
                 run, observed, keys, confirmed, renewals, losses>>

\* Check certificate: what the PBS answers with, offered when it differs from
\* what is stored.
CheckCertificate ==
  /\ editor.open /\ repository # <<>> /\ Change
  /\ editor' = [editor EXCEPT !.offer =
                  IF served = repository[1].print THEN NoCert ELSE served]
  /\ editor' # editor
  /\ UNCHANGED <<served, repository, job, cached, online, toAgent, form, saving, rollout,
                 run, observed, keys, confirmed, renewals, losses>>

\* The operator adopts what was measured, or types what an agent observed.
Adopt ==
  /\ editor.open /\ Change
  /\ editor' \in {[editor EXCEPT !.print = c] : c \in {editor.offer, observed} \ {editor.print}}
  /\ UNCHANGED <<served, repository, job, cached, online, toAgent, form, saving, rollout,
                 run, observed, keys, confirmed, renewals, losses>>

\* The row after a save: an empty secret keeps the stored one.
Updated(row, print, typed) ==
  [print |-> print, secret |-> IF typed THEN row.secret + 1 ELSE row.secret]

\* update: the fingerprint of the draft, and a new secret if one was typed.
SaveRepository ==
  /\ editor.open /\ Change
  /\ \E typed \in BOOLEAN :
       /\ repository # <<>>
       /\ typed => repository[1].secret < MaxSecrets
       /\ repository' = <<Updated(repository[1], editor.print, typed)>>
  /\ confirmed' = confirmed \cup {editor.print}
  /\ UNCHANGED <<served, job, cached, online, toAgent, editor, form, saving, rollout, run,
                 observed, keys, renewals, losses>>

DeleteRepository ==
  /\ repository # <<>> /\ Change
  /\ repository' = <<>> /\ editor' = NoEditor
  /\ UNCHANGED <<served, job, cached, online, toAgent, form, saving, rollout, run, observed,
                 keys, confirmed, renewals, losses>>

\* The job as distribute sends it: from the cache, with the stored values.
Patched(j, row) == [j EXCEPT !.login = "managed", !.print = row.print, !.secret = row.secret]

\* distribute reads the row and takes the jobs from the cache.
Distribute ==
  /\ repository # <<>> /\ rollout = <<>> /\ Change
  /\ cached # <<>> /\ cached[1].login = "managed"
  /\ Patched(cached[1], repository[1]) # cached[1]
  /\ rollout' = <<Patched(cached[1], repository[1])>>
  /\ UNCHANGED <<served, repository, job, cached, online, toAgent, editor, form, saving, run,
                 observed, keys, confirmed, renewals, losses>>

\* The request for this job, once those for the jobs before it are answered; it
\* fails at once if the agent is not connected.
RollOut ==
  /\ rollout # <<>>
  /\ rollout' = <<>>
  /\ toAgent' = IF online THEN toAgent \o rollout ELSE toAgent
  /\ UNCHANGED <<served, repository, job, cached, online, editor, form, saving, run, observed,
                 past>>

-----------------------------------------------------------------------------
(***************************************************************************)
(* The job editor.                                                         *)
(***************************************************************************)
Draft(d) ==
  /\ form.open /\ form' = d /\ form' # form /\ Change
  /\ UNCHANGED <<served, repository, job, cached, online, toAgent, editor, saving, rollout,
                 run, observed, keys, confirmed, renewals, losses>>

\* The job as the agent answers it, without its secrets.
OpenForm ==
  /\ ~form.open /\ online /\ Change
  /\ form' = Form(Redact(job), job.enabled)
  /\ UNCHANGED <<served, repository, job, cached, online, toAgent, editor, saving, rollout,
                 run, observed, keys, confirmed, renewals, losses>>

\* handleSelect: the managed repository's fingerprint, and no secret.
SelectRepository ==
  /\ repository # <<>>
  /\ Draft([form EXCEPT !.job.login = "managed", !.job.print = repository[1].print])

SwitchOff == Draft([form EXCEPT !.job.enabled = FALSE])

SwitchOn ==
  /\ ~form.job.enabled /\ ~form.generating
  /\ IF form.job.key = NoKey /\ ~form.held
     THEN keys < MaxKeys /\ Draft([form EXCEPT !.generating = TRUE])
     ELSE Draft([form EXCEPT !.job.enabled = TRUE])

\* The agent's answer: a key, or none.
Generated ==
  /\ form.open /\ form.generating
  /\ \/ /\ keys' = keys + 1
        /\ form' = [form EXCEPT !.generating = FALSE, !.job.enabled = TRUE, !.job.key = keys + 1]
     \/ /\ keys' = keys
        /\ form' = [form EXCEPT !.generating = FALSE]
  /\ UNCHANGED <<served, repository, job, cached, online, toAgent, editor, saving, rollout,
                 run, observed, confirmed, changes, renewals, losses>>

DropKey ==
  Draft([form EXCEPT !.job.key = NoKey, !.held = FALSE, !.job.enabled = FALSE])

\* completeJobSecrets, the part before its wait: the managed repository's secret.
WithSecret(j) ==
  [j EXCEPT !.secret = IF j.login = "managed" /\ repository # <<>>
                       THEN repository[1].secret ELSE Redacted]

\* Whether it needs the job as stored, and what it takes from it: the secret for
\* the same login only, and the key.
KeepsSecret(j) == j.secret = Redacted
KeepsKey(j)    == j.enabled /\ j.key = NoKey

\* Mutant: the secret is kept whatever login the job has now.
CompletedForAny(j, old) ==
  [j EXCEPT !.secret = IF KeepsSecret(j) THEN old.secret ELSE @,
            !.key    = IF KeepsKey(j) THEN old.key ELSE @]

Completed(j, old) ==
  [j EXCEPT !.secret = IF KeepsSecret(j) /\ old.login = j.login THEN old.secret ELSE @,
            !.key    = IF KeepsKey(j) THEN old.key ELSE @]

Refused(j) == KeepsSecret(j) \/ KeepsKey(j)
SendSave(j) == toAgent' = IF Refused(j) THEN toAgent ELSE Append(toAgent, j)

\* jobRules and jobInputFrom.
MaySave(f)   == f.job.enabled => f.job.key # NoKey \/ f.held
Submitted(f) == [f.job EXCEPT !.key = IF f.job.enabled THEN @ ELSE NoKey]

\* The save of the form: with a cold cache, the job has to be asked for first.
SaveForm ==
  /\ form.open /\ MaySave(form) /\ saving = <<>> /\ Change
  /\ LET j == WithSecret(Submitted(form)) IN
     IF Refused(j) /\ cached = <<>>
     THEN online /\ saving' = <<j>> /\ UNCHANGED toAgent
     ELSE /\ online
          /\ SendSave(IF Refused(j) THEN Completed(j, cached[1]) ELSE j)
          /\ UNCHANGED saving
  /\ UNCHANGED <<served, repository, job, cached, online, editor, form, rollout, run, observed,
                 keys, confirmed, renewals, losses>>

\* Its refresh is answered.
GoOnSaving ==
  /\ saving # <<>> /\ cached # <<>>
  /\ SendSave(Completed(saving[1], cached[1])) /\ saving' = <<>>
  /\ UNCHANGED <<served, repository, job, cached, online, editor, form, rollout, run, observed,
                 past>>

CloseForm ==
  /\ form.open /\ form' = NoForm /\ Change
  /\ UNCHANGED <<served, repository, job, cached, online, toAgent, editor, saving, rollout,
                 run, observed, keys, confirmed, renewals, losses>>

CloseEditor ==
  /\ editor.open /\ editor' = NoEditor /\ Change
  /\ UNCHANGED <<served, repository, job, cached, online, toAgent, form, saving, rollout,
                 run, observed, keys, confirmed, renewals, losses>>

-----------------------------------------------------------------------------
(***************************************************************************)
(* Runs, and the fingerprint they pin.                                     *)
(***************************************************************************)
\* A direct run takes the job's copy and measures; a tunnelled run's server
\* takes the repository's, and measures in the agent's place.
StartRun ==
  /\ run.stage = "none"
  /\ \/ run' = [stage |-> "probing", tunnelled |-> FALSE, stored |-> job.print, pin |-> NoCert]
     \/ /\ online /\ repository # <<>> /\ job.login = "managed"
        /\ run' = [stage |-> "probing", tunnelled |-> TRUE,
                   stored |-> repository[1].print, pin |-> NoCert]
  /\ UNCHANGED <<served, repository, job, cached, online, toAgent, editor, form, saving,
                 rollout, observed, past>>

\* The measurement passed the regular validation.
Vouched(c) == c \in Trusted

\* probeCertificate answers nothing: the stored value stands.
Unreachable ==
  /\ run.stage = "probing"
  /\ run' = [run EXCEPT !.stage = "pinned", !.pin = run.stored]
  /\ UNCHANGED <<served, repository, job, cached, online, toAgent, editor, form, saving,
                 rollout, observed, past>>

\* resolveFingerprint on the agent: a difference is reported, and adopted if vouched for,
\* which the job on disk is told too unless that write fails.
MeasuredDirect ==
  /\ run.stage = "probing" /\ ~run.tunnelled
  /\ observed' = IF served # run.stored /\ online THEN served ELSE observed
  /\ run' = [run EXCEPT !.stage = "pinned",
                        !.pin = IF Vouched(served) THEN served ELSE run.stored]
  /\ IF served # run.stored /\ Vouched(served)
     THEN job' \in {job, [job EXCEPT !.print = served]} ELSE job' = job
  /\ UNCHANGED <<served, repository, cached, online, toAgent, editor, form, saving, rollout,
                 past>>

\* resolveFingerprint of the lease on the server.
MeasuredForLease ==
  /\ run.stage = "probing" /\ run.tunnelled
  /\ run' = [run EXCEPT !.stage = "pinned",
                        !.pin = IF Vouched(served) THEN served ELSE run.stored]
  /\ UNCHANGED <<served, repository, job, cached, online, toAgent, editor, form, saving,
                 rollout, observed, past>>

EndRun ==
  /\ run.stage = "pinned" /\ run' = NoRun
  /\ UNCHANGED <<served, repository, job, cached, online, toAgent, editor, form, saving,
                 rollout, observed, past>>

\* A restart of the server forgets what agents observed, and every session.
RestartServer ==
  /\ losses < MaxLosses /\ losses' = losses + 1
  /\ online' = FALSE /\ cached' = <<>> /\ toAgent' = <<>> /\ saving' = <<>> /\ rollout' = <<>>
  /\ observed' = NoCert
  /\ UNCHANGED <<served, repository, job, editor, form, run, keys, confirmed, changes, renewals>>

Next ==
  \/ Connect \/ Disconnect \/ RestartServer \/ Refresh \/ AgentSaves \/ Renew
  \/ OpenEditor \/ CheckCertificate \/ Adopt \/ SaveRepository \/ DeleteRepository
  \/ CloseEditor \/ Distribute \/ RollOut
  \/ OpenForm \/ SelectRepository \/ SwitchOff \/ SwitchOn \/ Generated \/ DropKey
  \/ SaveForm \/ GoOnSaving \/ CloseForm
  \/ StartRun \/ Unreachable \/ MeasuredDirect \/ MeasuredForLease \/ EndRun

-----------------------------------------------------------------------------
\* Every fingerprint a run pins is one an operator stored or a CA vouched for,
\* whichever copy it came through; what agents report gets there by a save only.
PinsAreVouchedFor ==
  run.stage = "pinned" => run.pin \in Trusted \cup confirmed

\* The agent never loses the secret to a job the browser saw without it, and
\* never sends one login's secret to another.
SecretsSurvive ==
  IF job.login = "old" THEN job.secret = OldSecret ELSE job.secret \in 1..MaxSecrets

\* No job is stored with encryption on and no key, which would run in plain text.
EncryptedHasKey == job.enabled <=> job.key # NoKey

\* The copies of a job's credentials hold what its runs may rely on.
CredentialsHold == PinsAreVouchedFor /\ SecretsSurvive /\ EncryptedHasKey
=============================================================================
