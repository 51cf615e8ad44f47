---------------------------- MODULE MCServerWeb ----------------------------
(***************************************************************************)
(* Five parts of the server and its dashboard that share no state here,    *)
(* one to a behaviour: the sessions of the dashboard, the registration of  *)
(* agents, the webhooks, what a tab of the dashboard shows, and the        *)
(* credentials of jobs and repositories.                                   *)
(***************************************************************************)
EXTENDS Sessions, Registration, Webhooks

CONSTANTS MaxRuns, MaxOutages, MaxDrops, MaxMarks, MaxTroubles, MaxPushes,
          Certs, Trusted, NoCert, MaxSecrets, MaxKeys, MaxChanges, MaxRenewals, MaxLosses

VARIABLES
  part,  \* the one this behaviour is about
  shown, agent, online, row, below, marked, socketOf, pushes, connected, entry,
  fetch, answer, reported, asked, toasts, told, gap, outages, drops, marks,
  served, repository, job, cached, agentOnline, toAgent, editor, form, saving, rollout,
  run, observed, keys, confirmed, changes, renewals, losses

ASSUME TabAssumption ==
  /\ MaxRuns \in Nat \ {0}
  /\ {MaxOutages, MaxDrops, MaxMarks, MaxTroubles, MaxPushes} \subseteq Nat

ASSUME CredentialsAssumption ==
  /\ {MaxSecrets, MaxKeys, MaxChanges, MaxRenewals, MaxLosses} \subseteq Nat
  /\ MaxSecrets > 0 /\ Trusted \subseteq Certs /\ NoCert \notin Certs

Tab == INSTANCE Dashboard WITH socket <- socketOf
Copies == INSTANCE Credentials WITH online <- agentOnline

tabVars == <<shown, agent, online, row, below, marked, socketOf, pushes, connected, entry,
             fetch, answer, reported, asked, toasts, told, gap, outages, drops, marks>>

credentialsVars == <<served, repository, job, cached, agentOnline, toAgent, editor, form,
                     saving, rollout, run, observed, keys, confirmed, changes, renewals, losses>>

serverVars == <<part, sessionsVars, registrationVars, webhooksVars, tabVars, credentialsVars>>

MCMethodSets == {{"local"}, {"oidc"}}

MCInit ==
  /\ part \in {"sessions", "registration", "webhooks", "tab", "credentials"}
  /\ SessionsInit /\ RegistrationInit /\ WebhooksInit /\ Tab!Init /\ Copies!Init
  /\ part # "tab" => shown = "latest"
  /\ part # "credentials" => served = (CHOOSE c \in Certs : TRUE) /\ job.login = "old"

MCNext ==
  \/ /\ part = "sessions" /\ SessionsNext
     /\ UNCHANGED <<part, registrationVars, webhooksVars, tabVars, credentialsVars>>
  \/ /\ part = "registration" /\ RegistrationNext
     /\ UNCHANGED <<part, sessionsVars, webhooksVars, tabVars, credentialsVars>>
  \/ /\ part = "webhooks" /\ WebhooksNext
     /\ UNCHANGED <<part, sessionsVars, registrationVars, tabVars, credentialsVars>>
  \/ /\ part = "tab" /\ Tab!Next
     /\ UNCHANGED <<part, sessionsVars, registrationVars, webhooksVars, credentialsVars>>
  \/ /\ part = "credentials" /\ Copies!Next
     /\ UNCHANGED <<part, sessionsVars, registrationVars, webhooksVars, tabVars>>

MCSpec == MCInit /\ [][MCNext]_serverVars

\* A tab shows what the server would answer, and tells no run twice (Dashboard).
TabAgrees == part = "tab" => Tab!ShownAgrees /\ Tab!TabHolds

\* The copies of a job's credentials hold what its runs rely on (Credentials).
CredentialsKept == part = "credentials" => Copies!CredentialsHold
=============================================================================
