------------------------------ MODULE MCStores ------------------------------
(***************************************************************************)
(* Things that are held in more than one place and share no state here,    *)
(* one to a behaviour: the jobs of an agent, the lists of a dashboard, the *)
(* secrets of the server, and what an operator is about to save or to      *)
(* restore.                                                                *)
(***************************************************************************)
EXTENDS JobConfig

CONSTANTS
  MaxChanges, MaxListFaults,
  MaxKeys, MaxKills, MaxFileEdits,
  MaxForms, MaxSaves, MaxGone,
  Clients, MaxAsked, MaxSteps

VARIABLES
  part,  \* the one this behaviour is about
  list, listNow, data, marked, reading, onPage, sock, pushes, call, overlooked, listFaults,
  file, writable, stage, key, unsaved, parsed, rebuild, logged, held, layers, hashes, made, torn,
  edited, kills, fileEdits,
  place, form, question, calls, stored, gone, forms, saves,
  page, locked, draft, dir, files, failed, listing, dialog, starting, begun, late, posts,
  confirmed, triggered, runs, online, tunnels, seen, asked, steps

ASSUME StoresAssumption ==
  /\ {MaxChanges, MaxListFaults, MaxKeys, MaxKills, MaxFileEdits} \subseteq Nat
  /\ {MaxForms, MaxSaves, MaxGone, MaxAsked, MaxSteps} \subseteq Nat
  /\ Clients # {}

\* One of each kind of editor, and what is next to it where that makes a difference.
EditorPages == {<<"client", "one">>, <<"client", "two">>, <<"repository", "new">>,
                <<"job", "one">>, <<"webhook", "one">>, <<"user", "one">>}

Lists == INSTANCE QueryCache
  WITH now <- listNow, shown <- onPage, faults <- listFaults, MaxFaults <- MaxListFaults
Config == INSTANCE Secrets WITH edits <- fileEdits, MaxEdits <- MaxFileEdits
Forms == INSTANCE Editors WITH Pages <- EditorPages
Restore == INSTANCE RestoreForm WITH shown <- seen, started <- begun

cacheVars == <<list, listNow, data, marked, reading, onPage, sock, pushes, call, overlooked,
               listFaults>>
secretsVars == <<file, writable, stage, key, unsaved, parsed, rebuild, logged, held, layers,
                 hashes, made, torn, edited, kills, fileEdits>>
formVars == <<place, form, question, calls, stored, gone, forms, saves>>
restoreVars == <<page, locked, draft, dir, files, failed, listing, dialog, starting, begun, late,
                 posts, confirmed, triggered, runs, online, tunnels, seen, asked, steps>>

MCInit ==
  /\ part \in {"jobs", "lists", "secrets", "editors", "restore"}
  /\ Init /\ Lists!Init /\ Config!Init /\ Forms!Init /\ Restore!Init
  /\ part # "lists" => list = "jobs"
  /\ part # "secrets" => writable /\ held /\ rebuild = "logged"

MCNext ==
  \/ part = "jobs" /\ Next /\ UNCHANGED <<part, cacheVars, secretsVars, formVars, restoreVars>>
  \/ part = "lists" /\ Lists!Next /\ UNCHANGED <<part, vars, secretsVars, formVars, restoreVars>>
  \/ part = "secrets" /\ Config!Next /\ UNCHANGED <<part, vars, cacheVars, formVars, restoreVars>>
  \/ part = "editors" /\ Forms!Next /\ UNCHANGED <<part, vars, cacheVars, secretsVars, restoreVars>>
  \/ part = "restore" /\ Restore!Next /\ UNCHANGED <<part, vars, cacheVars, secretsVars, formVars>>

MCSpec == MCInit /\ [][MCNext]_<<part, vars, cacheVars, secretsVars, formVars, restoreVars>> /\ Fairness

\* A list on screen shows what the server holds, but for the changes that may be
\* missing (QueryCache).
ListsKept == part = "lists" => Lists!ShowsEveryChange

\* What the server stored encrypted can be read after any restart, but for the
\* reasons given there (Secrets).
SecretsStored == part = "secrets" => Config!SecretsKept

\* An editor keeps what is typed until it is stored or given up (Editors).
EditorsKept == [](part = "editors" => Forms!FormKept) /\ [][part = "editors" => Forms!TypingKept]_formVars

\* A restore runs as it was confirmed, and the form tells of it (RestoreForm).
RestoreKept == part = "restore" => Restore!RestoreHolds
=============================================================================
