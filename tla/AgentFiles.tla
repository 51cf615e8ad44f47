----------------------------- MODULE AgentFiles -----------------------------
(***************************************************************************)
(* What an agent keeps on disk, and what a process that is killed or a     *)
(* host that loses power leaves of it: its jobs, of which there is no      *)
(* other copy, the state of their schedules, its identity, and what older  *)
(* versions kept elsewhere, the jobs in client.db and the identity in      *)
(* config.yaml (DataStore, ConfigFile, LegacyImport, Identity and the      *)
(* repositories of the agent).                                             *)
(*                                                                         *)
(* `files' is what a process reads, `safe' what a power cut may leave of   *)
(* it.  The agent writes synchronously, so nothing but the end of the      *)
(* process comes between the steps of a write.  A content is told by what  *)
(* is in it for a human (holds) and by what the agent can read (reads).    *)
(*                                                                         *)
(* `told', `deleted' and `identified' are histories: what the agent        *)
(* confirmed as stored or deleted.  `unwanted' are the jobs whose deletion *)
(* was asked for, `damaged' the files somebody else broke.                 *)
(***************************************************************************)
EXTENDS Naturals, FiniteSets

CONSTANTS
  OldJobs, NewJobs,  \* the jobs in client.db, and those saved later
  MaxIdentities,     \* identities issued, the first of which config.yaml may hold
  MaxFaults,         \* writes that fail
  MaxEnds,           \* processes that end
  MaxDamages         \* files damaged by others

Jobs       == OldJobs \cup NewJobs
Nobody     == 0
Names      == {"jobs", "schedule", "identity", "config"}

VARIABLES
  files, safe, aside,   \* aside: contents renamed to *.corrupt-*
  database,             \* "none", "there" or "migrated"
  stage,                \* of the process
  write,                \* <<>> or the write it is in
  jobs, states, identity,  \* in memory
  told, unwanted, deleted, identified, damaged,
  faults, ends

disk   == <<files, safe, aside, database>>
memory == <<jobs, states, identity>>
past   == <<told, unwanted, deleted, identified, damaged>>
vars   == <<disk, stage, write, memory, past, faults, ends>>

Missing == [there |-> FALSE, json |-> FALSE, holds |-> {}, reads |-> {}]
File(S) == [there |-> TRUE, json |-> TRUE, holds |-> S, reads |-> S]
Torn    == [there |-> TRUE, json |-> FALSE, holds |-> {}, reads |-> {}]

Put(f, c) == files' = [files EXCEPT ![f] = c]

Init ==
  /\ \E old \in BOOLEAN, id \in {{}, {1}} :
       /\ files = [f \in Names |-> IF f = "config" THEN File(id) ELSE Missing]
       /\ database = IF old THEN "there" ELSE "none"
       /\ told = IF old THEN OldJobs ELSE {}
       /\ identified = IF id = {} THEN Nobody ELSE 1
  /\ safe = [f \in Names |-> {files[f]}] /\ aside = {}
  /\ stage = "down" /\ write = <<>>
  /\ jobs = {} /\ states = {} /\ identity = Nobody
  /\ unwanted = {} /\ deleted = {} /\ damaged = {} /\ faults = 0 /\ ends = 0

-----------------------------------------------------------------------------
(***************************************************************************)
(* writeJsonFile.                                                          *)
(***************************************************************************)
Write(f, S, why) ==
  write' = <<[file |-> f, content |-> File(S), why |-> why, synced |-> FALSE, renamed |-> FALSE]>>

\* The temporary file is written; fsync makes it durable.
SyncTemporary ==
  /\ write # <<>> /\ ~write[1].synced
  /\ write' = <<[write[1] EXCEPT !.synced = TRUE]>>
  /\ UNCHANGED <<disk, stage, memory, past, faults, ends>>

\* Mutant: the rename does not wait for the sync.
RenamesEarly(w) == ~w.renamed

MayRename(w) == w.synced /\ ~w.renamed

\* The rename shows at once; before the directory is synced, a power cut may undo
\* it, and of content that was not synced it leaves an empty file.
RenameTemporary ==
  /\ write # <<>> /\ MayRename(write[1])
  /\ LET w == write[1] IN
     /\ Put(w.file, w.content)
     /\ safe' = [safe EXCEPT ![w.file] = @ \cup {IF w.synced THEN w.content ELSE Torn}]
     /\ write' = <<[w EXCEPT !.synced = TRUE, !.renamed = TRUE]>>
  /\ UNCHANGED <<aside, database, stage, memory, past, faults, ends>>

\* syncDirectory, after which only what was renamed last is left.
Synced(w) == safe' = [safe EXCEPT ![w.file] = {CHOOSE c \in @ : c = w.content \/ c = Torn}]

-----------------------------------------------------------------------------
(***************************************************************************)
(* What goes on after a write, `ok' or not.                                *)
(***************************************************************************)
\* pruneOrphans, with the jobs that were loaded.
Prune(loaded) ==
  LET kept == files.schedule.reads \cap loaded IN
  /\ jobs' = loaded /\ states' = kept
  /\ IF kept = files.schedule.reads
     THEN stage' = "running" /\ write' = <<>>
     ELSE stage' = "loading" /\ Write("schedule", kept, "prune")

\* The import stops the agent when it could not write.
AfterImport(w, ok) ==
  /\ IF ~ok THEN stage' = "down" /\ write' = <<>>
     ELSE IF w.why = "import states" THEN stage' = stage /\ Write("jobs", OldJobs, "import jobs")
     ELSE stage' = "imported" /\ write' = <<>>
  /\ UNCHANGED <<memory, told, unwanted, deleted, identified>>

\* JobRepository.commit adopts a list that is on disk; a deleted job's state goes next.
AfterSave(w, ok) ==
  /\ LET S == w.content.holds  gone == jobs \ S IN
     /\ jobs' = IF ok THEN S ELSE jobs
     /\ told' = IF ok THEN (told \ gone) \cup S ELSE told
     /\ deleted' = IF ok THEN deleted \cup gone ELSE deleted
     /\ states' = IF ok THEN states \ gone ELSE states
     /\ IF states' = states THEN write' = <<>> ELSE Write("schedule", states', "run")
  /\ UNCHANGED <<stage, identity, unwanted, identified>>

AfterRepair(w, ok) == Prune(w.content.reads) /\ UNCHANGED <<identity, told, unwanted, deleted, identified>>

\* A state that could not be written is held in memory.
AfterStates(w, ok) ==
  /\ stage' = "running" /\ write' = <<>>
  /\ UNCHANGED <<memory, told, unwanted, deleted, identified>>

\* migrateFromConfigFile: the keys are removed once the identity is stored.
AfterMigration(w, ok) ==
  /\ stage' = IF ok THEN "clearing" ELSE "identified"
  /\ write' = <<>>
  /\ UNCHANGED <<memory, told, unwanted, deleted, identified>>

\* setIdentity holds it in memory either way, and says whether it was stored.
AfterRegistration(w, ok) ==
  /\ stage' = IF stage = "running" THEN "running" ELSE "idle"
  /\ write' = <<>>
  /\ identified' = IF ok THEN identity ELSE identified
  /\ UNCHANGED <<memory, told, unwanted, deleted>>

After(w, ok) ==
  /\ UNCHANGED <<aside, database, damaged, ends>>
  /\ CASE w.why \in {"import states", "import jobs"} -> AfterImport(w, ok)
       [] w.why = "save"     -> AfterSave(w, ok)
       [] w.why = "repair"   -> AfterRepair(w, ok)
       [] w.why \in {"prune", "run"} -> AfterStates(w, ok)
       [] w.why = "migrate"  -> AfterMigration(w, ok)
       [] w.why = "register" -> AfterRegistration(w, ok)

EndWrite ==
  /\ write # <<>> /\ write[1].renamed
  /\ Synced(write[1]) /\ After(write[1], TRUE)
  /\ UNCHANGED <<files, faults>>

\* The temporary file could not be written, synced or renamed: it is removed.
FailWrite ==
  /\ write # <<>> /\ ~write[1].renamed /\ faults < MaxFaults
  /\ faults' = faults + 1
  /\ After(write[1], FALSE)
  /\ UNCHANGED <<files, safe>>

-----------------------------------------------------------------------------
(***************************************************************************)
(* A start of the agent.                                                   *)
(***************************************************************************)
Goes(from, to) == stage = from /\ write = <<>> /\ stage' = to

\* quarantineFile, whose rename is not synced.
SetAside(f) ==
  /\ Put(f, Missing) /\ safe' = [safe EXCEPT ![f] = @ \cup {Missing}]
  /\ aside' = aside \cup {files[f]}

Legible(f) == files[f].there /\ files[f].reads # {}

\* readFromDisk, else what config.yaml still holds.
ReadIdentity ==
  /\ stage = "down" /\ write = <<>> /\ ends <= MaxEnds
  /\ jobs' = {} /\ states' = {}
  /\ IF Legible("identity")
     THEN /\ identity' = CHOOSE i \in files.identity.reads : TRUE
          /\ stage' = "identified" /\ UNCHANGED <<disk, write>>
     ELSE /\ IF files.identity.there THEN SetAside("identity") /\ UNCHANGED database
             ELSE UNCHANGED disk
          /\ IF Legible("config")
             THEN /\ identity' = CHOOSE i \in files.config.reads : TRUE
                  /\ stage' = "migrating" /\ Write("identity", files.config.reads, "migrate")
             ELSE identity' = Nobody /\ stage' = "identified" /\ UNCHANGED write
  /\ UNCHANGED <<past, faults, ends>>

\* config.yaml is written in place, which may fail.
ClearConfig ==
  /\ Goes("clearing", "identified")
  /\ \/ Put("config", File({})) /\ safe' = [safe EXCEPT !["config"] = {File({}), Torn}]
        /\ UNCHANGED faults
     \/ /\ faults < MaxFaults /\ faults' = faults + 1
        /\ UNCHANGED <<files, safe>>
  /\ UNCHANGED <<aside, database, write, memory, past, ends>>

\* importLegacyDatabase, with a database and no jobs.json: the states first.
Import ==
  /\ stage = "identified" /\ write = <<>> /\ database = "there" /\ ~files.jobs.there
  /\ stage' = "importing" /\ Write("schedule", OldJobs, "import states")
  /\ UNCHANGED <<disk, memory, past, faults, ends>>

\* The database is renamed last.
RenameDatabase ==
  /\ Goes("imported", "idle")
  /\ database' = "migrated"
  /\ UNCHANGED <<files, safe, aside, write, memory, past, faults, ends>>

SkipImport ==
  /\ Goes("identified", "idle") /\ (database = "there" => files.jobs.there)
  /\ UNCHANGED <<disk, write, memory, past, faults, ends>>

\* startAgentActivity loads the jobs: a file that is no JSON is set aside, and so
\* is one with entries that do not parse, of which the others are written back.
Load ==
  /\ stage = "idle" /\ write = <<>> /\ identity # Nobody
  /\ LET f == files.jobs IN
     IF f.there /\ f.reads # f.holds
     THEN /\ SetAside("jobs") /\ UNCHANGED database
          /\ IF f.json
             THEN /\ stage' = "loading" /\ Write("jobs", f.reads, "repair")
                  /\ UNCHANGED <<jobs, states>>
             ELSE Prune({})
     ELSE Prune(f.reads) /\ UNCHANGED disk
  /\ UNCHANGED <<identity, past, faults, ends>>

-----------------------------------------------------------------------------
(***************************************************************************)
(* A running agent, and what ends it.                                      *)
(***************************************************************************)
Writes(f, S, why) ==
  /\ write = <<>> /\ Write(f, S, why)
  /\ UNCHANGED <<disk, stage, jobs, told, deleted, identified, damaged, faults, ends>>

SaveJob(j) ==
  /\ stage = "running" /\ j \in NewJobs \ jobs /\ j \notin deleted
  /\ Writes("jobs", jobs \cup {j}, "save") /\ UNCHANGED <<states, identity, unwanted>>

DeleteJob(j) ==
  /\ stage = "running" /\ j \in jobs
  /\ Writes("jobs", jobs \ {j}, "save") /\ unwanted' = unwanted \cup {j}
  /\ UNCHANGED <<states, identity>>

\* The scheduler notes a job's next run.
NoteRun(j) ==
  /\ stage = "running" /\ j \in jobs \ states
  /\ states' = states \cup {j}
  /\ Writes("schedule", states \cup {j}, "run") /\ UNCHANGED <<identity, unwanted>>

Register ==
  /\ stage \in {"idle", "running"} /\ identity < MaxIdentities
  /\ identity' = identity + 1
  /\ Writes("identity", {identity + 1}, "register") /\ UNCHANGED <<states, unwanted>>

End ==
  /\ stage # "down" /\ ends < MaxEnds
  /\ ends' = ends + 1
  /\ stage' = "down" /\ write' = <<>>
  /\ jobs' = {} /\ states' = {} /\ identity' = Nobody

\* The process is killed: what it wrote is there.
Kill ==
  /\ End /\ UNCHANGED <<disk, past, faults>>

\* The host loses power: of each file there is what was durable.
LosePower ==
  /\ End
  /\ files' \in [Names -> UNION {safe[f] : f \in Names}]
  /\ \A f \in Names : files'[f] \in safe[f]
  /\ safe' = [f \in Names |-> {files'[f]}]
  /\ UNCHANGED <<aside, database, past, faults>>

\* Somebody breaks a file: it is no JSON any more, or an entry does not parse.
Damage ==
  /\ stage = "down" /\ Cardinality(damaged) < MaxDamages
  /\ \E f \in {"jobs", "schedule", "identity"} :
       /\ files[f].there /\ files[f].holds # {}
       /\ damaged' = damaged \cup {f}
       /\ \/ Put(f, [files[f] EXCEPT !.json = FALSE, !.reads = {}])
          \/ \E x \in files[f].reads : Put(f, [files[f] EXCEPT !.reads = @ \ {x}])
       /\ safe' = [safe EXCEPT ![f] = {files'[f]}]
  /\ UNCHANGED <<aside, database, stage, write, memory, told, unwanted, deleted, identified, faults, ends>>

Next ==
  \/ SyncTemporary \/ RenameTemporary \/ EndWrite \/ FailWrite
  \/ ReadIdentity \/ ClearConfig \/ Import \/ RenameDatabase \/ SkipImport \/ Load
  \/ \E j \in Jobs : SaveJob(j) \/ DeleteJob(j) \/ NoteRun(j)
  \/ Register \/ Kill \/ LosePower \/ Damage

-----------------------------------------------------------------------------
\* A job the agent confirmed is on disk for somebody to find at every moment,
\* even in a file that was damaged, and whatever write was cut short.
JobsAreKept ==
  told \ unwanted \subseteq (UNION {c.holds : c \in aside \cup {files.jobs}})
                 \cup (IF database = "there" THEN OldJobs ELSE {})

\* A running agent has every job it confirmed and none that it deleted, those of
\* an older installation included, unless its file was damaged.
RunsItsJobs ==
  stage = "running" /\ "jobs" \notin damaged =>
    told \ unwanted \subseteq jobs /\ jobs \cap deleted = {}

\* Imported jobs come with the times they are due at.
StatesCome ==
  stage = "running" /\ damaged \cap {"jobs", "schedule"} = {} =>
    (OldJobs \cap told) \ unwanted \subseteq states

\* A restarted agent is who it was, or who it became since.
StaysItself ==
  stage \in {"idle", "running"} /\ "identity" \notin damaged => identity >= identified

\* An agent's files survive whatever ends its process.
FilesHold == JobsAreKept /\ RunsItsJobs /\ StatesCome /\ StaysItself
=============================================================================
