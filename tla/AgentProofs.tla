----------------------------- MODULE AgentProofs -----------------------------
(***************************************************************************)
(* Proofs about two parts of an agent: its files (AgentFiles), for any     *)
(* jobs, however often its process ends, a write fails or a file is        *)
(* damaged, and its schedules (Scheduler), for any calendar, schedule and  *)
(* length of time.                                                         *)
(***************************************************************************)
EXTENDS MCAgent, FiniteSetTheorems, WellFoundedInduction, TLAPS
-----------------------------------------------------------------------------
(***************************************************************************)
(* The files of an agent: the inductive invariant.  A power cut may leave  *)
(* of each file any content in `safe', so what is said of a file is said   *)
(* of all of them.  A content is given by what it holds.                   *)
(***************************************************************************)
Shaped(c) == /\ c = [there |-> c.there, json |-> c.json, holds |-> c.holds, reads |-> c.reads]
             /\ ~c.there => c = Files!Missing
Whole(c) == c = Files!Missing \/ c = Files!File(c.holds)

\* What an agent has to run, and where a job may be found besides jobs.json.
Owed == confirmed \ unwanted
Legacy == IF database = "there" THEN OldJobs ELSE {}
Spared == (UNION {c.holds : c \in aside}) \cup Legacy
Due == (OldJobs \cap confirmed) \ unwanted

\* A list of jobs that loses none, and one that is also right.
Keeps(S) == Owed \subseteq S \cup Spared
Fits(S) == Owed \subseteq S /\ S \cap deleted = {} /\ OldJobs \cap S \subseteq confirmed

Loaded == stage \in {"loading", "running"}

DiskHolds ==
  /\ files = [f \in Files!Names |-> files[f]] /\ safe = [f \in Files!Names |-> safe[f]]
  /\ \A f \in Files!Names : files[f] \in safe[f] /\ \A c \in safe[f] : Shaped(c)
  /\ \A f \in Files!Names \ {"config"} : Files!Torn \notin safe[f]
  /\ safe["config"] \subseteq {Files!File({}), Files!File({1}), Files!Torn}

\* Which write belongs to which stage.
Belongs(w) ==
  \/ w.why = "import states" /\ w.file = "schedule" /\ stage = "importing" /\ w.content = Files!File(OldJobs)
  \/ w.why = "import jobs" /\ w.file = "jobs" /\ stage = "importing" /\ w.content = Files!File(OldJobs)
  \/ w.why = "save" /\ w.file = "jobs" /\ stage = "running"
  \/ w.why = "repair" /\ w.file = "jobs" /\ stage = "loading" /\ "jobs" \in damaged
  \/ w.why = "prune" /\ w.file = "schedule" /\ stage = "loading"
  \/ w.why = "run" /\ w.file = "schedule" /\ stage = "running"
  \/ w.why = "migrate" /\ w.file = "identity" /\ stage = "migrating"
  \/ w.why = "register" /\ w.file = "identity" /\ stage \in {"idle", "running"}
Written(w) ==
  /\ w = [file |-> w.file, content |-> w.content, why |-> w.why, synced |-> w.synced, renamed |-> w.renamed]
  /\ Belongs(w) /\ w.content = Files!File(w.content.holds)
  /\ w.renamed => files[w.file] = w.content
WriteHolds == write = <<>> \/ (write = <<write[1]>> /\ Written(write[1]))
Writing(f) == write # <<>> /\ write[1].file = f

JobsHold ==
  /\ \A c \in safe["jobs"] : Keeps(c.holds)
  /\ Loaded => Keeps(jobs)
  /\ Writing("jobs") => Keeps(write[1].content.holds)
  /\ stage \in {"importing", "imported"} => database = "there" /\ Owed \subseteq Spared
  /\ stage = "imported" => safe["jobs"] = {Files!File(OldJobs)}

JobsFit == "jobs" \notin damaged =>
  /\ \A c \in safe["jobs"] : Whole(c) /\ (c # Files!Missing => Fits(c.holds))
  /\ Files!Missing \in safe["jobs"] \/ stage = "importing" => deleted = {} /\ confirmed = Legacy
  /\ stage = "idle" \/ Loaded => (database = "there" => files["jobs"].there)
  /\ Loaded => Fits(jobs)
  /\ Writing("jobs") => Fits(write[1].content.holds)

StatesFit == damaged \cap {"jobs", "schedule"} = {} =>
  /\ \A c \in safe["schedule"] : Whole(c)
  /\ (\E c \in safe["jobs"] : c.there) \/ (Writing("jobs") /\ stage = "importing") =>
       \A c \in safe["schedule"] : Due \subseteq c.reads
  /\ Loaded => Due \subseteq states
  /\ Writing("schedule") => Due \subseteq write[1].content.reads

IdentityFits == "identity" \notin damaged =>
  /\ identified \in Nat
  /\ \A c \in safe["identity"] :
              c = Files!Missing \/ \E i \in Nat : c = Files!File({i}) /\ i >= identified
  /\ Files!Missing \in safe["identity"] =>
       identified = 0 \/ (identified = 1 /\ safe["config"] = {Files!File({1})})
  /\ stage # "down" => identity \in Nat /\ identity >= identified
  /\ stage = "clearing" => Files!Missing \notin safe["identity"]
  /\ Writing("identity") => write[1].content = Files!File({identity})

\* On disk: what a power cut may leave.  In jobs.json: nothing is lost, and in one
\* that nobody damaged everything is right.  In the schedule: what is due.
FInv == DiskHolds /\ WriteHolds /\ JobsHold /\ JobsFit /\ StatesFit /\ IdentityFits

-----------------------------------------------------------------------------
(***************************************************************************)
(* The end of a process, and damage.                                       *)
(***************************************************************************)
LEMMA KillKeeps == FInv /\ Files!Kill => FInv'
<1> SUFFICES ASSUME FInv, Files!Kill PROVE FInv'
  OBVIOUS
<1> USE DEF FInv, Files!Kill, Files!End, Files!disk, Files!past
<1>1. DiskHolds'
  BY DEF DiskHolds, Shaped
<1>2. WriteHolds'
  BY DEF WriteHolds
<1>3. JobsHold'
  BY DEF JobsHold, Keeps, Owed, Spared, Legacy, Loaded, Writing
<1>4. JobsFit'
  BY DEF JobsFit, Fits, Owed, Legacy, Loaded, Writing, Whole
<1>5. StatesFit'
  BY DEF StatesFit, Due, Loaded, Writing, Whole
<1>6. IdentityFits'
  BY DEF IdentityFits, Writing
<1> QED
  BY <1>1, <1>2, <1>3, <1>4, <1>5, <1>6

LEMMA LosePowerKeeps == FInv /\ Files!LosePower => FInv'
<1> SUFFICES ASSUME FInv, Files!LosePower PROVE FInv'
  OBVIOUS
<1> USE DEF FInv
<1>0. /\ stage' = "down" /\ write' = <<>>
      /\ files' \in [Files!Names -> UNION {safe[f] : f \in Files!Names}]
      /\ \A f \in Files!Names : files'[f] \in safe[f]
      /\ safe' = [f \in Files!Names |-> {files'[f]}]
      /\ UNCHANGED <<aside, database, confirmed, unwanted, deleted, identified, damaged>>
  BY DEF Files!LosePower, Files!End, Files!past
<1>a. \A f \in Files!Names : safe'[f] = {files'[f]} /\ safe'[f] \subseteq safe[f]
  BY <1>0
<1>b. /\ safe'["jobs"] \subseteq safe["jobs"] /\ safe'["schedule"] \subseteq safe["schedule"]
      /\ safe'["identity"] \subseteq safe["identity"] /\ safe'["config"] \subseteq safe["config"]
      /\ safe'["config"] = {files'["config"]}
  BY <1>a DEF Files!Names
<1>1. DiskHolds'
  <2>1. files' = [f \in Files!Names |-> files'[f]] /\ safe' = [f \in Files!Names |-> safe'[f]]
    BY <1>0
  <2>2. \A f \in Files!Names : files'[f] \in safe'[f] /\ \A c \in safe'[f] : Shaped(c)
    BY <1>a DEF DiskHolds
  <2>3. \A f \in Files!Names \ {"config"} : Files!Torn \notin safe'[f]
    BY <1>a DEF DiskHolds
  <2>4. safe'["config"] \subseteq {Files!File({}), Files!File({1}), Files!Torn}
    BY <1>b DEF DiskHolds
  <2> QED
    BY <2>1, <2>2, <2>3, <2>4 DEF DiskHolds, Shaped
<1>2. WriteHolds'
  BY <1>0 DEF WriteHolds
<1>3. JobsHold'
  BY <1>0, <1>b DEF JobsHold, Keeps, Owed, Spared, Legacy, Loaded, Writing
<1>4. JobsFit'
  BY <1>0, <1>b DEF JobsFit, Fits, Owed, Legacy, Loaded, Writing, Whole
<1>5. StatesFit'
  BY <1>0, <1>b DEF StatesFit, Due, Loaded, Writing, Whole
<1>6. IdentityFits'
  BY <1>0, <1>b DEF IdentityFits, Writing
<1> QED
  BY <1>1, <1>2, <1>3, <1>4, <1>5, <1>6

LEMMA DamageKeeps == FInv /\ Files!Damage => FInv'
<1> SUFFICES ASSUME FInv, Files!Damage PROVE FInv'
  OBVIOUS
<1> USE DEF FInv
<1>0. PICK f \in {"jobs", "schedule", "identity"} :
        /\ files[f].there /\ files[f].holds # {}
        /\ damaged' = damaged \cup {f}
        /\ \/ files' = [files EXCEPT ![f] = [files[f] EXCEPT !.json = FALSE, !.reads = {}]]
           \/ \E x \in files[f].reads : files' = [files EXCEPT ![f] = [files[f] EXCEPT !.reads = @ \ {x}]]
        /\ safe' = [safe EXCEPT ![f] = {files'[f]}]
  BY Zenon DEF Files!Damage, Files!Put
<1>u. /\ stage = "down" /\ UNCHANGED <<aside, database, stage, write, jobs, states, identity,
                                       confirmed, unwanted, deleted, identified>>
  BY DEF Files!Damage, Files!memory
<1>n. f \in Files!Names \ {"config"}
  BY DEF Files!Names
<1>s. Shaped(files[f]) /\ files[f] \in safe[f]
  BY <1>n DEF DiskHolds
<1>e. /\ \A g \in Files!Names \ {f} : files'[g] = files[g] /\ safe'[g] = safe[g]
      /\ safe'[f] = {files'[f]}
  BY <1>0, <1>n DEF DiskHolds
<1>k. /\ Shaped(files'[f]) /\ files'[f].there /\ files'[f].holds = files[f].holds
      /\ files'[f] # Files!Torn
  <2>1. CASE files' = [files EXCEPT ![f] = [files[f] EXCEPT !.json = FALSE, !.reads = {}]]
    <3>1. files'[f] = [there |-> TRUE, json |-> FALSE, holds |-> files[f].holds, reads |-> {}]
      BY <1>0, <1>n, <1>s, <2>1 DEF DiskHolds, Shaped
    <3> QED
      BY <1>0, <3>1 DEF Shaped, Files!Torn
  <2>2. CASE \E x \in files[f].reads : files' = [files EXCEPT ![f] = [files[f] EXCEPT !.reads = @ \ {x}]]
    <3>0. PICK x : files' = [files EXCEPT ![f] = [files[f] EXCEPT !.reads = @ \ {x}]]
      BY <2>2
    <3>1. files'[f] = [there |-> TRUE, json |-> files[f].json, holds |-> files[f].holds,
                       reads |-> files[f].reads \ {x}]
      BY <1>0, <1>n, <1>s, <3>0 DEF DiskHolds, Shaped
    <3> QED
      BY <1>0, <3>1 DEF Shaped, Files!Torn
  <2> QED
    BY <1>0, <2>1, <2>2
<1>1. DiskHolds'
  <2>1. files' = [g \in Files!Names |-> files'[g]] /\ safe' = [g \in Files!Names |-> safe'[g]]
    BY <1>0 DEF DiskHolds
  <2>2. \A g \in Files!Names : files'[g] \in safe'[g] /\ \A c \in safe'[g] : Shaped(c)
    BY <1>e, <1>k DEF DiskHolds
  <2>3. \A g \in Files!Names \ {"config"} : Files!Torn \notin safe'[g]
    BY <1>e, <1>k DEF DiskHolds
  <2>4. safe'["config"] \subseteq {Files!File({}), Files!File({1}), Files!Torn}
    BY <1>e, <1>n DEF DiskHolds, Files!Names
  <2> QED
    BY <2>1, <2>2, <2>3, <2>4 DEF DiskHolds, Shaped
<1>2. WriteHolds'
  <2>1. write = <<>>
    BY <1>u DEF WriteHolds, Written, Belongs
  <2> QED
    BY <1>u, <2>1 DEF WriteHolds
<1>w. write = <<>> /\ write' = <<>>
  BY <1>u DEF WriteHolds, Written, Belongs
<1>3. JobsHold'
  <2>1. \A c \in safe'["jobs"] : Keeps(c.holds)
    BY <1>e, <1>k, <1>s DEF JobsHold, Files!Names
  <2> QED
    BY <1>u, <1>w, <2>1 DEF JobsHold, Keeps, Owed, Spared, Legacy, Loaded, Writing
<1>4. JobsFit'
  <2> SUFFICES ASSUME "jobs" \notin damaged' PROVE JobsFit'
    BY DEF JobsFit
  <2>1. f # "jobs" /\ "jobs" \notin damaged
    BY <1>0
  <2>2. safe'["jobs"] = safe["jobs"] /\ files'["jobs"] = files["jobs"]
    BY <1>e, <2>1 DEF Files!Names
  <2> QED
    BY <1>u, <1>w, <2>1, <2>2 DEF JobsFit, Fits, Owed, Legacy, Loaded, Writing, Whole
<1>5. StatesFit'
  <2> SUFFICES ASSUME damaged' \cap {"jobs", "schedule"} = {} PROVE StatesFit'
    BY DEF StatesFit
  <2>1. f \notin {"jobs", "schedule"} /\ damaged \cap {"jobs", "schedule"} = {}
    BY <1>0
  <2>2. safe'["jobs"] = safe["jobs"] /\ safe'["schedule"] = safe["schedule"]
    BY <1>e, <2>1 DEF Files!Names
  <2> QED
    BY <1>u, <1>w, <2>1, <2>2 DEF StatesFit, Due, Loaded, Writing, Whole
<1>6. IdentityFits'
  <2> SUFFICES ASSUME "identity" \notin damaged' PROVE IdentityFits'
    BY DEF IdentityFits
  <2>1. f # "identity" /\ "identity" \notin damaged
    BY <1>0
  <2>2. safe'["identity"] = safe["identity"] /\ safe'["config"] = safe["config"]
    BY <1>e, <1>n, <2>1 DEF Files!Names
  <2> QED
    BY <1>u, <1>w, <2>1, <2>2 DEF IdentityFits, Writing
<1> QED
  BY <1>1, <1>2, <1>3, <1>4, <1>5, <1>6

-----------------------------------------------------------------------------
(***************************************************************************)
(* A start.                                                                *)
(***************************************************************************)
LEMMA ReadIdentityKeeps == FInv /\ Files!ReadIdentity => FInv'
<1> SUFFICES ASSUME FInv, Files!ReadIdentity PROVE FInv'
  OBVIOUS
<1> USE DEF FInv
<1>u. /\ stage = "down" /\ write = <<>> /\ jobs' = {} /\ states' = {}
      /\ UNCHANGED <<confirmed, unwanted, deleted, identified, damaged>>
  BY DEF Files!ReadIdentity, Files!past
<1>d. /\ database' = database
      /\ \/ UNCHANGED <<files, safe, aside>>
         \/ /\ files["identity"].there /\ ~Files!Legible("identity")
            /\ files' = [files EXCEPT !["identity"] = Files!Missing]
            /\ safe' = [safe EXCEPT !["identity"] = @ \cup {Files!Missing}]
            /\ aside' = aside \cup {files["identity"]}
  BY DEF Files!ReadIdentity, Files!disk, Files!SetAside, Files!Put
<1>w. \/ stage' = "identified" /\ write' = <<>>
      \/ /\ stage' = "migrating"
         /\ write' = <<[file |-> "identity", content |-> Files!File(files["config"].reads), why |-> "migrate",
                        synced |-> FALSE, renamed |-> FALSE]>>
  BY <1>u DEF Files!ReadIdentity, Files!Write
<1>e. /\ safe'["jobs"] = safe["jobs"] /\ files'["jobs"] = files["jobs"]
      /\ safe'["schedule"] = safe["schedule"] /\ files'["schedule"] = files["schedule"]
      /\ safe'["config"] = safe["config"] /\ files'["config"] = files["config"]
      /\ aside \subseteq aside'
  BY <1>d DEF DiskHolds, Files!Names
<1>1. DiskHolds'
  <2>1. files' = [f \in Files!Names |-> files'[f]] /\ safe' = [f \in Files!Names |-> safe'[f]]
    BY <1>d DEF DiskHolds
  <2>2. /\ files'["identity"] \in safe'["identity"] /\ \A c \in safe'["identity"] : Shaped(c)
        /\ Files!Torn \notin safe'["identity"]
    BY <1>d DEF DiskHolds, Shaped, Files!Missing, Files!Torn, Files!Names
  <2>3. \A f \in Files!Names : files'[f] \in safe'[f] /\ \A c \in safe'[f] : Shaped(c)
    BY <1>e, <2>2 DEF DiskHolds, Files!Names
  <2>4. \A f \in Files!Names \ {"config"} : Files!Torn \notin safe'[f]
    BY <1>e, <2>2 DEF DiskHolds, Files!Names
  <2>5. safe'["config"] \subseteq {Files!File({}), Files!File({1}), Files!Torn}
    BY <1>e DEF DiskHolds
  <2> QED
    BY <2>1, <2>3, <2>4, <2>5 DEF DiskHolds, Shaped
<1>2. WriteHolds'
  <2>1. CASE stage' = "identified" /\ write' = <<>>
    BY <2>1 DEF WriteHolds
  <2>2. CASE /\ stage' = "migrating"
             /\ write' = <<[file |-> "identity", content |-> Files!File(files["config"].reads),
                            why |-> "migrate", synced |-> FALSE, renamed |-> FALSE]>>
    BY <2>2 DEF WriteHolds, Written, Belongs, Files!File
  <2> QED
    BY <1>w, <2>1, <2>2
<1>3. JobsHold'
  BY <1>u, <1>d, <1>w, <1>e DEF JobsHold, Keeps, Owed, Spared, Legacy, Loaded, Writing
<1>4. JobsFit'
  BY <1>u, <1>d, <1>w, <1>e DEF JobsFit, Fits, Owed, Legacy, Loaded, Writing, Whole
<1>5. StatesFit'
  BY <1>u, <1>d, <1>w, <1>e DEF StatesFit, Due, Loaded, Writing, Whole
<1>6. IdentityFits'
  <2> SUFFICES ASSUME "identity" \notin damaged PROVE IdentityFits'
    BY <1>u DEF IdentityFits
  <2>0. /\ identified \in Nat
        /\ \A c \in safe["identity"] :
              c = Files!Missing \/ \E i \in Nat : c = Files!File({i}) /\ i >= identified
        /\ Files!Missing \in safe["identity"] =>
             identified = 0 \/ (identified = 1 /\ safe["config"] = {Files!File({1})})
    BY DEF IdentityFits
  <2>1. files["identity"] \in safe["identity"] /\ files["config"] \in safe["config"]
    BY DEF DiskHolds, Files!Names
  <2>2. CASE Files!Legible("identity")
    <3>1. PICK i \in Nat : files["identity"] = Files!File({i}) /\ i >= identified
      BY <2>1, <2>2 DEF IdentityFits, Files!Legible, Files!Missing
    <3>2. files["identity"].reads = {i}
      BY <3>1 DEF Files!File
    <3>3. identity' = i
      BY <2>2, <3>2 DEF Files!ReadIdentity
    <3>4. stage' = "identified" /\ write' = <<>> /\ safe' = safe
      BY <1>u, <2>2 DEF Files!ReadIdentity, Files!disk
    <3> QED
      BY <1>u, <3>1, <3>3, <3>4 DEF IdentityFits, Writing
  <2>3. CASE ~Files!Legible("identity")
    <3>1. files["identity"] = Files!Missing
      <4>1. \A i \in Nat : files["identity"] # Files!File({i})
        BY <2>3 DEF Files!Legible, Files!File
      <4> QED
        BY <2>1, <4>1 DEF IdentityFits
    <3>2. identified \in Nat /\ (identified = 0 \/ (identified = 1 /\ safe["config"] = {Files!File({1})}))
      BY <2>1, <3>1 DEF IdentityFits
    <3>3. safe' = safe
      BY <1>d, <3>1 DEF Files!Missing
    <3>4. CASE Files!Legible("config")
      <4>1. files["config"].reads = {1}
        BY <2>1, <3>4 DEF DiskHolds, Files!Legible, Files!File, Files!Torn
      <4>2. identity' = 1
        BY <2>3, <3>4, <4>1 DEF Files!ReadIdentity
      <4>3. stage' = "migrating"
        BY <2>3, <3>4 DEF Files!ReadIdentity
      <4>4. write'[1].content = Files!File({1})
        BY <1>w, <4>1, <4>3
      <4>5. identity' \in Nat /\ identity' >= identified
        BY <3>2, <4>2
      <4>6. Writing("identity")' => write'[1].content = Files!File({identity'})
        BY <4>2, <4>4
      <4> QED
        BY <1>u, <1>e, <2>0, <3>3, <4>3, <4>5, <4>6 DEF IdentityFits
    <3>5. CASE ~Files!Legible("config")
      <4>1. identity' = 0 /\ stage' = "identified" /\ write' = <<>>
        BY <1>u, <2>3, <3>5 DEF Files!ReadIdentity, Files!Nobody
      <4>2. identified = 0
        BY <2>1, <3>2, <3>5 DEF Files!Legible, Files!File
      <4>3. identity' \in Nat /\ identity' >= identified /\ ~(Writing("identity"))'
        BY <4>1, <4>2 DEF Writing
      <4> QED
        BY <1>u, <1>e, <2>0, <3>3, <4>1, <4>3 DEF IdentityFits
    <3> QED
      BY <3>4, <3>5
  <2> QED
    BY <2>2, <2>3
<1> QED
  BY <1>1, <1>2, <1>3, <1>4, <1>5, <1>6

LEMMA ClearConfigKeeps == FInv /\ Files!ClearConfig => FInv'
<1> SUFFICES ASSUME FInv, Files!ClearConfig PROVE FInv'
  OBVIOUS
<1> USE DEF FInv, Files!ClearConfig, Files!Goes, Files!memory, Files!past, Files!Put
<1>0. /\ stage' = "identified" /\ write' = write /\ write = <<>> /\ aside' = aside /\ database' = database
      /\ \A f \in Files!Names \ {"config"} : files'[f] = files[f] /\ safe'[f] = safe[f]
      /\ \/ files' = [files EXCEPT !["config"] = Files!File({})]
            /\ safe' = [safe EXCEPT !["config"] = {Files!File({}), Files!Torn}]
         \/ UNCHANGED <<files, safe>>
  BY DEF DiskHolds
<1>1. DiskHolds'
  <2>1. /\ files'["config"] \in safe'["config"] /\ \A c \in safe'["config"] : Shaped(c)
        /\ safe'["config"] \subseteq {Files!File({}), Files!File({1}), Files!Torn}
    BY <1>0 DEF DiskHolds, Shaped, Files!File, Files!Torn, Files!Missing, Files!Names
  <2>2. files' = [f \in Files!Names |-> files'[f]] /\ safe' = [f \in Files!Names |-> safe'[f]]
    BY <1>0 DEF DiskHolds
  <2>3. \A f \in Files!Names \ {"config"} : files'[f] \in safe'[f] /\ (\A c \in safe'[f] : Shaped(c))
                                            /\ Files!Torn \notin safe'[f]
    BY <1>0 DEF DiskHolds
  <2> QED
    BY <2>1, <2>2, <2>3 DEF DiskHolds
<1>2. WriteHolds'
  BY DEF WriteHolds
<1>a. safe'["jobs"] = safe["jobs"] /\ files'["jobs"] = files["jobs"]
      /\ safe'["schedule"] = safe["schedule"] /\ safe'["identity"] = safe["identity"]
  BY <1>0 DEF Files!Names
<1>3. JobsHold'
  BY <1>a DEF JobsHold, Keeps, Owed, Spared, Legacy, Loaded, Writing
<1>4. JobsFit'
  BY <1>a DEF JobsFit, Fits, Owed, Legacy, Loaded, Writing, Whole
<1>5. StatesFit'
  BY <1>a DEF StatesFit, Due, Loaded, Writing, Whole
<1>6. IdentityFits'
  BY <1>a DEF IdentityFits, Writing
<1> QED
  BY <1>1, <1>2, <1>3, <1>4, <1>5, <1>6

LEMMA ImportKeeps == FInv /\ Files!Import => FInv'
<1> SUFFICES ASSUME FInv, Files!Import PROVE FInv'
  OBVIOUS
<1> USE DEF FInv, Files!Import, Files!memory, Files!past, Files!disk, Files!Write
<1>0. files["jobs"] = Files!Missing /\ Files!Missing \in safe["jobs"]
  BY DEF DiskHolds, Shaped, Files!Names
<1>1. DiskHolds'
  BY DEF DiskHolds, Shaped
<1>2. WriteHolds'
  BY DEF WriteHolds, Written, Belongs, Files!File
<1>3. JobsHold'
  BY <1>0 DEF JobsHold, Keeps, Owed, Spared, Legacy, Loaded, Writing, Files!Missing
<1>4. JobsFit'
  BY <1>0 DEF JobsFit, Fits, Owed, Legacy, Loaded, Writing, Whole
<1>5. StatesFit'
  BY <1>0 DEF StatesFit, Due, Loaded, Writing, Whole, Files!File
<1>6. IdentityFits'
  BY DEF IdentityFits, Writing
<1> QED
  BY <1>1, <1>2, <1>3, <1>4, <1>5, <1>6

LEMMA RenameDatabaseKeeps == FInv /\ Files!RenameDatabase => FInv'
<1> SUFFICES ASSUME FInv, Files!RenameDatabase PROVE FInv'
  OBVIOUS
<1> USE DEF FInv, Files!RenameDatabase, Files!Goes, Files!memory, Files!past
<1>1. DiskHolds'
  BY DEF DiskHolds, Shaped
<1>2. WriteHolds'
  BY DEF WriteHolds
<1>3. JobsHold'
  BY DEF JobsHold, Keeps, Owed, Spared, Legacy, Loaded, Writing, Files!File
<1>4. JobsFit'
  BY DEF JobsFit, Fits, Owed, Legacy, Loaded, Writing, Whole, JobsHold, Files!File, Files!Missing
<1>5. StatesFit'
  BY DEF StatesFit, Due, Loaded, Writing, Whole
<1>6. IdentityFits'
  BY DEF IdentityFits, Writing
<1> QED
  BY <1>1, <1>2, <1>3, <1>4, <1>5, <1>6

LEMMA SkipImportKeeps == FInv /\ Files!SkipImport => FInv'
<1> SUFFICES ASSUME FInv, Files!SkipImport PROVE FInv'
  OBVIOUS
<1> USE DEF FInv, Files!SkipImport, Files!Goes, Files!memory, Files!past, Files!disk
<1>1. DiskHolds'
  BY DEF DiskHolds, Shaped
<1>2. WriteHolds'
  BY DEF WriteHolds
<1>3. JobsHold'
  BY DEF JobsHold, Keeps, Owed, Spared, Legacy, Loaded, Writing
<1>4. JobsFit'
  BY DEF JobsFit, Fits, Owed, Legacy, Loaded, Writing, Whole
<1>5. StatesFit'
  BY DEF StatesFit, Due, Loaded, Writing, Whole
<1>6. IdentityFits'
  BY DEF IdentityFits, Writing
<1> QED
  BY <1>1, <1>2, <1>3, <1>4, <1>5, <1>6

\* What pruneOrphans does, whichever list of jobs it was given.
LEMMA Prunes ==
  ASSUME NEW S, Files!Prune(S)
  PROVE  /\ jobs' = S /\ states' = files["schedule"].reads \cap S
         /\ \/ stage' = "running" /\ write' = <<>>
            \/ /\ stage' = "loading"
               /\ write' = <<[file |-> "schedule", content |-> Files!File(states'), why |-> "prune",
                              synced |-> FALSE, renamed |-> FALSE]>>
BY DEF Files!Prune, Files!Write

LEMMA LoadKeeps == FInv /\ Files!Load => FInv'
<1> SUFFICES ASSUME FInv, Files!Load PROVE FInv'
  OBVIOUS
<1> USE DEF FInv
<1> DEFINE f == files["jobs"]
<1>u. /\ stage = "idle" /\ write = <<>>
      /\ UNCHANGED <<identity, confirmed, unwanted, deleted, identified, damaged>>
  BY DEF Files!Load, Files!past
<1>f. f \in safe["jobs"] /\ Shaped(f) /\ Keeps(f.holds) /\ f.holds \subseteq f.holds
  BY DEF DiskHolds, JobsHold, Files!Names
<1>c. \/ f.there /\ f.reads # f.holds
      \/ ~(f.there /\ f.reads # f.holds)
  OBVIOUS
<1>A. CASE f.there /\ f.reads # f.holds
  <2>d. /\ files' = [files EXCEPT !["jobs"] = Files!Missing]
        /\ safe' = [safe EXCEPT !["jobs"] = @ \cup {Files!Missing}]
        /\ aside' = aside \cup {f} /\ database' = database
    BY <1>A DEF Files!Load, Files!SetAside, Files!Put
  <2>e. /\ files'["jobs"] = Files!Missing /\ safe'["jobs"] = safe["jobs"] \cup {Files!Missing}
        /\ \A g \in Files!Names \ {"jobs"} : files'[g] = files[g] /\ safe'[g] = safe[g]
    BY <2>d DEF DiskHolds, Files!Names
  <2>j. "jobs" \in damaged
    BY <1>A, <1>f DEF JobsFit, Whole, Files!File, Files!Missing
  <2>o. Owed \subseteq Spared'
    BY <1>f, <1>u, <2>d DEF Keeps, Owed, Spared, Legacy
  <2>w. \/ /\ stage' = "loading"
           /\ write' = <<[file |-> "jobs", content |-> Files!File(f.reads), why |-> "repair",
                          synced |-> FALSE, renamed |-> FALSE]>>
        \/ stage' = "running" /\ write' = <<>>
        \/ /\ stage' = "loading"
           /\ write' = <<[file |-> "schedule", content |-> Files!File(states'), why |-> "prune",
                          synced |-> FALSE, renamed |-> FALSE]>>
    <3>1. CASE f.json
      BY <1>A, <3>1 DEF Files!Load, Files!Write
    <3>2. CASE ~f.json
      BY <1>A, <3>2, Prunes DEF Files!Load
    <3> QED
      BY <3>1, <3>2
  <2>1. DiskHolds'
    <3>1. files' = [g \in Files!Names |-> files'[g]] /\ safe' = [g \in Files!Names |-> safe'[g]]
      BY <2>d DEF DiskHolds
    <3>2. Shaped(Files!Missing) /\ Files!Missing # Files!Torn
      BY DEF Shaped, Files!Missing, Files!Torn
    <3>3. \A g \in Files!Names : files'[g] \in safe'[g] /\ \A c \in safe'[g] : Shaped(c)
      BY <2>e, <3>2 DEF DiskHolds
    <3>4. \A g \in Files!Names \ {"config"} : Files!Torn \notin safe'[g]
      BY <2>e, <3>2 DEF DiskHolds
    <3>5. safe'["config"] \subseteq {Files!File({}), Files!File({1}), Files!Torn}
      BY <2>e DEF DiskHolds, Files!Names
    <3> QED
      BY <3>1, <3>3, <3>4, <3>5 DEF DiskHolds, Shaped
  <2>2. WriteHolds'
    <3>1. CASE /\ stage' = "loading"
               /\ write' = <<[file |-> "jobs", content |-> Files!File(f.reads), why |-> "repair",
                              synced |-> FALSE, renamed |-> FALSE]>>
      BY <1>u, <2>j, <3>1 DEF WriteHolds, Written, Belongs, Files!File
    <3>2. CASE stage' = "running" /\ write' = <<>>
      BY <3>2 DEF WriteHolds
    <3>3. CASE /\ stage' = "loading"
               /\ write' = <<[file |-> "schedule", content |-> Files!File(states'), why |-> "prune",
                              synced |-> FALSE, renamed |-> FALSE]>>
      BY <3>3 DEF WriteHolds, Written, Belongs, Files!File
    <3> QED
      BY <2>w, <3>1, <3>2, <3>3
  <2>3. JobsHold'
    <3>1. \A S : Keeps(S) => Keeps(S)'
      BY <1>u, <2>d DEF Keeps, Owed, Spared, Legacy
    <3>2. \A S : Keeps(S)'
      BY <1>u, <2>o DEF Keeps, Owed
    <3> QED
      BY <2>w, <3>2 DEF JobsHold
  <2>4. JobsFit'
    BY <1>u, <2>j DEF JobsFit
  <2>5. StatesFit'
    BY <1>u, <2>j DEF StatesFit
  <2>6. IdentityFits'
    <3>1. safe'["identity"] = safe["identity"] /\ safe'["config"] = safe["config"]
      BY <2>e DEF Files!Names
    <3>2. stage' # "down" /\ stage' # "clearing" /\ ~(Writing("identity"))'
      BY <2>w DEF Writing
    <3> QED
      BY <1>u, <3>1, <3>2 DEF IdentityFits
  <2> QED
    BY <2>1, <2>2, <2>3, <2>4, <2>5, <2>6
<1>B. CASE ~(f.there /\ f.reads # f.holds)
  <2>d. UNCHANGED <<files, safe, aside, database>> /\ Files!Prune(f.reads)
    BY <1>B DEF Files!Load, Files!disk
  <2>r. f.reads = f.holds
    BY <1>B, <1>f DEF Shaped, Files!Missing
  <2>p. /\ jobs' = f.holds /\ states' = files["schedule"].reads \cap f.holds
        /\ \/ stage' = "running" /\ write' = <<>>
           \/ /\ stage' = "loading"
              /\ write' = <<[file |-> "schedule", content |-> Files!File(states'), why |-> "prune",
                             synced |-> FALSE, renamed |-> FALSE]>>
    BY <2>d, <2>r, Prunes
  <2>1. DiskHolds'
    BY <2>d DEF DiskHolds, Shaped
  <2>2. WriteHolds'
    <3>1. CASE stage' = "running" /\ write' = <<>>
      BY <3>1 DEF WriteHolds
    <3>2. CASE /\ stage' = "loading"
               /\ write' = <<[file |-> "schedule", content |-> Files!File(states'), why |-> "prune",
                              synced |-> FALSE, renamed |-> FALSE]>>
      BY <3>2 DEF WriteHolds, Written, Belongs, Files!File
    <3> QED
      BY <2>p, <3>1, <3>2
  <2>3. JobsHold'
    BY <1>u, <1>f, <2>d, <2>p DEF JobsHold, Keeps, Owed, Spared, Legacy, Loaded, Writing
  <2>4. JobsFit'
    <3> SUFFICES ASSUME "jobs" \notin damaged PROVE JobsFit'
      BY <1>u DEF JobsFit
    <3>1. Fits(f.holds)
      <4>1. CASE f # Files!Missing
        BY <1>f, <4>1 DEF JobsFit
      <4>2. CASE f = Files!Missing
        BY <1>f, <1>u, <4>2 DEF JobsFit, Fits, Owed, Legacy, Files!Missing
      <4> QED
        BY <4>1, <4>2
    <3>2. ~(Writing("jobs"))' /\ stage' # "importing"
      BY <2>p DEF Writing
    <3> QED
      BY <1>u, <2>d, <2>p, <3>1, <3>2 DEF JobsFit, Fits, Owed, Legacy, Loaded, Whole
  <2>5. StatesFit'
    <3> SUFFICES ASSUME damaged \cap {"jobs", "schedule"} = {} PROVE StatesFit'
      BY <1>u DEF StatesFit
    <3>1. Due \subseteq states'
      <4>1. CASE f.there
        <5>1. Due \subseteq files["schedule"].reads
          BY <1>f, <4>1 DEF StatesFit, DiskHolds, Files!Names
        <5>2. Due \subseteq f.holds
          BY <1>f, <4>1 DEF JobsFit, Fits, Owed, Due, Files!Missing
        <5> QED
          BY <2>p, <5>1, <5>2
      <4>2. CASE ~f.there
        <5>1. f = Files!Missing
          BY <1>f, <4>2 DEF Shaped
        <5>2. confirmed = {}
          BY <1>f, <1>u, <4>2, <5>1 DEF JobsFit, Legacy
        <5> QED
          BY <5>2 DEF Due
      <4> QED
        BY <4>1, <4>2
    <3>2. ~(Writing("jobs"))' /\ ((Writing("schedule"))' => write'[1].content.reads = states')
      BY <2>p DEF Writing, Files!File
    <3>3. Due' = Due
      BY <1>u DEF Due
    <3> QED
      BY <1>u, <2>d, <3>1, <3>2, <3>3 DEF StatesFit, Whole
  <2>6. IdentityFits'
    <3>2. stage' # "down" /\ stage' # "clearing" /\ ~(Writing("identity"))'
      BY <2>p DEF Writing
    <3> QED
      BY <1>u, <2>d, <3>2 DEF IdentityFits
  <2> QED
    BY <2>1, <2>2, <2>3, <2>4, <2>5, <2>6
<1> QED
  BY <1>A, <1>B

-----------------------------------------------------------------------------
(***************************************************************************)
(* A running agent.                                                        *)
(***************************************************************************)
LEMMA SaveJobKeeps == ASSUME NEW j, FInv, Files!SaveJob(j) PROVE FInv'
<1> USE DEF FInv
<1>0. /\ stage = "running" /\ j \in NewJobs /\ j \notin OldJobs /\ j \notin deleted /\ write = <<>>
      /\ write' = <<[file |-> "jobs", content |-> Files!File(jobs \cup {j}), why |-> "save",
                     synced |-> FALSE, renamed |-> FALSE]>>
      /\ UNCHANGED <<files, safe, aside, database, stage, jobs, states, identity,
                     confirmed, unwanted, deleted, identified, damaged>>
  BY FilesAssumption DEF Files!SaveJob, Files!Writes, Files!Write, Files!disk
<1>f. Files!File(jobs \cup {j}).holds = jobs \cup {j}
  BY DEF Files!File
<1>1. DiskHolds'
  BY <1>0 DEF DiskHolds, Shaped
<1>2. WriteHolds'
  BY <1>0, <1>f DEF WriteHolds, Written, Belongs
<1>3. JobsHold'
  BY <1>0, <1>f DEF JobsHold, Keeps, Owed, Spared, Legacy, Loaded, Writing
<1>4. JobsFit'
  <2> SUFFICES ASSUME "jobs" \notin damaged PROVE JobsFit'
    BY <1>0 DEF JobsFit
  <2>1. Fits(jobs) /\ Fits(jobs \cup {j})
    BY <1>0 DEF JobsFit, Loaded, Fits
  <2>2. write'[1].content.holds = jobs \cup {j}
    BY <1>0, <1>f
  <2> QED
    BY <1>0, <2>1, <2>2 DEF JobsFit, Fits, Owed, Legacy, Loaded, Writing, Whole
<1>5. StatesFit'
  BY <1>0 DEF StatesFit, Due, Loaded, Writing, Whole
<1>6. IdentityFits'
  BY <1>0 DEF IdentityFits, Writing
<1> QED
  BY <1>1, <1>2, <1>3, <1>4, <1>5, <1>6

LEMMA DeleteJobKeeps == ASSUME NEW j, FInv, Files!DeleteJob(j) PROVE FInv'
<1> USE DEF FInv
<1>0. /\ stage = "running" /\ j \in jobs /\ write = <<>> /\ unwanted' = unwanted \cup {j}
      /\ write' = <<[file |-> "jobs", content |-> Files!File(jobs \ {j}), why |-> "save",
                     synced |-> FALSE, renamed |-> FALSE]>>
      /\ UNCHANGED <<files, safe, aside, database, stage, jobs, states, identity,
                     confirmed, deleted, identified, damaged>>
  BY DEF Files!DeleteJob, Files!Writes, Files!Write, Files!disk
<1>f. Files!File(jobs \ {j}).holds = jobs \ {j}
  BY DEF Files!File
<1>1. DiskHolds'
  BY <1>0 DEF DiskHolds, Shaped
<1>2. WriteHolds'
  BY <1>0, <1>f DEF WriteHolds, Written, Belongs
<1>3. JobsHold'
  BY <1>0, <1>f DEF JobsHold, Keeps, Owed, Spared, Legacy, Loaded, Writing
<1>4. JobsFit'
  BY <1>0, <1>f DEF JobsFit, Fits, Owed, Legacy, Loaded, Writing, Whole
<1>5. StatesFit'
  BY <1>0 DEF StatesFit, Due, Loaded, Writing, Whole
<1>6. IdentityFits'
  BY <1>0 DEF IdentityFits, Writing
<1> QED
  BY <1>1, <1>2, <1>3, <1>4, <1>5, <1>6

LEMMA NoteRunKeeps == ASSUME NEW j, FInv, Files!NoteRun(j) PROVE FInv'
<1> USE DEF FInv
<1>0. /\ stage = "running" /\ write = <<>> /\ states' = states \cup {j}
      /\ write' = <<[file |-> "schedule", content |-> Files!File(states \cup {j}), why |-> "run",
                     synced |-> FALSE, renamed |-> FALSE]>>
      /\ UNCHANGED <<files, safe, aside, database, stage, jobs, identity,
                     confirmed, unwanted, deleted, identified, damaged>>
  BY DEF Files!NoteRun, Files!Writes, Files!Write, Files!disk
<1>f. /\ Files!File(states \cup {j}).holds = states \cup {j}
      /\ Files!File(states \cup {j}).reads = states \cup {j}
  BY DEF Files!File
<1>1. DiskHolds'
  BY <1>0 DEF DiskHolds, Shaped
<1>2. WriteHolds'
  BY <1>0, <1>f DEF WriteHolds, Written, Belongs
<1>3. JobsHold'
  BY <1>0 DEF JobsHold, Keeps, Owed, Spared, Legacy, Loaded, Writing
<1>4. JobsFit'
  BY <1>0 DEF JobsFit, Fits, Owed, Legacy, Loaded, Writing, Whole
<1>5. StatesFit'
  BY <1>0, <1>f DEF StatesFit, Due, Loaded, Writing, Whole
<1>6. IdentityFits'
  BY <1>0 DEF IdentityFits, Writing
<1> QED
  BY <1>1, <1>2, <1>3, <1>4, <1>5, <1>6

LEMMA RegisterKeeps == FInv /\ Files!Register => FInv'
<1> SUFFICES ASSUME FInv, Files!Register PROVE FInv'
  OBVIOUS
<1> USE DEF FInv
<1>0. /\ stage \in {"idle", "running"} /\ write = <<>> /\ identity' = identity + 1
      /\ write' = <<[file |-> "identity", content |-> Files!File({identity + 1}), why |-> "register",
                     synced |-> FALSE, renamed |-> FALSE]>>
      /\ UNCHANGED <<files, safe, aside, database, stage, jobs, states,
                     confirmed, unwanted, deleted, identified, damaged>>
  BY DEF Files!Register, Files!Writes, Files!Write, Files!disk
<1>f. Files!File({identity + 1}).holds = {identity + 1}
  BY DEF Files!File
<1>1. DiskHolds'
  BY <1>0 DEF DiskHolds, Shaped
<1>2. WriteHolds'
  BY <1>0, <1>f DEF WriteHolds, Written, Belongs
<1>3. JobsHold'
  BY <1>0 DEF JobsHold, Keeps, Owed, Spared, Legacy, Loaded, Writing
<1>4. JobsFit'
  BY <1>0 DEF JobsFit, Fits, Owed, Legacy, Loaded, Writing, Whole
<1>5. StatesFit'
  BY <1>0 DEF StatesFit, Due, Loaded, Writing, Whole
<1>6. IdentityFits'
  <2> SUFFICES ASSUME "identity" \notin damaged PROVE IdentityFits'
    BY <1>0 DEF IdentityFits
  <2>1. identity + 1 \in Nat /\ identity + 1 >= identified
    BY <1>0 DEF IdentityFits
  <2>2. write'[1].content = Files!File({identity'})
    BY <1>0
  <2> QED
    BY <1>0, <2>1, <2>2 DEF IdentityFits
<1> QED
  BY <1>1, <1>2, <1>3, <1>4, <1>5, <1>6

-----------------------------------------------------------------------------
(***************************************************************************)
(* The steps of a write, and what goes on after it.                        *)
(***************************************************************************)
LEMMA SyncTemporaryKeeps == FInv /\ Files!SyncTemporary => FInv'
<1> SUFFICES ASSUME FInv, Files!SyncTemporary PROVE FInv'
  OBVIOUS
<1> USE DEF FInv, Files!SyncTemporary, Files!memory, Files!past, Files!disk
<1>0. /\ write # <<>> /\ write' # <<>> /\ write' = <<write'[1]>>
      /\ write'[1] = [file |-> write[1].file, content |-> write[1].content, why |-> write[1].why,
                      synced |-> TRUE, renamed |-> write[1].renamed]
  BY DEF WriteHolds, Written
<1>1. DiskHolds'
  BY DEF DiskHolds, Shaped
<1>2. WriteHolds'
  BY <1>0 DEF WriteHolds, Written, Belongs
<1>3. JobsHold'
  BY <1>0 DEF JobsHold, Keeps, Owed, Spared, Legacy, Loaded, Writing
<1>4. JobsFit'
  BY <1>0 DEF JobsFit, Fits, Owed, Legacy, Loaded, Writing, Whole
<1>5. StatesFit'
  BY <1>0 DEF StatesFit, Due, Loaded, Writing, Whole
<1>6. IdentityFits'
  BY <1>0 DEF IdentityFits, Writing
<1> QED
  BY <1>1, <1>2, <1>3, <1>4, <1>5, <1>6

LEMMA RenameTemporaryKeeps == FInv /\ Files!RenameTemporary => FInv'
<1> SUFFICES ASSUME FInv, Files!RenameTemporary PROVE FInv'
  OBVIOUS
<1> USE DEF FInv
<1> DEFINE n == write[1].file
           k == write[1].content
<1>0. /\ write # <<>> /\ write' # <<>> /\ write' = <<write'[1]>>
      /\ write'[1] = [file |-> n, content |-> k, why |-> write[1].why, synced |-> TRUE, renamed |-> TRUE]
  BY DEF WriteHolds, Written, Files!RenameTemporary, Files!MayRename
<1>b. /\ files' = [files EXCEPT ![n] = k] /\ safe' = [safe EXCEPT ![n] = @ \cup {k}]
      /\ UNCHANGED <<aside, database, stage, jobs, states, identity,
                     confirmed, unwanted, deleted, identified, damaged>>
  BY DEF Files!RenameTemporary, Files!MayRename, Files!Put, Files!memory, Files!past
<1>c. Written(write[1])
  BY <1>0 DEF WriteHolds
<1>d. n \in Files!Names \ {"config"} /\ k = Files!File(k.holds)
  BY <1>c DEF Written, Belongs, Files!Names
<1>e. /\ \A f \in Files!Names \ {n} : files'[f] = files[f] /\ safe'[f] = safe[f]
      /\ files'[n] = k /\ safe'[n] = safe[n] \cup {k}
  BY <1>b, <1>d DEF DiskHolds
<1>f. Shaped(k) /\ k # Files!Torn /\ Whole(k) /\ k # Files!Missing /\ k.there /\ k.reads = k.holds
  BY <1>d DEF Shaped, Whole, Files!File, Files!Torn, Files!Missing
<1>g. Belongs(write[1])
  BY <1>c DEF Written
<1>1. DiskHolds'
  <2>1. files' = [f \in Files!Names |-> files'[f]] /\ safe' = [f \in Files!Names |-> safe'[f]]
    BY <1>b DEF DiskHolds
  <2>2. \A f \in Files!Names : files'[f] \in safe'[f] /\ \A c \in safe'[f] : Shaped(c)
    BY <1>e, <1>f DEF DiskHolds
  <2>3. \A f \in Files!Names \ {"config"} : Files!Torn \notin safe'[f]
    BY <1>e, <1>f DEF DiskHolds
  <2>4. safe'["config"] \subseteq {Files!File({}), Files!File({1}), Files!Torn}
    BY <1>e, <1>d DEF DiskHolds, Files!Names
  <2> QED
    BY <2>1, <2>2, <2>3, <2>4 DEF DiskHolds, Shaped
<1>2. WriteHolds'
  <2>0. /\ write'[1].why = write[1].why /\ write'[1].file = n /\ write'[1].content = k
        /\ stage' = stage /\ damaged' = damaged
    BY <1>0, <1>b
  <2>1. (Belongs(write[1]))'
    BY <2>0, <1>g DEF Belongs
  <2>2. (Written(write[1]))'
    BY <1>0, <1>d, <1>e, <2>1 DEF Written
  <2> QED
    BY <1>0, <2>2 DEF WriteHolds
<1>3. JobsHold'
  <2>1. \A c \in safe'["jobs"] : Keeps(c.holds)
    BY <1>0, <1>e DEF JobsHold, Writing, Files!Names
  <2>2. stage = "imported" => safe'["jobs"] = {Files!File(OldJobs)}
    BY <1>0, <1>e, <1>g DEF JobsHold, Belongs, Files!Names
  <2> QED
    BY <1>0, <1>b, <2>1, <2>2 DEF JobsHold, Keeps, Owed, Spared, Legacy, Loaded, Writing
<1>4. JobsFit'
  <2> SUFFICES ASSUME "jobs" \notin damaged PROVE JobsFit'
    BY <1>b DEF JobsFit
  <2>1. \A c \in safe'["jobs"] : Whole(c) /\ (c # Files!Missing => Fits(c.holds))
    BY <1>0, <1>e, <1>f DEF JobsFit, Writing, Files!Names
  <2>2. Files!Missing \in safe'["jobs"] => Files!Missing \in safe["jobs"]
    BY <1>e, <1>f DEF Files!Names
  <2>3. files["jobs"].there => files'["jobs"].there
    BY <1>e, <1>f DEF Files!Names
  <2> QED
    BY <1>0, <1>b, <2>1, <2>2, <2>3 DEF JobsFit, Fits, Owed, Legacy, Loaded, Writing, Whole
<1>5. StatesFit'
  <2> SUFFICES ASSUME damaged \cap {"jobs", "schedule"} = {} PROVE StatesFit'
    BY <1>b DEF StatesFit
  <2>1. \A c \in safe'["schedule"] : Whole(c)
    BY <1>e, <1>f DEF StatesFit, Files!Names
  <2>2. ASSUME n = "jobs" PROVE \A c \in safe["schedule"] : Due \subseteq c.reads
    <3>1. CASE stage = "importing"
      BY <1>0, <2>2, <3>1 DEF StatesFit, Writing
    <3>2. CASE stage # "importing"
      <4>1. stage = "running"
        BY <1>g, <2>2, <3>2 DEF Belongs
      <4>2. CASE \E c \in safe["jobs"] : c.there
        BY <4>2 DEF StatesFit
      <4>3. CASE ~\E c \in safe["jobs"] : c.there
        <5>1. files["jobs"] \in safe["jobs"] /\ ~files["jobs"].there /\ files["jobs"] = Files!Missing
          BY <4>3 DEF DiskHolds, Shaped, Files!Names
        <5>2. confirmed = Legacy /\ database # "there"
          BY <5>1, <4>1 DEF JobsFit, Loaded
        <5> QED
          BY <5>2 DEF Legacy, Due
      <4> QED
        BY <4>2, <4>3
    <3> QED
      BY <3>1, <3>2
  <2>3. (\E c \in safe'["jobs"] : c.there) \/ (Writing("jobs") /\ stage = "importing") =>
          \A c \in safe["schedule"] : Due \subseteq c.reads
    BY <2>2, <1>e DEF StatesFit, Files!Names
  <2>4. n = "schedule" => Due \subseteq k.reads
    BY <1>0 DEF StatesFit, Writing
  <2>5. (\E c \in safe'["jobs"] : c.there) \/ (Writing("jobs") /\ stage = "importing") =>
          \A c \in safe'["schedule"] : Due \subseteq c.reads
    BY <2>3, <2>4, <1>e DEF Files!Names
  <2>6. \A f \in {"jobs", "schedule"} : (Writing(f))' <=> Writing(f)
    BY <1>0 DEF Writing
  <2> QED
    BY <1>0, <1>b, <2>1, <2>5, <2>6 DEF StatesFit, Due, Loaded, Writing, Whole
<1>6. IdentityFits'
  <2> SUFFICES ASSUME "identity" \notin damaged PROVE IdentityFits'
    BY <1>b DEF IdentityFits
  <2>1. n = "identity" => k = Files!File({identity}) /\ identity \in Nat /\ identity >= identified
    BY <1>0, <1>g DEF IdentityFits, Writing, Belongs
  <2>2. \A c \in safe'["identity"] : c = Files!Missing \/ \E i \in Nat : c = Files!File({i}) /\ i >= identified
    BY <2>1, <1>e DEF IdentityFits, Files!Names
  <2>3. Files!Missing \in safe'["identity"] => Files!Missing \in safe["identity"]
    BY <1>e, <1>f DEF Files!Names
  <2>4. safe'["config"] = safe["config"]
    BY <1>e, <1>d DEF Files!Names
  <2>5. Writing("identity")' => write'[1].content = Files!File({identity'})
    BY <1>0, <1>b, <2>1 DEF Writing
  <2>6. /\ identified \in Nat
        /\ Files!Missing \in safe'["identity"] =>
             identified = 0 \/ (identified = 1 /\ safe'["config"] = {Files!File({1})})
        /\ stage # "down" => identity \in Nat /\ identity >= identified
        /\ stage = "clearing" => Files!Missing \notin safe'["identity"]
    BY <2>3, <2>4 DEF IdentityFits
  <2> QED
    BY <1>b, <2>2, <2>5, <2>6 DEF IdentityFits
<1> QED
  BY <1>1, <1>2, <1>3, <1>4, <1>5, <1>6

\* What the end of a write leaves on disk: the new content alone once the directory
\* is synced, everything as it was when the write failed before its rename.
Left(n, k, ok) ==
  /\ files' = files /\ UNCHANGED <<aside, database, damaged>>
  /\ \A f \in Files!Names \ {n} : safe'[f] = safe[f]
  /\ ok => files[n] = k /\ safe'[n] = {k}
  /\ ~ok => safe'[n] = safe[n]

LEMMA WriteEnds ==
  ASSUME FInv, Files!EndWrite \/ Files!FailWrite
  PROVE  \E ok \in BOOLEAN :
           /\ Left(write[1].file, write[1].content, ok) /\ Files!After(write[1], ok)
           /\ write # <<>> /\ Written(write[1]) /\ DiskHolds'
<1> USE DEF FInv
<1> DEFINE n == write[1].file
           k == write[1].content
<1>1. write # <<>> /\ Written(write[1])
  BY DEF Files!EndWrite, Files!FailWrite, WriteHolds
<1>2. n \in Files!Names \ {"config"} /\ k = Files!File(k.holds)
  BY <1>1 DEF Written, Belongs, Files!Names
<1>3. CASE Files!EndWrite
  <2>1. write[1].renamed /\ files[n] = k /\ files' = files /\ Files!After(write[1], TRUE)
    BY <1>1, <1>3 DEF Files!EndWrite, Written
  <2>2. k \in safe[n] /\ Files!Torn \notin safe[n] /\ Shaped(k) /\ k # Files!Torn
    BY <1>2, <2>1 DEF DiskHolds
  <2>3. (CHOOSE c \in safe[n] : c = k \/ c = Files!Torn) = k
    BY <2>2
  <2>4. safe' = [safe EXCEPT ![n] = {k}]
    BY <1>3, <2>3 DEF Files!EndWrite, Files!Synced
  <2>5. /\ \A f \in Files!Names \ {n} : safe'[f] = safe[f]
        /\ safe'[n] = {k}
    BY <1>2, <2>4 DEF DiskHolds
  <2>6. UNCHANGED <<aside, database, damaged>>
    BY <2>1 DEF Files!After
  <2>7. DiskHolds'
    <3>1. files' = [f \in Files!Names |-> files'[f]] /\ safe' = [f \in Files!Names |-> safe'[f]]
      BY <2>1, <2>4 DEF DiskHolds
    <3>2. \A f \in Files!Names : files'[f] \in safe'[f] /\ \A c \in safe'[f] : Shaped(c)
      BY <2>1, <2>2, <2>5 DEF DiskHolds
    <3>3. \A f \in Files!Names \ {"config"} : Files!Torn \notin safe'[f]
      BY <2>2, <2>5 DEF DiskHolds
    <3>4. safe'["config"] \subseteq {Files!File({}), Files!File({1}), Files!Torn}
      BY <1>2, <2>5 DEF DiskHolds, Files!Names
    <3> QED
      BY <3>1, <3>2, <3>3, <3>4 DEF DiskHolds, Shaped
  <2>8. Left(n, k, TRUE)
    BY <2>1, <2>5, <2>6 DEF Left
  <2> QED
    BY <1>1, <2>1, <2>7, <2>8
<1>4. CASE Files!FailWrite
  <2>1. UNCHANGED <<files, safe>> /\ Files!After(write[1], FALSE)
    BY <1>4 DEF Files!FailWrite
  <2>2. UNCHANGED <<aside, database, damaged>>
    BY <2>1 DEF Files!After
  <2>3. Left(n, k, FALSE)
    BY <2>1, <2>2 DEF Left
  <2>4. DiskHolds'
    BY <2>1 DEF DiskHolds, Shaped
  <2> QED
    BY <1>1, <2>1, <2>3, <2>4
<1> QED
  BY <1>3, <1>4

LEMMA AfterImportKeeps ==
  ASSUME FInv, NEW ok \in BOOLEAN, Left(write[1].file, write[1].content, ok), Files!AfterImport(write[1], ok),
         write # <<>>, Written(write[1]), DiskHolds', write[1].why \in {"import states", "import jobs"}
  PROVE  FInv'
<1> USE DEF FInv
<1>u. /\ UNCHANGED <<files, aside, database, damaged, jobs, states, identity,
                     confirmed, unwanted, deleted, identified>>
      /\ stage = "importing" /\ write[1].content = Files!File(OldJobs)
  BY DEF Left, Files!AfterImport, Files!memory, Written, Belongs
<1>d. JobsHold /\ database = "there" /\ Owed \subseteq Spared
  BY <1>u DEF JobsHold
<1>j. "jobs" \notin damaged => Fits(OldJobs) /\ deleted = {} /\ confirmed = OldJobs
  BY <1>u, <1>d DEF JobsFit, Fits, Owed, Legacy
<1>i. safe'["identity"] = safe["identity"] /\ safe'["config"] = safe["config"]
  BY DEF Left, Written, Belongs, Files!Names
<1>k. /\ Files!File(OldJobs).holds = OldJobs /\ Files!File(OldJobs).reads = OldJobs
      /\ Files!File(OldJobs).there /\ Whole(Files!File(OldJobs)) /\ Files!File(OldJobs) # Files!Missing
  BY DEF Files!File, Whole, Files!Missing
<1>A. CASE ok /\ write[1].why = "import states"
  <2>1. /\ stage' = "importing"
        /\ write' = <<[file |-> "jobs", content |-> Files!File(OldJobs), why |-> "import jobs",
                       synced |-> FALSE, renamed |-> FALSE]>>
        /\ safe'["jobs"] = safe["jobs"] /\ safe'["schedule"] = {Files!File(OldJobs)}
    BY <1>A, <1>u DEF Files!AfterImport, Files!Write, Left, Written, Belongs, Files!Names
  <2>2. WriteHolds'
    BY <2>1, <1>k DEF WriteHolds, Written, Belongs
  <2>3. JobsHold'
    BY <1>u, <1>d, <1>k, <2>1 DEF JobsHold, Keeps, Owed, Spared, Legacy, Loaded, Writing
  <2>4. JobsFit'
    BY <1>u, <1>j, <1>k, <2>1 DEF JobsFit, Fits, Owed, Legacy, Loaded, Writing, Whole
  <2>5. StatesFit'
    BY <1>u, <1>k, <2>1 DEF StatesFit, Due, Loaded, Writing, Whole
  <2>6. IdentityFits'
    BY <1>u, <1>i, <2>1 DEF IdentityFits, Writing
  <2> QED
    BY <2>2, <2>3, <2>4, <2>5, <2>6
<1>B. CASE ok /\ write[1].why = "import jobs"
  <2>1. /\ stage' = "imported" /\ write' = <<>>
        /\ safe'["jobs"] = {Files!File(OldJobs)} /\ safe'["schedule"] = safe["schedule"]
    BY <1>B, <1>u DEF Files!AfterImport, Left, Written, Belongs, Files!Names
  <2>2. WriteHolds'
    BY <2>1 DEF WriteHolds
  <2>3. JobsHold'
    BY <1>u, <1>d, <1>k, <2>1 DEF JobsHold, Keeps, Owed, Spared, Legacy, Loaded, Writing
  <2>4. JobsFit'
    BY <1>u, <1>j, <1>k, <2>1 DEF JobsFit, Fits, Owed, Legacy, Loaded, Writing, Whole
  <2>w. Writing("jobs")
    BY <1>B DEF Writing, Written, Belongs
  <2>5. StatesFit'
    BY <1>u, <1>k, <2>w, <2>1 DEF StatesFit, Due, Loaded, Writing, Whole
  <2>6. IdentityFits'
    BY <1>u, <1>i, <2>1 DEF IdentityFits, Writing
  <2> QED
    BY <2>2, <2>3, <2>4, <2>5, <2>6
<1>C. CASE ~ok
  <2>1. /\ stage' = "down" /\ write' = <<>>
        /\ safe'["jobs"] = safe["jobs"] /\ safe'["schedule"] = safe["schedule"]
    BY <1>C DEF Files!AfterImport, Left, Written, Belongs, Files!Names
  <2>2. WriteHolds'
    BY <2>1 DEF WriteHolds
  <2>3. JobsHold'
    BY <1>u, <2>1 DEF JobsHold, Keeps, Owed, Spared, Legacy, Loaded, Writing
  <2>4. JobsFit'
    BY <1>u, <2>1 DEF JobsFit, Fits, Owed, Legacy, Loaded, Writing, Whole
  <2>5. StatesFit'
    BY <1>u, <2>1 DEF StatesFit, Due, Loaded, Writing, Whole
  <2>6. IdentityFits'
    BY <1>u, <1>i, <2>1 DEF IdentityFits, Writing
  <2> QED
    BY <2>2, <2>3, <2>4, <2>5, <2>6
<1> QED
  BY <1>A, <1>B, <1>C

LEMMA AfterRepairKeeps ==
  ASSUME FInv, NEW ok \in BOOLEAN, Left(write[1].file, write[1].content, ok), Files!AfterRepair(write[1], ok),
         write # <<>>, Written(write[1]), DiskHolds', write[1].why = "repair"
  PROVE  FInv'
<1> USE DEF FInv
<1> DEFINE k == write[1].content
<1>u. /\ UNCHANGED <<files, aside, database, damaged, identity, confirmed, unwanted, deleted, identified>>
      /\ stage = "loading" /\ "jobs" \in damaged /\ write[1].file = "jobs"
  BY DEF Left, Files!AfterRepair, Written, Belongs
<1>k. k.reads = k.holds /\ Keeps(k.holds)
  <2>1. Keeps(k.holds)
    BY <1>u DEF JobsHold, Writing
  <2>2. k = Files!File(k.holds)
    BY DEF Written
  <2> QED
    BY <2>1, <2>2 DEF Files!File
<1>p. /\ jobs' = k.holds
      /\ \/ stage' = "running" /\ write' = <<>>
         \/ /\ stage' = "loading"
            /\ write' = <<[file |-> "schedule", content |-> Files!File(states'), why |-> "prune",
                           synced |-> FALSE, renamed |-> FALSE]>>
  BY <1>k, Prunes DEF Files!AfterRepair
<1>i. safe'["identity"] = safe["identity"] /\ safe'["config"] = safe["config"]
  BY <1>u DEF Left, Files!Names
<1>2. WriteHolds'
  <2>1. CASE stage' = "running" /\ write' = <<>>
    BY <2>1 DEF WriteHolds
  <2>2. CASE /\ stage' = "loading"
             /\ write' = <<[file |-> "schedule", content |-> Files!File(states'), why |-> "prune",
                            synced |-> FALSE, renamed |-> FALSE]>>
    BY <2>2 DEF WriteHolds, Written, Belongs, Files!File
  <2> QED
    BY <1>p, <2>1, <2>2
<1>3. JobsHold'
  <2>1. \A c \in safe'["jobs"] : Keeps(c.holds)
    BY <1>u, <1>k DEF JobsHold, Left
  <2>2. ~(Writing("jobs"))' /\ stage' \notin {"importing", "imported"}
    BY <1>p DEF Writing
  <2> QED
    BY <1>u, <1>k, <1>p, <2>1, <2>2 DEF JobsHold, Keeps, Owed, Spared, Legacy
<1>4. JobsFit'
  BY <1>u DEF JobsFit
<1>5. StatesFit'
  BY <1>u DEF StatesFit
<1>6. IdentityFits'
  <2>1. stage' # "down" /\ stage' # "clearing" /\ ~(Writing("identity"))'
    BY <1>p DEF Writing
  <2> QED
    BY <1>u, <1>i, <2>1 DEF IdentityFits
<1> QED
  BY <1>2, <1>3, <1>4, <1>5, <1>6

LEMMA AfterStatesKeeps ==
  ASSUME FInv, NEW ok \in BOOLEAN, Left(write[1].file, write[1].content, ok), Files!AfterStates(write[1], ok),
         write # <<>>, Written(write[1]), DiskHolds', write[1].why \in {"prune", "run"}
  PROVE  FInv'
<1> USE DEF FInv
<1> DEFINE k == write[1].content
<1>u. /\ UNCHANGED <<files, aside, database, damaged, jobs, states, identity,
                     confirmed, unwanted, deleted, identified>>
      /\ stage \in {"loading", "running"} /\ write[1].file = "schedule"
      /\ stage' = "running" /\ write' = <<>>
  BY DEF Left, Files!AfterStates, Files!memory, Written, Belongs
<1>i. /\ safe'["identity"] = safe["identity"] /\ safe'["config"] = safe["config"]
      /\ safe'["jobs"] = safe["jobs"]
  BY <1>u DEF Left, Files!Names
<1>s. safe'["schedule"] = safe["schedule"] \/ safe'["schedule"] = {k}
  BY <1>u DEF Left
<1>k. Whole(k) /\ (damaged \cap {"jobs", "schedule"} = {} => Due \subseteq k.reads)
  BY <1>u DEF Written, StatesFit, Writing, Whole
<1>2. WriteHolds'
  BY <1>u DEF WriteHolds
<1>3. JobsHold'
  BY <1>u, <1>i DEF JobsHold, Keeps, Owed, Spared, Legacy, Loaded, Writing
<1>4. JobsFit'
  BY <1>u, <1>i DEF JobsFit, Fits, Owed, Legacy, Loaded, Writing, Whole
<1>5. StatesFit'
  <2> SUFFICES ASSUME damaged \cap {"jobs", "schedule"} = {} PROVE StatesFit'
    BY <1>u DEF StatesFit
  <2>1. \A c \in safe'["schedule"] : Whole(c)
    BY <1>s, <1>k DEF StatesFit
  <2>2. (\E c \in safe'["jobs"] : c.there) => \A c \in safe'["schedule"] : Due \subseteq c.reads
    BY <1>i, <1>s, <1>k DEF StatesFit
  <2>3. Due' = Due /\ Due \subseteq states /\ ~(Writing("jobs"))' /\ ~(Writing("schedule"))'
    BY <1>u DEF StatesFit, Loaded, Writing, Due
  <2> QED
    BY <1>u, <2>1, <2>2, <2>3 DEF StatesFit, Whole
<1>6. IdentityFits'
  BY <1>u, <1>i DEF IdentityFits, Writing
<1> QED
  BY <1>2, <1>3, <1>4, <1>5, <1>6

LEMMA AfterMigrationKeeps ==
  ASSUME FInv, NEW ok \in BOOLEAN, Left(write[1].file, write[1].content, ok),
         Files!AfterMigration(write[1], ok),
         write # <<>>, Written(write[1]), DiskHolds', write[1].why = "migrate"
  PROVE  FInv'
<1> USE DEF FInv
<1> DEFINE k == write[1].content
<1>u. /\ UNCHANGED <<files, aside, database, damaged, jobs, states, identity,
                     confirmed, unwanted, deleted, identified>>
      /\ stage = "migrating" /\ write[1].file = "identity"
      /\ stage' = (IF ok THEN "clearing" ELSE "identified") /\ write' = <<>>
  BY DEF Left, Files!AfterMigration, Files!memory, Written, Belongs
<1>i. /\ safe'["schedule"] = safe["schedule"] /\ safe'["config"] = safe["config"]
      /\ safe'["jobs"] = safe["jobs"]
  BY <1>u DEF Left, Files!Names
<1>2. WriteHolds'
  BY <1>u DEF WriteHolds
<1>3. JobsHold'
  BY <1>u, <1>i DEF JobsHold, Keeps, Owed, Spared, Legacy, Loaded, Writing
<1>4. JobsFit'
  BY <1>u, <1>i DEF JobsFit, Fits, Owed, Legacy, Loaded, Writing, Whole
<1>5. StatesFit'
  BY <1>u, <1>i DEF StatesFit, Due, Loaded, Writing, Whole
<1>6. IdentityFits'
  <2> SUFFICES ASSUME "identity" \notin damaged PROVE IdentityFits'
    BY <1>u DEF IdentityFits
  <2>0. /\ identified \in Nat
        /\ \A c \in safe["identity"] :
              c = Files!Missing \/ \E i \in Nat : c = Files!File({i}) /\ i >= identified
        /\ Files!Missing \in safe["identity"] =>
             identified = 0 \/ (identified = 1 /\ safe["config"] = {Files!File({1})})
        /\ identity \in Nat /\ identity >= identified /\ k = Files!File({identity})
    BY <1>u DEF IdentityFits, Writing
  <2>1. k # Files!Missing
    BY <2>0 DEF Files!File, Files!Missing
  <2>2. CASE ok
    <3>1. safe'["identity"] = {k}
      BY <1>u, <2>2 DEF Left
    <3>2. ~(Writing("identity"))' /\ Files!Missing \notin safe'["identity"]
      BY <1>u, <2>1, <3>1 DEF Writing
    <3> QED
      BY <1>u, <2>0, <3>1, <3>2 DEF IdentityFits
  <2>3. CASE ~ok
    <3>1. safe'["identity"] = safe["identity"] /\ ~(Writing("identity"))'
      BY <1>u, <2>3 DEF Left, Writing
    <3> QED
      BY <1>u, <1>i, <2>0, <2>3, <3>1 DEF IdentityFits
  <2> QED
    BY <2>2, <2>3
<1> QED
  BY <1>2, <1>3, <1>4, <1>5, <1>6

LEMMA AfterRegistrationKeeps ==
  ASSUME FInv, NEW ok \in BOOLEAN, Left(write[1].file, write[1].content, ok),
         Files!AfterRegistration(write[1], ok),
         write # <<>>, Written(write[1]), DiskHolds', write[1].why = "register"
  PROVE  FInv'
<1> USE DEF FInv
<1> DEFINE k == write[1].content
<1>u. /\ UNCHANGED <<files, aside, database, damaged, jobs, states, identity, confirmed, unwanted, deleted>>
      /\ stage \in {"idle", "running"} /\ write[1].file = "identity"
      /\ stage' = stage /\ write' = <<>> /\ identified' = IF ok THEN identity ELSE identified
  BY DEF Left, Files!AfterRegistration, Files!memory, Written, Belongs
<1>i. /\ safe'["schedule"] = safe["schedule"] /\ safe'["config"] = safe["config"]
      /\ safe'["jobs"] = safe["jobs"]
  BY <1>u DEF Left, Files!Names
<1>2. WriteHolds'
  BY <1>u DEF WriteHolds
<1>3. JobsHold'
  BY <1>u, <1>i DEF JobsHold, Keeps, Owed, Spared, Legacy, Loaded, Writing
<1>4. JobsFit'
  BY <1>u, <1>i DEF JobsFit, Fits, Owed, Legacy, Loaded, Writing, Whole
<1>5. StatesFit'
  BY <1>u, <1>i DEF StatesFit, Due, Loaded, Writing, Whole
<1>6. IdentityFits'
  <2> SUFFICES ASSUME "identity" \notin damaged PROVE IdentityFits'
    BY <1>u DEF IdentityFits
  <2>0. /\ identified \in Nat
        /\ \A c \in safe["identity"] :
              c = Files!Missing \/ \E i \in Nat : c = Files!File({i}) /\ i >= identified
        /\ Files!Missing \in safe["identity"] =>
             identified = 0 \/ (identified = 1 /\ safe["config"] = {Files!File({1})})
        /\ identity \in Nat /\ identity >= identified /\ k = Files!File({identity})
    BY <1>u DEF IdentityFits, Writing
  <2>1. k # Files!Missing
    BY <2>0 DEF Files!File, Files!Missing
  <2>2. CASE ok
    <3>1. safe'["identity"] = {k} /\ identified' = identity
      BY <1>u, <2>2 DEF Left
    <3>2. ~(Writing("identity"))' /\ Files!Missing \notin safe'["identity"] /\ identity' >= identified'
      BY <1>u, <2>0, <2>1, <3>1 DEF Writing
    <3> QED
      BY <1>u, <2>0, <3>1, <3>2 DEF IdentityFits
  <2>3. CASE ~ok
    <3>1. safe'["identity"] = safe["identity"] /\ ~(Writing("identity"))' /\ identified' = identified
      BY <1>u, <2>3 DEF Left, Writing
    <3> QED
      BY <1>u, <1>i, <2>0, <2>3, <3>1 DEF IdentityFits
  <2> QED
    BY <2>2, <2>3
<1> QED
  BY <1>2, <1>3, <1>4, <1>5, <1>6

LEMMA AfterSaveKeeps ==
  ASSUME FInv, NEW ok \in BOOLEAN, Left(write[1].file, write[1].content, ok), Files!AfterSave(write[1], ok),
         write # <<>>, Written(write[1]), DiskHolds', write[1].why = "save"
  PROVE  FInv'
<1> USE DEF FInv
<1> DEFINE k == write[1].content
           gone == jobs \ k.holds
<1>u. /\ UNCHANGED <<files, aside, database, damaged, stage, identity, unwanted, identified>>
      /\ stage = "running" /\ write[1].file = "jobs" /\ k = Files!File(k.holds)
  BY DEF Left, Files!AfterSave, Written, Belongs
<1>i. /\ safe'["schedule"] = safe["schedule"] /\ safe'["config"] = safe["config"]
      /\ safe'["identity"] = safe["identity"]
  BY <1>u DEF Left, Files!Names
<1>k. /\ k.there /\ k # Files!Missing /\ Whole(k) /\ Keeps(k.holds) /\ Keeps(jobs)
      /\ "jobs" \notin damaged => Fits(k.holds) /\ Fits(jobs)
  <2>1. k.there /\ k # Files!Missing /\ Whole(k)
    BY <1>u DEF Files!File, Files!Missing, Whole
  <2>2. Keeps(k.holds) /\ Keeps(jobs)
    BY <1>u DEF JobsHold, Writing, Loaded
  <2>3. "jobs" \notin damaged => Fits(k.holds) /\ Fits(jobs)
    BY <1>u DEF JobsFit, Writing, Loaded
  <2> QED
    BY <2>1, <2>2, <2>3
<1>A. CASE ok
  <2>1. /\ safe'["jobs"] = {k} /\ files["jobs"] = k /\ jobs' = k.holds
        /\ confirmed' = (confirmed \ gone) \cup k.holds /\ deleted' = deleted \cup gone
        /\ states' = states \ gone
    BY <1>A, <1>u DEF Left, Files!AfterSave
  <2>w. \/ write' = <<>>
        \/ write' = <<[file |-> "schedule", content |-> Files!File(states'), why |-> "run",
                       synced |-> FALSE, renamed |-> FALSE]>>
    BY DEF Files!AfterSave, Files!Write
  <2>2. WriteHolds'
    <3>1. CASE write' = <<>>
      BY <3>1 DEF WriteHolds
    <3>2. CASE write' = <<[file |-> "schedule", content |-> Files!File(states'), why |-> "run",
                           synced |-> FALSE, renamed |-> FALSE]>>
      BY <1>u, <3>2 DEF WriteHolds, Written, Belongs, Files!File
    <3> QED
      BY <2>w, <3>1, <3>2
  <2>n. ~(Writing("jobs"))' /\ ~(Writing("identity"))'
    BY <2>w DEF Writing
  <2>3. JobsHold'
    <3>1. (Keeps(jobs))'
      BY <1>u, <1>k, <2>1 DEF Keeps, Owed, Spared, Legacy
    <3> QED
      BY <1>u, <2>1, <2>n, <3>1 DEF JobsHold
  <2>4. JobsFit'
    <3> SUFFICES ASSUME "jobs" \notin damaged PROVE JobsFit'
      BY <1>u DEF JobsFit
    <3>1. (Fits(jobs))'
      BY <1>u, <1>k, <2>1 DEF Fits, Owed
    <3> QED
      BY <1>u, <1>k, <2>1, <2>n, <3>1 DEF JobsFit, Whole
  <2>5. StatesFit'
    <3> SUFFICES ASSUME damaged \cap {"jobs", "schedule"} = {} PROVE StatesFit'
      BY <1>u DEF StatesFit
    <3>1. OldJobs \cap k.holds \subseteq confirmed
      BY <1>k DEF Fits
    <3>2. Due' \subseteq Due \ gone
      BY <1>u, <2>1, <3>1 DEF Due
    <3>3. Due \subseteq states /\ \A c \in safe["schedule"] : Whole(c)
      BY <1>u DEF StatesFit, Loaded
    <3>4. k \in safe["jobs"]
      BY <2>1 DEF DiskHolds, Files!Names
    <3>5. \A c \in safe["schedule"] : Due \subseteq c.reads
      BY <1>k, <3>4 DEF StatesFit
    <3>6. Due' \subseteq states'
      BY <2>1, <3>2, <3>3
    <3>7. Writing("schedule")' => write'[1].content.reads = states'
      BY <2>w DEF Writing, Files!File
    <3> QED
      BY <1>i, <3>2, <3>3, <3>5, <3>6, <3>7 DEF StatesFit, Whole
  <2>6. IdentityFits'
    BY <1>u, <1>i, <2>n DEF IdentityFits
  <2> QED
    BY <2>2, <2>3, <2>4, <2>5, <2>6
<1>B. CASE ~ok
  <2>1. /\ safe'["jobs"] = safe["jobs"] /\ write' = <<>>
        /\ UNCHANGED <<jobs, confirmed, deleted, states>>
    BY <1>B, <1>u DEF Left, Files!AfterSave
  <2>2. WriteHolds'
    BY <2>1 DEF WriteHolds
  <2>3. JobsHold'
    BY <1>u, <1>i, <2>1 DEF JobsHold, Keeps, Owed, Spared, Legacy, Loaded, Writing
  <2>4. JobsFit'
    BY <1>u, <1>i, <2>1 DEF JobsFit, Fits, Owed, Legacy, Loaded, Writing, Whole
  <2>5. StatesFit'
    BY <1>u, <1>i, <2>1 DEF StatesFit, Due, Loaded, Writing, Whole
  <2>6. IdentityFits'
    BY <1>u, <1>i, <2>1 DEF IdentityFits, Writing
  <2> QED
    BY <2>2, <2>3, <2>4, <2>5, <2>6
<1> QED
  BY <1>A, <1>B

LEMMA WriteEndsKeep == FInv /\ (Files!EndWrite \/ Files!FailWrite) => FInv'
<1> SUFFICES ASSUME FInv, Files!EndWrite \/ Files!FailWrite PROVE FInv'
  OBVIOUS
<1>1. PICK ok \in BOOLEAN :
        /\ Left(write[1].file, write[1].content, ok) /\ Files!After(write[1], ok)
        /\ write # <<>> /\ Written(write[1]) /\ DiskHolds'
  BY WriteEnds
<1>2. write[1].why \in {"import states", "import jobs", "save", "repair", "prune", "run", "migrate", "register"}
  BY <1>1 DEF Written, Belongs
<1>3. CASE write[1].why \in {"import states", "import jobs"}
  BY <1>1, <1>3, AfterImportKeeps DEF Files!After
<1>4. CASE write[1].why = "save"
  BY <1>1, <1>4, AfterSaveKeeps DEF Files!After
<1>5. CASE write[1].why = "repair"
  BY <1>1, <1>5, AfterRepairKeeps DEF Files!After
<1>6. CASE write[1].why \in {"prune", "run"}
  BY <1>1, <1>6, AfterStatesKeeps DEF Files!After
<1>7. CASE write[1].why = "migrate"
  BY <1>1, <1>7, AfterMigrationKeeps DEF Files!After
<1>8. CASE write[1].why = "register"
  BY <1>1, <1>8, AfterRegistrationKeeps DEF Files!After
<1> QED
  BY <1>2, <1>3, <1>4, <1>5, <1>6, <1>7, <1>8

-----------------------------------------------------------------------------
(***************************************************************************)
(* All together.                                                           *)
(***************************************************************************)
LEMMA FilesStart == Files!Init => FInv
<1> SUFFICES ASSUME Files!Init PROVE FInv
  OBVIOUS
<1>1. PICK old \in BOOLEAN, who \in {{}, {1}} :
        /\ files = [f \in Files!Names |-> IF f = "config" THEN Files!File(who) ELSE Files!Missing]
        /\ database = IF old THEN "there" ELSE "none"
        /\ confirmed = IF old THEN OldJobs ELSE {}
        /\ identified = IF who = {} THEN 0 ELSE 1
  BY DEF Files!Init, Files!Nobody
<1>2. /\ safe = [f \in Files!Names |-> {files[f]}] /\ aside = {} /\ stage = "down" /\ write = <<>>
      /\ unwanted = {} /\ deleted = {} /\ damaged = {}
  BY DEF Files!Init
<1>3. /\ \A f \in Files!Names : safe[f] = {files[f]}
      /\ files["config"] = Files!File(who) /\ files["jobs"] = Files!Missing
      /\ files["schedule"] = Files!Missing /\ files["identity"] = Files!Missing
  BY <1>1, <1>2 DEF Files!Names
<1>4. /\ safe["config"] = {Files!File(who)} /\ safe["jobs"] = {Files!Missing}
      /\ safe["schedule"] = {Files!Missing} /\ safe["identity"] = {Files!Missing}
  BY <1>3 DEF Files!Names
<1>5. DiskHolds
  <2>1. Shaped(Files!Missing) /\ Shaped(Files!File(who)) /\ Files!Torn # Files!Missing
    BY DEF Shaped, Files!Missing, Files!File, Files!Torn
  <2>2. \A f \in Files!Names : files[f] \in safe[f] /\ \A c \in safe[f] : Shaped(c)
    BY <1>1, <1>3, <2>1
  <2>3. \A f \in Files!Names \ {"config"} : Files!Torn \notin safe[f]
    BY <1>1, <1>3, <2>1
  <2>4. safe["config"] \subseteq {Files!File({}), Files!File({1}), Files!Torn}
    BY <1>4
  <2> QED
    BY <1>1, <1>2, <2>2, <2>3, <2>4 DEF DiskHolds
<1>6. WriteHolds
  BY <1>2 DEF WriteHolds
<1>7. JobsHold
  BY <1>1, <1>2, <1>4 DEF JobsHold, Keeps, Owed, Spared, Legacy, Loaded, Writing, Files!Missing
<1>8. JobsFit
  BY <1>1, <1>2, <1>4 DEF JobsFit, Legacy, Loaded, Writing, Whole
<1>9. StatesFit
  <2>1. ~Loaded /\ ~Writing("jobs") /\ ~Writing("schedule")
    BY <1>2 DEF Loaded, Writing
  <2>2. ~Files!Missing.there
    BY DEF Files!Missing
  <2>3. ~(\E c \in safe["jobs"] : c.there) /\ \A c \in safe["schedule"] : Whole(c)
    BY <1>4, <2>2 DEF Whole
  <2> QED
    BY <2>1, <2>3 DEF StatesFit
<1>10. IdentityFits
  BY <1>1, <1>2, <1>4 DEF IdentityFits, Writing
<1> QED
  BY <1>5, <1>6, <1>7, <1>8, <1>9, <1>10 DEF FInv

LEMMA FilesStep == FInv /\ Files!Next => FInv'
<1> SUFFICES ASSUME FInv, Files!Next PROVE FInv'
  OBVIOUS
<1>1. CASE Files!SyncTemporary
  BY <1>1, SyncTemporaryKeeps
<1>2. CASE Files!RenameTemporary
  BY <1>2, RenameTemporaryKeeps
<1>3. CASE Files!EndWrite \/ Files!FailWrite
  BY <1>3, WriteEndsKeep
<1>4. CASE Files!ReadIdentity
  BY <1>4, ReadIdentityKeeps
<1>5. CASE Files!ClearConfig
  BY <1>5, ClearConfigKeeps
<1>6. CASE Files!Import
  BY <1>6, ImportKeeps
<1>7. CASE Files!RenameDatabase
  BY <1>7, RenameDatabaseKeeps
<1>8. CASE Files!SkipImport
  BY <1>8, SkipImportKeeps
<1>9. CASE Files!Load
  BY <1>9, LoadKeeps
<1>10. ASSUME NEW j, Files!SaveJob(j) \/ Files!DeleteJob(j) \/ Files!NoteRun(j) PROVE FInv'
  BY <1>10, SaveJobKeeps, DeleteJobKeeps, NoteRunKeeps
<1>11. CASE Files!Register
  BY <1>11, RegisterKeeps
<1>12. CASE Files!Kill
  BY <1>12, KillKeeps
<1>13. CASE Files!LosePower
  BY <1>13, LosePowerKeeps
<1>14. CASE Files!Damage
  BY <1>14, DamageKeeps
<1> QED
  BY <1>1, <1>2, <1>3, <1>4, <1>5, <1>6, <1>7, <1>8, <1>9, <1>10, <1>11, <1>12, <1>13, <1>14 DEF Files!Next

LEMMA FilesShow == FInv => Files!FilesHold
<1> SUFFICES ASSUME FInv PROVE Files!FilesHold
  OBVIOUS
<1> USE DEF FInv
<1>1. Files!JobsAreKept
  <2>1. Keeps(files["jobs"].holds)
    BY DEF DiskHolds, JobsHold, Files!Names
  <2> DEFINE Found == UNION {c.holds : c \in aside \cup {files["jobs"]}}
  <2>2. files["jobs"].holds \subseteq Found /\ (UNION {c.holds : c \in aside}) \subseteq Found
    OBVIOUS
  <2>3. Owed \subseteq Found \cup Legacy
    BY <2>1, <2>2 DEF Keeps, Spared
  <2> QED
    BY <2>3 DEF Files!JobsAreKept, Owed, Legacy
<1>2. Files!RunsItsJobs
  BY DEF Files!RunsItsJobs, JobsFit, Fits, Owed, Loaded
<1>3. Files!StatesCome
  BY DEF Files!StatesCome, StatesFit, Due, Loaded
<1>4. Files!StaysItself
  BY DEF Files!StaysItself, IdentityFits
<1> QED
  BY <1>1, <1>2, <1>3, <1>4 DEF Files!FilesHold

\* Whatever ends an agent's process and whichever write it was in, killed, out of
\* power or refused by the disk, no job it confirmed is lost; a restarted agent runs
\* every job it confirmed and none it deleted, brings an older installation's jobs
\* along with the times they are due at, and is who it was (DataStore.writeJsonFile,
\* LegacyImport, JobRepository.commit, Identity).
THEOREM FilesSurvive == MCSpec => []FilesAreKept
<1> DEFINE Inv == part = "files" => FInv
<1>1. MCInit => Inv
  BY FilesStart DEF MCInit
<1>2. Inv /\ [MCNext]_<<part, schedulerVars, filesVars>> => Inv'
  <2> SUFFICES ASSUME Inv, [MCNext]_<<part, schedulerVars, filesVars>> PROVE Inv'
    OBVIOUS
  <2>1. CASE part = "scheduler" /\ Next /\ UNCHANGED <<part, filesVars>>
    BY <2>1
  <2>2. CASE part = "files" /\ Files!Next /\ UNCHANGED <<part, schedulerVars>>
    BY <2>2, FilesStep
  <2>3. CASE UNCHANGED <<part, schedulerVars, filesVars>>
    <3>1. part' = part /\ UNCHANGED <<files, safe, aside, database, stage, write, jobs, states, identity,
                                      confirmed, unwanted, deleted, identified, damaged>>
      BY <2>3 DEF filesVars
    <3>2. FInv => FInv'
      <4> SUFFICES ASSUME FInv PROVE FInv'
        OBVIOUS
      <4> USE DEF FInv
      <4>1. DiskHolds'
        BY <3>1 DEF DiskHolds, Shaped
      <4>2. WriteHolds'
        BY <3>1 DEF WriteHolds, Written, Belongs
      <4>3. JobsHold'
        BY <3>1 DEF JobsHold, Keeps, Owed, Spared, Legacy, Loaded, Writing
      <4>4. JobsFit'
        BY <3>1 DEF JobsFit, Fits, Owed, Legacy, Loaded, Writing, Whole
      <4>5. StatesFit'
        BY <3>1 DEF StatesFit, Due, Loaded, Writing, Whole
      <4>6. IdentityFits'
        BY <3>1 DEF IdentityFits, Writing
      <4> QED
        BY <4>1, <4>2, <4>3, <4>4, <4>5, <4>6
    <3> QED
      BY <3>1, <3>2
  <2> QED
    BY <2>1, <2>2, <2>3 DEF MCNext
<1>3. Inv => FilesAreKept
  BY FilesShow DEF FilesAreKept
<1> QED
  BY <1>1, <1>2, <1>3, PTL DEF MCSpec

-----------------------------------------------------------------------------
(***************************************************************************)
(* Numbers.  What is said of every number is shown by the least one it     *)
(* does not hold of, and a function that is given step by step has all its *)
(* steps.                                                                  *)
(***************************************************************************)
LEMMA Least ==
    ASSUME NEW T \in SUBSET Nat, T # {}
    PROVE  \E x \in T : \A y \in T : x <= y
<1> DEFINE R == {r \in Nat \X Nat : r[1] < r[2]}
<1>1. IsWellFoundedOn(R, Nat)
  BY NatLessThanWellFounded DEF OpToRel
<1> HIDE DEF R
<1>2. PICK x \in T : \A y \in T : <<y, x>> \notin R
  BY <1>1, WFMin
<1>3. \A y \in T : ~(y < x)
  BY <1>2 DEF R
<1>4. QED
  BY <1>2, <1>3

\* The numbers up to n are in P if the first is and P has the succ of each.
LEMMA Ascend ==
    ASSUME NEW n \in Nat, NEW a \in Nat, NEW P, a \in P,
           \A k \in a .. n : k \in P /\ k < n => k + 1 \in P
    PROVE  a .. n \subseteq P
<1> DEFINE T == {k \in a .. n : k \notin P}
<1> SUFFICES ASSUME T # {} PROVE FALSE
  OBVIOUS
<1>0. T \in SUBSET Nat
  OBVIOUS
<1>1. PICK k \in T : \A m \in T : k <= m
  <2> HIDE DEF T
  <2>1. QED
    BY <1>0, Least
<1>2. k \in Nat /\ k > a /\ k <= n /\ k \notin P
  BY <1>1
<1>3. k - 1 \in a .. n /\ k - 1 < n /\ (k - 1) + 1 = k
  BY <1>2
<1>4. k - 1 \in P
  BY <1>1, <1>3
<1>5. QED
  BY <1>2, <1>3, <1>4

\* A function whose every entry is a step on from the one before it.
Climbs(f, n, S, a, succ) ==
    f \in [0 .. n -> S] /\ f[0] = a /\ \A k \in 1 .. n : f[k] = succ[f[k - 1]]

LEMMA StepsExist ==
    ASSUME NEW n \in Nat, NEW S, NEW a \in S, NEW succ \in [S -> S]
    PROVE  \E f : Climbs(f, n, S, a, succ)
<1> DEFINE Is(f, m) == f[0] = a /\ \A k \in 1 .. m : f[k] = succ[f[k - 1]]
           P == {m \in Nat : \E f \in [0 .. m -> S] : Is(f, m)}
<1>1. 0 \in P
  <2> DEFINE f == [k \in 0 .. 0 |-> a]
  <2>1. f \in [0 .. 0 -> S] /\ Is(f, 0)
    OBVIOUS
  <2>2. QED
    BY <2>1
<1>2. ASSUME NEW m \in Nat, m \in P PROVE m + 1 \in P
  <2>1. PICK f \in [0 .. m -> S] : Is(f, m)
    BY <1>2
  <2> DEFINE g == [k \in 0 .. m + 1 |-> IF k = m + 1 THEN succ[f[m]] ELSE f[k]]
  <2>2. g \in [0 .. m + 1 -> S]
    BY <2>1
  <2>3. g[0] = a
    BY <2>1
  <2>4. \A k \in 1 .. m + 1 : g[k] = succ[g[k - 1]]
    BY <2>1
  <2>5. Is(g, m + 1) /\ m + 1 \in Nat
    BY <2>3, <2>4
  <2> HIDE DEF g, Is
  <2>6. QED
    BY <2>2, <2>5
<1> HIDE DEF Is
<1>3. 0 .. n \subseteq P
  <2>1. \A k \in 0 .. n : k \in P /\ k < n => k + 1 \in P
    BY <1>2
  <2> HIDE DEF P
  <2>2. QED
    BY <1>1, <2>1, Ascend
<1>4. n \in P
  BY <1>3
<1>5. QED
  BY <1>4 DEF Is, Climbs

-----------------------------------------------------------------------------
(***************************************************************************)
(* The calendar (Schedule): every hour is in one day, a day has an hour of *)
(* every name, but for the one the clocks skip, and days follow each other.*)
(***************************************************************************)
Length(d) == IF d = GapDay THEN Day - 1 ELSE IF d = FoldDay THEN Day + 1 ELSE Day
In(t, d) == DayStart(d) <= t /\ t < DayStart(d + 1)

LEMMA TimesOrder ==
    ASSUME NEW n \in Nat, NEW a \in Nat, NEW b \in Nat, a < b
    PROVE  (a + 1) * n = a * n + n /\ (a + 1) * n <= b * n
<1>1. (a + 1) * n = a * n + n
  OBVIOUS
<1>2. PICK c \in Nat : b = (a + 1) + c
  <2>1. b - (a + 1) \in Nat /\ b = (a + 1) + (b - (a + 1))
    OBVIOUS
  <2>2. QED
    BY <2>1
<1>3. b * n = (a + 1) * n + c * n /\ c * n \in Nat /\ (a + 1) * n \in Nat
  BY <1>2
<1>4. QED
  BY <1>1, <1>3

LEMMA Starting ==
    ASSUME NEW d \in Nat
    PROVE  /\ DayStart(d) \in Nat /\ DayStart(d + 1) = DayStart(d) + Length(d)
           /\ d * Day - 1 <= DayStart(d) /\ DayStart(d) <= d * Day + 1
           /\ DayStart(0) = 0
           /\ Length(d) \in Nat /\ Day - 1 <= Length(d) /\ Length(d) <= Day + 1
<1>1. Day \in Nat /\ Day > 2 /\ GapDay \in Nat /\ FoldDay \in Nat /\ GapDay # FoldDay
  BY CalendarAssumption
<1> DEFINE p == d * Day
<1>2. p \in Nat /\ (d + 1) * Day = p + Day /\ 0 * Day = 0
  BY <1>1
<1>3. d > 0 => p >= Day
  <2>1. d > 0 => (0 + 1) * Day <= d * Day /\ (0 + 1) * Day = 0 * Day + Day
    BY <1>1, TimesOrder
  <2>2. QED
    BY <1>1, <1>2, <2>1
<1> HIDE DEF p
<1>4. DayStart(d) = p - (IF GapDay < d THEN 1 ELSE 0) + (IF FoldDay < d THEN 1 ELSE 0)
  BY DEF DayStart, p
<1>5. DayStart(d + 1) = p + Day - (IF GapDay < d + 1 THEN 1 ELSE 0) + (IF FoldDay < d + 1 THEN 1 ELSE 0)
  <2> DEFINE gap == IF GapDay < d + 1 THEN 1 ELSE 0
             fold == IF FoldDay < d + 1 THEN 1 ELSE 0
             r == (d + 1) * Day
  <2>1. gap \in Nat /\ fold \in Nat
    OBVIOUS
  <2>2. DayStart(d + 1) = r - gap + fold
    BY DEF DayStart
  <2>3. r = p + Day
    BY <1>2
  <2> HIDE DEF gap, fold, r
  <2>4. DayStart(d + 1) = p + Day - gap + fold
    BY <1>1, <1>2, <2>1, <2>2, <2>3
  <2>5. QED
    BY <2>4 DEF gap, fold
<1>6. DayStart(0) = 0
  BY <1>1, <1>2 DEF DayStart
<1>7. QED
  BY <1>1, <1>2, <1>3, <1>4, <1>5, <1>6 DEF Length, p

LEMMA DaysFollow ==
    ASSUME NEW d \in Nat, NEW e \in Nat, d < e
    PROVE  DayStart(d + 1) <= DayStart(e) /\ DayStart(d) < DayStart(e)
<1>1. Day \in Nat /\ Day > 2
  BY CalendarAssumption
<1>2. DayStart(d + 1) = DayStart(d) + Length(d) /\ DayStart(d) \in Nat /\ Length(d) \in Nat /\ Length(d) > 0
  BY <1>1, Starting
<1>3. DayStart(d + 1) <= DayStart(e)
  <2>1. CASE e = d + 1
    BY <1>2, <2>1
  <2>2. CASE e > d + 1
    <3>1. d + 1 \in Nat
      OBVIOUS
    <3>2. ((d + 1) + 1) * Day = (d + 1) * Day + Day /\ ((d + 1) + 1) * Day <= e * Day
      BY <1>1, <2>2, <3>1, TimesOrder
    <3>3. DayStart(d + 1) <= (d + 1) * Day + 1 /\ DayStart(d + 1) \in Nat
      BY <3>1, Starting
    <3>4. e * Day - 1 <= DayStart(e) /\ DayStart(e) \in Nat
      BY Starting
    <3>5. (d + 1) * Day \in Nat /\ e * Day \in Nat
      BY <1>1
    <3>6. QED
      BY <1>1, <3>2, <3>3, <3>4, <3>5
  <2>3. QED
    BY <2>1, <2>2
<1>4. DayStart(e) \in Nat
  BY Starting
<1>5. QED
  BY <1>2, <1>3, <1>4

\* The day of a time, if there is one, is near its quotient.
LEMMA DayIsNear ==
    ASSUME NEW t \in Nat, NEW d \in Nat, In(t, d)
    PROVE  d \in (t \div Day) - 1 .. (t \div Day) + 1
<1>1. Day \in Nat /\ Day > 2
  BY CalendarAssumption
<1> DEFINE q == t \div Day
<1>2. q \in Nat /\ q * Day <= t /\ t < q * Day + Day
  BY <1>1
<1> HIDE DEF q
<1>3. /\ d * Day - 1 <= DayStart(d) /\ DayStart(d) \in Nat
      /\ DayStart(d + 1) <= (d + 1) * Day + 1 /\ DayStart(d + 1) \in Nat
  BY Starting
<1>4. /\ d * Day - 1 <= t /\ t <= (d + 1) * Day
      /\ d * Day \in Nat /\ q * Day \in Nat /\ (d + 1) * Day \in Nat
  BY <1>1, <1>2, <1>3 DEF In
<1>5. ~(d > q + 1)
  <2> SUFFICES ASSUME d > q + 1 PROVE FALSE
    OBVIOUS
  <2>1. /\ (q + 1) + 1 \in Nat /\ q + 1 \in Nat
        /\ ((q + 1) + 1) * Day = (q + 1) * Day + Day /\ ((q + 1) + 1) * Day <= d * Day
        /\ (q + 1) * Day = q * Day + Day
    BY <1>1, <1>2, TimesOrder
  <2>2. QED
    BY <1>1, <1>2, <1>4, <2>1
<1>6. ~(d < q - 1)
  <2> SUFFICES ASSUME d + 1 < q PROVE FALSE
    BY <1>2
  <2>1. /\ d + 1 \in Nat
        /\ ((d + 1) + 1) * Day = (d + 1) * Day + Day /\ ((d + 1) + 1) * Day <= q * Day
    BY <1>1, <1>2, TimesOrder
  <2>2. QED
    BY <1>1, <1>2, <1>4, <2>1
<1>7. d \in q - 1 .. q + 1
  BY <1>2, <1>5, <1>6
<1>8. QED
  BY <1>7 DEF q

LEMMA DayIs ==
    ASSUME NEW t \in Nat, NEW d \in Nat, In(t, d)
    PROVE  DayOf(t) = d
<1> DEFINE D == (t \div Day) - 1 .. (t \div Day) + 1
<1>1. d \in D
  BY DayIsNear
<1>2. t \div Day \in Int
  BY CalendarAssumption
<1>3. \A e \in D : e >= 0 /\ In(t, e) => e = d
  <2> TAKE e \in D
  <2> SUFFICES ASSUME e >= 0, In(t, e), e # d PROVE FALSE
    OBVIOUS
  <2>1. e \in Nat
    BY <1>2
  <2>2. /\ DayStart(d) \in Nat /\ DayStart(d + 1) \in Nat
        /\ DayStart(e) \in Nat /\ DayStart(e + 1) \in Nat
    BY <2>1, Starting
  <2>3. CASE d < e
    BY <2>1, <2>2, <2>3, DaysFollow DEF In
  <2>4. CASE e < d
    BY <2>1, <2>2, <2>4, DaysFollow DEF In
  <2>5. QED
    BY <2>1, <2>3, <2>4
<1>4. DayOf(t) = CHOOSE e \in D : e >= 0 /\ In(t, e)
  BY DEF DayOf, In
<1>5. d >= 0
  OBVIOUS
<1> HIDE DEF D
<1>6. QED
  BY <1>1, <1>3, <1>4, <1>5

LEMMA HasDay ==
    ASSUME NEW t \in Nat
    PROVE  DayOf(t) \in Nat /\ In(t, DayOf(t))
<1>1. Day \in Nat /\ Day > 2
  BY CalendarAssumption
<1> DEFINE q == t \div Day
<1>2. q \in Nat /\ q * Day <= t /\ t < q * Day + Day
  BY <1>1
<1> HIDE DEF q
<1>3. /\ DayStart(q) \in Nat /\ DayStart(q + 1) \in Nat
      /\ DayStart(q) <= q * Day + 1 /\ (q + 1) * Day - 1 <= DayStart(q + 1)
      /\ (q + 1) * Day = q * Day + Day /\ q * Day \in Nat
  BY <1>1, <1>2, Starting
<1>4. CASE t < DayStart(q)
  <2>1. q # 0
    BY <1>2, <1>4, Starting
  <2>2. PICK p \in Nat : q = p + 1
    <3>1. q - 1 \in Nat /\ q = (q - 1) + 1
      BY <1>2, <2>1
    <3>2. QED
      BY <3>1
  <2>3. DayStart(p) <= p * Day + 1 /\ q * Day = p * Day + Day /\ p * Day \in Nat /\ DayStart(p) \in Nat
    BY <1>1, <2>2, Starting
  <2>4. In(t, p)
    BY <1>1, <1>2, <1>4, <2>2, <2>3 DEF In
  <2>5. QED
    BY <2>4, DayIs
<1>5. CASE DayStart(q) <= t /\ t < DayStart(q + 1)
  BY <1>2, <1>5, DayIs DEF In
<1>6. CASE DayStart(q + 1) <= t
  <2>1. q + 1 \in Nat
    BY <1>2
  <2>2. /\ ((q + 1) + 1) * Day - 1 <= DayStart((q + 1) + 1)
        /\ ((q + 1) + 1) * Day = (q + 1) * Day + Day /\ DayStart((q + 1) + 1) \in Nat
    <3> DEFINE r == q + 1
    <3>1. r \in Nat /\ r + 1 \in Nat
      BY <2>1
    <3> HIDE DEF r
    <3>2. (r + 1) * Day = r * Day + Day
      BY <1>1, <3>1
    <3>3. (r + 1) * Day - 1 <= DayStart(r + 1) /\ DayStart(r + 1) \in Nat
      BY <3>1, Starting
    <3>4. QED
      BY <3>2, <3>3 DEF r
  <2>3. In(t, q + 1)
    BY <1>1, <1>2, <1>3, <1>6, <2>2 DEF In
  <2>4. QED
    BY <2>1, <2>3, DayIs
<1>7. QED
  BY <1>3, <1>4, <1>5, <1>6

LEMMA HourIs ==
    ASSUME NEW t \in Nat
    PROVE  HourOf(t) \in 0 .. Day - 1
<1>1. Day \in Nat /\ Day > 2 /\ ChangeHour \in 0 .. Day - 2
  BY CalendarAssumption
<1> DEFINE d == DayOf(t)
           x == t - DayStart(d)
<1>2. d \in Nat /\ In(t, d)
  BY HasDay
<1> HIDE DEF d
<1>3. DayStart(d) \in Nat /\ DayStart(d + 1) = DayStart(d) + Length(d) /\ Length(d) \in Nat
  BY <1>2, Starting
<1>4. x \in Nat /\ x < Length(d)
  BY <1>2, <1>3 DEF In
<1> HIDE DEF x
<1>5. HourOf(t) = CASE d = GapDay /\ x >= ChangeHour -> x + 1
                    [] d = FoldDay /\ x > ChangeHour -> x - 1
                    [] OTHER -> x
  BY DEF HourOf, d, x
<1>6. GapDay # FoldDay
  BY CalendarAssumption
<1>7. CASE d = GapDay
  BY <1>1, <1>4, <1>5, <1>6, <1>7 DEF Length
<1>8. CASE d = FoldDay
  BY <1>1, <1>4, <1>5, <1>6, <1>8 DEF Length
<1>9. CASE d # GapDay /\ d # FoldDay
  BY <1>1, <1>4, <1>5, <1>9 DEF Length
<1>10. QED
  BY <1>7, <1>8, <1>9

\* A time has an hour of the clock, but for one that the clocks skip.
HasHour(t, h) == HourOf(t) = h \/ (DayOf(t) = GapDay /\ h = ChangeHour)

LEMMA AtIs ==
    ASSUME NEW d \in Nat, NEW h \in 0 .. Day - 1
    PROVE  /\ At(d, h) \in Nat /\ In(At(d, h), d) /\ DayOf(At(d, h)) = d
           /\ HasHour(At(d, h), h)
<1>1. Day \in Nat /\ Day > 2 /\ ChangeHour \in 0 .. Day - 2 /\ GapDay # FoldDay
  BY CalendarAssumption
<1>2. DayStart(d) \in Nat /\ DayStart(d + 1) = DayStart(d) + Length(d) /\ Length(d) \in Nat
  BY Starting
<1> DEFINE t == At(d, h)
           x == t - DayStart(d)
<1>3. t = CASE d = GapDay /\ h > ChangeHour -> DayStart(d) + h - 1
            [] d = FoldDay /\ h > ChangeHour -> DayStart(d) + h + 1
            [] OTHER -> DayStart(d) + h
  BY DEF At
<1> HIDE DEF t
<1>4. /\ d = GapDay => x = (IF h > ChangeHour THEN h - 1 ELSE h)
      /\ d = FoldDay => x = (IF h > ChangeHour THEN h + 1 ELSE h)
      /\ d # GapDay /\ d # FoldDay => x = h
      /\ t \in Int /\ t = DayStart(d) + x
  BY <1>1, <1>2, <1>3
<1>5. x \in Nat /\ x < Length(d)
  BY <1>1, <1>4 DEF Length
<1>6. t \in Nat /\ In(t, d)
  BY <1>2, <1>4, <1>5 DEF In
<1>7. DayOf(t) = d
  BY <1>6, DayIs
<1> HIDE DEF x
<1>8. HourOf(t) = CASE d = GapDay /\ x >= ChangeHour -> x + 1
                    [] d = FoldDay /\ x > ChangeHour -> x - 1
                    [] OTHER -> x
  BY <1>7 DEF HourOf, x
<1>9. HasHour(t, h)
  <2>1. CASE d = GapDay
    BY <1>1, <1>4, <1>7, <1>8, <2>1 DEF HasHour
  <2>2. CASE d = FoldDay
    BY <1>1, <1>4, <1>8, <2>2 DEF HasHour
  <2>3. CASE d # GapDay /\ d # FoldDay
    BY <1>4, <1>8, <2>3 DEF HasHour
  <2>4. QED
    BY <2>1, <2>2, <2>3
<1>10. QED
  BY <1>6, <1>7, <1>9 DEF t

-----------------------------------------------------------------------------
(***************************************************************************)
(* The next run (Schedule).                                                *)
(***************************************************************************)
Clocks == Nat \cup {None}

LEMMA MinIs ==
    ASSUME NEW T \in SUBSET Nat, T # {}
    PROVE  Min(T) \in T /\ \A y \in T : Min(T) <= y
  BY Least DEF Min

\* Only the least is.
LEMMA MinOnly ==
    ASSUME NEW T \in SUBSET Nat, NEW x \in T, \A y \in T : x <= y
    PROVE  Min(T) = x
<1>1. Min(T) \in T /\ \A y \in T : Min(T) <= y
  BY MinIs
<1>2. Min(T) <= x /\ x <= Min(T) /\ x \in Nat /\ Min(T) \in Nat
  BY <1>1
<1>3. QED
  BY <1>2

LEMMA UnitsAre ==
    ASSUME NEW s \in ScheduleConfig
    PROVE  /\ s.interval \in Nat \ {0} /\ s.weekdays \in SUBSET (0 .. Week - 1)
           /\ IsCalendar(s) <=> s.unit \in {"days", "weeks"}
           /\ IsCalendar(s) => s.interval * UnitDays[s.unit] \in Nat \ {0}
           /\ s.unit = "days" => UnitDays[s.unit] = 1
<1>1. s.interval \in Nat \ {0} /\ s.unit \in Units /\ s.weekdays \in SUBSET (0 .. Week - 1)
  BY DEF ScheduleConfig
<1>2. IsCalendar(s) <=> s.unit \in {"days", "weeks"}
  BY DEF IsCalendar, UnitDays
<1>3. Week \in Nat \ {0}
  BY CalendarAssumption
<1>4. UnitDays["days"] = 1 /\ UnitDays["weeks"] = Week
  BY DEF UnitDays
<1>5. ASSUME NEW a \in Nat \ {0}, NEW b \in Nat \ {0} PROVE a * b \in Nat \ {0}
  <2>1. 0 < a
    OBVIOUS
  <2>2. 0 * b + b <= a * b /\ a * b \in Nat /\ 0 * b = 0
    BY <2>1, TimesOrder
  <2>3. QED
    BY <2>2
<1>6. IsCalendar(s) => UnitDays[s.unit] \in Nat \ {0}
  BY <1>2, <1>3, <1>4
<1>7. QED
  BY <1>1, <1>2, <1>4, <1>5, <1>6

LEMMA AddIs ==
    ASSUME NEW t \in Nat, NEW n \in Nat \ {0}, NEW c \in Clocks
    PROVE  /\ AddCalendarDays(t, n, c) \in Nat /\ AddCalendarDays(t, n, c) > t
           /\ DayOf(AddCalendarDays(t, n, c)) = DayOf(t) + n
           /\ c # None => /\ AddCalendarDays(t, n, c) = At(DayOf(t) + n, HourOf(c))
                          /\ HasHour(AddCalendarDays(t, n, c), HourOf(c))
<1> DEFINE d == DayOf(t)
           h == HourOf(IF c # None THEN c ELSE t)
<1>1. AddCalendarDays(t, n, c) = At(d + n, h)
  BY DEF AddCalendarDays
<1>2. d \in Nat /\ In(t, d)
  BY HasDay
<1>3. h \in 0 .. Day - 1
  BY HourIs DEF Clocks
<1>4. c # None => h = HourOf(c)
  OBVIOUS
<1> HIDE DEF d, h
<1>5. d + n \in Nat /\ d < d + n
  BY <1>2
<1>6. DayStart(d + 1) <= DayStart(d + n) /\ DayStart(d + 1) \in Nat /\ DayStart(d + n) \in Nat
  <2>1. \A e \in Nat : DayStart(e) \in Nat
    BY Starting
  <2>2. \A e \in Nat : d < e => DayStart(d + 1) <= DayStart(e)
    BY <1>2, DaysFollow
  <2>3. d + 1 \in Nat
    BY <1>2
  <2>4. QED
    BY <1>5, <2>1, <2>2, <2>3
<1>7. /\ At(d + n, h) \in Nat /\ In(At(d + n, h), d + n) /\ DayOf(At(d + n, h)) = d + n
      /\ HasHour(At(d + n, h), h)
  BY <1>3, <1>5, AtIs
<1>8. At(d + n, h) > t
  BY <1>2, <1>6, <1>7 DEF In
<1>9. QED
  BY <1>1, <1>4, <1>7, <1>8 DEF d

\* The days from a run on, and the run if only the days a schedule has are taken.
ClockOf(s, anchor) == IF IsCalendar(s) THEN anchor ELSE None
FirstOf(s, from, anchor) ==
    IF IsCalendar(s) THEN AddCalendarDays(from, s.interval * UnitDays[s.unit], ClockOf(s, anchor))
    ELSE from + s.interval
AreDays(f, first, clock) ==
    f = [k \in 0 .. 2 * Week |-> IF k = 0 THEN first ELSE AddCalendarDays(f[k - 1], 1, clock)]
DaysFrom(first, clock) == CHOOSE f : AreDays(f, first, clock)

LEMMA NextRunIs ==
    ASSUME NEW s, NEW from, NEW anchor
    PROVE  LET first == FirstOf(s, from, anchor)
               day == DaysFrom(first, ClockOf(s, anchor))
               fits == {k \in 0 .. 2 * Week : Allowed(s, day[k])}
           IN  NextRunAfter(s, from, anchor) =
                   IF Allowed(s, first) THEN first ELSE day[IF fits = {} THEN 2 * Week ELSE Min(fits)]
  BY DEF NextRunAfter, FirstOf, ClockOf, DaysFrom, AreDays

\* The days are those one would count on from the first.
LEMMA DaysAre ==
    ASSUME NEW first \in Nat, NEW c \in Clocks
    PROVE  LET day == DaysFrom(first, c) IN
           /\ day[0] = first
           /\ \A k \in 1 .. 2 * Week : day[k] = AddCalendarDays(day[k - 1], 1, c)
           /\ \A k \in 0 .. 2 * Week : day[k] \in Nat /\ DayOf(day[k]) = DayOf(first) + k /\ day[k] >= first
<1> DEFINE n == 2 * Week
           step == [t \in Nat |-> AddCalendarDays(t, 1, c)]
           day == DaysFrom(first, c)
<1>1. n \in Nat
  BY CalendarAssumption
<1>2. step \in [Nat -> Nat]
  BY AddIs
<1>3. PICK f \in [0 .. n -> Nat] : f[0] = first /\ \A k \in 1 .. n : f[k] = step[f[k - 1]]
  <2> HIDE DEF n, step
  <2>1. PICK f : Climbs(f, n, Nat, first, step)
    BY <1>1, <1>2, StepsExist
  <2>2. QED
    BY <2>1 DEF Climbs
<1>4. AreDays(f, first, c)
  <2>1. \A k \in 0 .. n : f[k] = IF k = 0 THEN first ELSE AddCalendarDays(f[k - 1], 1, c)
    <3> TAKE k \in 0 .. n
    <3>1. CASE k = 0
      BY <1>3, <3>1
    <3>2. CASE k # 0
      <4>1. k \in 1 .. n /\ k - 1 \in 0 .. n
        BY <1>1, <3>2
      <4>2. f[k] = step[f[k - 1]] /\ f[k - 1] \in Nat
        BY <1>3, <4>1
      <4>3. QED
        BY <3>2, <4>2
    <3>3. QED
      BY <3>1, <3>2
  <2>2. f = [k \in 0 .. n |-> f[k]]
    BY <1>3
  <2>3. QED
    BY <2>1, <2>2 DEF AreDays
<1>5. AreDays(day, first, c)
  BY <1>4 DEF DaysFrom
<1> HIDE DEF day, step
<1>6. day = [k \in 0 .. n |-> IF k = 0 THEN first ELSE AddCalendarDays(day[k - 1], 1, c)]
  BY <1>5 DEF AreDays
<1> HIDE DEF n
<1>7. day[0] = first /\ \A k \in 1 .. n : day[k] = AddCalendarDays(day[k - 1], 1, c)
  <2>1. \A k \in 0 .. n : day[k] = IF k = 0 THEN first ELSE AddCalendarDays(day[k - 1], 1, c)
    BY <1>6, Zenon
  <2>2. 0 \in 0 .. n /\ \A k \in 1 .. n : k \in 0 .. n /\ k # 0
    BY <1>1
  <2>3. QED
    BY <2>1, <2>2
<1> DEFINE P == {k \in 0 .. n : day[k] \in Nat /\ DayOf(day[k]) = DayOf(first) + k /\ day[k] >= first}
<1>8. 0 \in P
  <2>1. DayOf(first) \in Nat
    BY HasDay
  <2>2. QED
    BY <1>1, <1>7, <2>1
<1>9. ASSUME NEW k \in 0 .. n, k \in P, k < n PROVE k + 1 \in P
  <2>1. k + 1 \in 1 .. n /\ (k + 1) - 1 = k
    BY <1>1, <1>9
  <2>2. day[k + 1] = AddCalendarDays(day[k], 1, c)
    BY <1>7, <2>1
  <2>3. day[k] \in Nat /\ DayOf(day[k]) = DayOf(first) + k /\ day[k] >= first
    BY <1>9
  <2>4. 1 \in Nat \ {0}
    OBVIOUS
  <2>5. /\ AddCalendarDays(day[k], 1, c) \in Nat /\ AddCalendarDays(day[k], 1, c) > day[k]
        /\ DayOf(AddCalendarDays(day[k], 1, c)) = DayOf(day[k]) + 1
    BY <2>3, <2>4, AddIs
  <2>6. DayOf(first) \in Nat
    BY HasDay
  <2>7. DayOf(day[k + 1]) = DayOf(first) + (k + 1)
    BY <2>2, <2>3, <2>5, <2>6
  <2>8. day[k + 1] \in Nat /\ day[k + 1] >= first
    BY <2>2, <2>3, <2>5
  <2>9. QED
    BY <1>1, <2>1, <2>7, <2>8
<1>10. 0 .. n \subseteq P
  <2> HIDE DEF P
  <2>1. 0 \in Nat
    OBVIOUS
  <2>2. QED
    BY <1>1, <1>8, <1>9, <2>1, Ascend
<1>11. QED
  BY <1>7, <1>10 DEF n, day

\* A run lies after the one before it, at the time of day of the anchor.
LEMMA RunIs ==
    ASSUME NEW s \in ScheduleConfig, NEW from \in Nat, NEW anchor \in Clocks
    PROVE  /\ NextRunAfter(s, from, anchor) \in Nat /\ NextRunAfter(s, from, anchor) > from
           /\ IsCalendar(s) /\ anchor # None => HasHour(NextRunAfter(s, from, anchor), HourOf(anchor))
<1> DEFINE c == ClockOf(s, anchor)
           first == FirstOf(s, from, anchor)
           day == DaysFrom(first, c)
           n == 2 * Week
           fits == {k \in 0 .. n : Allowed(s, day[k])}
           i == IF fits = {} THEN n ELSE Min(fits)
<1>1. c \in Clocks
  BY DEF ClockOf, Clocks
<1>2. first \in Nat /\ first > from /\ (IsCalendar(s) /\ anchor # None => HasHour(first, HourOf(anchor)))
  <2>1. CASE IsCalendar(s)
    <3>1. first = AddCalendarDays(from, s.interval * UnitDays[s.unit], anchor)
      BY <2>1 DEF FirstOf, ClockOf
    <3>2. s.interval * UnitDays[s.unit] \in Nat \ {0}
      BY <2>1, UnitsAre
    <3> HIDE DEF first
    <3>3. QED
      BY <3>1, <3>2, AddIs
  <2>2. CASE ~IsCalendar(s)
    <3>1. first = from + s.interval /\ s.interval \in Nat \ {0}
      BY <2>2, UnitsAre DEF FirstOf
    <3> HIDE DEF first
    <3>2. QED
      BY <2>2, <3>1
  <2>3. QED
    BY <2>1, <2>2
<1>3. NextRunAfter(s, from, anchor) = IF Allowed(s, first) THEN first ELSE day[i]
  BY NextRunIs
<1>4. n \in Nat
  BY CalendarAssumption
<1> HIDE DEF c, first
<1>5. /\ day[0] = first /\ \A k \in 1 .. n : day[k] = AddCalendarDays(day[k - 1], 1, c)
      /\ \A k \in 0 .. n : day[k] \in Nat /\ day[k] >= first
  BY <1>1, <1>2, DaysAre
<1> HIDE DEF day, n
<1>6. i \in 0 .. n
  <2>1. fits \in SUBSET Nat /\ fits \subseteq 0 .. n
    BY <1>4
  <2>2. fits # {} => Min(fits) \in fits
    BY <2>1, MinIs
  <2>3. QED
    BY <1>4, <2>1, <2>2
<1> HIDE DEF i
<1>7. ASSUME IsCalendar(s), anchor # None PROVE \A k \in 0 .. n : HasHour(day[k], HourOf(anchor))
  <2> TAKE k \in 0 .. n
  <2>1. CASE k = 0
    BY <1>2, <1>5, <1>7, <2>1
  <2>2. CASE k # 0
    <3>1. k \in 1 .. n /\ k - 1 \in 0 .. n /\ 1 \in Nat \ {0}
      BY <1>4, <2>2
    <3>2. day[k] = AddCalendarDays(day[k - 1], 1, anchor) /\ day[k - 1] \in Nat
      BY <1>5, <1>7, <3>1 DEF c, ClockOf
    <3>3. QED
      BY <1>7, <3>1, <3>2, AddIs
  <2>3. QED
    BY <2>1, <2>2
<1>8. day[i] \in Nat /\ day[i] > from
  BY <1>2, <1>5, <1>6
<1>9. QED
  BY <1>2, <1>3, <1>6, <1>7, <1>8

\* The runs one would count on from a run.
AreRuns(f, s, from, anchor) ==
    f = [i \in 0 .. MaxCatchup |-> NextRunAfter(s, IF i = 0 THEN from ELSE f[i - 1], anchor)]
RunsFrom(s, from, anchor) == CHOOSE f : AreRuns(f, s, from, anchor)

LEMMA PastIs ==
    ASSUME NEW s, NEW from, NEW after, NEW anchor
    PROVE  LET run == RunsFrom(s, from, anchor)
               past == {i \in 0 .. MaxCatchup : run[i] > after}
           IN  NextRunPast(s, from, after, anchor) =
                   IF past # {}
                   THEN [next |-> run[Min(past)], due |-> Min(past) + 1, resynced |-> FALSE]
                   ELSE [next |-> NextRunAfter(s, after, anchor), due |-> MaxCatchup + 1, resynced |-> TRUE]
  BY DEF NextRunPast, RunsFrom, AreRuns

LEMMA RunsAre ==
    ASSUME NEW s \in ScheduleConfig, NEW from \in Nat, NEW anchor \in Clocks
    PROVE  LET run == RunsFrom(s, from, anchor) IN
           /\ run[0] = NextRunAfter(s, from, anchor)
           /\ \A i \in 1 .. MaxCatchup : run[i] = NextRunAfter(s, run[i - 1], anchor)
           /\ \A i \in 0 .. MaxCatchup : run[i] \in Nat
<1> DEFINE n == MaxCatchup
           first == NextRunAfter(s, from, anchor)
           step == [t \in Nat |-> NextRunAfter(s, t, anchor)]
           run == RunsFrom(s, from, anchor)
<1>1. n \in Nat
  BY CalendarAssumption
<1>2. step \in [Nat -> Nat] /\ first \in Nat
  BY RunIs
<1> HIDE DEF first
<1>3. PICK f \in [0 .. n -> Nat] : f[0] = first /\ \A k \in 1 .. n : f[k] = step[f[k - 1]]
  <2> HIDE DEF n, step
  <2>1. PICK f : Climbs(f, n, Nat, first, step)
    BY <1>1, <1>2, StepsExist
  <2>2. QED
    BY <2>1 DEF Climbs
<1>4. AreRuns(f, s, from, anchor)
  <2>1. \A k \in 0 .. n : f[k] = NextRunAfter(s, IF k = 0 THEN from ELSE f[k - 1], anchor)
    <3> TAKE k \in 0 .. n
    <3>1. CASE k = 0
      BY <1>3, <3>1 DEF first
    <3>2. CASE k # 0
      <4>1. k \in 1 .. n /\ k - 1 \in 0 .. n
        BY <1>1, <3>2
      <4>2. f[k] = step[f[k - 1]] /\ f[k - 1] \in Nat
        BY <1>3, <4>1
      <4>3. QED
        BY <3>2, <4>2
    <3>3. QED
      BY <3>1, <3>2
  <2>2. f = [k \in 0 .. n |-> f[k]]
    BY <1>3
  <2>3. QED
    BY <2>1, <2>2 DEF AreRuns
<1>5. AreRuns(run, s, from, anchor)
  BY <1>4 DEF RunsFrom
<1> HIDE DEF run, step
<1>6. run = [k \in 0 .. n |-> NextRunAfter(s, IF k = 0 THEN from ELSE run[k - 1], anchor)]
  BY <1>5 DEF AreRuns
<1> HIDE DEF n
<1>7. run[0] = first /\ \A k \in 1 .. n : run[k] = NextRunAfter(s, run[k - 1], anchor)
  <2>1. \A k \in 0 .. n : run[k] = NextRunAfter(s, IF k = 0 THEN from ELSE run[k - 1], anchor)
    BY <1>6, Zenon
  <2>2. 0 \in 0 .. n /\ \A k \in 1 .. n : k \in 0 .. n /\ k # 0
    BY <1>1
  <2>3. QED
    BY <2>1, <2>2 DEF first
<1> DEFINE P == {k \in 0 .. n : run[k] \in Nat}
<1>8. 0 \in P
  <2>1. run[0] \in Nat /\ 0 \in 0 .. n
    BY <1>1, <1>2, <1>7
  <2>2. QED
    BY <2>1
<1>9. ASSUME NEW k \in 0 .. n, k \in P, k < n PROVE k + 1 \in P
  <2>1. k + 1 \in 1 .. n /\ (k + 1) - 1 = k /\ k + 1 \in 0 .. n
    BY <1>1, <1>9
  <2>2. run[k + 1] = NextRunAfter(s, run[k], anchor) /\ run[k] \in Nat
    BY <1>7, <1>9, <2>1
  <2>3. QED
    BY <2>1, <2>2, RunIs
<1>10. 0 .. n \subseteq P
  <2> HIDE DEF P
  <2>1. 0 \in Nat
    OBVIOUS
  <2>2. QED
    BY <1>1, <1>8, <1>9, <2>1, Ascend
<1>11. QED
  BY <1>7, <1>10 DEF n, run, first

\* The next run lies ahead, is the one after `from` if that does, and keeps the
\* time of day of the anchor.
LEMMA NextIsPast ==
    ASSUME NEW s \in ScheduleConfig, NEW from \in Nat, NEW n \in Nat, NEW anchor \in Clocks
    PROVE  LET plan == NextRunPast(s, from, n, anchor) IN
           /\ plan.next \in Nat /\ plan.next > n /\ plan.due \in Nat \ {0}
           /\ IsCalendar(s) /\ anchor # None => HasHour(plan.next, HourOf(anchor))
           /\ NextRunAfter(s, from, anchor) > n => plan.next = NextRunAfter(s, from, anchor)
<1> DEFINE run == RunsFrom(s, from, anchor)
           past == {i \in 0 .. MaxCatchup : run[i] > n}
           plan == NextRunPast(s, from, n, anchor)
<1>1. plan = IF past # {}
             THEN [next |-> run[Min(past)], due |-> Min(past) + 1, resynced |-> FALSE]
             ELSE [next |-> NextRunAfter(s, n, anchor), due |-> MaxCatchup + 1, resynced |-> TRUE]
  BY PastIs
<1>2. /\ run[0] = NextRunAfter(s, from, anchor)
      /\ \A i \in 1 .. MaxCatchup : run[i] = NextRunAfter(s, run[i - 1], anchor)
      /\ \A i \in 0 .. MaxCatchup : run[i] \in Nat
  BY RunsAre
<1>3. MaxCatchup \in Nat
  BY CalendarAssumption
<1> HIDE DEF run, plan
<1>4. past \in SUBSET Nat
  BY <1>3
<1>5. CASE past = {}
  <2>1. plan.next = NextRunAfter(s, n, anchor) /\ plan.due = MaxCatchup + 1
    BY <1>1, <1>5
  <2>2. ~(NextRunAfter(s, from, anchor) > n)
    BY <1>2, <1>3, <1>5
  <2>3. QED
    BY <1>3, <2>1, <2>2, RunIs DEF plan
<1>6. CASE past # {}
  <2>1. plan.next = run[Min(past)] /\ plan.due = Min(past) + 1
    BY <1>1, <1>6
  <2>2. Min(past) \in past
    BY <1>4, <1>6, MinIs
  <2>3. Min(past) \in 0 .. MaxCatchup /\ run[Min(past)] > n /\ run[Min(past)] \in Nat
    BY <1>2, <2>2
  <2>4. ASSUME IsCalendar(s), anchor # None PROVE HasHour(run[Min(past)], HourOf(anchor))
    <3> DEFINE i == Min(past)
    <3>0. i \in 0 .. MaxCatchup
      BY <2>3
    <3> HIDE DEF i, past
    <3>1. CASE i = 0
      BY <1>2, <2>4, <3>1, RunIs DEF i
    <3>2. CASE i # 0
      <4>1. i \in 1 .. MaxCatchup /\ i - 1 \in 0 .. MaxCatchup
        BY <1>3, <3>0, <3>2
      <4>2. run[i] = NextRunAfter(s, run[i - 1], anchor) /\ run[i - 1] \in Nat
        BY <1>2, <4>1
      <4>3. HasHour(run[i], HourOf(anchor))
        BY <2>4, <4>2, RunIs
      <4>4. QED
        BY <4>3 DEF i
    <3>3. QED
      BY <3>1, <3>2
  <2>5. ASSUME NextRunAfter(s, from, anchor) > n PROVE run[Min(past)] = NextRunAfter(s, from, anchor)
    <3>1. 0 \in past /\ \A y \in past : 0 <= y
      BY <1>2, <1>3, <2>5
    <3> HIDE DEF past
    <3>2. Min(past) = 0
      BY <1>4, <3>1, MinOnly
    <3>3. QED
      BY <1>2, <3>2
  <2>6. QED
    BY <2>1, <2>3, <2>4, <2>5 DEF plan
<1>7. QED
  BY <1>5, <1>6

-----------------------------------------------------------------------------
(***************************************************************************)
(* The schedule of one job (Scheduler).  A schedule that nobody touched is *)
(* at the run it announced next, and the agent has looked at every unit.   *)
(***************************************************************************)
RowHolds(row, s) ==
    /\ row \in StateRow
    /\ row # NoState => row.next \in Nat
    /\ IsCalendar(s) /\ row.anchor # None => HasHour(row.next, HourOf(row.anchor))

\* The i-th of the runs r that are announced.
Announced(r, i, s, start, at) ==
    IF i = 1 THEN IF start <= at THEN at ELSE start
    ELSE IF i = 2 /\ start <= at THEN NextRunPast(s, start, at, start).next
    ELSE NextRunAfter(s, r[i - 1], start)

OnTime ==
    /\ up /\ job.on /\ state # NoState
    /\ entered.start \in Nat /\ entered.at \in Nat /\ entered.at <= now
    /\ state.anchor = entered.start
    /\ \A i \in DOMAIN made : made[i] = Announced(made, i, job.schedule, entered.start, entered.at)
    /\ made = <<>> => state.next = entered.start
    /\ made # <<>> =>
         state.next = Announced(made, Len(made) + 1, job.schedule, entered.start, entered.at)
    /\ now <= state.next \/ (made = <<>> /\ ~looked /\ now = entered.at)
    /\ looked => now < state.next

Typed ==
    /\ job \in [schedule : Schedules, on : BOOLEAN]
    /\ now \in 0 .. MaxTime /\ up \in BOOLEAN /\ looked \in BOOLEAN
    /\ entered \in [start : Times, at : Times]
    /\ made \in Seq(0 .. MaxTime)
    /\ undisturbed \in BOOLEAN

MissedHolds == \A m \in missed : m.at \in 0 .. MaxTime /\ m.due \in Nat \ {0}

Paced ==
    /\ Typed /\ MissedHolds
    /\ RowHolds(state, job.schedule) /\ RowHolds(file, job.schedule)
    /\ NextLiesAhead
    /\ undisturbed => OnTime

LEMMA SomeTimes ==
    /\ Schedules \subseteq ScheduleConfig /\ Starts \subseteq Int /\ MaxTime \in Nat /\ MissedAfter \in Nat
    /\ Times = Clocks /\ Nat \subseteq Times /\ None \in Times /\ None = -1 /\ None \notin Nat
  BY SchedulerAssumption DEF Times, Clocks, None

LEMMA PersistIs ==
    ASSUME NEW row, PersistOrNot(row)
    PROVE  state' = row /\ (file' = row \/ file' = file)
  BY DEF PersistOrNot, Persist

\* What is known of the parts of a row.
LEMMA RowParts ==
    ASSUME NEW row, NEW s, RowHolds(row, s)
    PROVE  /\ row.next \in Times /\ row.anchor \in Times /\ row.enteredAt \in Times
           /\ row = [next |-> row.next, anchor |-> row.anchor, enteredAt |-> row.enteredAt]
  BY DEF RowHolds, StateRow

\* A row with another time of run, or of entry.
LEMMA RowMoves ==
    ASSUME NEW row, NEW s, RowHolds(row, s), NEW t \in Nat,
           IsCalendar(s) /\ row.anchor # None => HasHour(t, HourOf(row.anchor))
    PROVE  /\ RowHolds([row EXCEPT !.next = t], s)
           /\ [row EXCEPT !.next = t].next = t /\ [row EXCEPT !.next = t].anchor = row.anchor
           /\ [row EXCEPT !.next = t].enteredAt = row.enteredAt /\ [row EXCEPT !.next = t] # NoState
<1>1. /\ [row EXCEPT !.next = t].next = t /\ [row EXCEPT !.next = t].anchor = row.anchor
      /\ [row EXCEPT !.next = t].enteredAt = row.enteredAt /\ [row EXCEPT !.next = t] \in StateRow
  BY SomeTimes DEF RowHolds, StateRow
<1>2. [row EXCEPT !.next = t] # NoState
  BY <1>1, SomeTimes DEF NoState
<1>3. QED
  BY <1>1, <1>2 DEF RowHolds

LEMMA RowEnters ==
    ASSUME NEW row, NEW s, RowHolds(row, s), row # NoState, NEW t \in Nat
    PROVE  /\ RowHolds([row EXCEPT !.enteredAt = t], s)
           /\ [row EXCEPT !.enteredAt = t].enteredAt = t /\ [row EXCEPT !.enteredAt = t] # NoState
           /\ [row EXCEPT !.enteredAt = t].next = row.next
<1>1. /\ [row EXCEPT !.enteredAt = t].enteredAt = t /\ [row EXCEPT !.enteredAt = t].anchor = row.anchor
      /\ [row EXCEPT !.enteredAt = t].next = row.next /\ [row EXCEPT !.enteredAt = t] \in StateRow
  BY SomeTimes DEF RowHolds, StateRow
<1>2. [row EXCEPT !.enteredAt = t] # NoState
  BY <1>1, SomeTimes DEF NoState
<1>3. QED
  BY <1>1, <1>2 DEF RowHolds

\* A row of a job that starts, and one of a job that had none.
LEMMA RowBegins ==
    ASSUME NEW s, NEW t \in Nat, NEW n \in Nat
    PROVE  /\ RowHolds([next |-> t, anchor |-> t, enteredAt |-> n], s)
           /\ [next |-> t, anchor |-> t, enteredAt |-> n] # NoState
           /\ RowHolds([next |-> t, anchor |-> None, enteredAt |-> None], s)
           /\ [next |-> t, anchor |-> None, enteredAt |-> None] # NoState
  BY SomeTimes DEF RowHolds, StateRow, NoState, HasHour

LEMMA NoRow == ASSUME NEW s PROVE RowHolds(NoState, s)
  BY SomeTimes DEF RowHolds, StateRow, NoState

-----------------------------------------------------------------------------
LEMMA PacedInit == ASSUME Init PROVE Paced
<1>1. PICK s \in Schedules : job = [schedule |-> s, on |-> TRUE]
  BY DEF Init
<1>2. PICK offset \in Starts \cap Nat : state = [next |-> offset, anchor |-> offset, enteredAt |-> 0]
  BY DEF Init
<1>3. /\ file = state /\ now = 0 /\ up = TRUE /\ looked = FALSE
      /\ entered = [start |-> state.anchor, at |-> 0]
      /\ made = <<>> /\ missed = {} /\ undisturbed = TRUE
  BY DEF Init
<1>4. RowHolds(state, job.schedule) /\ RowHolds(file, job.schedule) /\ state # NoState
  <2>1. 0 \in Nat /\ offset \in Nat
    OBVIOUS
  <2>2. QED
    BY <1>2, <1>3, <2>1, RowBegins
<1>5. state.next = offset /\ state.anchor = offset /\ entered.start = offset /\ entered.at = 0
  BY <1>2, <1>3
<1>6. Typed
  <2>1. offset \in Times /\ 0 \in Times /\ 0 \in 0 .. MaxTime
    BY SomeTimes
  <2>2. entered \in [start : Times, at : Times]
    BY <1>2, <1>3, <2>1
  <2>3. made \in Seq(0 .. MaxTime)
    BY <1>3
  <2>4. job \in [schedule : Schedules, on : BOOLEAN]
    BY <1>1
  <2>5. QED
    BY <1>3, <2>1, <2>2, <2>3, <2>4 DEF Typed
<1>7. MissedHolds /\ NextLiesAhead
  BY <1>3 DEF MissedHolds, NextLiesAhead
<1>8. OnTime
  <2>1. DOMAIN made = {}
    BY <1>3
  <2>2. job.on /\ up /\ ~looked
    BY <1>1, <1>3
  <2>3. QED
    BY <1>3, <1>4, <1>5, <2>1, <2>2 DEF OnTime
<1>9. QED
  BY <1>4, <1>6, <1>7, <1>8 DEF Paced

\* A job without state is due from now on.
LEMMA InitialiseKeepsPace ==
    ASSUME Paced, Look, Initialise
    PROVE  Paced'
<1> DEFINE row == [next |-> now, anchor |-> None, enteredAt |-> None]
<1>1. state' = row /\ (file' = row \/ file' = file)
  BY PersistIs DEF Initialise
<1>2. Typed /\ RowHolds(file, job.schedule) /\ now \in Nat
  BY DEF Paced, Typed
<1>3. RowHolds(state', job.schedule) /\ RowHolds(file', job.schedule)
  BY <1>1, <1>2, RowBegins
<1>4. UNCHANGED <<job, now, up>> /\ looked' = TRUE
  BY DEF Look
<1>5. entered' = Nothing /\ made' = <<>> /\ missed' = {} /\ undisturbed' = FALSE
  BY DEF Initialise, Forget
<1>6. Typed'
  <2>1. Nothing \in [start : Times, at : Times]
    BY SomeTimes DEF Nothing
  <2>2. made' \in Seq(0 .. MaxTime)
    BY <1>5
  <2>3. QED
    BY <1>2, <1>4, <1>5, <2>1, <2>2 DEF Typed
<1>7. NextLiesAhead'
  BY <1>1, <1>4 DEF NextLiesAhead
<1>8. QED
  BY <1>3, <1>4, <1>5, <1>6, <1>7 DEF Paced, MissedHolds

\* A run of a schedule that nobody touched is the one it announced, and the
\* next is the one it announces next.
LEMMA RunIsAnnounced ==
    ASSUME Paced, OnTime, ~looked, now >= state.next, made' = Append(made, now),
           NEW plan, plan = NextRunPast(job.schedule, state.next, now, state.anchor)
    PROVE  /\ \A i \in DOMAIN made' :
                made'[i] = Announced(made', i, job.schedule, entered.start, entered.at)
           /\ plan.next = Announced(made', Len(made') + 1, job.schedule, entered.start, entered.at)
           /\ made' # <<>>
<1> DEFINE s == job.schedule
           start == entered.start
           at == entered.at
           n == Len(made)
<1>1. /\ s \in ScheduleConfig /\ now \in Nat /\ start \in Nat /\ at \in Nat /\ at <= now
      /\ state.anchor = start /\ state.next \in Nat
  BY SomeTimes DEF Paced, Typed, OnTime, RowHolds
<1>2. made \in Seq(0 .. MaxTime) /\ now \in 0 .. MaxTime
  BY DEF Paced, Typed
<1>3. /\ n \in Nat /\ Len(made') = n + 1 /\ DOMAIN made' = 1 .. n + 1 /\ DOMAIN made = 1 .. n
      /\ made'[n + 1] = now /\ \A i \in 1 .. n : made'[i] = made[i]
      /\ made = <<>> <=> n = 0
  BY <1>2
<1>4. \A i \in 1 .. n : made[i] = Announced(made, i, s, start, at)
  BY <1>3 DEF OnTime
<1>5. made = <<>> => state.next = start
  BY DEF OnTime
<1>6. made # <<>> => state.next = Announced(made, n + 1, s, start, at)
  BY DEF OnTime
<1>7. now = state.next \/ (made = <<>> /\ now = at)
  BY <1>1 DEF OnTime
<1>8. start \in Clocks
  BY <1>1 DEF Clocks
<1> HIDE DEF s, start, at, n
\* The runs so far are announced by those before them alone.
<1>9. \A i \in 1 .. n + 1 : Announced(made', i, s, start, at) = Announced(made, i, s, start, at)
  <2> TAKE i \in 1 .. n + 1
  <2>1. CASE i = 1
    BY <2>1 DEF Announced
  <2>2. CASE i # 1
    <3>1. i - 1 \in 1 .. n
      BY <1>3, <2>2
    <3>2. made'[i - 1] = made[i - 1]
      BY <1>3, <3>1
    <3>3. QED
      BY <3>2 DEF Announced
  <2>3. QED
    BY <2>1, <2>2
<1>10. now = Announced(made, n + 1, s, start, at)
  <2>1. CASE made = <<>>
    <3>1. n + 1 = 1
      BY <1>3, <2>1
    <3>2. Announced(made, 1, s, start, at) = IF start <= at THEN at ELSE start
      BY DEF Announced
    <3>3. now = IF start <= at THEN at ELSE start
      <4>1. now >= start
        BY <1>1, <1>5, <2>1 DEF start
      <4>2. now = start \/ now = at
        BY <1>5, <1>7, <2>1
      <4>3. start \in Nat /\ at \in Nat /\ now \in Nat /\ at <= now
        BY <1>1
      <4>4. QED
        BY <4>1, <4>2, <4>3
    <3>4. QED
      BY <3>1, <3>2, <3>3
  <2>2. CASE made # <<>>
    BY <1>6, <1>7, <2>2
  <2>3. QED
    BY <2>1, <2>2
<1>11. \A i \in 1 .. n + 1 : made'[i] = Announced(made', i, s, start, at)
  <2> TAKE i \in 1 .. n + 1
  <2>1. CASE i = n + 1
    BY <1>3, <1>9, <1>10, <2>1
  <2>2. CASE i # n + 1
    <3>1. i \in 1 .. n
      BY <1>3, <2>2
    <3>2. QED
      BY <1>3, <1>4, <1>9, <3>1
  <2>3. QED
    BY <2>1, <2>2
<1>12. plan = NextRunPast(s, state.next, now, start)
  BY <1>1 DEF s, start
<1>13. plan.next = Announced(made', n + 2, s, start, at)
  <2>1. made'[(n + 2) - 1] = now /\ n + 2 # 1 /\ (n + 2 = 2 <=> n = 0)
    <3>1. (n + 2) - 1 = n + 1
      BY <1>3
    <3>2. QED
      BY <1>3, <3>1
  <2>2. Announced(made', n + 2, s, start, at) =
          IF n = 0 /\ start <= at THEN NextRunPast(s, start, at, start).next
          ELSE NextRunAfter(s, now, start)
    BY <2>1 DEF Announced
  <2>3. CASE n = 0 /\ start <= at
    <3>1. now = at /\ state.next = start
      <4>1. made = <<>> /\ n + 1 = 1
        BY <1>3, <2>3
      <4>2. now = Announced(made, 1, s, start, at)
        BY <1>10, <4>1
      <4>3. now = at
        BY <2>3, <4>2 DEF Announced
      <4>4. QED
        BY <1>5, <4>1, <4>3
    <3>2. QED
      BY <1>12, <2>2, <2>3, <3>1
  <2>4. CASE ~(n = 0 /\ start <= at)
    <3>1. now = state.next
      <4>1. CASE n = 0
        <5>1. ~(start <= at) /\ made = <<>> /\ n + 1 = 1
          BY <1>3, <2>4, <4>1
        <5>2. now = Announced(made, 1, s, start, at)
          BY <1>10, <5>1
        <5>3. now = start
          BY <5>1, <5>2 DEF Announced
        <5>4. QED
          BY <1>5, <5>1, <5>3
      <4>2. CASE n # 0
        BY <1>3, <1>7, <4>2
      <4>3. QED
        BY <4>1, <4>2
    <3>2. NextRunAfter(s, now, start) > now
      BY <1>1, <1>8, RunIs DEF s
    <3>3. plan.next = NextRunAfter(s, now, start)
      <4>1. plan = NextRunPast(s, now, now, start) /\ s \in ScheduleConfig /\ now \in Nat
        BY <1>1, <1>12, <3>1 DEF s
      <4>2. QED
        BY <1>8, <3>2, <4>1, NextIsPast
    <3>4. QED
      BY <2>2, <2>4, <3>3
  <2>5. QED
    BY <2>3, <2>4
<1>14. Len(made') + 1 = n + 2
  BY <1>3
<1>15. made' # <<>>
  <2>1. Len(made') # 0 /\ made' \in Seq(0 .. MaxTime)
    BY <1>2, <1>3
  <2>2. QED
    BY <2>1
<1>16. QED
  BY <1>3, <1>11, <1>13, <1>14, <1>15 DEF s, start, at, n

\* planDueRun.
LEMMA RunDueKeepsPace ==
    ASSUME Paced, Look, ~looked, job.on, state # NoState, now >= state.next, RunDue
    PROVE  Paced'
<1> DEFINE plan == NextRunPast(job.schedule, state.next, now, state.anchor)
           row == [state EXCEPT !.next = plan.next]
<1>1. state' = row /\ (file' = row \/ file' = file)
  BY PersistIs DEF RunDue
<1>2. /\ Typed /\ MissedHolds /\ RowHolds(file, job.schedule) /\ RowHolds(state, job.schedule)
      /\ job.schedule \in ScheduleConfig
      /\ now \in Nat /\ state.next \in Nat /\ state.anchor \in Clocks
  BY SomeTimes, RowParts DEF Paced, Typed, RowHolds
<1>3. /\ plan.next \in Nat /\ plan.next > now /\ plan.due \in Nat \ {0}
      /\ IsCalendar(job.schedule) /\ state.anchor # None => HasHour(plan.next, HourOf(state.anchor))
  BY <1>2, NextIsPast
<1>4. \/ Forget
      \/ /\ made' = Append(made, now)
         /\ \/ missed' = missed
            \/ missed' = missed \cup {[at |-> now, since |-> state.next, due |-> plan.due]}
         /\ UNCHANGED <<entered, undisturbed>>
  BY DEF RunDue
<1>5. plan = NextRunPast(job.schedule, state.next, now, state.anchor)
  OBVIOUS
<1> HIDE DEF plan
<1>6. /\ RowHolds(row, job.schedule) /\ row.next = plan.next /\ row.anchor = state.anchor
      /\ row # NoState
  BY <1>2, <1>3, RowMoves
<1> HIDE DEF row
<1>7. UNCHANGED <<job, now, up>> /\ looked' = TRUE
  BY DEF Look
<1>8. RowHolds(state', job.schedule') /\ RowHolds(file', job.schedule')
  BY <1>1, <1>2, <1>6, <1>7
<1>9. NextLiesAhead'
  BY <1>1, <1>3, <1>6, <1>7 DEF NextLiesAhead
<1>10. CASE Forget
  <2>1. entered' = Nothing /\ made' = <<>> /\ missed' = {} /\ undisturbed' = FALSE
    BY <1>10 DEF Forget
  <2>2. Nothing \in [start : Times, at : Times] /\ <<>> \in Seq(0 .. MaxTime)
    BY SomeTimes DEF Nothing
  <2>3. Typed' /\ MissedHolds'
    BY <1>2, <1>7, <2>1, <2>2 DEF Typed, MissedHolds
  <2>4. QED
    BY <1>8, <1>9, <2>1, <2>3 DEF Paced
<1>11. CASE /\ made' = Append(made, now)
            /\ \/ missed' = missed
               \/ missed' = missed \cup {[at |-> now, since |-> state.next, due |-> plan.due]}
            /\ UNCHANGED <<entered, undisturbed>>
  <2>1. Typed'
    <3>1. made' \in Seq(0 .. MaxTime)
      BY <1>2, <1>11 DEF Typed
    <3>2. QED
      BY <1>2, <1>7, <1>11, <3>1 DEF Typed
  <2>2. MissedHolds'
    <3>1. now \in 0 .. MaxTime
      BY <1>2 DEF Typed
    <3>2. QED
      BY <1>2, <1>3, <1>11, <3>1 DEF MissedHolds
  <2>3. ASSUME undisturbed PROVE OnTime'
    <3>1. OnTime
      BY <2>3 DEF Paced
    <3>2. /\ \A i \in DOMAIN made' :
               made'[i] = Announced(made', i, job.schedule, entered.start, entered.at)
          /\ plan.next = Announced(made', Len(made') + 1, job.schedule, entered.start, entered.at)
          /\ made' # <<>>
      BY <1>5, <1>11, <3>1, RunIsAnnounced
    <3>3. state'.next = plan.next /\ state'.anchor = state.anchor /\ state' # NoState
      BY <1>1, <1>6
    <3>4. now < state'.next /\ now <= state'.next
      BY <1>2, <1>3, <3>3
    <3>5. job' = job /\ now' = now /\ up' = up /\ entered' = entered
      BY <1>7, <1>11
    <3>6. QED
      BY <3>1, <3>2, <3>3, <3>4, <3>5 DEF OnTime
  <2>4. undisturbed' = undisturbed
    BY <1>11
  <2>5. QED
    BY <1>8, <1>9, <2>1, <2>2, <2>3, <2>4 DEF Paced
<1>12. QED
  BY <1>4, <1>10, <1>11

LEMMA LookKeepsPace ==
    ASSUME Paced, Look
    PROVE  Paced'
<1>1. UNCHANGED <<job, now, up>> /\ ~looked /\ looked' = TRUE /\ up
  BY DEF Look
<1>2. CASE ~job.on /\ UNCHANGED <<state, file, told, bounds>>
  <2>1. Typed' /\ MissedHolds'
    BY <1>1, <1>2 DEF Paced, Typed, MissedHolds, told
  <2>2. NextLiesAhead'
    BY <1>1, <1>2 DEF NextLiesAhead
  <2>3. RowHolds(state', job.schedule') /\ RowHolds(file', job.schedule')
    BY <1>1, <1>2 DEF Paced
  <2>4. undisturbed' = undisturbed /\ (undisturbed => OnTime)
    BY <1>2 DEF Paced, told
  <2>5. ~undisturbed
    BY <1>2, <2>4 DEF OnTime
  <2>6. QED
    BY <2>1, <2>2, <2>3, <2>4, <2>5 DEF Paced
<1>3. CASE job.on /\ state = NoState /\ Initialise
  BY <1>3, InitialiseKeepsPace
<1>4. CASE job.on /\ state # NoState /\ now >= state.next /\ RunDue
  BY <1>1, <1>4, RunDueKeepsPace
<1>5. CASE job.on /\ state # NoState /\ now < state.next /\ UNCHANGED <<state, file, told, bounds>>
  <2>1. Typed' /\ MissedHolds'
    BY <1>1, <1>5 DEF Paced, Typed, MissedHolds, told
  <2>2. state'.next > now'
    <3>1. now \in Nat /\ state.next \in Nat
      BY <1>5, SomeTimes DEF Paced, Typed, RowHolds
    <3>2. QED
      BY <1>1, <1>5, <3>1
  <2>3. NextLiesAhead'
    BY <2>2 DEF NextLiesAhead
  <2>4. RowHolds(state', job.schedule') /\ RowHolds(file', job.schedule')
    BY <1>1, <1>5 DEF Paced
  <2>5. undisturbed' = undisturbed /\ (undisturbed => OnTime)
    BY <1>5 DEF Paced, told
  <2>6. ASSUME OnTime PROVE OnTime'
    BY <1>1, <1>5, <2>6 DEF OnTime, told
  <2>7. QED
    BY <2>1, <2>3, <2>4, <2>5, <2>6 DEF Paced
<1>6. QED
  BY <1>2, <1>3, <1>4, <1>5 DEF Look

\* The clock: an agent that is up has looked in the unit that ends.
LEMMA PassesKeepsPace ==
    ASSUME Paced, Passes
    PROVE  Paced'
<1>1. /\ now < MaxTime /\ now' = now + 1 /\ (up => looked) /\ looked' = FALSE
      /\ UNCHANGED <<job, state, file, up, entered, made, missed, undisturbed>>
  BY DEF Passes, told
<1>2. Typed /\ MissedHolds
  BY DEF Paced
<1>3. now \in Nat /\ MaxTime \in Nat /\ now' \in 0 .. MaxTime
  BY <1>1, <1>2, SomeTimes DEF Typed
<1>4. Typed' /\ MissedHolds' /\ NextLiesAhead'
  BY <1>1, <1>2, <1>3 DEF Typed, MissedHolds, NextLiesAhead
<1>5. RowHolds(state', job.schedule') /\ RowHolds(file', job.schedule')
  BY <1>1 DEF Paced
<1>6. ASSUME undisturbed PROVE OnTime'
  <2>1. OnTime
    BY <1>6 DEF Paced
  <2>2. now < state.next /\ state.next \in Nat /\ entered.at \in Nat /\ entered.at <= now
    BY <1>1, <2>1 DEF OnTime, Paced, RowHolds
  <2>3. now' <= state'.next /\ entered'.at <= now'
    BY <1>1, <1>3, <2>2
  <2>4. QED
    BY <1>1, <2>1, <2>3 DEF OnTime
<1>7. QED
  BY <1>1, <1>4, <1>5, <1>6 DEF Paced

LEMMA SaveOnKeepsPace ==
    ASSUME Paced, NEW s \in Schedules, NEW offset \in Starts, SaveOn(s, offset)
    PROVE  Paced'
<1> DEFINE start == now + offset
<1>1. /\ up /\ start >= 0
      /\ job' = [schedule |-> s, on |-> TRUE]
      /\ state' = [next |-> start, anchor |-> start, enteredAt |-> now] /\ file' = state'
      /\ entered' = [start |-> start, at |-> now]
      /\ made' = <<>> /\ missed' = {} /\ undisturbed' = ~looked
      /\ UNCHANGED <<now, up, looked>>
  BY DEF SaveOn, SetStart
<1>2. Typed /\ now \in Nat
  BY SomeTimes DEF Paced, Typed
<1>3. start \in Nat
  BY <1>1, <1>2, SomeTimes
<1> HIDE DEF start
<1>4. RowHolds(state', job.schedule') /\ RowHolds(file', job.schedule') /\ state' # NoState
  BY <1>1, <1>2, <1>3, RowBegins
<1>5. Typed'
  <2>1. start \in Times /\ now \in Times
    BY <1>2, <1>3, SomeTimes
  <2>2. entered' \in [start : Times, at : Times]
    BY <1>1, <2>1
  <2>3. made' \in Seq(0 .. MaxTime)
    BY <1>1
  <2>4. job' \in [schedule : Schedules, on : BOOLEAN]
    BY <1>1
  <2>5. QED
    BY <1>1, <1>2, <2>2, <2>3, <2>4 DEF Typed
<1>6. MissedHolds' /\ NextLiesAhead'
  BY <1>1 DEF MissedHolds, NextLiesAhead
<1>7. ASSUME undisturbed' PROVE OnTime'
  <2>1. ~looked' /\ DOMAIN made' = {}
    <3>1. ~looked /\ looked' = looked
      BY <1>1, <1>7, Zenon
    <3>2. made' = <<>>
      BY <1>1
    <3>3. QED
      BY <3>1, <3>2
  <2>2. /\ entered'.start = start /\ entered'.at = now /\ state'.anchor = start /\ state'.next = start
        /\ job'.on /\ up' /\ now' = now
    BY <1>1
  <2>3. QED
    BY <1>1, <1>2, <1>3, <1>4, <2>1, <2>2 DEF OnTime
<1>8. QED
  BY <1>4, <1>5, <1>6, <1>7 DEF Paced

LEMMA ToggleKeepsPace ==
    ASSUME Paced, Toggle
    PROVE  Paced'
<1>1. /\ job' = [job EXCEPT !.on = ~@]
      /\ state' = IF job'.on /\ state # NoState THEN [state EXCEPT !.enteredAt = now] ELSE state
      /\ file' = file \/ file' = state'
      /\ undisturbed' = FALSE
      /\ UNCHANGED <<now, up, looked, entered, made, missed>>
  BY DEF Toggle
<1>2. Typed /\ now \in Nat /\ RowHolds(state, job.schedule) /\ RowHolds(file, job.schedule)
  BY SomeTimes DEF Paced, Typed
<1>3. job' \in [schedule : Schedules, on : BOOLEAN] /\ job'.schedule = job.schedule
  BY <1>1, <1>2 DEF Typed
<1>4. RowHolds(state', job'.schedule) /\ (job'.on /\ state' # NoState => state'.enteredAt = now)
  BY <1>1, <1>2, <1>3, RowEnters
<1>5. RowHolds(file', job'.schedule)
  BY <1>1, <1>2, <1>3, <1>4
<1>6. Typed' /\ MissedHolds'
  BY <1>1, <1>3 DEF Paced, Typed, MissedHolds
<1>7. NextLiesAhead'
  BY <1>1, <1>4 DEF NextLiesAhead
<1>8. QED
  BY <1>1, <1>4, <1>5, <1>6, <1>7 DEF Paced

LEMMA StopKeepsPace ==
    ASSUME Paced, Stop
    PROVE  Paced'
<1>1. /\ up' = FALSE /\ undisturbed' = FALSE
      /\ UNCHANGED <<job, state, file, now, looked, entered, made, missed>>
  BY DEF Stop
<1>2. Typed' /\ MissedHolds' /\ NextLiesAhead'
  BY <1>1 DEF Paced, Typed, MissedHolds, NextLiesAhead
<1>3. RowHolds(state', job'.schedule) /\ RowHolds(file', job'.schedule)
  BY <1>1 DEF Paced
<1>4. QED
  BY <1>1, <1>2, <1>3 DEF Paced

LEMMA StartKeepsPace ==
    ASSUME Paced, Start
    PROVE  Paced'
<1>1. /\ ~up /\ up' = TRUE /\ looked' = FALSE
      /\ state' = file \/ state' = NoState
      /\ \/ UNCHANGED <<entered, made, missed, undisturbed>>
         \/ entered' = Nothing /\ made' = <<>> /\ missed' = {} /\ undisturbed' = FALSE
      /\ UNCHANGED <<job, file, now>>
  BY DEF Start, Forget, told
<1>2. RowHolds(state', job'.schedule) /\ RowHolds(file', job'.schedule)
  BY <1>1, NoRow DEF Paced
<1>3. Typed' /\ MissedHolds' /\ NextLiesAhead'
  <2>1. Nothing \in [start : Times, at : Times] /\ <<>> \in Seq(0 .. MaxTime)
    BY SomeTimes DEF Nothing
  <2>2. QED
    BY <1>1, <2>1 DEF Paced, Typed, MissedHolds, NextLiesAhead
<1>4. ~undisturbed'
  BY <1>1 DEF Paced, OnTime
<1>5. QED
  BY <1>2, <1>3, <1>4 DEF Paced

LEMMA NextKeepsPace ==
    ASSUME Paced, Next
    PROVE  Paced'
  BY LookKeepsPace, PassesKeepsPace, SaveOnKeepsPace, ToggleKeepsPace, StopKeepsPace, StartKeepsPace
     DEF Next

LEMMA SameKeepsPace ==
    ASSUME Paced, UNCHANGED vars
    PROVE  Paced'
<1>1. UNCHANGED <<job, state, file, now, up, looked, entered, made, missed, undisturbed>>
  BY DEF vars, told
<1>2. Typed' /\ MissedHolds' /\ NextLiesAhead' /\ (OnTime => OnTime')
  BY <1>1 DEF Paced, Typed, MissedHolds, NextLiesAhead, OnTime
<1>3. RowHolds(state', job'.schedule) /\ RowHolds(file', job'.schedule)
  BY <1>1 DEF Paced
<1>4. QED
  BY <1>1, <1>2, <1>3 DEF Paced

-----------------------------------------------------------------------------
AreUpcoming(f, s, start, at, count) == f = [i \in 1 .. count |-> Announced(f, i, s, start, at)]

\* What is announced is the sequence each of whose entries is announced by the
\* one before it, for there is no other.
LEMMA UpcomingAre ==
    ASSUME NEW r, NEW s, NEW start, NEW at, NEW n \in Nat, AreUpcoming(r, s, start, at, n)
    PROVE  UpcomingRuns(s, start, at, n) = r
<1> DEFINE u == UpcomingRuns(s, start, at, n)
<1>1. u = CHOOSE f : AreUpcoming(f, s, start, at, n)
  BY DEF UpcomingRuns, AreUpcoming, Announced
<1>2. AreUpcoming(u, s, start, at, n)
  BY <1>1
<1> HIDE DEF u
<1>3. u = [i \in 1 .. n |-> Announced(u, i, s, start, at)]
  BY <1>2 DEF AreUpcoming
<1>4. r = [i \in 1 .. n |-> Announced(r, i, s, start, at)]
  BY DEF AreUpcoming
<1>5. \A i \in 1 .. n : u[i] = Announced(u, i, s, start, at) /\ r[i] = Announced(r, i, s, start, at)
  BY <1>3, <1>4, Zenon
<1> DEFINE P == {k \in Nat : k = 0 \/ (k \in 1 .. n /\ u[k] = r[k])}
<1>6. ASSUME NEW k \in 0 .. n, k \in P, k < n PROVE k + 1 \in P
  <2>1. k + 1 \in 1 .. n /\ (k + 1) - 1 = k
    BY <1>6
  <2>2. Announced(u, k + 1, s, start, at) = Announced(r, k + 1, s, start, at)
    <3>1. CASE k = 0
      BY <3>1 DEF Announced
    <3>2. CASE k # 0
      <4>1. u[k] = r[k] /\ k + 1 # 1
        BY <1>6, <3>2
      <4>2. u[(k + 1) - 1] = r[(k + 1) - 1]
        BY <2>1, <4>1
      <4>3. QED
        BY <4>2 DEF Announced
    <3>3. QED
      BY <3>1, <3>2
  <2>3. u[k + 1] = r[k + 1]
    BY <1>5, <2>1, <2>2
  <2>4. QED
    BY <2>1, <2>3
<1>7. 0 .. n \subseteq P
  <2>1. 0 \in P /\ 0 \in Nat
    OBVIOUS
  <2> HIDE DEF P
  <2>2. QED
    BY <1>6, <2>1, Ascend
<1>8. \A i \in 1 .. n : u[i] = r[i]
  BY <1>7
<1>9. u = [i \in 1 .. n |-> u[i]] /\ r = [i \in 1 .. n |-> r[i]]
  BY <1>3, <1>4, Zenon
<1>10. u = r
  BY <1>8, <1>9
<1>11. QED
  BY <1>10 DEF u

LEMMA PacedKeeps ==
    ASSUME Paced
    PROVE  ScheduleHolds /\ PreviewHolds
<1>1. Typed /\ MissedHolds /\ RowHolds(state, job.schedule) /\ RowHolds(file, job.schedule) /\ NextLiesAhead
  BY DEF Paced
<1>2. TypeOK
  <2>1. \A i \in DOMAIN made : made[i] \in 0 .. MaxTime
    <3>1. made \in Seq(0 .. MaxTime)
      BY <1>1 DEF Typed
    <3> DEFINE V == 0 .. MaxTime
    <3>2. made \in Seq(V)
      BY <3>1
    <3> HIDE DEF V
    <3>3. \A i \in DOMAIN made : made[i] \in V
      BY <3>2
    <3>4. QED
      BY <3>3 DEF V
  <2>2. QED
    BY <1>1, <2>1 DEF TypeOK, Typed, RowHolds, MissedHolds
<1>3. KeepsTimeOfDay
  BY <1>1 DEF RowHolds, KeepsTimeOfDay, HasHour
<1>4. ASSUME undisturbed
      PROVE  IsPrefix(made, UpcomingRuns(job.schedule, entered.start, entered.at, Len(made)))
  <2>1. OnTime
    BY <1>4 DEF Paced
  <2> DEFINE n == Len(made)
             s == job.schedule
             start == entered.start
             at == entered.at
  <2>2. n \in Nat /\ DOMAIN made = 1 .. n /\ made \in Seq(0 .. MaxTime)
    BY <1>1 DEF Typed
  <2>3. \A i \in 1 .. n : made[i] = Announced(made, i, s, start, at)
    BY <2>1, <2>2 DEF OnTime
  <2>4. made = [i \in 1 .. n |-> made[i]]
    BY <2>2
  <2> HIDE DEF n, s, start, at
  <2>5. AreUpcoming(made, s, start, at, n)
    BY <2>3, <2>4 DEF AreUpcoming
  <2>6. UpcomingRuns(s, start, at, n) = made
    BY <2>2, <2>5, UpcomingAre
  <2>7. IsPrefix(made, made)
    <3>1. SubSeq(made, 1, Len(made)) = made
      BY <2>2 DEF n
    <3>2. QED
      BY <2>2, <3>1 DEF IsPrefix
  <2>8. QED
    BY <2>6, <2>7 DEF n, s, start, at
<1>5. QED
  BY <1>1, <1>2, <1>3, <1>4 DEF ScheduleHolds, PreviewHolds

(***************************************************************************)
(* A schedule keeps the time of day that was entered and its pace, however *)
(* long the agent was down and whatever became of its file, and as long as *)
(* nobody touches it, it runs when the dashboard announced it would.       *)
(***************************************************************************)
THEOREM ScheduleStays == MCSpec => []ScheduleKept
<1> DEFINE Inv == part = "scheduler" => Paced
<1>1. MCInit => Inv
  BY PacedInit DEF MCInit
<1>2. Inv /\ [MCNext]_<<part, schedulerVars, filesVars>> => Inv'
  <2> SUFFICES ASSUME Inv, [MCNext]_<<part, schedulerVars, filesVars>> PROVE Inv'
    OBVIOUS
  <2>1. CASE part = "scheduler" /\ Next /\ UNCHANGED <<part, filesVars>>
    BY <2>1, NextKeepsPace
  <2>2. CASE part = "files" /\ Files!Next /\ UNCHANGED <<part, schedulerVars>>
    BY <2>2
  <2>3. CASE UNCHANGED <<part, schedulerVars, filesVars>>
    BY <2>3, SameKeepsPace DEF schedulerVars
  <2>4. QED
    BY <2>1, <2>2, <2>3 DEF MCNext
<1>3. Inv => ScheduleKept
  BY PacedKeeps DEF ScheduleKept
<1>4. QED
  BY <1>1, <1>2, <1>3, PTL DEF MCSpec

-----------------------------------------------------------------------------
(***************************************************************************)
(* Remainders.                                                             *)
(***************************************************************************)
LEMMA Divides ==
    ASSUME NEW x \in Nat, NEW n \in Nat \ {0}
    PROVE  /\ x \div n \in Nat /\ x % n \in 0 .. n - 1
           /\ (x \div n) * n \in Nat /\ x = (x \div n) * n + (x % n)
  OBVIOUS

LEMMA RemainderIs ==
    ASSUME NEW n \in Nat \ {0}, NEW q \in Nat, NEW r \in 0 .. n - 1
    PROVE  (q * n + r) % n = r
<1> DEFINE x == q * n + r
           p == x \div n
           m == x % n
<1>1. x \in Nat /\ q * n \in Nat
  OBVIOUS
<1>2. x = q * n + r
  OBVIOUS
<1> HIDE DEF x
<1>3. p \in Nat /\ m \in 0 .. n - 1 /\ p * n \in Nat /\ x = p * n + m
  BY <1>1, Divides
<1> HIDE DEF p, m
<1>4. ~(p < q)
  <2> SUFFICES ASSUME p < q PROVE FALSE
    OBVIOUS
  <2>1. (p + 1) * n = p * n + n /\ (p + 1) * n <= q * n
    BY <1>3, TimesOrder
  <2>2. QED
    BY <1>1, <1>2, <1>3, <2>1
<1>5. ~(q < p)
  <2> SUFFICES ASSUME q < p PROVE FALSE
    OBVIOUS
  <2>1. (q + 1) * n = q * n + n /\ (q + 1) * n <= p * n
    BY <1>3, TimesOrder
  <2>2. QED
    BY <1>1, <1>2, <1>3, <2>1
<1>6. p = q
  BY <1>3, <1>4, <1>5
<1>7. m = r
  BY <1>1, <1>2, <1>3, <1>6
<1>8. QED
  BY <1>7 DEF m, x

\* The numbers without remainder are n apart.
LEMMA NextDivides ==
    ASSUME NEW n \in Nat \ {0}, NEW x \in Nat, x % n = 0
    PROVE  (x + n) % n = 0 /\ \A y \in Nat : x < y /\ y < x + n => y % n # 0
<1> DEFINE q == x \div n
<1>1. q \in Nat /\ q * n \in Nat /\ x = q * n
  BY Divides
<1> HIDE DEF q
<1>2. (x + n) % n = 0
  <2>1. (q + 1) * n + 0 = x + n /\ q + 1 \in Nat /\ 0 \in 0 .. n - 1
    BY <1>1
  <2>2. ((q + 1) * n + 0) % n = 0
    BY <2>1, RemainderIs
  <2>3. QED
    BY <2>1, <2>2
<1>3. ASSUME NEW y \in Nat, x < y, y < x + n PROVE y % n # 0
  <2> DEFINE r == y - x
  <2>1. r \in 0 .. n - 1 /\ r # 0 /\ y = q * n + r
    BY <1>1, <1>3
  <2> HIDE DEF r
  <2>2. (q * n + r) % n = r
    BY <1>1, <2>1, RemainderIs
  <2>3. QED
    BY <2>1, <2>2
<1>4. QED
  BY <1>2, <1>3

\* Every weekday comes within a week.
LEMMA WeekdayComes ==
    ASSUME NEW n \in Nat \ {0}, NEW x \in Nat, NEW w \in 0 .. n - 1
    PROVE  \E k \in 0 .. n - 1 : (x + k) % n = w
<1> DEFINE q == x \div n
           r == x % n
<1>1. q \in Nat /\ q * n \in Nat /\ r \in 0 .. n - 1 /\ x = q * n + r
  BY Divides
<1> HIDE DEF q, r
<1>2. CASE r <= w
  <2>1. w - r \in 0 .. n - 1 /\ x + (w - r) = q * n + w
    BY <1>1, <1>2
  <2>2. (q * n + w) % n = w
    BY <1>1, RemainderIs
  <2>3. QED
    BY <2>1, <2>2
<1>3. CASE ~(r <= w)
  <2>1. (w - r) + n \in 0 .. n - 1
    BY <1>1, <1>3
  <2>2. x + ((w - r) + n) = (q + 1) * n + w /\ q + 1 \in Nat
    <3>1. (q + 1) * n = q * n + n
      BY <1>1
    <3>2. QED
      BY <1>1, <3>1
  <2>3. ((q + 1) * n + w) % n = w
    BY <2>2, RemainderIs
  <2>4. QED
    BY <2>1, <2>2, <2>3
<1>4. QED
  BY <1>2, <1>3

LEMMA NoRemainder == ASSUME NEW x \in Nat PROVE x % 1 = 0
  OBVIOUS

-----------------------------------------------------------------------------
(***************************************************************************)
(* The times a schedule is for, all of them, and which comes next.         *)
(***************************************************************************)
TimeDays(s, start) ==
    {d \in Nat : /\ d > DayOf(start)
                 /\ (d - DayOf(start)) % (s.interval * UnitDays[s.unit]) = 0
                 /\ s.weekdays = {} \/ d % Week \in s.weekdays}
AllTimes(s, start) ==
    {start} \cup
    (IF IsCalendar(s) THEN {At(d, HourOf(start)) : d \in TimeDays(s, start)}
     ELSE {t \in Nat : start < t /\ (t - start) % s.interval = 0})

\* u is the first of T after t.
Follows(T, t, u) == u \in T /\ u > t /\ \A v \in T : v <= t \/ u <= v

LEMMA DayOrder ==
    ASSUME NEW t \in Nat, NEW u \in Nat, DayOf(t) < DayOf(u)
    PROVE  t < u
<1>1. DayOf(t) \in Nat /\ DayOf(u) \in Nat /\ In(t, DayOf(t)) /\ In(u, DayOf(u))
  BY HasDay
<1>2. DayStart(DayOf(t) + 1) <= DayStart(DayOf(u))
  BY <1>1, DaysFollow
<1>3. DayStart(DayOf(t) + 1) \in Nat /\ DayStart(DayOf(u)) \in Nat
  BY <1>1, Starting
<1>4. t < DayStart(DayOf(t) + 1) /\ DayStart(DayOf(u)) <= u
  BY <1>1 DEF In
<1>5. QED
  BY <1>2, <1>3, <1>4

\* A time by days is the one of its day.
LEMMA TimesAreDays ==
    ASSUME NEW s \in ScheduleConfig, IsCalendar(s), NEW start \in Nat, NEW t \in AllTimes(s, start)
    PROVE  /\ t \in Nat /\ DayOf(t) \in Nat
           /\ \/ t = start
              \/ DayOf(t) \in TimeDays(s, start) /\ t = At(DayOf(t), HourOf(start))
<1>1. HourOf(start) \in 0 .. Day - 1
  BY HourIs
<1>2. t = start \/ \E d \in TimeDays(s, start) : t = At(d, HourOf(start))
  BY DEF AllTimes
<1>3. CASE t = start
  BY <1>3, HasDay
<1>4. ASSUME NEW d \in TimeDays(s, start), t = At(d, HourOf(start))
      PROVE  t \in Nat /\ DayOf(t) = d /\ d \in Nat
  <2>1. d \in Nat
    BY DEF TimeDays
  <2>2. QED
    BY <1>1, <1>4, <2>1, AtIs
<1>5. QED
  BY <1>2, <1>3, <1>4

\* The time of the next day a schedule is for is its next.
LEMMA DayFollows ==
    ASSUME NEW s \in ScheduleConfig, IsCalendar(s), NEW start \in Nat, NEW t \in AllTimes(s, start),
           NEW e \in TimeDays(s, start), DayOf(t) < e,
           \A d \in TimeDays(s, start) : d <= DayOf(t) \/ e <= d
    PROVE  Follows(AllTimes(s, start), t, At(e, HourOf(start)))
<1> DEFINE u == At(e, HourOf(start))
<1>1. e \in Nat /\ HourOf(start) \in 0 .. Day - 1
  BY HourIs DEF TimeDays
<1>2. u \in Nat /\ DayOf(u) = e
  BY <1>1, AtIs
<1>3. u \in AllTimes(s, start)
  BY DEF AllTimes
<1> HIDE DEF u
<1>4. t \in Nat /\ DayOf(t) \in Nat
  BY TimesAreDays
<1>5. t < u
  BY <1>2, <1>4, DayOrder
<1>6. DayOf(start) <= DayOf(t) /\ DayOf(start) \in Nat
  <2>1. DayOf(start) \in Nat
    BY HasDay
  <2>2. t = start \/ DayOf(t) > DayOf(start)
    BY TimesAreDays DEF TimeDays
  <2>3. QED
    BY <1>4, <2>1, <2>2
<1>7. ASSUME NEW v \in AllTimes(s, start) PROVE v <= t \/ u <= v
  <2>1. /\ v \in Nat /\ DayOf(v) \in Nat
        /\ \/ v = start
           \/ DayOf(v) \in TimeDays(s, start) /\ v = At(DayOf(v), HourOf(start))
    BY TimesAreDays
  <2>2. CASE DayOf(v) < DayOf(t)
    <3>1. v < t
      BY <1>4, <2>1, <2>2, DayOrder
    <3>2. QED
      BY <1>4, <2>1, <3>1
  <2>3. CASE e < DayOf(v)
    <3>1. u < v
      BY <1>2, <2>1, <2>3, DayOrder
    <3>2. QED
      BY <1>2, <2>1, <3>1
  <2>4. CASE DayOf(v) = e
    <3>1. v # start
      BY <1>1, <1>4, <1>6, <2>4
    <3>2. v = u
      BY <2>1, <2>4, <3>1 DEF u
    <3>3. QED
      BY <1>2, <3>2
  <2>5. CASE DayOf(v) = DayOf(t)
    <3>1. /\ t = start \/ (DayOf(t) > DayOf(start) /\ t = At(DayOf(t), HourOf(start)))
          /\ v = start \/ (DayOf(v) > DayOf(start) /\ v = At(DayOf(v), HourOf(start)))
      BY <2>1, TimesAreDays DEF TimeDays
    <3>2. v = t
      BY <1>4, <1>6, <2>5, <3>1
    <3>3. QED
      BY <1>4, <3>2
  <2>6. CASE DayOf(t) < DayOf(v) /\ DayOf(v) < e
    <3>1. v # start
      BY <1>4, <1>6, <2>6
    <3>2. DayOf(v) \in TimeDays(s, start)
      BY <2>1, <3>1
    <3>3. QED
      BY <1>1, <1>4, <2>1, <2>6, <3>2
  <2>7. QED
    BY <1>1, <1>4, <2>1, <2>2, <2>3, <2>4, <2>5, <2>6
<1>8. QED
  BY <1>3, <1>5, <1>7 DEF Follows, u

\* Days and weeks without weekdays.
LEMMA EveryFollows ==
    ASSUME NEW s \in ScheduleConfig, IsCalendar(s), s.weekdays = {}, NEW start \in Nat,
           NEW t \in AllTimes(s, start)
    PROVE  Follows(AllTimes(s, start), t, NextRunAfter(s, t, start))
<1> DEFINE n == s.interval * UnitDays[s.unit]
           a == DayOf(start)
           d == DayOf(t)
           x == d - a
<1>1. n \in Nat \ {0}
  BY UnitsAre
<1>2. TimeDays(s, start) = {e \in Nat : e > a /\ (e - a) % n = 0}
  BY DEF TimeDays
<1>3. t \in Nat /\ d \in Nat /\ a \in Nat /\ (t = start \/ d \in TimeDays(s, start))
  BY TimesAreDays, HasDay
<1> HIDE DEF n, a
<1>4. x \in Nat /\ x % n = 0
  <2>1. CASE t = start
    <3>1. x = 0 /\ 0 % n = 0
      BY <1>1, <1>3, <2>1 DEF a
    <3>2. QED
      BY <3>1
  <2>2. CASE d \in TimeDays(s, start)
    BY <1>2, <1>3, <2>2
  <2>3. QED
    BY <1>3, <2>1, <2>2
<1>5. (x + n) % n = 0 /\ \A y \in Nat : x < y /\ y < x + n => y % n # 0
  BY <1>1, <1>4, NextDivides
<1>6. d + n \in TimeDays(s, start) /\ d < d + n
  <2>1. (d + n) - a = x + n /\ d + n \in Nat /\ d + n > a /\ d < d + n
    BY <1>1, <1>3, <1>4
  <2>2. QED
    BY <1>2, <1>5, <2>1
<1>7. ASSUME NEW e \in TimeDays(s, start) PROVE e <= d \/ d + n <= e
  <2>1. e \in Nat /\ e > a /\ (e - a) % n = 0
    BY <1>2
  <2>2. e - a \in Nat /\ ~(x < e - a /\ e - a < x + n)
    BY <1>3, <1>5, <2>1
  <2>3. QED
    BY <1>1, <1>3, <2>1, <2>2
<1>8. NextRunAfter(s, t, start) = At(d + n, HourOf(start))
  <2>1. start \in Clocks /\ start # None
    BY SomeTimes DEF Clocks
  <2>2. FirstOf(s, t, start) = AddCalendarDays(t, n, start)
    BY DEF FirstOf, ClockOf, n
  <2>3. AddCalendarDays(t, n, start) = At(d + n, HourOf(start))
    BY <1>1, <1>3, <2>1, AddIs
  <2>4. Allowed(s, FirstOf(s, t, start))
    BY DEF Allowed
  <2>5. NextRunAfter(s, t, start) = FirstOf(s, t, start)
    BY <2>4, NextRunIs
  <2>6. QED
    BY <2>2, <2>3, <2>5
<1> HIDE DEF d, x
<1>9. Follows(AllTimes(s, start), t, At(d + n, HourOf(start)))
  BY <1>6, <1>7, DayFollows DEF d
<1>10. QED
  BY <1>8, <1>9

\* Every day, but only on some days of the week.
LEMMA WeekdayFollows ==
    ASSUME NEW s \in ScheduleConfig, s.unit = "days", s.interval = 1, s.weekdays # {},
           NEW start \in Nat, NEW t \in AllTimes(s, start)
    PROVE  Follows(AllTimes(s, start), t, NextRunAfter(s, t, start))
<1> DEFINE a == DayOf(start)
           d == DayOf(t)
           h == HourOf(start)
           n == 2 * Week
           first == FirstOf(s, t, start)
           day == DaysFrom(first, start)
           fits == {k \in 0 .. n : Allowed(s, day[k])}
           i == IF fits = {} THEN n ELSE Min(fits)
<1>1. IsCalendar(s) /\ s.weekdays \in SUBSET (0 .. Week - 1) /\ s.interval * UnitDays[s.unit] = 1
  BY UnitsAre
<1>2. TimeDays(s, start) = {e \in Nat : e > a /\ e % Week \in s.weekdays}
  <2>1. \A e \in Nat : e > a => (e - a) % 1 = 0
    <3> TAKE e \in Nat
    <3> SUFFICES ASSUME e > a PROVE (e - a) % 1 = 0
      OBVIOUS
    <3>1. a \in Nat
      BY HasDay
    <3> HIDE DEF a
    <3>2. e - a \in Nat
      BY <3>1
    <3>3. QED
      BY <3>2, NoRemainder
  <2>2. TimeDays(s, start) = {e \in Nat : e > a /\ (e - a) % 1 = 0 /\ e % Week \in s.weekdays}
    BY <1>1 DEF TimeDays
  <2> HIDE DEF a
  <2>3. QED
    BY <2>1, <2>2
<1>3. t \in Nat /\ d \in Nat /\ a \in Nat /\ a <= d
  <2>1. t \in Nat /\ d \in Nat /\ a \in Nat /\ (t = start \/ d \in TimeDays(s, start))
    BY <1>1, TimesAreDays, HasDay
  <2>2. t = start => d = a
    OBVIOUS
  <2> HIDE DEF a, d
  <2>3. QED
    BY <1>2, <2>1, <2>2
<1>4. start \in Clocks /\ start # None
  BY SomeTimes DEF Clocks
<1>5. ClockOf(s, start) = start /\ first = AddCalendarDays(t, 1, start)
  BY <1>1 DEF FirstOf, ClockOf
<1>6. NextRunAfter(s, t, start) = IF Allowed(s, first) THEN first ELSE day[i]
  BY <1>5, NextRunIs
<1> HIDE DEF first
<1>7. first \in Nat /\ DayOf(first) = d + 1 /\ first = At(d + 1, h)
  <2>1. 1 \in Nat \ {0}
    OBVIOUS
  <2>2. QED
    BY <1>3, <1>4, <1>5, <2>1, AddIs
<1>8. n \in Nat /\ Week \in Nat \ {0} /\ Week <= n
  BY CalendarAssumption
<1>9. /\ day[0] = first
      /\ \A k \in 1 .. n : day[k] = AddCalendarDays(day[k - 1], 1, start)
      /\ \A k \in 0 .. n : day[k] \in Nat /\ DayOf(day[k]) = DayOf(first) + k
  BY <1>4, <1>7, DaysAre
<1> HIDE DEF day, n, h, d
<1>10. \A k \in 0 .. n : day[k] = At(d + 1 + k, h) /\ DayOf(day[k]) = d + 1 + k
  <2> TAKE k \in 0 .. n
  <2>1. DayOf(day[k]) = d + 1 + k
    BY <1>7, <1>9
  <2>2. CASE k = 0
    <3>1. d + 1 + k = d + 1
      BY <1>3, <2>2
    <3>2. QED
      BY <1>7, <1>9, <2>1, <2>2, <3>1
  <2>3. CASE k # 0
    <3>1. k \in 1 .. n /\ k - 1 \in 0 .. n /\ 1 \in Nat \ {0}
      BY <1>8, <2>3
    <3>2. day[k - 1] \in Nat /\ DayOf(day[k - 1]) = DayOf(first) + (k - 1)
      BY <1>9, <3>1
    <3>3. day[k] = At(DayOf(day[k - 1]) + 1, h)
      <4>1. AddCalendarDays(day[k - 1], 1, start) = At(DayOf(day[k - 1]) + 1, HourOf(start))
        BY <1>4, <3>1, <3>2, AddIs
      <4>2. QED
        BY <1>9, <3>1, <4>1 DEF h
    <3>4. DayOf(day[k - 1]) + 1 = d + 1 + k
      BY <1>3, <1>7, <3>1, <3>2
    <3>5. QED
      BY <2>1, <3>3, <3>4
  <2>4. QED
    BY <2>2, <2>3
<1>11. \A k \in 0 .. n : k \in fits <=> d + 1 + k \in TimeDays(s, start)
  <2> TAKE k \in 0 .. n
  <2>1. Allowed(s, day[k]) <=> (d + 1 + k) % Week \in s.weekdays
    BY <1>10 DEF Allowed, WeekdayOf
  <2>2. d + 1 + k \in Nat /\ d + 1 + k > a
    BY <1>3, <1>8
  <2>3. QED
    BY <1>2, <2>1, <2>2
<1>12. fits # {}
  <2>1. PICK w \in s.weekdays : TRUE
    OBVIOUS
  <2>2. w \in 0 .. Week - 1 /\ d + 1 \in Nat
    BY <1>1, <1>3
  <2>3. PICK k \in 0 .. Week - 1 : ((d + 1) + k) % Week = w
    BY <1>8, <2>2, WeekdayComes
  <2>4. k \in 0 .. n /\ d + 1 + k \in Nat /\ d + 1 + k > a
    BY <1>3, <1>8, <2>3
  <2>5. (d + 1 + k) % Week \in s.weekdays
    BY <2>1, <2>3
  <2>6. d + 1 + k \in TimeDays(s, start)
    BY <1>2, <2>4, <2>5
  <2>7. QED
    BY <1>11, <2>4, <2>6
<1> DEFINE m == Min(fits)
<1>13. m \in fits /\ \A k \in fits : m <= k
  <2>1. fits \in SUBSET Nat
    BY <1>8
  <2> HIDE DEF fits
  <2>2. QED
    BY <1>12, <2>1, MinIs
<1>14. m \in 0 .. n
  BY <1>13
<1>15. NextRunAfter(s, t, start) = At(d + 1 + m, h)
  <2>1. CASE Allowed(s, first)
    <3>1. 0 \in fits
      BY <1>8, <1>9, <2>1
    <3>2. m = 0
      BY <1>13, <1>14, <3>1
    <3>3. d + 1 + m = d + 1
      BY <1>3, <3>2
    <3>4. QED
      BY <1>6, <1>7, <2>1, <3>3
  <2>2. CASE ~Allowed(s, first)
    <3>1. i = m
      BY <1>12
    <3>2. day[m] = At(d + 1 + m, h)
      BY <1>10, <1>14
    <3>3. QED
      BY <1>6, <2>2, <3>1, <3>2
  <2>3. QED
    BY <2>1, <2>2
<1> HIDE DEF m, i
<1>16. d + 1 + m \in TimeDays(s, start) /\ d < d + 1 + m
  BY <1>3, <1>11, <1>13, <1>14
<1>17. ASSUME NEW e \in TimeDays(s, start) PROVE e <= d \/ d + 1 + m <= e
  <2> SUFFICES ASSUME d < e, e < d + 1 + m PROVE FALSE
    BY <1>2, <1>3, <1>14
  <2>1. e \in Nat
    BY <1>2
  <2>2. e - (d + 1) \in 0 .. n /\ e = d + 1 + (e - (d + 1)) /\ e - (d + 1) < m
    BY <1>3, <1>8, <1>14, <2>1
  <2>3. e - (d + 1) \in fits
    BY <1>11, <2>2
  <2>4. m <= e - (d + 1)
    BY <1>13, <2>3
  <2>5. QED
    BY <1>14, <2>2, <2>4
<1>18. Follows(AllTimes(s, start), t, At(d + 1 + m, HourOf(start)))
  BY <1>1, <1>16, <1>17, DayFollows DEF d
<1>19. QED
  BY <1>15, <1>18 DEF h

\* A number of hours.
LEMMA HoursFollow ==
    ASSUME NEW s \in ScheduleConfig, ~IsCalendar(s), s.weekdays = {}, NEW start \in Nat,
           NEW t \in AllTimes(s, start)
    PROVE  Follows(AllTimes(s, start), t, NextRunAfter(s, t, start))
<1> DEFINE n == s.interval
           T == AllTimes(s, start)
<1>1. n \in Nat \ {0}
  BY UnitsAre
<1>2. T = {start} \cup {v \in Nat : start < v /\ (v - start) % n = 0}
  BY DEF AllTimes
<1>3. NextRunAfter(s, t, start) = t + n
  <2>1. FirstOf(s, t, start) = t + n
    BY DEF FirstOf
  <2>2. Allowed(s, FirstOf(s, t, start))
    BY DEF Allowed
  <2>3. NextRunAfter(s, t, start) = FirstOf(s, t, start)
    BY <2>2, NextRunIs
  <2>4. QED
    BY <2>1, <2>3
<1>4. t \in T
  OBVIOUS
<1> HIDE DEF n, T
<1>5. \A v \in T : v \in Nat /\ v - start \in Nat /\ (v - start) % n = 0
  <2> TAKE v \in T
  <2>1. CASE v = start
    <3>1. v - start = 0 /\ 0 % n = 0
      BY <1>1, <2>1
    <3>2. QED
      BY <2>1, <3>1
  <2>2. CASE v # start
    BY <1>2, <2>2
  <2>3. QED
    BY <2>1, <2>2
<1> DEFINE x == t - start
<1>6. t \in Nat /\ x \in Nat /\ x % n = 0
  BY <1>4, <1>5
<1>7. (x + n) % n = 0 /\ \A y \in Nat : x < y /\ y < x + n => y % n # 0
  <2> HIDE DEF x
  <2>1. QED
    BY <1>1, <1>6, NextDivides
<1>8. t + n \in T /\ t + n > t
  <2>1. (t + n) - start = x + n /\ t + n \in Nat /\ start < t + n /\ t + n > t
    BY <1>1, <1>6
  <2> HIDE DEF x
  <2>2. QED
    BY <1>2, <1>7, <2>1
<1>9. ASSUME NEW v \in T PROVE v <= t \/ t + n <= v
  <2>1. v \in Nat /\ v - start \in Nat /\ (v - start) % n = 0
    BY <1>5
  <2>2. ~(x < v - start /\ v - start < x + n)
    <3> HIDE DEF x
    <3>1. QED
      BY <1>7, <2>1
  <2>3. QED
    BY <1>1, <1>6, <2>1, <2>2
<1>10. QED
  BY <1>3, <1>8, <1>9 DEF Follows, T

\* What NextRunAfter steps to is the next time.
LEMMA TimesFollow ==
    ASSUME NEW s \in ScheduleConfig, IsPlain(s), NEW start \in Nat, NEW t \in AllTimes(s, start)
    PROVE  Follows(AllTimes(s, start), t, NextRunAfter(s, t, start))
<1>1. CASE IsCalendar(s) /\ s.weekdays = {}
  BY <1>1, EveryFollows
<1>2. CASE s.unit = "days" /\ s.interval = 1 /\ s.weekdays # {}
  BY <1>2, WeekdayFollows
<1>3. CASE ~IsCalendar(s) /\ s.weekdays = {}
  BY <1>3, HoursFollow
<1>4. s.unit = "days" => IsCalendar(s)
  BY UnitsAre
<1>5. QED
  BY <1>1, <1>2, <1>3, <1>4 DEF IsPlain

LEMMA TimesAreNat ==
    ASSUME NEW s \in ScheduleConfig, NEW start \in Nat
    PROVE  AllTimes(s, start) \subseteq Nat /\ start \in AllTimes(s, start)
           /\ \A t \in AllTimes(s, start) : start <= t
<1>1. CASE IsCalendar(s)
  <2>1. \A t \in AllTimes(s, start) : t \in Nat /\ start <= t
    <3> TAKE t \in AllTimes(s, start)
    <3>1. t \in Nat /\ (t = start \/ DayOf(t) \in TimeDays(s, start))
      BY <1>1, TimesAreDays
    <3>2. DayOf(t) \in TimeDays(s, start) => start < t
      BY <3>1, DayOrder DEF TimeDays
    <3>3. QED
      BY <3>1, <3>2
  <2>2. QED
    BY <2>1 DEF AllTimes
<1>2. CASE ~IsCalendar(s)
  BY <1>2 DEF AllTimes
<1>3. QED
  BY <1>1, <1>2

\* The times up to the bound of an instance.
LEMMA TimesAre ==
    ASSUME NEW s \in ScheduleConfig, NEW start \in Nat, NEW a \in Int, NEW b \in 0 .. MaxTime
    PROVE  Between(TimesOf(s, start), a, b) = Between(AllTimes(s, start), a, b)
<1>0. MaxTime \in Nat /\ b \in Nat /\ b <= MaxTime
  BY SomeTimes
<1>1. ASSUME NEW t, t <= b, t \in Nat PROVE t \in TimesOf(s, start) <=> t \in AllTimes(s, start)
  <2>1. CASE IsCalendar(s)
    <3> DEFINE h == HourOf(start)
               days == {d \in DayOf(start) + 1 .. DayOf(MaxTime) :
                          /\ (d - DayOf(start)) % (s.interval * UnitDays[s.unit]) = 0
                          /\ s.weekdays = {} \/ d % Week \in s.weekdays}
    <3>1. DayOf(start) \in Nat /\ DayOf(MaxTime) \in Nat /\ h \in 0 .. Day - 1
      BY <1>0, HasDay, HourIs
    <3>2. TimesOf(s, start) = {start} \cup {At(d, h) : d \in days}
      BY <2>1 DEF TimesOf
    <3>3. AllTimes(s, start) = {start} \cup {At(d, h) : d \in TimeDays(s, start)}
      BY <2>1 DEF AllTimes
    <3>4. days \subseteq TimeDays(s, start)
      BY <3>1 DEF TimeDays
    <3>5. ASSUME NEW d \in TimeDays(s, start), t = At(d, h) PROVE d \in days
      <4>1. d \in Nat
        BY DEF TimeDays
      <4>2. DayOf(t) = d
        BY <3>1, <3>5, <4>1, AtIs
      <4>3. ~(DayOf(MaxTime) < DayOf(t))
        <5>1. ~(MaxTime < t)
          BY <1>0, <1>1
        <5>2. QED
          BY <1>0, <1>1, <5>1, DayOrder
      <4>4. d <= DayOf(MaxTime)
        BY <3>1, <4>1, <4>2, <4>3
      <4>5. QED
        BY <3>1, <4>1, <4>4 DEF TimeDays
    <3> HIDE DEF days, h
    <3>6. QED
      BY <3>2, <3>3, <3>4, <3>5
  <2>2. CASE ~IsCalendar(s)
    <3>1. TimesOf(s, start) = {start} \cup {v \in start + 1 .. MaxTime : (v - start) % s.interval = 0}
      BY <2>2 DEF TimesOf
    <3>2. AllTimes(s, start) = {start} \cup {v \in Nat : start < v /\ (v - start) % s.interval = 0}
      BY <2>2 DEF AllTimes
    <3>3. t \in start + 1 .. MaxTime <=> start < t
      BY <1>0, <1>1
    <3>4. QED
      BY <1>1, <3>1, <3>2, <3>3
  <2>3. QED
    BY <2>1, <2>2
<1>2. TimesOf(s, start) \subseteq Nat
  <2>1. CASE IsCalendar(s)
    <3>1. \A d \in DayOf(start) + 1 .. DayOf(MaxTime) : At(d, HourOf(start)) \in Nat
      <4> TAKE d \in DayOf(start) + 1 .. DayOf(MaxTime)
      <4>1. DayOf(start) \in Nat /\ DayOf(MaxTime) \in Nat /\ HourOf(start) \in 0 .. Day - 1
        BY <1>0, HasDay, HourIs
      <4>2. d \in Nat
        BY <4>1
      <4>3. QED
        BY <4>1, <4>2, AtIs
    <3>2. QED
      BY <2>1, <3>1 DEF TimesOf
  <2>2. CASE ~IsCalendar(s)
    BY <1>0, <2>2 DEF TimesOf
  <2>3. QED
    BY <2>1, <2>2
<1>3. AllTimes(s, start) \subseteq Nat
  BY TimesAreNat
<1>4. QED
  BY <1>1, <1>2, <1>3 DEF Between

\* A run that was counted on from a time stands for all the times since.
LEMMA PastIsCounted ==
    ASSUME NEW s \in ScheduleConfig, IsPlain(s), NEW start \in Nat, NEW from \in AllTimes(s, start),
           NEW n \in Nat, from <= n, ~NextRunPast(s, from, n, start).resynced
    PROVE  LET plan == NextRunPast(s, from, n, start)
               T == AllTimes(s, start)
           IN  /\ plan.next \in T /\ plan.next > n
               /\ \A t \in T : t < plan.next => t <= n
               /\ Cardinality({t \in T : from <= t /\ t <= n}) = plan.due
<1> DEFINE T == AllTimes(s, start)
           plan == NextRunPast(s, from, n, start)
           run == RunsFrom(s, from, start)
           past == {i \in 0 .. MaxCatchup : run[i] > n}
           k == Min(past)
           g == [j \in 0 .. k |-> IF j = 0 THEN from ELSE run[j - 1]]
           B(j) == {t \in T : from <= t /\ t <= g[j]}
<1>1. plan = IF past # {}
             THEN [next |-> run[k], due |-> k + 1, resynced |-> FALSE]
             ELSE [next |-> NextRunAfter(s, n, start), due |-> MaxCatchup + 1, resynced |-> TRUE]
  BY PastIs
<1>2. T \subseteq Nat /\ from \in T /\ from \in Nat
  BY TimesAreNat
<1>3. start \in Clocks /\ MaxCatchup \in Nat
  BY CalendarAssumption, SomeTimes DEF Clocks
<1>4. /\ run[0] = NextRunAfter(s, from, start)
      /\ \A i \in 1 .. MaxCatchup : run[i] = NextRunAfter(s, run[i - 1], start)
      /\ \A i \in 0 .. MaxCatchup : run[i] \in Nat
  BY <1>2, <1>3, RunsAre
<1>5. \A t \in T : Follows(T, t, NextRunAfter(s, t, start))
  BY TimesFollow
<1>6. ~plan.resynced
  OBVIOUS
<1> HIDE DEF T, plan, run
<1>7. past # {} /\ plan.next = run[k] /\ plan.due = k + 1
  BY <1>1, <1>6
<1>8. past \in SUBSET Nat
  BY <1>3
<1>9. k \in past /\ \A i \in past : k <= i
  <2> HIDE DEF past
  <2>1. QED
    BY <1>7, <1>8, MinIs
<1>10. k \in 0 .. MaxCatchup /\ k \in Nat /\ run[k] > n
  BY <1>9
<1>11. \A i \in 0 .. MaxCatchup : i < k => run[i] <= n
  BY <1>2, <1>4, <1>9, <1>10
<1> HIDE DEF k, past
\* Each of them follows the one before it.
<1>12. /\ g[0] = from /\ \A j \in 1 .. k : g[j] = run[j - 1] /\ g[j] \in Nat
       /\ \A j \in 0 .. k : g[j] <= n /\ g[j] \in Nat
  <2>1. \A j \in 0 .. k : g[j] = IF j = 0 THEN from ELSE run[j - 1]
    OBVIOUS
  <2>2. \A j \in 1 .. k : j - 1 \in 0 .. MaxCatchup /\ j - 1 < k /\ j \in 0 .. k /\ j # 0
    BY <1>3, <1>10
  <2> HIDE DEF g
  <2>3. g[0] = from /\ 0 \in 0 .. k
    BY <1>10, <2>1
  <2>4. \A j \in 1 .. k : g[j] = run[j - 1] /\ g[j] \in Nat /\ g[j] <= n
    BY <1>4, <1>11, <2>1, <2>2
  <2>5. \A j \in 0 .. k : j = 0 \/ j \in 1 .. k
    BY <1>10
  <2>6. QED
    BY <1>2, <2>3, <2>4, <2>5
<1> HIDE DEF g
<1>13. \A j \in 0 .. k : run[j] = NextRunAfter(s, g[j], start)
  <2> TAKE j \in 0 .. k
  <2>1. CASE j = 0
    BY <1>4, <1>12, <2>1
  <2>2. CASE j # 0
    <3>1. j \in 1 .. k /\ j \in 1 .. MaxCatchup
      BY <1>3, <1>10, <2>2
    <3>2. QED
      BY <1>4, <1>12, <3>1
  <2>3. QED
    BY <2>1, <2>2
<1> DEFINE P == {j \in 0 .. k : g[j] \in T /\ g[j] >= from /\ IsFiniteSet(B(j)) /\ Cardinality(B(j)) = j + 1}
<1>14. 0 \in P
  <2>0. g[0] = from /\ 0 \in 0 .. k
    BY <1>10, <1>12
  <2>1. B(0) = {from}
    <3>1. \A t \in T : (from <= t /\ t <= from) <=> t = from
      BY <1>2
    <3>2. QED
      BY <1>2, <2>0, <3>1
  <2>2. IsFiniteSet({from}) /\ Cardinality({from}) = 1
    BY FS_Singleton
  <2> HIDE DEF B
  <2>3. QED
    BY <1>2, <2>0, <2>1, <2>2
<1>15. ASSUME NEW j \in 0 .. k, j \in P, j < k PROVE j + 1 \in P
  <2>1. j + 1 \in 1 .. k /\ j + 1 \in 0 .. k /\ (j + 1) - 1 = j /\ j \in Nat
    BY <1>10, <1>15
  <2>2. g[j + 1] = run[j] /\ g[j] \in T /\ g[j] >= from
    BY <1>12, <1>15, <2>1
  <2>3. Follows(T, g[j], g[j + 1])
    BY <1>5, <1>13, <2>2
  <2>4. g[j + 1] \in T /\ g[j + 1] > g[j] /\ \A t \in T : t <= g[j] \/ g[j + 1] <= t
    BY <2>3 DEF Follows
  <2>5. g[j] \in Nat /\ g[j + 1] \in Nat
    BY <1>2, <2>2, <2>4
  <2>6. B(j + 1) = B(j) \cup {g[j + 1]} /\ g[j + 1] \notin B(j)
    <3>1. \A t \in T : (from <= t /\ t <= g[j + 1]) <=> (from <= t /\ t <= g[j]) \/ t = g[j + 1]
      <4> TAKE t \in T
      <4>1. t \in Nat /\ (t <= g[j] \/ g[j + 1] <= t) /\ g[j + 1] > g[j] /\ g[j] >= from
        BY <1>2, <2>2, <2>4
      <4>2. QED
        BY <1>2, <2>5, <4>1
    <3>2. ~(g[j + 1] <= g[j])
      BY <2>4, <2>5
    <3>3. QED
      BY <2>4, <3>1, <3>2
  <2>7. IsFiniteSet(B(j)) /\ Cardinality(B(j)) = j + 1
    BY <1>15
  <2>8. g[j + 1] >= from
    BY <1>2, <2>2, <2>4, <2>5
  <2> HIDE DEF B
  <2>9. IsFiniteSet(B(j) \cup {g[j + 1]}) /\ Cardinality(B(j) \cup {g[j + 1]}) = Cardinality(B(j)) + 1
    BY <2>6, <2>7, FS_AddElement
  <2>10. Cardinality(B(j + 1)) = (j + 1) + 1 /\ IsFiniteSet(B(j + 1))
    BY <2>6, <2>7, <2>9
  <2>11. QED
    BY <2>1, <2>4, <2>8, <2>10
<1>16. k \in P
  <2>1. 0 .. k \subseteq P
    <3> HIDE DEF P
    <3>1. 0 \in Nat
      OBVIOUS
    <3>2. QED
      BY <1>10, <1>14, <1>15, <3>1, Ascend
  <2> HIDE DEF P
  <2>2. QED
    BY <1>10, <2>1
<1>17. g[k] \in T /\ g[k] >= from /\ Cardinality(B(k)) = k + 1 /\ g[k] <= n /\ g[k] \in Nat
  <2>1. g[k] \in T /\ g[k] >= from /\ Cardinality(B(k)) = k + 1
    <3> HIDE DEF B
    <3>1. QED
      BY <1>16
  <2>2. k \in 0 .. k
    BY <1>10
  <2>3. QED
    BY <1>12, <2>1, <2>2
<1>18. Follows(T, g[k], run[k])
  <2>1. k \in 0 .. k
    BY <1>10
  <2>2. QED
    BY <1>5, <1>13, <1>17, <2>1
<1>19. run[k] \in T /\ \A t \in T : t <= g[k] \/ run[k] <= t
  BY <1>18 DEF Follows
<1>20. \A t \in T : t < run[k] => t <= n
  <2> TAKE t \in T
  <2>1. t \in Nat /\ run[k] \in Nat /\ (t <= g[k] \/ run[k] <= t) /\ g[k] \in Nat /\ g[k] <= n
    BY <1>2, <1>17, <1>19
  <2>2. QED
    BY <2>1
<1>21. {t \in T : from <= t /\ t <= n} = B(k)
  <2>1. \A t \in T : t <= n <=> t <= g[k]
    <3> TAKE t \in T
    <3>1. /\ t \in Nat /\ run[k] \in Nat /\ (t <= g[k] \/ run[k] <= t) /\ g[k] \in Nat /\ g[k] <= n
          /\ run[k] > n
      BY <1>2, <1>10, <1>17, <1>19
    <3>2. QED
      BY <3>1
  <2>2. QED
    BY <2>1
<1> HIDE DEF B
<1>22. QED
  BY <1>7, <1>10, <1>17, <1>19, <1>20, <1>21 DEF T, plan

-----------------------------------------------------------------------------
(***************************************************************************)
(* The runs of one job and the times they stand for.  Up to the next time, *)
(* every time has its run, and what was told of a run is so as long as     *)
(* nobody switched the schedule on again.                                  *)
(***************************************************************************)
RunBefore(r, i) == IF i = 1 THEN None ELSE r[i - 1]
Window(r, i, T) == {t \in T : RunBefore(r, i) < t /\ t <= r[i]}
RunTold(r, i, M, T, at) ==
    LET times == Window(r, i, T)
        first == Min(times)
        late == r[i] - first > MissedAfter /\ first > at
    IN  {m \in M : m.at = r[i]} =
            IF late THEN {[at |-> r[i], since |-> first, due |-> Cardinality(times)]} ELSE {}

EveryTime == AllTimes(job.schedule, entered.start)
NowLast == RunBefore(made, Len(made) + 1)

AsEntered ==
    /\ entered.start \in Nat /\ entered.at \in Nat
    /\ state # NoState /\ state.anchor = entered.start
    /\ state.enteredAt \in Nat /\ entered.at <= state.enteredAt /\ state.enteredAt <= now
    /\ state.next \in EveryTime /\ NowLast < state.next
    /\ \A t \in EveryTime : t < state.next => t <= NowLast
    /\ \A i \in DOMAIN made : Window(made, i, EveryTime) # {} /\ made[i] <= NowLast
    /\ \A m \in missed : m.at <= NowLast
    /\ state.enteredAt = entered.at =>
         \A i \in DOMAIN made : RunTold(made, i, missed, EveryTime, entered.at)

RunsInv == Paced /\ (CountsOn => AsEntered)

\* The last run, before and after another one.
LEMMA LastIs ==
    ASSUME NEW r \in Seq(0 .. MaxTime), NEW n \in 0 .. MaxTime
    PROVE  /\ RunBefore(r, Len(r) + 1) \in Int /\ RunBefore(r, Len(r) + 1) >= -1
           /\ RunBefore(Append(r, n), Len(Append(r, n)) + 1) = n
           /\ Len(Append(r, n)) = Len(r) + 1 /\ Append(r, n)[Len(r) + 1] = n
           /\ DOMAIN r = 1 .. Len(r) /\ DOMAIN Append(r, n) = 1 .. Len(r) + 1 /\ Len(r) \in Nat
           /\ \A i \in 1 .. Len(r) : Append(r, n)[i] = r[i]
           /\ \A i \in 1 .. Len(r) + 1 : RunBefore(Append(r, n), i) = RunBefore(r, i)
<1> DEFINE a == Append(r, n)
<1>0. MaxTime \in Nat
  BY SomeTimes
<1>1. /\ Len(a) = Len(r) + 1 /\ a[Len(r) + 1] = n /\ Len(r) \in Nat
      /\ DOMAIN r = 1 .. Len(r) /\ DOMAIN a = 1 .. Len(r) + 1
      /\ \A i \in 1 .. Len(r) : a[i] = r[i]
  OBVIOUS
<1> HIDE DEF a
<1>2. \A i \in 1 .. Len(r) : r[i] \in 0 .. MaxTime
  <2> DEFINE V == 0 .. MaxTime
  <2>1. r \in Seq(V)
    OBVIOUS
  <2> HIDE DEF V
  <2>2. \A i \in 1 .. Len(r) : r[i] \in V
    BY <2>1
  <2>3. QED
    BY <2>2 DEF V
<1>3. RunBefore(r, Len(r) + 1) \in Int /\ RunBefore(r, Len(r) + 1) >= -1
  <2>1. CASE Len(r) = 0
    <3>1. RunBefore(r, Len(r) + 1) = None
      BY <2>1 DEF RunBefore
    <3>2. QED
      BY <3>1, SomeTimes
  <2>2. CASE Len(r) # 0
    <3>1. Len(r) \in 1 .. Len(r) /\ (Len(r) + 1) - 1 = Len(r) /\ Len(r) + 1 # 1
      BY <1>1, <2>2
    <3>2. RunBefore(r, Len(r) + 1) = r[Len(r)]
      BY <3>1 DEF RunBefore
    <3>3. r[Len(r)] \in 0 .. MaxTime
      BY <1>2, <3>1
    <3>4. QED
      BY <1>0, <3>2, <3>3
  <2>3. QED
    BY <2>1, <2>2
<1>4. RunBefore(a, Len(a) + 1) = n
  <2>1. (Len(a) + 1) - 1 = Len(r) + 1 /\ Len(a) + 1 # 1
    BY <1>1
  <2>2. QED
    BY <1>1, <2>1 DEF RunBefore
<1>5. \A i \in 1 .. Len(r) + 1 : RunBefore(a, i) = RunBefore(r, i)
  <2> TAKE i \in 1 .. Len(r) + 1
  <2>1. CASE i = 1
    BY <2>1 DEF RunBefore
  <2>2. CASE i # 1
    <3>1. i - 1 \in 1 .. Len(r)
      BY <1>1, <2>2
    <3>2. QED
      BY <1>1, <2>2, <3>1 DEF RunBefore
  <2>3. QED
    BY <2>1, <2>2
<1>6. QED
  BY <1>1, <1>3, <1>4, <1>5 DEF a

LEMMA EnteredSchedule ==
    ASSUME Paced
    PROVE  /\ job.schedule \in ScheduleConfig /\ now \in Nat /\ now \in 0 .. MaxTime
           /\ made \in Seq(0 .. MaxTime)
  BY SomeTimes DEF Paced, Typed

\* A run, which stands for the times since the last.
LEMMA RunIsTold ==
    ASSUME Paced, AsEntered, IsPlain(job.schedule), now >= state.next,
           NEW plan, plan = NextRunPast(job.schedule, state.next, now, state.anchor), ~plan.resynced,
           NEW r, r = Append(made, now),
           NEW M, M = IF IsMissed(state.next, state.enteredAt)
                      THEN missed \cup {[at |-> now, since |-> state.next, due |-> plan.due]}
                      ELSE missed
    PROVE  /\ plan.next \in EveryTime /\ RunBefore(r, Len(r) + 1) < plan.next
           /\ \A t \in EveryTime : t < plan.next => t <= RunBefore(r, Len(r) + 1)
           /\ \A i \in DOMAIN r : Window(r, i, EveryTime) # {} /\ r[i] <= RunBefore(r, Len(r) + 1)
           /\ \A m \in M : m.at <= RunBefore(r, Len(r) + 1)
           /\ state.enteredAt = entered.at =>
                \A i \in DOMAIN r : RunTold(r, i, M, EveryTime, entered.at)
<1> DEFINE T == EveryTime
           from == state.next
           n == Len(made)
           l == NowLast
           W == {t \in T : from <= t /\ t <= now}
           new == [at |-> now, since |-> from, due |-> plan.due]
<1>1. /\ job.schedule \in ScheduleConfig /\ now \in Nat /\ now \in 0 .. MaxTime
      /\ made \in Seq(0 .. MaxTime)
  BY EnteredSchedule
<1>2. T \subseteq Nat /\ from \in T /\ from \in Nat
  BY <1>1, TimesAreNat DEF AsEntered, EveryTime
<1>3. plan.next \in T /\ plan.next > now /\ (\A t \in T : t < plan.next => t <= now)
      /\ Cardinality(W) = plan.due
  <2>1. plan = NextRunPast(job.schedule, from, now, entered.start)
    BY DEF AsEntered
  <2>2. from <= now /\ entered.start \in Nat /\ from \in AllTimes(job.schedule, entered.start)
    BY <1>1, <1>2 DEF AsEntered, EveryTime
  <2>3. ~NextRunPast(job.schedule, from, now, entered.start).resynced
    BY <2>1
  <2> DEFINE S == AllTimes(job.schedule, entered.start)
             p == NextRunPast(job.schedule, from, now, entered.start)
  <2> HIDE DEF from
  <2>4. /\ p.next \in S /\ p.next > now /\ (\A t \in S : t < p.next => t <= now)
        /\ Cardinality({t \in S : from <= t /\ t <= now}) = p.due
    BY <1>1, <2>2, <2>3, PastIsCounted
  <2> HIDE DEF p
  <2>5. plan = p /\ T = S
    BY <2>1 DEF p, EveryTime
  <2> HIDE DEF S, T
  <2>6. W = {t \in S : from <= t /\ t <= now}
    BY <2>5
  <2> HIDE DEF W
  <2>7. QED
    BY <2>4, <2>5, <2>6
<1>4. /\ l \in Int /\ RunBefore(r, Len(r) + 1) = now /\ Len(r) = n + 1 /\ r[n + 1] = now
      /\ DOMAIN made = 1 .. n /\ DOMAIN r = 1 .. n + 1 /\ n \in Nat
      /\ \A i \in 1 .. n : r[i] = made[i]
      /\ \A i \in 1 .. n + 1 : RunBefore(r, i) = RunBefore(made, i)
  BY <1>1, LastIs DEF NowLast
<1>5. l < from /\ from <= now /\ l < now
  <2>1. l < from
    BY DEF AsEntered
  <2>2. QED
    BY <1>1, <1>2, <1>4, <2>1
<1>6. /\ \A t \in T : t < from => t <= l
      /\ \A i \in 1 .. n : Window(made, i, T) # {} /\ made[i] <= l
      /\ \A m \in missed : m.at <= l
      /\ state.enteredAt = entered.at => \A i \in 1 .. n : RunTold(made, i, missed, T, entered.at)
  BY <1>4 DEF AsEntered
<1>7. RunBefore(r, n + 1) = l
  <2>1. n + 1 \in 1 .. n + 1
    BY <1>4
  <2>2. QED
    BY <1>4, <2>1 DEF NowLast
<1>8. \A i \in 1 .. n : made[i] \in 0 .. MaxTime
  <2> DEFINE V == 0 .. MaxTime
  <2>1. made \in Seq(V)
    BY <1>1
  <2> HIDE DEF V
  <2>2. \A i \in 1 .. n : made[i] \in V
    BY <1>4, <2>1
  <2>3. QED
    BY <2>2 DEF V
<1>9. MaxTime \in Nat /\ MissedAfter \in Nat
  BY SomeTimes
<1>10. \A m \in missed : m.at \in Nat
  BY <1>9 DEF Paced, MissedHolds
<1> HIDE DEF T, from, n, l, W
<1>11. Window(r, n + 1, T) = W
  <2>1. \A t \in T : (l < t /\ t <= now) <=> (from <= t /\ t <= now)
    <3> TAKE t \in T
    <3>1. t \in Nat /\ (t < from => t <= l)
      BY <1>2, <1>6
    <3>2. QED
      BY <1>2, <1>4, <1>5, <3>1
  <2>2. Window(r, n + 1, T) = {t \in T : l < t /\ t <= now}
    BY <1>4, <1>7 DEF Window
  <2>3. QED
    BY <2>1, <2>2 DEF W
<1>12. from \in W /\ Min(W) = from
  <2>1. from \in W
    <3>1. from <= from /\ from <= now
      BY <1>2, <1>5
    <3>2. QED
      BY <1>2, <3>1 DEF W
  <2>2. W \in SUBSET Nat /\ \A y \in W : from <= y
    BY <1>2 DEF W
  <2>3. QED
    BY <2>1, <2>2, MinOnly
\* Runs before this one keep what was told of them.
<1>13. ASSUME NEW i \in 1 .. n
       PROVE  /\ Window(r, i, T) = Window(made, i, T) /\ r[i] = made[i] /\ made[i] < now
              /\ {m \in M : m.at = r[i]} = {m \in missed : m.at = made[i]}
  <2>1. i \in 1 .. n + 1
    BY <1>4
  <2>2. Window(r, i, T) = Window(made, i, T) /\ r[i] = made[i]
    BY <1>4, <2>1 DEF Window
  <2>3. made[i] < now
    <3>1. made[i] <= l /\ made[i] \in Int
      BY <1>6, <1>8, <1>9
    <3>2. QED
      BY <1>1, <1>4, <1>5, <3>1
  <2>4. made[i] # now
    <3>1. made[i] \in Int
      BY <1>8, <1>9
    <3>2. QED
      BY <1>1, <2>3, <3>1
  <2>5. new.at = now /\ (M = missed \/ M = missed \cup {new})
    BY DEF from
  <2> HIDE DEF new
  <2>6. \A m \in M : m.at = made[i] => m \in missed
    BY <2>4, <2>5
  <2>7. QED
    BY <2>2, <2>3, <2>5, <2>6
<1>14. ASSUME state.enteredAt = entered.at
       PROVE  \A i \in 1 .. n + 1 : RunTold(r, i, M, T, entered.at)
  <2> TAKE i \in 1 .. n + 1
  <2>1. CASE i \in 1 .. n
    <3>1. RunTold(made, i, missed, T, entered.at)
      BY <1>6, <1>14, <2>1
    <3>2. QED
      BY <1>13, <2>1, <3>1 DEF RunTold
  <2>2. CASE i = n + 1
    <3> DEFINE late == now - from > MissedAfter /\ from > entered.at
    <3>1. IsMissed(state.next, state.enteredAt) <=> late
      <4>1. entered.at \in Nat /\ entered.at # None
        BY SomeTimes DEF AsEntered
      <4>2. IsMissed(state.next, state.enteredAt) <=>
              (now - from > MissedAfter /\ ~(entered.at # None /\ from <= entered.at))
        BY <1>14 DEF IsMissed, from
      <4>3. QED
        BY <1>2, <4>1, <4>2
    <3>2. M = IF late THEN missed \cup {new} ELSE missed
      BY <3>1 DEF from
    <3>3. new.at = now /\ \A m \in missed : m.at # now
      <4>1. \A m \in missed : m.at \in Nat /\ m.at <= l
        BY <1>6, <1>10
      <4>2. QED
        BY <1>1, <1>4, <1>5, <4>1
    <3>4. new = [at |-> now, since |-> from, due |-> Cardinality(W)]
      BY <1>3 DEF W
    <3> HIDE DEF late, new
    <3>5. {m \in M : m.at = now} = IF late THEN {new} ELSE {}
      BY <3>2, <3>3
    <3>6. r[i] = now /\ Window(r, i, T) = W
      BY <1>4, <1>11, <2>2
    <3>7. {m \in M : m.at = r[i]} =
            IF r[i] - Min(W) > MissedAfter /\ Min(W) > entered.at
            THEN {[at |-> r[i], since |-> Min(W), due |-> Cardinality(W)]} ELSE {}
      BY <1>12, <3>4, <3>5, <3>6 DEF late
    <3>8. QED
      BY <3>6, <3>7 DEF RunTold
  <2>3. QED
    BY <1>4, <2>1, <2>2
<1>15. \A i \in 1 .. n + 1 : Window(r, i, T) # {} /\ r[i] <= now
  <2> TAKE i \in 1 .. n + 1
  <2>1. CASE i \in 1 .. n
    <3>1. Window(r, i, T) = Window(made, i, T) /\ r[i] = made[i] /\ made[i] < now
      BY <1>13, <2>1
    <3>2. Window(made, i, T) # {} /\ made[i] \in Int
      BY <1>6, <1>8, <1>9, <2>1
    <3>3. QED
      BY <1>1, <3>1, <3>2
  <2>2. CASE i = n + 1
    BY <1>1, <1>4, <1>11, <1>12, <2>2
  <2>3. QED
    BY <1>4, <2>1, <2>2
<1>16. \A m \in M : m.at <= now
  <2> TAKE m \in M
  <2>1. m \in missed \/ m.at = now
    OBVIOUS
  <2>2. m \in missed => m.at \in Nat /\ m.at <= l
    BY <1>6, <1>10
  <2>3. QED
    BY <1>1, <1>4, <1>5, <2>1, <2>2
<1>17. QED
  BY <1>3, <1>4, <1>14, <1>15, <1>16 DEF T

LEMMA RunsInit == ASSUME Init PROVE RunsInv
<1>1. Paced
  BY PacedInit
<1>2. PICK offset \in Starts \cap Nat : state = [next |-> offset, anchor |-> offset, enteredAt |-> 0]
  BY DEF Init
<1>3. /\ entered = [start |-> state.anchor, at |-> 0] /\ now = 0 /\ made = <<>> /\ missed = {}
  BY DEF Init
<1>4. /\ state.next = offset /\ state.anchor = offset /\ state.enteredAt = 0
      /\ entered.start = offset /\ entered.at = 0 /\ offset \in Nat /\ state # NoState
  BY <1>2, <1>3, SomeTimes DEF NoState
<1>5. EveryTime \subseteq Nat /\ offset \in EveryTime /\ \A t \in EveryTime : offset <= t
  BY <1>1, <1>4, EnteredSchedule, TimesAreNat DEF EveryTime
<1>6. NowLast = -1 /\ DOMAIN made = {}
  BY <1>3, SomeTimes DEF NowLast, RunBefore
<1>7. AsEntered
  <2>1. \A t \in EveryTime : ~(t < offset)
    BY <1>4, <1>5
  <2>2. -1 < offset
    BY <1>4
  <2>3. QED
    BY <1>3, <1>4, <1>5, <1>6, <2>1, <2>2 DEF AsEntered
<1>8. QED
  BY <1>1, <1>7 DEF RunsInv

\* A step that leaves the schedule and its runs alone.
LEMMA SameAsEntered ==
    ASSUME AsEntered, state' = state, entered' = entered, made' = made, missed' = missed,
           job'.schedule = job.schedule, now' \in Nat, now \in Nat, now <= now'
    PROVE  AsEntered'
<1>1. EveryTime' = EveryTime /\ NowLast' = NowLast
  BY DEF EveryTime, NowLast
<1>2. state.enteredAt <= now'
  BY DEF AsEntered
<1>3. QED
  BY <1>1, <1>2 DEF AsEntered

LEMMA LookKeepsRuns ==
    ASSUME RunsInv, Look, CountsOn'
    PROVE  AsEntered'
<1>1. UNCHANGED <<job, now, up>> /\ Paced /\ now \in Nat
  BY EnteredSchedule DEF Look, RunsInv
<1>2. CASE UNCHANGED <<state, told>>
  <2>1. entered' = entered /\ made' = made /\ missed' = missed /\ state' = state
    BY <1>2 DEF told
  <2>2. CountsOn
    BY <1>1, <2>1 DEF CountsOn
  <2>3. AsEntered /\ now <= now' /\ job'.schedule = job.schedule /\ now' \in Nat
    BY <1>1, <2>2 DEF RunsInv
  <2>4. QED
    BY <1>1, <2>1, <2>3, SameAsEntered
<1>3. CASE job.on /\ state = NoState /\ Initialise
  BY <1>3 DEF Initialise, Forget, CountsOn
<1>4. CASE job.on /\ state # NoState /\ now >= state.next /\ RunDue
  <2> DEFINE plan == NextRunPast(job.schedule, state.next, now, state.anchor)
             row == [state EXCEPT !.next = plan.next]
             M == IF IsMissed(state.next, state.enteredAt)
                  THEN missed \cup {[at |-> now, since |-> state.next, due |-> plan.due]}
                  ELSE missed
  <2>1. state' = row
    BY <1>4, PersistIs DEF RunDue
  <2>2. ~(entered = Nothing \/ plan.resynced)
    BY <1>4 DEF RunDue, Forget, CountsOn
  <2>3. made' = Append(made, now) /\ missed' = M /\ entered' = entered
    BY <1>4, <2>2 DEF RunDue
  <2>4. CountsOn /\ AsEntered /\ IsPlain(job.schedule)
    BY <1>1, <2>3 DEF CountsOn, RunsInv
  <2>5. plan.next \in Nat /\ (IsCalendar(job.schedule) /\ state.anchor # None =>
                                HasHour(plan.next, HourOf(state.anchor)))
    <3>1. job.schedule \in ScheduleConfig /\ state.anchor \in Clocks /\ state.next \in Nat
      BY <1>1, <1>4, SomeTimes, RowParts, EnteredSchedule DEF Paced, RowHolds
    <3>2. QED
      BY <1>1, <3>1, NextIsPast
  <2>6. /\ row.next = plan.next /\ row.anchor = state.anchor /\ row.enteredAt = state.enteredAt
        /\ row # NoState
    <3>1. RowHolds(state, job.schedule)
      BY <1>1 DEF Paced
    <3> HIDE DEF plan
    <3>2. QED
      BY <2>5, <3>1, RowMoves
  <2>7. plan = NextRunPast(job.schedule, state.next, now, state.anchor) /\ ~plan.resynced
    BY <2>2
  <2>8. M = IF IsMissed(state.next, state.enteredAt)
            THEN missed \cup {[at |-> now, since |-> state.next, due |-> plan.due]}
            ELSE missed
    OBVIOUS
  <2> HIDE DEF plan, M, row
  <2>9. /\ plan.next \in EveryTime /\ RunBefore(made', Len(made') + 1) < plan.next
        /\ \A t \in EveryTime : t < plan.next => t <= RunBefore(made', Len(made') + 1)
        /\ \A i \in DOMAIN made' :
             Window(made', i, EveryTime) # {} /\ made'[i] <= RunBefore(made', Len(made') + 1)
        /\ \A m \in M : m.at <= RunBefore(made', Len(made') + 1)
        /\ state.enteredAt = entered.at =>
             \A i \in DOMAIN made' : RunTold(made', i, M, EveryTime, entered.at)
    <3>1. PICK r : r = Append(made, now)
      OBVIOUS
    <3>2. made' = r
      BY <2>3, <3>1
    <3>3. now >= state.next
      BY <1>4
    <3>4. QED
      BY <1>1, <2>4, <2>7, <2>8, <3>1, <3>2, <3>3, RunIsTold
  <2>10. EveryTime' = EveryTime /\ NowLast' = RunBefore(made', Len(made') + 1)
    BY <1>1, <2>3 DEF EveryTime, NowLast
  <2>11. /\ entered'.start \in Nat /\ entered'.at \in Nat /\ state' # NoState
         /\ state'.anchor = entered'.start /\ state'.enteredAt = state.enteredAt
         /\ state'.enteredAt \in Nat /\ entered'.at <= state'.enteredAt /\ state'.enteredAt <= now'
         /\ state'.next = plan.next
    BY <1>1, <2>1, <2>3, <2>4, <2>6 DEF AsEntered
  <2>12. QED
    BY <2>3, <2>9, <2>10, <2>11 DEF AsEntered
<1>5. QED
  BY <1>2, <1>3, <1>4 DEF Look

LEMMA SaveOnKeepsRuns ==
    ASSUME RunsInv, NEW s \in Schedules, NEW offset \in Starts, SaveOn(s, offset)
    PROVE  AsEntered'
<1> DEFINE start == now + offset
<1>1. /\ start >= 0
      /\ job' = [schedule |-> s, on |-> TRUE]
      /\ state' = [next |-> start, anchor |-> start, enteredAt |-> now]
      /\ entered' = [start |-> start, at |-> now]
      /\ made' = <<>> /\ missed' = {} /\ now' = now
  BY DEF SaveOn, SetStart
<1>2. now \in Nat /\ start \in Nat /\ s \in ScheduleConfig
  BY <1>1, EnteredSchedule, SomeTimes DEF RunsInv
<1> HIDE DEF start
<1>3. /\ state'.next = start /\ state'.anchor = start /\ state'.enteredAt = now
      /\ entered'.start = start /\ entered'.at = now /\ state' # NoState /\ job'.schedule = s
  BY <1>1, <1>2, SomeTimes DEF NoState
<1>4. EveryTime' = AllTimes(s, start)
  BY <1>3 DEF EveryTime
<1>5. AllTimes(s, start) \subseteq Nat /\ start \in AllTimes(s, start) /\ \A t \in AllTimes(s, start) : start <= t
  BY <1>2, TimesAreNat
<1>6. NowLast' = -1 /\ DOMAIN made' = {}
  BY <1>1, SomeTimes DEF NowLast, RunBefore
<1>7. \A t \in AllTimes(s, start) : ~(t < start)
  BY <1>2, <1>5
<1>8. -1 < start /\ now <= now
  BY <1>2
<1>9. QED
  BY <1>1, <1>2, <1>3, <1>4, <1>5, <1>6, <1>7, <1>8 DEF AsEntered

LEMMA ToggleKeepsRuns ==
    ASSUME RunsInv, Toggle, CountsOn'
    PROVE  AsEntered'
<1>1. /\ job' = [job EXCEPT !.on = ~@]
      /\ state' = IF job'.on /\ state # NoState THEN [state EXCEPT !.enteredAt = now] ELSE state
      /\ UNCHANGED <<now, entered, made, missed>>
  BY DEF Toggle
<1>2. Paced /\ now \in Nat /\ job'.schedule = job.schedule /\ now <= now'
  BY <1>1, EnteredSchedule DEF RunsInv, Paced, Typed
<1>3. CountsOn /\ AsEntered
  BY <1>1, <1>2 DEF CountsOn, RunsInv
<1>4. CASE state' = state
  BY <1>1, <1>2, <1>3, <1>4, SameAsEntered
<1>5. CASE state' = [state EXCEPT !.enteredAt = now]
  <2>1. state \in StateRow
    BY <1>2 DEF Paced, RowHolds
  <2>2. /\ state'.enteredAt = now /\ state'.anchor = state.anchor /\ state'.next = state.next
    BY <1>5, <2>1 DEF StateRow
  <2>3. state' # NoState
    BY <1>2, <2>2, SomeTimes DEF NoState
  <2>4. EveryTime' = EveryTime /\ NowLast' = NowLast
    BY <1>1, <1>2 DEF EveryTime, NowLast
  <2>5. entered.at <= now /\ (now = entered.at => state.enteredAt = entered.at)
    BY <1>2, <1>3 DEF AsEntered
  <2>6. QED
    BY <1>1, <1>2, <1>3, <2>2, <2>3, <2>4, <2>5 DEF AsEntered
<1>6. QED
  BY <1>1, <1>4, <1>5

LEMMA StepKeepsRuns ==
    ASSUME RunsInv, Next
    PROVE  RunsInv'
<1>1. Paced'
  BY NextKeepsPace DEF RunsInv
<1>2. now \in Nat /\ Paced
  BY EnteredSchedule DEF RunsInv
<1>3. ASSUME CountsOn' PROVE AsEntered'
  <2>1. CASE Look
    BY <1>3, <2>1, LookKeepsRuns
  <2>2. CASE Passes
    <3>1. /\ now' = now + 1 /\ state' = state /\ entered' = entered /\ made' = made /\ missed' = missed
          /\ job' = job
      BY <2>2 DEF Passes, told
    <3>2. CountsOn /\ now <= now' /\ now' \in Nat
      BY <1>2, <1>3, <3>1 DEF CountsOn
    <3>3. QED
      BY <1>2, <3>1, <3>2, SameAsEntered DEF RunsInv
  <2>3. CASE Toggle
    BY <1>3, <2>3, ToggleKeepsRuns
  <2>4. CASE Stop
    <3>1. /\ now' = now /\ state' = state /\ entered' = entered /\ made' = made /\ missed' = missed
          /\ job' = job
      BY <2>4 DEF Stop
    <3>2. CountsOn /\ now <= now' /\ now' \in Nat
      BY <1>2, <1>3, <3>1 DEF CountsOn
    <3>3. QED
      BY <1>2, <3>1, <3>2, SameAsEntered DEF RunsInv
  <2>5. CASE Start
    <3>1. state' = state
      BY <1>3, <2>5 DEF Start, Forget, CountsOn
    <3>2. /\ now' = now /\ entered' = entered /\ made' = made /\ missed' = missed /\ job' = job
      BY <2>5, <3>1 DEF Start, told
    <3>3. CountsOn /\ now <= now' /\ now' \in Nat
      BY <1>2, <1>3, <3>2 DEF CountsOn
    <3>4. QED
      BY <1>2, <3>1, <3>2, <3>3, SameAsEntered DEF RunsInv
  <2>6. ASSUME NEW s \in Schedules, NEW offset \in Starts, SaveOn(s, offset) PROVE AsEntered'
    BY <2>6, SaveOnKeepsRuns
  <2>7. QED
    BY <2>1, <2>2, <2>3, <2>4, <2>5, <2>6 DEF Next
<1>4. QED
  BY <1>1, <1>3 DEF RunsInv

LEMMA RunsInvShows ==
    ASSUME RunsInv
    PROVE  RunsAsScheduled /\ MissedIsTold
<1> SUFFICES ASSUME CountsOn
             PROVE  RunsAsScheduled /\ MissedIsTold
  BY DEF RunsAsScheduled, MissedIsTold
<1>1. Paced /\ AsEntered
  BY DEF RunsInv
<1>2. /\ job.schedule \in ScheduleConfig /\ now \in Nat /\ now \in 0 .. MaxTime
      /\ made \in Seq(0 .. MaxTime) /\ entered.start \in Nat /\ MaxTime \in Nat
  BY <1>1, EnteredSchedule, SomeTimes DEF AsEntered
<1> DEFINE n == Len(made)
<1>3. n \in Nat /\ DOMAIN made = 1 .. n /\ NowLast \in Int /\ LastRun(n + 1) = NowLast
  BY <1>2, LastIs DEF NowLast, RunBefore, LastRun
<1>4. \A i \in 1 .. n : made[i] \in 0 .. MaxTime
  <2> DEFINE V == 0 .. MaxTime
  <2>1. made \in Seq(V)
    BY <1>2
  <2> HIDE DEF V
  <2>2. \A i \in 1 .. n : made[i] \in V
    BY <1>3, <2>1
  <2>3. QED
    BY <2>2 DEF V
<1> HIDE DEF n
<1>5. \A i \in 1 .. n : RunBefore(made, i) \in Int /\ LastRun(i) = RunBefore(made, i)
  <2> TAKE i \in 1 .. n
  <2>1. CASE i = 1
    BY <2>1, SomeTimes DEF RunBefore, LastRun
  <2>2. CASE i # 1
    <3>1. i - 1 \in 1 .. n
      BY <1>3, <2>2
    <3>2. made[i - 1] \in Int
      BY <1>2, <1>4, <3>1
    <3>3. QED
      BY <2>2, <3>2 DEF RunBefore, LastRun
  <2>3. QED
    BY <2>1, <2>2
<1>6. \A i \in 1 .. n : Between(Scheduled, LastRun(i), made[i]) = Window(made, i, EveryTime)
  <2> TAKE i \in 1 .. n
  <2>1. made[i] \in 0 .. MaxTime /\ LastRun(i) \in Int
    BY <1>4, <1>5
  <2>2. Between(TimesOf(job.schedule, entered.start), LastRun(i), made[i]) =
            Between(AllTimes(job.schedule, entered.start), LastRun(i), made[i])
    BY <1>2, <2>1, TimesAre
  <2>3. QED
    BY <1>5, <2>2 DEF Scheduled, Window, EveryTime, Between
<1>7. RunsAsScheduled
  <2>1. \A i \in DOMAIN made : Between(Scheduled, LastRun(i), made[i]) # {}
    BY <1>1, <1>3, <1>6 DEF AsEntered
  <2>2. ASSUME up, looked, job.on, state.enteredAt # now
        PROVE  Between(Scheduled, LastRun(n + 1), now) = {}
    <3>1. Between(Scheduled, NowLast, now) = {t \in EveryTime : NowLast < t /\ t <= now}
      <4>1. Between(TimesOf(job.schedule, entered.start), NowLast, now) =
                Between(AllTimes(job.schedule, entered.start), NowLast, now)
        <5> HIDE DEF NowLast
        <5>1. QED
          BY <1>2, <1>3, TimesAre
      <4>2. QED
        BY <4>1 DEF Scheduled, EveryTime, Between
    <3>2. state.next > now
      BY <1>1, <2>2, SomeTimes DEF Paced, NextLiesAhead, AsEntered
    <3>3. EveryTime \subseteq Nat /\ state.next \in EveryTime
      BY <1>1, <1>2, TimesAreNat DEF EveryTime, AsEntered
    <3>4. \A t \in EveryTime : ~(NowLast < t /\ t <= now)
      <4> TAKE t \in EveryTime
      <4>1. t \in Nat /\ state.next \in Nat /\ (t < state.next => t <= NowLast)
        BY <1>1, <3>3 DEF AsEntered
      <4>2. QED
        BY <1>2, <1>3, <3>2, <4>1
    <3>5. QED
      BY <1>3, <3>1, <3>4
  <2>3. QED
    BY <2>1, <2>2 DEF RunsAsScheduled, n
<1>8. MissedIsTold
  <2> SUFFICES ASSUME state.enteredAt = entered.at, NEW i \in DOMAIN made
               PROVE  LET times == Between(Scheduled, LastRun(i), made[i])
                          first == Min(times)
                          late == made[i] - first > MissedAfter /\ first > entered.at
                      IN  {m \in missed : m.at = made[i]} =
                              IF late THEN {[at |-> made[i], since |-> first, due |-> Cardinality(times)]}
                              ELSE {}
    BY DEF MissedIsTold
  <2>1. RunTold(made, i, missed, EveryTime, entered.at)
    BY <1>1 DEF AsEntered
  <2>2. Between(Scheduled, LastRun(i), made[i]) = Window(made, i, EveryTime)
    BY <1>3, <1>6
  <2>3. QED
    BY <2>1, <2>2 DEF RunTold
<1>9. QED
  BY <1>7, <1>8

(***************************************************************************)
(* Every time a schedule was entered for has its run, none stands for no   *)
(* time, and the late ones are told with the times they stand for, for any *)
(* calendar and any schedule without weekdays or of every day.             *)
(***************************************************************************)
THEOREM RunsStandForTimes == MCSpec => []RunsAreTold
<1> DEFINE Inv == part = "scheduler" => RunsInv
<1>1. MCInit => Inv
  BY RunsInit DEF MCInit
<1>2. Inv /\ [MCNext]_<<part, schedulerVars, filesVars>> => Inv'
  <2> SUFFICES ASSUME Inv, [MCNext]_<<part, schedulerVars, filesVars>> PROVE Inv'
    OBVIOUS
  <2>1. CASE part = "scheduler" /\ Next /\ UNCHANGED <<part, filesVars>>
    BY <2>1, StepKeepsRuns
  <2>2. CASE part = "files" /\ Files!Next /\ UNCHANGED <<part, schedulerVars>>
    BY <2>2
  <2>3. CASE UNCHANGED <<part, schedulerVars, filesVars>>
    <3> SUFFICES ASSUME part' = "scheduler" PROVE RunsInv'
      OBVIOUS
    <3>1. RunsInv /\ UNCHANGED vars
      BY <2>3 DEF schedulerVars
    <3>2. /\ state' = state /\ entered' = entered /\ made' = made /\ missed' = missed
          /\ job' = job /\ now' = now
      BY <3>1 DEF vars, told
    <3>3. Paced' /\ now \in Nat /\ now <= now
      BY <3>1, SameKeepsPace, EnteredSchedule DEF RunsInv
    <3>4. CountsOn' => AsEntered'
      BY <3>1, <3>2, <3>3, SameAsEntered DEF CountsOn, RunsInv
    <3>5. QED
      BY <3>3, <3>4 DEF RunsInv
  <2>4. QED
    BY <2>1, <2>2, <2>3 DEF MCNext
<1>3. Inv => RunsAreTold
  BY RunsInvShows DEF RunsAreTold
<1>4. QED
  BY <1>1, <1>2, <1>3, PTL DEF MCSpec
=============================================================================
