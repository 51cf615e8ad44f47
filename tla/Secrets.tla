------------------------------ MODULE Secrets ------------------------------
(***************************************************************************)
(* The secrets the server stores encrypted, the key for them in            *)
(* config.yaml, and the start that makes that key and moves an old         *)
(* database to it (server: AppConfig, SecretCrypto, Database and its       *)
(* migrations).                                                            *)
(*                                                                         *)
(* Keys are numbers in the order they were generated, 0 is none.  One      *)
(* stored secret stands for the repositories' and outbound clients', one   *)
(* token for the inbound clients'.  The server may be killed at any step,  *)
(* config.yaml may not be writable, and it is edited by hand.              *)
(***************************************************************************)
EXTENDS Integers, Sequences

CONSTANTS MaxKeys, MaxKills, MaxEdits  \* bounds

VARIABLES
  file,     \* config.yaml: the key in it, and whether it parses
  writable, \* whether the server may write it
  stage,    \* how far the server is
  key,      \* the key in memory
  unsaved,  \* `secretKeyUnsaved`
  parsed,   \* whether the document in memory can be written
  rebuild,  \* migrations 3 and 4, which rebuild a table: due, begun, done, logged
  logged,   \* whether migration 18 is on record
  held,     \* whether a secret is stored,
  layers,   \* under which keys it is encrypted, the last one outermost
  hashes,   \* how often the token was hashed
  made,     \* keys generated so far
  torn,     \* history: a write of config.yaml was cut short
  edited,   \* history: the key was taken out of config.yaml by hand
  kills, edits

secretsVars == <<file, writable, stage, key, unsaved, parsed, rebuild, logged, held, layers, hashes,
                 made, torn, edited, kills, edits>>
memory == <<key, unsaved, parsed>>
database == <<rebuild, logged, held, layers, hashes>>
past == <<made, torn, edited, kills, edits>>

\* A database from before migration 3, one from before 18, or none yet.
Init ==
  /\ file \in {[key |-> 0, parses |-> TRUE]} /\ writable \in BOOLEAN
  /\ stage = "down" /\ key = 0 /\ unsaved = FALSE /\ parsed = TRUE
  /\ rebuild \in {"due", "logged"} /\ logged = FALSE
  /\ held \in BOOLEAN /\ layers = <<>> /\ hashes = 0
  /\ made = 0 /\ torn = FALSE /\ edited = FALSE /\ kills = 0 /\ edits = 0

-----------------------------------------------------------------------------
(***************************************************************************)
(* config.yaml.  What does not parse is read as far as it goes; a key that *)
(* is missing is generated and written; what was read is written back.     *)
(***************************************************************************)
Generate ==
  /\ made < MaxKeys /\ made' = made + 1 /\ key' = made' /\ unsaved' = TRUE /\ stage' = "generated"

Load ==
  /\ stage = "down" /\ parsed' = file.parses
  /\ \/ file.key # 0 /\ key' = file.key /\ unsaved' = FALSE /\ stage' = "validated" /\ UNCHANGED made
     \/ (file.key = 0 \/ ~file.parses) /\ Generate
  /\ UNCHANGED <<file, writable, database, torn, edited, kills, edits>>

CanWrite == writable /\ parsed

\* A write in place: it may also end after the file was emptied.
SaveConfig(next) ==
  \/ /\ CanWrite /\ file' = [key |-> key, parses |-> TRUE] /\ unsaved' = FALSE /\ stage' = next
     /\ UNCHANGED <<torn, kills>>
  \/ ~CanWrite /\ stage' = next /\ UNCHANGED <<file, unsaved, torn, kills>>
  \/ /\ CanWrite /\ kills < MaxKills /\ kills' = kills + 1
     /\ file' = [key |-> 0, parses |-> TRUE] /\ torn' = TRUE
     /\ stage' \in {next, "down"} /\ UNCHANGED unsaved

WriteKey ==
  /\ stage = "generated" /\ SaveConfig("validated")
  /\ UNCHANGED <<writable, key, parsed, database, made, edited, edits>>

WriteBack ==
  /\ stage = "validated" /\ SaveConfig("migrating")
  /\ UNCHANGED <<writable, key, parsed, database, made, edited, edits>>

UpdateConfig ==
  /\ stage = "up" /\ SaveConfig("up")
  /\ UNCHANGED <<writable, key, parsed, database, made, edited, edits>>

-----------------------------------------------------------------------------
(***************************************************************************)
(* The migrations.  Each is put on record after it went through.  One that *)
(* rebuilds a table is not one transaction, and fails on what an earlier   *)
(* start left of it.                                                       *)
(***************************************************************************)
Refuse == stage' = "down" /\ UNCHANGED database

Rebuild ==
  /\ stage = "migrating" /\ rebuild # "logged"
  /\ IF rebuild = "due"
     THEN rebuild' = "begun" /\ stage' = "rebuilding" /\ UNCHANGED <<logged, held, layers, hashes>>
     ELSE Refuse
  /\ UNCHANGED <<file, writable, memory, past>>

Rebuilt ==
  /\ stage = "rebuilding" /\ rebuild \in {"begun", "done"}
  /\ IF rebuild = "begun" THEN rebuild' = "done" /\ UNCHANGED stage
     ELSE rebuild' = "logged" /\ stage' = "migrating"
  /\ UNCHANGED <<file, writable, memory, logged, held, layers, hashes, past>>

\* Mutant: a key that is only in memory will do.
AnyKey == TRUE
MayEncrypt == ~unsaved

\* In one transaction.
ProtectSecrets ==
  /\ stage = "migrating" /\ rebuild = "logged" /\ ~logged
  /\ IF held /\ ~MayEncrypt THEN Refuse
     ELSE /\ layers' = IF held THEN Append(layers, key) ELSE layers
          /\ hashes' = hashes + 1 /\ stage' = "protected"
          /\ UNCHANGED <<rebuild, logged, held>>
  /\ UNCHANGED <<file, writable, memory, past>>

Up ==
  /\ \/ stage = "protected" /\ logged' = TRUE
     \/ stage = "migrating" /\ logged /\ UNCHANGED logged
  /\ stage' = "up"
  /\ UNCHANGED <<file, writable, memory, rebuild, held, layers, hashes, past>>

-----------------------------------------------------------------------------
\* A repository or an outbound client is saved, or its secret changed.
EncryptSecret ==
  /\ stage = "up" /\ MayEncrypt /\ held' = TRUE /\ layers' = <<key>>
  /\ UNCHANGED <<file, writable, stage, memory, rebuild, logged, hashes, past>>

\* What the agent is given, or the server presents.
DecryptSecret == held /\ layers = <<key>>

\* An inbound client registers again: the token it is given is stored as its hash.
HashToken ==
  /\ stage = "up" /\ hashes' = 1
  /\ UNCHANGED <<file, writable, stage, memory, rebuild, logged, held, layers, past>>

-----------------------------------------------------------------------------
Kill ==
  /\ stage # "down" /\ kills < MaxKills /\ kills' = kills + 1 /\ stage' = "down"
  /\ UNCHANGED <<file, writable, memory, database, made, torn, edited, edits>>

\* By hand: it no longer parses, parses again, or has lost its key.
Edit ==
  /\ edits < MaxEdits /\ edits' = edits + 1
  /\ \/ file' = [file EXCEPT !.parses = ~file.parses] /\ UNCHANGED <<writable, edited>>
     \/ file.key # 0 /\ file' = [file EXCEPT !.key = 0] /\ edited' = TRUE /\ UNCHANGED writable
     \/ writable' = ~writable /\ UNCHANGED <<file, edited>>
  /\ UNCHANGED <<stage, memory, database, made, torn, kills>>

Next ==
  \/ Load \/ WriteKey \/ WriteBack \/ UpdateConfig
  \/ Rebuild \/ Rebuilt \/ ProtectSecrets \/ Up
  \/ EncryptSecret \/ HashToken \/ Kill \/ Edit

-----------------------------------------------------------------------------
\* The server was killed between migration 18 and its record: it ran twice.
Twice == hashes > 1 \/ Len(layers) > 1

\* A stored secret is under the key in config.yaml, so that a restart can read
\* it, unless that file was torn or lost its key by hand, or migration 18 ran
\* twice; and once the server is up, none is in the clear and none unreadable.
SecretsKept ==
  /\ held /\ layers # <<>> /\ ~torn /\ ~edited /\ ~Twice => layers = <<file.key>>
  /\ stage = "up" /\ held => layers # <<>>
  /\ stage = "up" /\ held /\ key = file.key /\ ~torn /\ ~edited /\ ~Twice => DecryptSecret
  /\ stage = "up" /\ ~Twice => hashes = 1
=============================================================================
