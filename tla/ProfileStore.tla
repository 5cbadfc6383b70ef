---------------------------- MODULE ProfileStore ----------------------------
(***************************************************************************)
(* The profile files (config/loader.py), the web requests that edit them   *)
(* (web/routes/api.py) and the daemon's reload.  Web threads run           *)
(* concurrently and the files have no lock: a request looks for the file   *)
(* of a name, opens it, which empties it, writes it, may remove another    *)
(* one, and asks the daemon to load the directory again.                   *)
(***************************************************************************)
EXTENDS Integers, SequencesExt

CONSTANTS
  Names, Bodies, \* profile names; what else a profile says
  FileOrder,    \* the file names in sorted order
  NameFile,     \* by name: the file profile_path makes of it
  StartFiles,   \* contents of the directory the program may start with
  Bundles,      \* sequences of profiles an import may bring
  Web,          \* web threads
  MaxQueue,     \* bound: reload commands waiting
  MaxRequests   \* bound: requests

Profiles == [name : Names, body : Bodies]
Files == ToSet(FileOrder)
Absent == [kind |-> "absent"]
Broken == [kind |-> "broken"]
Holding(p) == [kind |-> "profile", profile |-> p]
Contents == {Absent, Broken} \union {Holding(p) : p \in Profiles}

NoFile == "no file"

(* profile_path makes another file of every name.                          *)
ASSUME ProfileStoreConstants ==
  /\ FileOrder \in Seq(Files) /\ IsInjective(FileOrder) /\ NoFile \notin Files
  /\ NameFile \in [Names -> Files] /\ IsInjective(NameFile)
  /\ StartFiles \subseteq [Files -> Contents]
  /\ \A b \in Bundles : b \in Seq(Profiles) /\ b # <<>>
  /\ MaxQueue \in Nat /\ MaxRequests \in Nat

VARIABLES
  files,        \* the directory
  step,         \* by web thread: where its request is
  items,        \* by web thread: profiles it still has to save
  target,       \* by web thread: file the save in progress goes to
  doomed,       \* by web thread: file it will remove, or NoFile
  queue,        \* ReloadProfiles commands waiting for the daemon
  loaded,       \* the daemon's profiles
  named,        \* history: by web thread, the profiles its request is about
  raced,        \* history: names two requests saved at the same time
  missed,       \* history: a request ended, or a tick failed, without a reload
  requests      \* bound: requests so far

threadVars == <<step, items, target, doomed, named>>
profVars == <<files, threadVars, queue, loaded, raced, missed, requests>>

-----------------------------------------------------------------------------
(* Reading the directory.                                                  *)

Holds(dir, f, n) == dir[f].kind = "profile" /\ dir[f].profile.name = n

(* find_profile_file: the first file, in sorted order, that holds the name. *)
(* A file that gives a name but does not validate as a profile, which the   *)
(* code would find here and skip in load_profiles, is left out.             *)
MutFindFile(dir, n) ==
  LET i == SelectInSeq(FileOrder, LAMBDA f : dir[f].kind = "profile")
  IN  IF i = 0 THEN NoFile ELSE FileOrder[i]
FindFile(dir, n) ==
  LET i == SelectInSeq(FileOrder, LAMBDA f : Holds(dir, f, n))
  IN  IF i = 0 THEN NoFile ELSE FileOrder[i]

(* load_profiles: files that do not parse are skipped, as are files whose  *)
(* name an earlier one has.                                                *)
LoadProfiles(dir) ==
  LET first == SelectSeq(FileOrder, LAMBDA f :
                 dir[f].kind = "profile" /\ FindFile(dir, dir[f].profile.name) = f)
  IN  [i \in DOMAIN first |-> dir[first[i]].profile]

-----------------------------------------------------------------------------
ProfInit ==
  /\ files \in StartFiles
  /\ step = [t \in Web |-> "idle"] /\ items = [t \in Web |-> <<>>]
  /\ target = [t \in Web |-> NoFile] /\ doomed = [t \in Web |-> NoFile]
  /\ named = [t \in Web |-> {}]
  /\ queue = 0 /\ loaded = LoadProfiles(files)
  /\ raced = {} /\ missed = FALSE /\ requests = 0

Begin(t, at, save, remove, names) ==
  /\ step[t] = "idle" /\ requests < MaxRequests
  /\ requests' = requests + 1
  /\ step' = [step EXCEPT ![t] = at]
  /\ items' = [items EXCEPT ![t] = save]
  /\ doomed' = [doomed EXCEPT ![t] = remove]
  /\ named' = [named EXCEPT ![t] = names]
  /\ UNCHANGED <<files, target, queue, loaded, raced, missed>>

(* An unknown name to edit or delete, or an existing one to create.        *)
Refuse(t) == step[t] = "idle" /\ UNCHANGED profVars

(* POST /profiles: refused when a file holds the name.                     *)
Create(t, p) ==
  /\ FindFile(files, p.name) = NoFile
  /\ Begin(t, "locate", <<p>>, NoFile, {p.name})

(* PUT /profiles/<name>: a renamed profile leaves its old file behind, to  *)
(* be removed at the end.                                                  *)
Update(t, n, p) ==
  LET old == FindFile(files, n) IN
    /\ old # NoFile
    /\ Begin(t, "locate", <<p>>, IF p.name # n THEN old ELSE NoFile, {n, p.name})

Delete(t, n) ==
  LET old == FindFile(files, n) IN
    /\ old # NoFile
    /\ Begin(t, "unlink", <<>>, old, {n})

Import(t, bundle) ==
  Begin(t, "locate", bundle, NoFile, {bundle[i].name : i \in DOMAIN bundle})

-----------------------------------------------------------------------------
(* save_profile: the file that holds the name, else the one made of it.    *)

MutPathOf(dir, n) == NameFile[n]
PathOf(dir, n) == IF FindFile(dir, n) = NoFile THEN NameFile[n] ELSE FindFile(dir, n)

Locate(t) ==
  LET n == Head(items[t]).name IN
    /\ step[t] = "locate"
    /\ step' = [step EXCEPT ![t] = "open"]
    /\ target' = [target EXCEPT ![t] = PathOf(files, n)]
    /\ raced' = IF \E u \in Web \ {t} : step[u] \in {"open", "write"}
                                        /\ Head(items[u]).name = n
                THEN raced \union {n} ELSE raced
    /\ UNCHANGED <<files, items, doomed, named, queue, loaded, missed, requests>>

(* write_text empties the file before it writes.                           *)
Open(t) ==
  /\ step[t] = "open"
  /\ step' = [step EXCEPT ![t] = "write"]
  /\ files' = [files EXCEPT ![target[t]] = Broken]
  /\ UNCHANGED <<items, target, doomed, named, queue, loaded, raced, missed, requests>>

MutAfterSave(t) ==
  IF Len(items[t]) > 1 THEN "locate" ELSE IF doomed[t] # NoFile THEN "unlink" ELSE "idle"
AfterSave(t) ==
  IF Len(items[t]) > 1 THEN "locate" ELSE IF doomed[t] # NoFile THEN "unlink" ELSE "notify"

Write(t) ==
  /\ step[t] = "write"
  /\ files' = [files EXCEPT ![target[t]] = Holding(Head(items[t]))]
  /\ items' = [items EXCEPT ![t] = Tail(@)]
  /\ step' = [step EXCEPT ![t] = AfterSave(t)]
  /\ target' = [target EXCEPT ![t] = NoFile]
  /\ UNCHANGED <<doomed, named, queue, loaded, raced, missed, requests>>

End(t) ==
  /\ step' = [step EXCEPT ![t] = "idle"]
  /\ items' = [items EXCEPT ![t] = <<>>]
  /\ target' = [target EXCEPT ![t] = NoFile]
  /\ doomed' = [doomed EXCEPT ![t] = NoFile]
  /\ named' = [named EXCEPT ![t] = {}]

(* The write fails: the file stays empty, the rest of the request does not *)
(* happen and nothing asks for a reload.                                   *)
WriteFails(t) ==
  /\ step[t] = "write"
  /\ End(t)
  /\ missed' = TRUE
  /\ UNCHANGED <<files, queue, loaded, raced, requests>>

(* A deletion whose file another request has removed meanwhile fails; a    *)
(* rename does not mind.                                                   *)
Unlink(t) ==
  /\ step[t] = "unlink"
  /\ files' = [files EXCEPT ![doomed[t]] = Absent]
  /\ IF files[doomed[t]] = Absent /\ Cardinality(named[t]) = 1
     THEN End(t)
     ELSE /\ step' = [step EXCEPT ![t] = "notify"]
          /\ UNCHANGED <<items, target, doomed, named>>
  /\ UNCHANGED <<queue, loaded, raced, missed, requests>>

Notify(t) ==
  /\ step[t] = "notify" /\ queue < MaxQueue
  /\ queue' = queue + 1
  /\ End(t)
  /\ UNCHANGED <<files, loaded, raced, missed, requests>>

-----------------------------------------------------------------------------
(* The daemon.                                                             *)

Reload ==
  /\ queue > 0
  /\ queue' = queue - 1
  /\ loaded' = LoadProfiles(files)
  /\ missed' = FALSE
  /\ UNCHANGED <<files, threadVars, raced, requests>>

(* tick has drained the queue when an earlier command raises: the rest of  *)
(* the commands is gone.                                                   *)
TickFails ==
  /\ queue > 0
  /\ queue' = 0 /\ missed' = TRUE
  /\ UNCHANGED <<files, threadVars, loaded, raced, requests>>

ProfNext ==
  \/ Reload \/ TickFails
  \/ \E t \in Web :
       \/ \E p \in Profiles : Create(t, p) \/ \E n \in Names : Update(t, n, p)
       \/ \E n \in Names : Delete(t, n)
       \/ Refuse(t)
       \/ \E b \in Bundles : Import(t, b)
       \/ Locate(t) \/ Open(t) \/ Write(t) \/ WriteFails(t) \/ Unlink(t) \/ Notify(t)

ProfSpec == ProfInit /\ [][ProfNext]_profVars

-----------------------------------------------------------------------------
(* Once every request is over and no reload is waiting, the daemon works   *)
(* with what is in the directory, however the requests and the reloads     *)
(* overlapped; except after a write that failed or a tick that dropped its *)
(* commands, until the next reload.                                        *)
QuietMeansLoaded ==
  (\A t \in Web : step[t] = "idle") /\ queue = 0 /\ ~missed
    => loaded = LoadProfiles(files)

(* Directories the operator has not mixed up by hand: no two files hold    *)
(* one profile, and a file named for a profile holds no other.             *)
NoDuplicates(dir) ==
  \A n \in Names, f, g \in Files : Holds(dir, f, n) /\ Holds(dir, g, n) => f = g
OwnFileNames(dir) == \A m, n \in Names : Holds(dir, NameFile[m], n) => m = n

(* What the directory says of a name.                                      *)
Defined(dir, n) ==
  IF FindFile(dir, n) = NoFile THEN Absent ELSE dir[FindFile(dir, n)]

(* As the import promises, "other existing profiles are left untouched":   *)
(* a profile changes or disappears only in a step of a request that names  *)
(* it.                                                                     *)
OthersUntouched ==
  [][\A n \in Names : Defined(files, n) # Defined(files', n) =>
       \E t \in Web : step[t] # step'[t] /\ n \in named[t]]_profVars

(* Two files never hold the same profile, of which only the first would be *)
(* loaded and edited, unless two requests saved that profile at once.      *)
OneFilePerName ==
  \A n \in Names \ raced, f, g \in Files :
    Holds(files, f, n) /\ Holds(files, g, n) => f = g
=============================================================================
