-------------------------------- MODULE Drive --------------------------------
(***************************************************************************)
(* The Google Drive client (internal/storage/gdrive.go): its circuit,      *)
(* accounts and tokens behind one mutex, its cache of searches, and the    *)
(* searches and overwrites of the files of one name.  A request to the     *)
(* Drive, the token it needs included, is one step; between the requests   *)
(* of an operation, and between a request and the cache it fills, other    *)
(* callers run.  The Drive itself is external: a set of files, in which a  *)
(* name does not identify one.  The cache of contents is in Submissions.   *)
(***************************************************************************)
EXTENDS Integers, FiniteSets

CONSTANTS
  Callers,    \* goroutines that use the client
  Operations, \* what they do: "find", "overwrite", "backup"
  Folders,    \* how many folders are configured
  Accounts,   \* how many accounts
  MaxErrors,  \* errors that open the circuit, 5 in the code
  MaxFiles    \* bound: files ever created; a search by name returns up to 50

ASSUME DriveAssumption ==
  /\ Operations \subseteq {"find", "overwrite", "backup"}
  /\ {Folders, Accounts, MaxErrors} \subseteq Nat \ {0}
  /\ MaxFiles \in 1..50

VARIABLES
  client,  \* [errs, open, idx, tokens]; errs is -1 when the circuit is disabled
  files,   \* the Drive: id -> [folder, body]
  made,    \* files ever created
  found,   \* searchCache: the ids the search found, or NoSearch
  caller,  \* each caller's place: [pc, folder, ids]; ids in no known order
  disturbed, \* history: callers whose overwrite overlapped another or failed in part
  late     \* history: a search was cached late, or an answer was lost

driveVars == <<client, files, made, found, caller, disturbed, late>>

NoSearch == {0}
Done == [pc |-> "idle", folder |-> 1, ids |-> {}]

DriveInit ==
  /\ client \in [errs : {0, -1}, open : {FALSE}, idx : {0},
                 tokens : {[a \in 0..(Accounts - 1) |-> FALSE]}]
  /\ files = <<>> /\ made = 0 /\ found = NoSearch
  /\ caller = [c \in Callers |-> Done]
  /\ disturbed = {} /\ late = FALSE

-----------------------------------------------------------------------------
(* The circuit, the accounts and the tokens *)

\* recordRateLimitError, and the same lines of Authenticate.
Counted(cl) ==
  IF cl.errs < 0 THEN cl
  ELSE IF cl.errs + 1 >= MaxErrors THEN [cl EXCEPT !.errs = 0, !.open = TRUE]
  ELSE [cl EXCEPT !.errs = @ + 1]

\* recordSuccess
Succeeded(cl) == [cl EXCEPT !.errs = IF @ > 0 THEN @ - 1 ELSE @]

\* rotateAccount
Rotated(cl) == [cl EXCEPT !.idx = (@ + 1) % Accounts]

Changes(kind) == kind \in {"create", "update"}

\* How a request that has a token may end, with the client after it.  A "lost"
\* one may have been served, its answer perhaps unreadable; a "full" one names a
\* quota or a folder's limit.
Sent(kind, cl) ==
  {<<"ok", Succeeded(cl)>>, <<"rate", Rotated(Counted(cl))>>, <<"error", cl>>,
   <<"lost", IF kind \in {"search", "fetch"} THEN Counted(cl) ELSE cl>>}
  \cup IF Changes(kind) THEN {<<"full", cl>>, <<"lost", Succeeded(cl)>>} ELSE {}

\* How asking for a token may fail: the caller left or the answer is unreadable,
\* nobody answered, or the server said no.  A "no" that names a quota passes for
\* a full folder (isQuotaOrFolderFull reads the words of the error).
TokenFails(kind, cl) ==
  {<<"refused", cl>>, <<"refused", Counted(cl)>>, <<"refused", Rotated(Counted(cl))>>}
  \cup IF Changes(kind) THEN {<<"full", Rotated(Counted(cl))>>} ELSE {}

\* Authenticate, then the request: an open circuit refuses, a cached token is
\* used, a new one is asked for under the mutex.
Request(kind) ==
  IF client.open /\ client.errs >= 0 THEN {<<"refused", client>>}
  ELSE IF client.tokens[client.idx] THEN Sent(kind, client)
  ELSE TokenFails(kind, client) \cup Sent(kind, [client EXCEPT !.tokens[client.idx] = TRUE])

CircuitOpen == client.open /\ client.errs >= 0

-----------------------------------------------------------------------------
In(folder) == {id \in DOMAIN files : files[id].folder = folder}

GoWith(c, pc, ids) ==
  caller' = [caller EXCEPT ![c] = [pc |-> pc, folder |-> caller[c].folder, ids |-> ids]]
Go(c, pc) == GoWith(c, pc, caller[c].ids)
End(c) == caller' = [caller EXCEPT ![c] = Done]

Writing == {c \in Callers : caller[c].pc \in {"look", "update", "delete", "create", "purge"}}

\* An overwrite begins: the others under way overlap it.
Start(c, pc) ==
  /\ Go(c, pc)
  /\ disturbed' = IF Writing = {} THEN disturbed \ {c} ELSE disturbed \cup Writing \cup {c}

SameFiles == UNCHANGED <<files, made>>

\* UploadFileOverwrite and UploadFile look at the circuit first.
Overwrite(c) ==
  /\ "overwrite" \in Operations
  /\ caller[c].pc = "idle" /\ ~CircuitOpen
  /\ Start(c, "look")
  /\ SameFiles
  /\ UNCHANGED <<client, found, late>>

\* findFilesInFolderByName; a search that fails is taken for no file.
LookForName(c) ==
  /\ caller[c].pc = "look"
  /\ \E r \in Request("search") :
       LET ids == In(caller[c].folder)
       IN /\ client' = r[2]
          /\ IF r[1] = "ok" /\ ids # {} THEN GoWith(c, "update", ids)
             ELSE GoWith(c, "create", {})
          /\ disturbed' = IF r[1] = "ok" THEN disturbed ELSE disturbed \cup {c}
  /\ SameFiles
  /\ UNCHANGED <<found, late>>

\* After a folder that is full comes the next one; any other failure ends.
NextFolder(c, end) ==
  caller' = [caller EXCEPT ![c] =
    IF end = "full" /\ caller[c].folder < Folders
    THEN [pc |-> "look", folder |-> caller[c].folder + 1, ids |-> {}] ELSE Done]

\* doUpdateMultipart of the first file, which may be any.
UpdateFile(c) ==
  /\ caller[c].pc = "update"
  /\ \E r \in Request("update"), id \in caller[c].ids :
       LET ok == r[1] = "ok" /\ id \in DOMAIN files
           dups == caller[c].ids \ {id}
       IN /\ client' = r[2]
          /\ \/ /\ ok \/ r[1] = "lost"
                /\ id \in DOMAIN files /\ files' = [files EXCEPT ![id].body = c]
             \/ ~ok /\ UNCHANGED files
          /\ IF ok THEN GoWith(c, IF dups = {} THEN "purge" ELSE "delete", dups)
             ELSE NextFolder(c, r[1])
  /\ UNCHANGED <<made, found, disturbed, late>>

\* Mutant: the duplicates stay.
LeaveDuplicate(c) ==
  /\ caller[c].pc = "delete"
  /\ Go(c, "purge")
  /\ UNCHANGED <<client, files, made, found, disturbed, late>>

\* DeleteFile of the next duplicate; a failure is ignored.
DeleteDuplicate(c) ==
  /\ caller[c].pc = "delete"
  /\ \E r \in Request("delete"), id \in caller[c].ids :
       /\ client' = r[2]
       /\ \/ r[1] \in {"ok", "lost"} /\ files' = [f \in DOMAIN files \ {id} |-> files[f]]
          \/ r[1] # "ok" /\ UNCHANGED files
       /\ disturbed' = IF r[1] = "ok" THEN disturbed ELSE disturbed \cup {c}
       /\ late' = (late \/ r[1] # "ok")
       /\ GoWith(c, IF caller[c].ids = {id} THEN "purge" ELSE "delete", caller[c].ids \ {id})
  /\ UNCHANGED <<made, found>>

\* doUploadMultipart: a file of that name, whether or not there is one.
Create(c) ==
  /\ caller[c].pc = "create" /\ made < MaxFiles
  /\ \E r \in Request("create") :
       LET new == [folder |-> caller[c].folder, body |-> c]
           Served == [id \in DOMAIN files \cup {made + 1} |->
                        IF id = made + 1 THEN new ELSE files[id]]
       IN /\ client' = r[2]
          /\ \/ r[1] \in {"ok", "lost"} /\ files' = Served /\ made' = made + 1
             \/ r[1] # "ok" /\ SameFiles
          /\ IF r[1] = "ok" THEN Go(c, "purge") ELSE NextFolder(c, r[1])
          /\ late' = (late \/ r[1] = "lost")
  /\ UNCHANGED <<found, disturbed>>

\* Mutant: the cached searches stay.
KeepSearches == UNCHANGED found

PurgeSearches == found' = NoSearch

Purge(c) ==
  /\ caller[c].pc = "purge"
  /\ PurgeSearches
  /\ End(c)
  /\ SameFiles
  /\ UNCHANGED <<client, disturbed, late>>

\* UploadBackupFile: a file of another name.
Backup(c) ==
  /\ "backup" \in Operations
  /\ caller[c].pc = "idle" /\ ~CircuitOpen
  /\ \E r \in Request("create") : client' = r[2]
  /\ SameFiles
  /\ UNCHANGED <<found, caller, disturbed, late>>

-----------------------------------------------------------------------------
(* FindExistingFile and FindExactMatchByIds *)

\* A search that found nothing is cached as well, one that failed is not.
FindFile(c) ==
  /\ "find" \in Operations
  /\ caller[c].pc = "idle" /\ found = NoSearch
  /\ \E r \in Request("search") :
       /\ client' = r[2]
       /\ IF r[1] = "ok"
          THEN GoWith(c, "found", DOMAIN files)
          ELSE UNCHANGED caller
  /\ SameFiles
  /\ UNCHANGED <<found, disturbed, late>>

KeepFound(c) ==
  /\ caller[c].pc = "found"
  /\ found' = caller[c].ids
  /\ late' = (late \/ found' # DOMAIN files)
  /\ End(c)
  /\ SameFiles
  /\ UNCHANGED <<client, disturbed>>

-----------------------------------------------------------------------------
\* The circuit's pause ends, or ResetCircuitBreaker ends it.
Reopen ==
  /\ client.open
  /\ client' \in {[client EXCEPT !.open = FALSE], [client EXCEPT !.open = FALSE, !.errs = 0]}
  /\ SameFiles
  /\ UNCHANGED <<found, caller, disturbed, late>>

Expire ==
  /\ \/ /\ \E a \in DOMAIN client.tokens :
             client.tokens[a] /\ client' = [client EXCEPT !.tokens[a] = FALSE]
        /\ UNCHANGED found
     \/ found # NoSearch /\ found' = NoSearch /\ UNCHANGED client
  /\ SameFiles
  /\ UNCHANGED <<caller, disturbed, late>>

DriveNext ==
  \/ \E c \in Callers :
       \/ Overwrite(c) \/ LookForName(c) \/ UpdateFile(c) \/ DeleteDuplicate(c)
       \/ Create(c) \/ Purge(c) \/ Backup(c) \/ FindFile(c) \/ KeepFound(c)
  \/ Reopen \/ Expire

DriveSpec == DriveInit /\ [][DriveNext]_driveVars

-----------------------------------------------------------------------------
\* An overwrite that updated a file, overlapped no other and lost none of its
\* requests leaves that file alone in its folder, with its content: what
\* earlier overwrites left double is deleted (gdrive.go:654-703).
OverwriteLeavesOne ==
  \A c \in Callers :
    caller[c].pc = "purge" /\ c \notin disturbed =>
      LET there == In(caller[c].folder)
      IN Cardinality(there) = 1 /\ \A id \in there : files[id].body = c

\* Unless an answer came late or was lost, what the searches' cache holds when
\* no overwrite is under way is what a search would find: no file is taken for
\* missing for the ten minutes after its upload (gdrive.go:705-800).
SearchesAreFresh ==
  Writing = {} /\ found # NoSearch /\ ~late => found = DOMAIN files
=============================================================================
