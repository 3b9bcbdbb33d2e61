---------------------------- MODULE AccountFile ----------------------------
(***************************************************************************)
(* The file of accounts (auth.json, config.json or .env): the account      *)
(* manager edits it (internal/accountmgr/account_store.go,                 *)
(* cmd/account_manager) and the server reads it (internal/config).         *)
(*                                                                         *)
(* A file holds the accounts of a provider twice: as a list, and as the    *)
(* single keys of older versions, which are kept in step when there is one *)
(* account and dropped when there is none.  Both readers prefer the list,  *)
(* each with its own rules.  The same things may stand there once more,    *)
(* where a save does not write: under another name or spelling in JSON, on *)
(* a later line of a .env file.  And the server reads more than this file. *)
(* One provider is followed at a time; an account is its type, one         *)
(* credential and, for Spotify, a client.                                  *)
(***************************************************************************)
EXTENDS Integers, Sequences, SequencesExt

CONSTANTS MaxAccountsInFile   \* accounts the user adds

ASSUME AccountFileAssumption == MaxAccountsInFile \in Nat

Kinds == {"spotify", "apple", "musixmatch", "deezer", "gdrive", "qq"}
Forms == {"json", "env"}

\* "odd" holds a backslash followed by n, r or t, which is nothing special in JSON.
Account(k) ==
  [type : IF k \in {"apple", "musixmatch"} THEN {"web", "android"} ELSE {"web"},
   cred : {"plain", "odd"},
   client : IF k = "spotify" THEN {"none", "given"} ELSE {"none"}]

\* What a file says of the provider: the list, the single keys of each type;
\* and where no save writes, a list (alias) and single keys (stray, strayClient).
EmptyDoc == [list |-> <<>>, listed |-> FALSE, web |-> "none", android |-> "none",
             client |-> "none", alias |-> <<>>, stray |-> "none", strayClient |-> "none"]

VARIABLES
  kind, form,
  file,      \* the file; empty while it is written, and after a crash there
  beside,    \* the accounts the server takes from what it reads after this file
             \* (over: a .env file, the environment) and before it (under: a JSON
             \* file before a .env file); each a set of at most one list
  doc,       \* the file as the tool read it, and rewrites it
  list,      \* the accounts in the tool's memory
  tool,      \* what the tool does
  saved      \* the accounts of the last save, once it has ended

accountFileVars == <<kind, form, file, beside, doc, list, tool, saved>>

\* The single keys as accounts.
Single(k, d) ==
  (IF d.android # "none" THEN <<[type |-> "android", cred |-> d.android, client |-> "none"]>> ELSE <<>>)
  \o (IF d.web # "none" \/ d.client # "none"
      THEN <<[type |-> "web", cred |-> d.web, client |-> d.client]>> ELSE <<>>)

\* Of two lines with one key the readers take the later, and envSet rewrites
\* the earlier.
LaterLines(d) ==
  [d EXCEPT !.list = IF d.alias # <<>> THEN d.alias ELSE @,
            !.listed = @ \/ d.alias # <<>>,
            !.web = IF d.stray # "none" THEN d.stray ELSE @,
            !.client = IF d.strayClient # "none" THEN d.strayClient ELSE @]

\* Written into a .env file and read again: a single value comes back changed,
\* and a list that holds one is no JSON any more.
Env(cred) == IF cred = "odd" THEN "changed" ELSE cred
Unescaped(d) == [d EXCEPT !.web = Env(@), !.android = Env(@)]
ThroughEnv(d) == Unescaped(LaterLines(d))
Readable(d) == \A i \in DOMAIN d.list : d.list[i].cred # "odd"

\* QQ has one cookie, in a key of its own.
Cookie(d) == [i \in DOMAIN d.list |-> [d.list[i] EXCEPT !.cred = Env(@)]]

\* loadGDrive, loadProviders and their forms for .env.
Loaded(k, f, d) ==
  IF f = "env"
  THEN LET e == ThroughEnv(d)
       IN IF k = "qq" THEN Cookie(e)
          ELSE IF e.list # <<>> /\ Readable(e) THEN e.list ELSE Single(k, e)
  ELSE IF k = "qq" \/ d.list # <<>> THEN d.list
  ELSE IF d.alias # <<>> /\ (k = "gdrive" \/ (k = "apple" /\ ~d.listed)) THEN d.alias
  ELSE Single(k, d)

\* The keys of the provider that the server finds in a JSON file, whatever
\* their case (loadJSONConfig).  It visits them in the order of a Go map,
\* which is none.
KeysOf(k, d) ==
  {key \in {"list", "alias", "web", "android", "client", "stray", "strayClient"} :
     \/ key = "list" /\ d.listed
     \/ key = "alias" /\ d.alias # <<>>
     \/ key = "android" /\ k = "apple" /\ d.android # "none"
     \/ key \in {"web", "client", "stray", "strayClient"} /\ d[key] # "none"}
ClientKeys == {"client", "strayClient"}
FromKey(k, d, key) ==
  [type |-> IF k = "apple" THEN "android" ELSE "web",
   cred |-> IF key \in ClientKeys THEN "none" ELSE d[key],
   client |-> IF key \in ClientKeys THEN d[key] ELSE "none"]

\* What single keys make of the accounts found before them: the first is an
\* account if there is none yet, and a client goes to the first account.
WithClient(d, found, keys) ==
  IF keys \cap ClientKeys = {} THEN {found}
  ELSE {[found EXCEPT ![1].client = d[key]] : key \in keys \cap ClientKeys}
Visit(k, d, found, keys) ==
  IF found # <<>> THEN WithClient(d, found, keys)
  ELSE IF keys = {} THEN {<<>>}
  ELSE UNION {WithClient(d, <<FromKey(k, d, first)>>, keys \ {first}) : first \in keys}

\* The list that is visited last replaces what was found before it.
VisitAll(k, d) ==
  LET lists == KeysOf(k, d) \cap {"list", "alias"}
      singles == KeysOf(k, d) \ lists
  IN IF lists = {} THEN Visit(k, d, <<>>, singles)
     ELSE UNION {Visit(k, d, d[last], after) : last \in lists, after \in SUBSET singles}

\* The drive's accounts in a JSON file.  Without a list: "Accounts"; or
\* accounts_raw, or an "installed" or "web" wrapper before the single keys.
DriveReads(k, d) ==
  IF d.list # <<>> THEN {d.list}
  ELSE (IF d.alias # <<>> THEN {d.alias} ELSE {})
       \cup (IF d.stray = "none" THEN {Single(k, d)}
             ELSE {<<FromKey(k, d, "stray")>>, <<FromKey(k, d, "stray")>> \o Single(k, d)})

\* What the server may come up with from this file (loadJSONConfig,
\* applyMapToConfig).
FileReads(k, f, d) ==
  IF f = "env"
  THEN LET e == ThroughEnv(d)
       IN {IF k = "qq" THEN Cookie(e)
           ELSE IF ~e.listed THEN Single(k, e)
           ELSE IF Readable(e) THEN e.list ELSE <<>>}
  ELSE IF k = "gdrive" THEN DriveReads(k, d) ELSE VisitAll(k, d)

\* And from all it reads (Load, autoDiscover).  A .env file without accounts
\* leaves those found before it, but an empty cookie of QQ is a cookie.
ServerReads(k, f, d, b) ==
  IF b.over # {} THEN b.over
  ELSE IF f = "env" /\ b.under # {} /\ FileReads(k, f, d) = {<<>>} /\ ~(k = "qq" /\ d.listed)
  THEN b.under
  ELSE FileReads(k, f, d)

\* A file written by hand with the single keys, a list, or neither, and any of
\* the places no save writes to.
Old == [type |-> "web", cred |-> "old", client |-> "none"]
AccountFileInit ==
  /\ kind \in Kinds /\ form \in Forms
  /\ \E a \in Account(kind),
        m \in {<<>>, <<Old>>}, s \in IF kind = "qq" THEN {"none"} ELSE {"none", "old"},
        c \in IF kind = "spotify" THEN {"none", "given"} ELSE {"none"} :
       LET d == [EmptyDoc EXCEPT !.alias = m, !.stray = s, !.strayClient = c]
       IN \/ file \in {d, [d EXCEPT !.list = <<a>>, !.listed = TRUE]}
          \/ kind # "qq" /\ file = [d EXCEPT ![a.type] = a.cred, !.client = a.client]
  /\ beside \in [over : {{}, {<<Old>>}} \cup (IF kind = "qq" THEN {{<<>>}} ELSE {}),
                 under : IF form = "env" THEN {{}, {<<Old>>}} ELSE {{}}]
  /\ doc = EmptyDoc /\ list = <<>>
  /\ tool = "closed"
  /\ saved = {}

\* LoadStore: a file that is not there or blank is an empty store, not an error.
Open ==
  /\ tool = "closed"
  /\ tool' = "open"
  /\ doc' = file
  /\ list' = Loaded(kind, form, file)
  /\ UNCHANGED <<kind, form, file, beside, saved>>

\* Every edit ends in commit: addMenu and addFromFlags (an account without a
\* credential is taken off again), editMenu and editFromFlags, removeByName.
Edited(l) == tool' = "save" /\ list' = l /\ UNCHANGED <<kind, form, file, beside, doc, saved>>

Add ==
  /\ tool = "open" /\ kind # "qq" /\ Len(list) < MaxAccountsInFile
  /\ \E a \in Account(kind) : Edited(Append(list, a))

SetCookie ==
  /\ tool = "open" /\ kind = "qq"
  /\ \E l \in {<<a>> : a \in Account(kind)} \cup {<<>>} : Edited(l)

Edit ==
  /\ tool = "open" /\ kind # "qq"
  /\ \E i \in DOMAIN list, a \in Account(kind) : Edited([list EXCEPT ![i] = a])

RemoveOne ==
  /\ tool = "open" /\ kind # "qq"
  /\ \E i \in DOMAIN list : Edited(RemoveAt(list, i))

\* Mutant: the single keys outlive the last account.
KeysKept(k, d, l) ==
  IF k # "qq" /\ Len(l) = 1
  THEN [d EXCEPT ![l[1].type] = l[1].cred, !.client = l[1].client]
  ELSE d

\* The single keys that Save and saveEnv leave for a list.
Keys(k, d, l) ==
  IF k = "qq" \/ Len(l) > 1 THEN d
  ELSE IF l = <<>> THEN [d EXCEPT !.web = "none", !.android = "none", !.client = "none"]
  ELSE [d EXCEPT ![l[1].type] = l[1].cred, !.client = l[1].client]

\* The file as Save writes it.  QQ's cookie is not written to JSON when it is
\* empty, nor the list of the drive's accounts.
Written(k, f, d, l) ==
  IF f = "json" /\ k = "qq" /\ l = <<>> THEN d
  ELSE [Keys(k, d, l) EXCEPT !.list = l,
          !.listed = IF f = "json" /\ k = "gdrive" THEN l # <<>> ELSE TRUE]

\* The file is opened, which empties it, and written: two steps of os.WriteFile.
Truncate ==
  /\ tool = "save"
  /\ doc' = Written(kind, form, doc, list)
  /\ file' = EmptyDoc
  /\ tool' = "write"
  /\ saved' = {}
  /\ UNCHANGED <<kind, form, beside, list>>

\* It cannot be opened: the tool goes on with what it has in memory.
SaveFails ==
  /\ tool = "save"
  /\ doc' = Written(kind, form, doc, list)
  /\ tool' = "open"
  /\ UNCHANGED <<kind, form, file, beside, list, saved>>

WriteOut ==
  /\ tool = "write"
  /\ file' = doc
  /\ saved' = {list}
  /\ tool' = "open"
  /\ UNCHANGED <<kind, form, beside, doc, list>>

\* The tool is left, killed, or the machine stops.
Quit ==
  /\ tool # "closed"
  /\ tool' = "closed"
  /\ doc' = EmptyDoc /\ list' = <<>>
  /\ UNCHANGED <<kind, form, file, beside, saved>>

\* ConvertEnvToJSON writes what it reads from .env and the environment, and no
\* other file, as a new JSON file.  The .env file stays where it was, and the
\* server goes on reading it unless the user takes it away.
ConvertEnvToJSON ==
  /\ tool = "closed" /\ form = "env"
  /\ form' = "json"
  /\ \E l \in ServerReads(kind, form, file, [beside EXCEPT !.under = {}]) :
       /\ file' = [EmptyDoc EXCEPT !.list = l, !.listed = l # <<>>]
       /\ beside' \in {[over |-> beside.over, under |-> {}],
                       [over |-> IF l = <<>> /\ kind # "qq" THEN {} ELSE {l}, under |-> {}]}
       /\ saved' = {l}
  /\ UNCHANGED <<kind, doc, list, tool>>

AccountFileNext ==
  \/ Open \/ Add \/ SetCookie \/ Edit \/ RemoveOne
  \/ Truncate \/ SaveFails \/ WriteOut \/ Quit \/ ConvertEnvToJSON

AccountFileSpec == AccountFileInit /\ [][AccountFileNext]_accountFileVars

-----------------------------------------------------------------------------
\* What the tool finds beside the accounts l it has saved: a later line of a
\* .env file, what became of an odd credential there, and in JSON, next to an
\* empty list, an older list of the drive and the cookie that was not emptied.
ToolFindsMore(l) ==
  \/ /\ form = "env"
     /\ \/ file.alias # <<>> \/ ~Readable(file)
        \/ l = <<>> /\ (file.stray # "none" \/ file.strayClient # "none")
  \/ /\ form = "json" /\ l = <<>>
     /\ kind = "qq" \/ (kind = "gdrive" /\ file.alias # <<>>)

\* And the server: what it reads beside the file; lists and single keys under
\* other names; a client left by an account of several.
ServerFindsMore(l) ==
  \/ beside.over # {}
  \/ /\ form = "env"
     /\ file.alias # <<>> \/ ~Readable(file) \/ (l = <<>> /\ beside.under # {})
  \/ /\ form = "json"
     /\ \/ l = <<>> /\ (kind = "qq" \/ file.stray # "none")
        \/ file.alias # <<>> /\ (kind = "gdrive" => l = <<>>)
        \/ file.strayClient # "none"
        \/ Len(l) > 1 /\ file.client # "none"

\* The credentials that stand where no save reaches.
CredsIn(l) == {l[i].cred : i \in DOMAIN l}
OutOfReach ==
  CredsIn(file.alias) \cup ({file.stray} \ {"none"})
  \cup (IF file.strayClient # "none" THEN {"none"} ELSE {})
  \cup (UNION {CredsIn(r) : r \in beside.over \cup beside.under})
  \cup (IF form = "env" /\ ~Readable(file)
        THEN CredsIn(Single(kind, ThroughEnv(file))) \cup CredsIn(Cookie(file)) ELSE {})
  \cup (IF form = "json" /\ kind = "qq" THEN CredsIn(file.list) ELSE {})

\* After any edits, failed saves and restarts, the accounts that were saved
\* last are those the tool loads next and those the server runs with, if the
\* file says nothing else where a save does not write.  And if it does, no
\* account comes back but those that stand there: none that was removed from
\* the list or the single keys.
SavedIsRead ==
  \A l \in saved :
    /\ ToolFindsMore(l) \/ Loaded(kind, form, file) = l
    /\ ServerFindsMore(l) \/ ServerReads(kind, form, file, beside) = {l}
    /\ \A r \in {Loaded(kind, form, file)} \cup ServerReads(kind, form, file, beside) :
         \A i \in DOMAIN r :
           \/ r[i].cred \in OutOfReach
           \/ \E j \in DOMAIN l : r[i].type = l[j].type /\ r[i].cred = l[j].cred
=============================================================================
