------------------------------ MODULE ServerSettings ------------------------------
(***************************************************************************)
(* The sync server's settings: where they come from (nemr-sync,            *)
(* settings.rs), what the server needs before it binds (nemr-sync,         *)
(* main.rs), what its own check reports (main.rs, check), and what         *)
(* `nemr server configure` adds to a settings file (nemr-cloud,            *)
(* configure.rs).                                                          *)
(*                                                                         *)
(* A source is a function from the keys it sets to their values; "" is a   *)
(* key that is set to nothing.  The five variables of an object store are  *)
(* one key, "s3": "half" when some are missing, "odd" when the provider is *)
(* not one the server knows.  A message is a sequence of characters.       *)
(***************************************************************************)
EXTENDS Integers, Sequences

CONSTANTS
    Dir,      \* directories a bundle store can be in
    Addr      \* addresses a server can listen on

ASSUME AddrAssumption == Addr # {}

Default == CHOOSE a \in Addr : TRUE
Key == {"addr", "db", "dir", "s3", "pepper"}
Value(k) ==
    {""} \cup CASE k = "addr" -> Addr
               [] k = "db" -> {"url"}
               [] k = "dir" -> Dir
               [] k = "s3" -> {"whole", "half", "odd"}
               [] k = "pepper" -> {"secret", "ephemeral"}
Source == {v \in UNION {[K -> UNION {Value(k) : k \in Key}] : K \in SUBSET Key} :
              \A k \in DOMAIN v : v[k] \in Value(k)}

\* A source of one key, and what two sources set together: the first one wins.
Sets(key, value) == [k \in {key} |-> value]
Over(v, w) == [k \in DOMAIN v \cup DOMAIN w |-> IF k \in DOMAIN v THEN v[k] ELSE w[k]]

\* A settings file: not there, not readable as settings (its mode is too wide, or
\* a line of it is malformed), or its keys.
NoFile == [state |-> "absent", keys |-> <<>>]
Broken == [state |-> "broken", keys |-> <<>>]
File(keys) == [state |-> "present", keys |-> keys]
Settings == {NoFile} \cup [state : {"broken", "present"}, keys : Source]

\* A host the server depends on: is a directory there and writable, does the
\* database answer, does the object store.
Host == [dir : [Dir -> {"gone", "readonly", "writable"}], db : BOOLEAN, s3 : BOOLEAN]

-------------------------------------------------------------------------------
(* Reading *)

\* Settings::load: the environment wins, key by key, also with an empty value.
Load(env, file) == Over(env, file.keys)

\* Settings::get: empty means unset.
Has(v, k) == k \in DOMAIN v /\ v[k] # ""
AddrOf(v) == IF Has(v, "addr") THEN v["addr"] ELSE Default

-------------------------------------------------------------------------------
(* The server *)

\* pepper: there must be one, or the word for going without.
Pepper(v) ==
    IF ~Has(v, "pepper") THEN "missing"
    ELSE IF v["pepper"] = "ephemeral" THEN "ephemeral" ELSE "configured"

\* select_storage: exactly one backend, an existing directory or a whole and
\* known object store.
Selects(v, host) ==
    IF Has(v, "dir")
    THEN ~Has(v, "s3") /\ host.dir[v["dir"]] # "gone"
    ELSE Has(v, "s3") /\ v["s3"] = "whole"

\* The store answers a list: a directory that is there does.
Lists(v, host) == Has(v, "dir") \/ host.s3

\* What the server gets through before it binds: settings, pepper, storage,
\* probe, database.
Starts(env, file, host) ==
    LET v == Load(env, file)
    IN  /\ file.state # "broken"
        /\ Has(v, "db") /\ Pepper(v) # "missing"
        /\ Selects(v, host) /\ Lists(v, host)
        /\ host.db

-------------------------------------------------------------------------------
(* nemr-sync --check *)

BackendState(v, host) ==
    IF ~Selects(v, host) THEN "unconfigured"
    ELSE IF ~Lists(v, host) THEN "unreachable"
    ELSE IF Has(v, "dir") /\ host.dir[v["dir"]] = "readonly" THEN "unwritable"
    ELSE "ok"

DatabaseState(v, host) ==
    IF ~Has(v, "db") THEN "unconfigured" ELSE IF host.db THEN "ok" ELSE "unreachable"

\* The report; of settings that cannot be read it says nothing else.
Check(env, file, host) ==
    LET v == Load(env, file)
    IN  IF file.state = "broken"
        THEN [settings |-> "error", addr |-> Default, pepper |-> "unknown",
              backend |-> "unknown", database |-> "unknown"]
        ELSE [settings |-> "ok", addr |-> AddrOf(v),
              pepper |-> Pepper(v),
              backend |-> BackendState(v, host), database |-> DatabaseState(v, host)]

\* start's five questions of the report, in the order it asks them.
Passes(report) ==
    /\ report.settings # "error"
    /\ report.pepper # "missing"
    /\ report.backend = "ok"
    /\ report.database = "ok"

-------------------------------------------------------------------------------
(* A message in the report: a fact is one line of it, and an error is several. *)

Backslash == "\\"
LineBreak == "line break"
Return == "return"

\* one_line, character by character: a line break is written \n, and a backslash twice.
OneLine(message) ==
    LET Written(c) == CASE c = Backslash -> <<Backslash, Backslash>>
                        [] c = LineBreak -> <<Backslash, "n">>
                        [] c = Return -> <<>>
                        [] OTHER -> <<c>>
        from[i \in 1 .. Len(message) + 1] ==
          IF i > Len(message) THEN <<>> ELSE Written(message[i]) \o from[i + 1]
    IN  from[1]

\* unescape, in the reader of the report: any other character after a backslash is
\* itself, and so is a backslash at the end.
Unescaped(line) ==
    LET Pair(i) == line[i] = Backslash /\ i < Len(line)
        Read(c) == CASE c = "n" -> <<LineBreak>>
                     [] c = Backslash -> <<Backslash>>
                     [] OTHER -> <<Backslash, c>>
        from[i \in 1 .. Len(line) + 1] ==
          IF i > Len(line) THEN <<>>
          ELSE IF Pair(i) THEN Read(line[i + 1]) \o from[i + 2]
          ELSE <<line[i]>> \o from[i + 1]
    IN  from[1]

-------------------------------------------------------------------------------
(* nemr server configure *)

\* Missing::of, from a report on the file alone.
Missing(report) ==
    (IF report.backend = "unconfigured" THEN {"storage"} ELSE {})
    \cup (IF report.database = "unconfigured" THEN {"db"} ELSE {})
    \cup (IF report.pepper = "missing" THEN {"pepper"} ELSE {})

\* ask_storage: a folder, or an object store whose provider is typed in.
StorageAnswers == {Sets("dir", d) : d \in Dir} \cup {Sets("s3", s) : s \in {"whole", "odd"}}

\* What a new file holds: the address, the database, the storage, a pepper.
Composed(addr, storage) ==
    Over(storage, [addr |-> addr, db |-> "url", pepper |-> "secret"])

\* The database and the storage.  Mutant of Addition: and no pepper.
AddedStores(missing, storage) ==
    Over(IF "db" \in missing THEN Sets("db", "url") ELSE <<>>,
         IF "storage" \in missing THEN storage ELSE <<>>)

\* What add_missing appends.
Addition(missing, storage) ==
    Over(AddedStores(missing, storage),
         IF "pepper" \in missing THEN Sets("pepper", "secret") ELSE <<>>)

\* A later line of a file wins over an earlier one.
Appended(file, addition) == [file EXCEPT !.keys = Over(addition, @)]

\* report_ok: what configure looks at before it moves a file into place.
ReportOk(report) == report.database = "ok" /\ report.backend = "ok"

===================================================================================
