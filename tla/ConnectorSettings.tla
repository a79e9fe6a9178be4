------------------------- MODULE ConnectorSettings -------------------------
(***************************************************************************)
(* How a connector comes to its settings: the configuration the backend    *)
(* puts into a bundle, the launcher agent.py, the command line, the        *)
(* environment, the file, and what the program falls back on.              *)
(*                                                                         *)
(* A text is "" or a value told apart by name.  args, env and config are   *)
(* records of texts; Absent is a variable or a key that is not there.      *)
(* The URL stands for the settings of its kind (the socket path too).      *)
(***************************************************************************)
EXTENDS Naturals, Sequences

Absent == "absent"
Empty == ""
NoKey == Empty

\* Python's a or b or c: the first text that is not empty, else the last.
FirstOf(texts) ==
    IF \A i \in DOMAIN texts : texts[i] = Empty THEN Empty
    ELSE texts[CHOOSE i \in DOMAIN texts : texts[i] # Empty /\ \A j \in 1..(i - 1) : texts[j] = Empty]

\* os.getenv(name, "") and config.get(key, default).
Text(value) == IF value = Absent THEN Empty ELSE value
Get(value, default) == IF value = Absent THEN default ELSE value

\* connectionToken of a bundle for vm, or of the template, which is for none.
BundleConfig(url, token) == [url |-> url, key |-> Get(token, Empty), jsonLogs |-> TRUE, interval |-> 30]

\* The URL the bundle is given: HIVE_PUBLIC_BACKEND_URL, or what the request came by.
ResolveBackendUrl(configured, host) == FirstOf(<<Text(configured), host>>)

\* Mutant: the launcher starts the program as it was called.
BootstrapNothing(args, env, folder) == args
\* agent.py: the file beside it is the configuration, unless one is named.  (It also
\* sets HIVE_JSON_LOGS, after the program has read it.)
Bootstrap(args, env, folder) ==
    IF folder # Absent /\ args.config = Absent /\ Text(env.config) = Empty
    THEN [args EXCEPT !.config = folder] ELSE args

\* The default of the program, read when it is loaded; a variable that is set to
\* nothing is a default of nothing.
DefaultUrl(env, production) ==
    IF env.backendUrl # Absent THEN env.backendUrl
    ELSE IF env.apiUrl # Absent THEN env.apiUrl ELSE production

ConfigPath(args, env) == FirstOf(<<Text(args.config), Text(env.config)>>)

SetupKey(args, env, file) ==
    FirstOf(<<Text(args.key), Text(args.legacyKey), Text(env.key), Get(file.key, Empty)>>)

BackendUrl(args, env, file, production) ==
    FirstOf(<<Text(args.url), Text(env.backendUrl), Text(env.apiUrl),
              Get(file.url, DefaultUrl(env, production)), DefaultUrl(env, production)>>)

\* An interval given as 0 is not given.
Interval(file) == IF file.interval = 0 THEN 30 ELSE file.interval

NoFile == [url |-> Absent, key |-> Absent, jsonLogs |-> FALSE, interval |-> 0]

\* resolve_runtime_settings, apply_runtime_settings and what main asks of them: a named
\* file must be there, a key must be given (typed in on a terminal), a URL must be known.
\* files maps the paths that exist to their contents.
Start(args, env, files, typed, production) ==
    LET path == ConfigPath(args, env)
        file == IF path \in DOMAIN files THEN files[path] ELSE NoFile
        key == FirstOf(<<SetupKey(args, env, file), typed>>)
        url == BackendUrl(args, env, file, production)
    IN  [started |-> (path = Empty \/ path \in DOMAIN files) /\ key # Empty /\ url # Empty,
         key |-> key, url |-> url, interval |-> Interval(file),
         jsonLogs |-> args.jsonLogs \/ env.jsonLogs \/ file.jsonLogs]
=============================================================================
