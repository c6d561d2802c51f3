---------------------------- MODULE Configuration ----------------------------
(***************************************************************************)
(* What the process makes of its environment (src/config/mod.rs and the    *)
(* first half of main): whether it starts at all, over which storage, with *)
(* which encryption key and which tokens; and what a request may then do   *)
(* (src/auth/mod.rs, require_write). Tokens, keys and URLs are values that *)
(* are only compared.                                                      *)
(***************************************************************************)
CONSTANTS
  Key,            \* the values of ENCRYPTION_KEY that are 64 hexadecimal digits
  Token,          \* the bearer tokens
  Unset,          \* a variable that is not set, a header that is missing
  Environments,   \* the environments a run starts the process in
  Mask            \* what the audit log shows of a token: eight characters at most

\* strategy: ROUTING_STRATEGY is not set or names a strategy. USE_INMEMORY_STORAGE
\* is on or off, DATABASE_URL set or not.
Environment ==
  [management: Token \cup {Unset}, viewer: Token \cup {Unset}, strategy: BOOLEAN,
   in_memory: BOOLEAN, database_url: BOOLEAN, encryption: Key \cup {Unset, "invalid"}]

ASSUME EnvironmentsAssumption == Environments \subseteq Environment
ASSUME UnsetAssumption == Unset \notin Key /\ Unset \notin Token /\ "invalid" \notin Key
ASSUME MaskAssumption == DOMAIN Mask = Token

\* AppConfig::from_env
ConfigValid(env) ==
  env.management # Unset /\ env.strategy /\ (env.in_memory \/ env.database_url)

\* Mutant of StartsUp: an ENCRYPTION_KEY that is no key is taken all the same.
StartsUpUnchecked(env) == ConfigValid(env)

\* Crypt::from_env, which is read for the database only: every value that is set
\* must be a key.
StartsUp(env) == ConfigValid(env) /\ (env.in_memory \/ env.encryption # "invalid")

Process ==
  [backend: {"InMemory", "Postgres", "down"}, crypt: Key \cup {Unset},
   management: Token \cup {Unset}, viewer: Token \cup {Unset}]

Down == [backend |-> "down", crypt |-> Unset, management |-> Unset, viewer |-> Unset]

\* The parts of main's state that come from the environment.
ProcessOf(env) ==
  [backend |-> IF env.in_memory THEN "InMemory" ELSE "Postgres",
   crypt |-> IF env.in_memory THEN Unset ELSE env.encryption,
   management |-> env.management, viewer |-> env.viewer]
------------------------------------------------------------------------------
\* An Authorization header: a token with or without "Bearer ", or none.
Credential == [token: Token \cup {Unset}, bearer: BOOLEAN]

\* auth_middleware: the viewer's token counts only as a bearer token.
RoleOf(process, cred) ==
  IF cred.token = Unset THEN "none"
  ELSE IF cred.token = process.management THEN "Admin"
  ELSE IF cred.bearer /\ cred.token = process.viewer THEN "Viewer" ELSE "none"

\* Mutant of MayWrite: the role layer is not applied.
MayWriteAnyRole(process, cred) == RoleOf(process, cred) # "none"

\* The routes below require_write, and all routes.
MayWrite(process, cred) == RoleOf(process, cred) = "Admin"
MayRead(process, cred) == RoleOf(process, cred) \in {"Admin", "Viewer"}
=============================================================================
