----------------------------- MODULE InstanceEnv -----------------------------
(***************************************************************************)
(* The environment file of a deployed instance, as it is rendered from the *)
(* variables of the project's source and from the secrets of the file it   *)
(* replaces, and the check of its database URLs against the drivers the    *)
(* project ships; and the file of a smoke run.  Pure: a file is a function *)
(* from keys to values; fresh gives the secrets that would be minted.      *)
(***************************************************************************)
EXTENDS Functions, FiniteSets

\* Keys, by what the rendering tells apart.  SharedKeys carry one password.
SharedKeys == {"POSTGRES_PASSWORD", "DB_PASSWORD"}
SecretKeys == {"API_KEY", "ADMIN_INITIAL_PASSWORD"}
AdminKey   == "ADMIN_INITIAL_PASSWORD"
UrlKeys    == {"DATABASE_URL", "READ_DATABASE_URL"}

\* Values: a literal, a database URL, ${VAR}, the placeholder that stands for it.
Literal(x)                 == [kind |-> "literal", text |-> x]
Url(scheme, driver, where) == [kind |-> "url", scheme |-> scheme, driver |-> driver, where |-> where]
Expansion   == [kind |-> "expansion"]
Placeholder == [kind |-> "placeholder"]
Empty       == Literal("")

\* _rewrite_db_connection_var: the scheme is the source's, the rest the instance's.
Rewritten(value, password) ==
  IF value.kind = "url" THEN Url(value.scheme, value.driver, password)
  ELSE Url("postgresql", "", password)

\* load_existing_env_secrets
Secrets(file) == Restrict(file, DOMAIN file \cap (SecretKeys \cup SharedKeys))

\* provision_uat: the password of a file that is kept, or a fresh one.
SharedPassword(kept, fresh) ==
  LET Has(k) == k \in DOMAIN kept /\ kept[k] # Empty IN
  IF Has("POSTGRES_PASSWORD") THEN kept["POSTGRES_PASSWORD"]
  ELSE IF Has("DB_PASSWORD") THEN kept["DB_PASSWORD"] ELSE fresh["DB_PASSWORD"]

\* Of .env.example and the backend's environment, which wins.
Merged(example, environment) ==
  [k \in DOMAIN example \cup DOMAIN environment |->
     IF k \in DOMAIN environment THEN environment[k] ELSE example[k]]

\* generate_uat_env, of one key of the source.
RenderedValue(k, value, kept, fresh, admin, password) ==
  IF value = Expansion THEN Placeholder
  ELSE IF k = "DATABASE_URL" THEN Rewritten(value, password)
  ELSE IF k = AdminKey /\ admin # Empty THEN admin
  ELSE IF k \in SecretKeys
       THEN IF k \in DOMAIN kept /\ kept[k] # Empty THEN kept[k] ELSE fresh[k]
  ELSE value

\* generate_uat_env: the shared password stands above what the source says of it.
Rendered(source, kept, fresh, admin) ==
  LET password == SharedPassword(kept, fresh) IN
  [k \in DOMAIN source \cup SharedKeys |->
     IF k \in SharedKeys THEN password
     ELSE RenderedValue(k, source[k], kept, fresh, admin, password)]

-----------------------------------------------------------------------------
(* Drivers: the SQLAlchemy drivers a project declares, Unknown without a     *)
(* pyproject that can be read                                                *)

Unknown == {"unknown"}

\* detect_sqlalchemy_pg_drivers: over the first pyproject there is; names that are
\* no driver of SQLAlchemy's, asyncpg among them, do not count.
DriverOf(dependency) ==
  CASE dependency \in {"psycopg2", "psycopg2-binary"} -> {"psycopg2"}
    [] dependency \in {"psycopg", "psycopg[binary]"}   -> {"psycopg"}
    [] dependency = "pg8000"                           -> {"pg8000"}
    [] OTHER                                           -> {}
Declared(pyproject) ==
  IF pyproject = Unknown THEN Unknown ELSE UNION {DriverOf(d) : d \in pyproject}

\* validate_rendered_db_drivers, of one value: refused, doubted or taken.
UrlVerdict(value, drivers) ==
  IF value.kind # "url" \/ value.scheme # "postgresql" THEN "taken"
  ELSE IF value.driver # ""
       THEN IF drivers \notin {{}, Unknown} /\ value.driver \in {"psycopg2", "psycopg", "pg8000"} \ drivers
            THEN "doubted" ELSE "taken"
  ELSE IF drivers \in {{}, Unknown} THEN "doubted"
  ELSE IF "psycopg2" \in drivers THEN "taken" ELSE "refused"

Refused(file, drivers) ==
  \E k \in UrlKeys \cap DOMAIN file : UrlVerdict(file[k], drivers) = "refused"

-----------------------------------------------------------------------------
(* The smoke run of a verification renders .env.example by rules of its own. *)

CiPassword == Literal("ci")

\* _rewrite_smoke_database_url: what is no URL becomes one without a scheme.
SmokeUrl(value) ==
  IF value.kind = "url" THEN Url(value.scheme, value.driver, CiPassword) ELSE Url("", "", CiPassword)

\* _render_smoke_env: a DB_PASSWORD only where the example has one.
SmokeRendered(example) ==
  [k \in DOMAIN example \cup {"POSTGRES_PASSWORD"} |->
     IF k \in SharedKeys THEN CiPassword
     ELSE IF k = "DATABASE_URL" THEN SmokeUrl(example[k]) ELSE example[k]]

-----------------------------------------------------------------------------
(* Claims *)

\* A redeployment renders the file it finds: no secret changes, and the password of
\* the database volume least of all, whatever would be minted.
RedeployKeepsFile(source, fresh, other, admin) ==
  LET file == Rendered(source, <<>>, fresh, admin)
  IN Rendered(source, Secrets(file), other, admin) = file

\* The services of an instance agree on the one password, whatever the source says,
\* and its DATABASE_URL is the instance's own unless it is left to be filled in.
OneDatabase(source, kept, fresh, admin) ==
  LET file == Rendered(source, kept, fresh, admin) IN
  /\ \A k, l \in SharedKeys : file[k] = file[l]
  /\ "DATABASE_URL" \in DOMAIN file =>
       file["DATABASE_URL"] = Placeholder \/ file["DATABASE_URL"].where = file["DB_PASSWORD"]

\* What a person filled in for a placeholder does not outlive a redeployment.
FilledInIsLost(source, kept, fresh, admin) ==
  \A k \in DOMAIN source \ SharedKeys :
    source[k] = Expansion => Rendered(source, kept, fresh, admin)[k] = Placeholder

\* A file is refused exactly when SQLAlchemy would load psycopg2 for one of its URLs
\* and the project declares another driver but not that one.
RefusedWhenMissing(file, pyproject) ==
  LET drivers == Declared(pyproject)
      LoadsDefault(v) == v.kind = "url" /\ v.scheme = "postgresql" /\ v.driver = ""
  IN Refused(file, drivers) <=>
       /\ \E k \in UrlKeys \cap DOMAIN file : LoadsDefault(file[k])
       /\ drivers \notin {{}, Unknown} /\ "psycopg2" \notin drivers

\* The smoke stack's services agree on one password, as a deployed instance's do;
\* only a URL of another name keeps the password of the example.
SmokeHasOnePassword(example) ==
  LET file == SmokeRendered(example) IN
  /\ \A k \in SharedKeys \cap DOMAIN file : file[k] = file["POSTGRES_PASSWORD"]
  /\ "DATABASE_URL" \in DOMAIN file => file["DATABASE_URL"].where = file["POSTGRES_PASSWORD"]
  /\ "READ_DATABASE_URL" \in DOMAIN file => file["READ_DATABASE_URL"] = example["READ_DATABASE_URL"]

\* What boots in the smoke run boots with the drivers of the deployment: the two
\* renderings of a URL load the same one.
SameDriver(source, kept, fresh, admin) ==
  "DATABASE_URL" \in DOMAIN source /\ source["DATABASE_URL"].kind = "url" =>
    LET smoke == SmokeRendered(source)["DATABASE_URL"]
        uat   == Rendered(source, kept, fresh, admin)["DATABASE_URL"]
    IN <<smoke.scheme, smoke.driver>> = <<uat.scheme, uat.driver>>
=============================================================================
