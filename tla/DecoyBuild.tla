----------------------------- MODULE DecoyBuild -----------------------------
(***************************************************************************)
(* One request to the content generator, from the model calls to the       *)
(* answer: the steps of a profile (populator/strategies.py), the retries of *)
(* the model client (core/llm_client.py) inside the retries of              *)
(* _generate_and_enforce (generators/base.py), the honeytokens registered   *)
(* on the way, and the routes that hand the files over                      *)
(* (api/routes/decoys.py, populate.py, generate.py).                        *)
(*                                                                         *)
(* A strategy and a client are made per request and its steps are awaited   *)
(* one after the other, so a request shares nothing with another one but    *)
(* the honeytoken table.  BrainStore has the table's other operations and   *)
(* BrainCourier the caller of /decoys/generate.                             *)
(***************************************************************************)
EXTENDS DecoyContent

CONSTANTS
    Values,      \* honeytoken values a generator can come up with
    None,        \* Python's None
    Requests,    \* what may be asked: see Ask
    Usual,       \* the draft a well-behaved model returns
    Drafts,      \* per route, the other drafts it may return
    ExportRows,  \* rows of the customer export (5 in the code)
    LlmRetries,  \* settings.llm_max_retries
    MaxRetries,  \* max_retries of _generate_and_enforce (2 in the code)
    MaxFaults,   \* bound: calls that fail in one behaviour
    MaxDrafts    \* bound: drafts other than Usual in one behaviour

ASSUME BoundsAssumption ==
    /\ ExportRows \in Nat \ {0} /\ LlmRetries \in Nat \ {0}
    /\ MaxRetries \in Nat /\ MaxFaults \in Nat /\ MaxDrafts \in Nat

ASSUME RequestAssumption ==
    /\ None \notin Values
    /\ \A request \in Requests :
        /\ request.route \in {"decoys", "populate", "generate"}
        /\ request.route = "generate" => request.artifact.do = "write"

ASSUME DraftAssumption ==
    /\ Usual.lines \in Seq(ModelLines)
    /\ \A request \in Requests : \A draft \in Drafts[request.route] :
            draft.lines \in Seq(ModelLines)

VARIABLES
    row,     \* per value: its honeytoken row, "none", "off" (deactivated) or "on"
    job,     \* the request being served and the local variables of its build
    answer,  \* what the route returned; None until then
    faults, drafts  \* how much of the two bounds is used

vars == <<row, job, answer, faults, drafts>>

-----------------------------------------------------------------------------
(* Profiles.  A path is its first segment and the rest. *)

Write(path, what, content, type, log) ==
    [do |-> "write", path |-> path, what |-> what,
     as |-> [content |-> content, type |-> type, log |-> log]]

Code(path, what, language) == Write(path, <<"source", what>>, "source_code", language, None)
Config(path, what) ==
    Write(path, <<"config", what>>, "config",
          CASE what = "bashrc" -> "shell" [] what = "nginx" -> "nginx"
            [] what = "docker_compose" -> "yaml" [] OTHER -> "generic", None)
Document(path, what) == Write(path, <<"doc", what>>, "document", "generic", None)

\* SystemLogGenerator's file_type_map.
LogType(log) ==
    IF log \in {"auth", "syslog"} THEN "syslog"
    ELSE IF log \in {"apache_access", "nginx_access"} THEN "access_log" ELSE "generic"
Log(path, what) == Write(path, <<"log", what>>, "logs", LogType(what), what)

Token(type, path) == [do |-> "token", path |-> path, what |-> <<"honeytoken", type>>]
Bundle(path, types) == [do |-> "bundle", path |-> path, types |-> types]
Row(path) == [do |-> "row", path |-> path, types |-> {"ssn", "credit_card"}]
Sheet(path) == [do |-> "sheet", path |-> path]
Fixed(path) == [do |-> "fixed", path |-> path]

AwsCredentials == <<".aws", "credentials">>
AwsPair ==
    << Token("aws_access_key", AwsCredentials), Token("aws_secret_key", AwsCredentials) >>
AwsFile == << Bundle(AwsCredentials, {"aws_access_key", "aws_secret_key"}) >>

GitHubHosts == <<".config", "gh/hosts.yml">>

Developer ==
    << Code(<<"projects", "app/src/main.py">>, "python", "python"),
       Code(<<"projects", "app/src/main.ja">>, "javascript", "javascript"),
       Config(<<".bashrc">>, "bashrc"),
       Config(<<".ssh", "config">>, "ssh_config"),
       Config(<<"projects", "app/.env">>, "env"),
       Document(<<"Documents", "dev-notes.txt">>, "notes"),
       Document(<<"projects", "app/README.md">>, "readme"),
       Log(<<".bash_history">>, "bash_history") >>
    \o AwsPair
    \o << Token("github_token", GitHubHosts) >>
    \o AwsFile
    \o << Bundle(GitHubHosts, {"github_token"}) >>

DeveloperMinimal ==
    << Code(<<"scripts", "util.py">>, "python", "python"),
       Config(<<".bashrc">>, "bashrc") >> \o AwsPair \o AwsFile

ProductionEnv == <<"app", ".env.production">>

Production(action) ==
    << Config(<<"etc", "nginx/sites-available/app.conf">>, "nginx"),
       Config(<<"app", "docker-compose.yml">>, "docker_compose"),
       Log(<<"var", "log/auth.log">>, "auth"),
       Log(<<"var", "log/syslog">>, "syslog"),
       Log(<<"var", "log/nginx/access.log">>, "nginx_access"),
       Code(<<"scripts", "deploy.sh">>, "deploy", "shell"),
       Token("api_token", ProductionEnv), Token("jwt_secret", ProductionEnv),
       Bundle(ProductionEnv, {"api_token", "jwt_secret"}) >>
    \o IF action # "simulate_cron_jobs" THEN <<>>
       ELSE << Code(<<"opt", "scripts/nightly_backup.sh">>, "backup", "shell"),
               Fixed(<<"etc", "crontab">>) >>

Export == <<"exports", "customer_export.csv">>
ExportRow == << Token("ssn", Export), Token("credit_card", Export), Row(Export) >>

Database(action) ==
    << Code(<<"scripts", "backup_db.py">>, "db_backup", "python"),
       Config(<<".env">>, "env"),
       Log(<<"var", "log/auth.log">>, "auth"),
       Token("database_password", <<".pgpass">>),
       Bundle(<<".pgpass">>, {"database_password"}) >>
    \o IF action # "serve_fake_sensitive_files" THEN <<>>
       ELSE [n \in 1 .. 3 * ExportRows |-> ExportRow[1 + ((n - 1) % 3)]] \o << Sheet(Export) >>

WebServer ==
    << Code(<<"app", "main.py">>, "webapp", "python"),
       Config(<<"nginx.conf">>, "nginx"),
       Log(<<"logs", "access.log">>, "apache_access"),
       Token("api_token", <<"app", "config.py">>),
       Bundle(<<"app", "config.py">>, {"api_token"}) >>

\* build: an unknown profile is a developer workstation.
Plan(profile, action) ==
    CASE profile = "production_server" -> Production(action)
      [] profile = "database_server" -> Database(action)
      [] profile = "web_server" -> WebServer
      [] OTHER -> IF action = "serve_minimal_banner" THEN DeveloperMinimal ELSE Developer

\* core/adaptive_actions.py; an action outside the table has no profile.
ActionToProfile(action) ==
    CASE action \in {"show_fake_endpoints", "simulate_privileged_process_list",
                     "expose_fake_internal_ips"} -> "web_server"
      [] action \in {"populate_developer_workstation", "serve_minimal_banner",
                     "inject_fake_sudo_config", "expose_fake_authorized_keys",
                     "plant_ssh_honeytoken"} -> "developer_workstation"
      [] action \in {"plant_honeytoken_credentials", "simulate_cron_jobs",
                     "populate_production_server", "serve_fake_network_map",
                     "plant_tracked_honeytoken_archive"} -> "production_server"
      [] action \in {"serve_fake_sensitive_files", "populate_database_server"} ->
                     "database_server"
      [] OTHER -> None

\* to_container_path.
SystemRoots == {"etc", "var", "opt", "srv", "usr", "tmp", "root"}
ContainerPath(path) ==
    IF Head(path) \in SystemRoots THEN path ELSE <<"home", "devuser">> \o path

-----------------------------------------------------------------------------
TokenTypes == {"aws_access_key", "aws_secret_key", "github_token", "database_password",
               "api_token", "jwt_secret", "ssn", "credit_card"}

\* Requests: decoys for an action, a profile to populate, or one artifact.
StepsOf(request) ==
    CASE request.route = "decoys" ->
            Plan(ActionToProfile(request.action), request.action)
      [] request.route = "populate" -> Plan(request.profile, None)
      [] request.route = "generate" -> << request.artifact >>

\* build_prompt moves audit and security logs to the analysis layer.
LayerOf(request) ==
    IF request.route # "generate" THEN "system"
    ELSE IF request.category \in {"audit", "security"} THEN "analysis" ELSE request.layer

NewJob(request) ==
    [request |-> request, at |-> 1, calls |-> 0, tries |-> 0,
     held |-> [type \in TokenTypes |-> None], export |-> {}, exported |-> 0,
     files |-> <<>>, embedded |-> {}, failures |-> <<>>, sent |-> 0, lost |-> 0]

ASSUME NoneAssumption == \A request \in Requests : NewJob(request) # None

File(path, text, values) == [path |-> path, text |-> text, values |-> values]

Answer(status, files, tokens, failures, valid) ==
    [status |-> status, files |-> files, tokens |-> tokens, failures |-> failures,
     valid |-> valid]

Error == Answer("error", {}, {}, <<>>, FALSE)

Init ==
    /\ row \in [Values -> {"none", "off"}]
    /\ job = None /\ answer = None
    /\ faults = 0 /\ drafts = 0

\* A request comes in.  An action without a profile is answered at once.
Ask(request) ==
    /\ job = None
    /\ job' = NewJob(request)
    /\ answer' = IF request.route = "decoys" /\ ActionToProfile(request.action) = None
                 THEN Answer("nothing", {}, {}, <<>>, FALSE) ELSE None
    /\ UNCHANGED <<row, faults, drafts>>

StepTable == [request \in Requests |-> StepsOf(request)]
Steps == StepTable[job.request]
Step == Steps[job.at]

Working == job # None /\ answer = None
Doing(kinds) == Working /\ job.at <= Len(Steps) /\ Step.do \in kinds

Advance(j) == [j EXCEPT !.at = @ + 1, !.calls = 0, !.tries = 0]

\* _gen turns a failed step of a profile into an entry of failures; the routes
\* that generate one artifact let the exception out.
StepFails(j) ==
    IF j.request.route = "generate"
    THEN answer' = Error /\ job' = j
    ELSE /\ job' = Advance([j EXCEPT !.failures = Append(@, Step.what)])
         /\ UNCHANGED answer

Fault == faults < MaxFaults /\ faults' = faults + 1

\* LLMClient.generate: these are tried again until the last attempt ...
Retried == {"timeout", "connection", "rate limit", "no choices"}
\* ... and these are raised at once.
Raised == {"authentication", "invalid response"}

(* Mutant: the attempt after the last one is made too. *)
ModelFailsOnceMore(error) ==
    /\ Doing({"write"}) /\ Fault
    /\ IF error \in Retried /\ job.calls < LlmRetries
       THEN job' = [job EXCEPT !.calls = @ + 1] /\ UNCHANGED answer
       ELSE StepFails(job)
    /\ UNCHANGED <<row, drafts>>

ModelFails(error) ==
    /\ Doing({"write"}) /\ Fault
    /\ IF error \in Retried /\ job.calls + 1 < LlmRetries
       THEN job' = [job EXCEPT !.calls = @ + 1] /\ UNCHANGED answer
       ELSE StepFails(job)
    /\ UNCHANGED <<row, drafts>>

\* The generator returns: a profile gets the file, a route its answer.
Return(text, draft) ==
    IF job.request.route = "generate"
    THEN /\ answer' = Answer("ok", {File(Step.path, text, {})}, {}, <<>>,
                             IsValid(text, Step.as, LayerOf(job.request), draft))
         /\ UNCHANGED job
    ELSE /\ job' = Advance([job EXCEPT !.files = Append(@, File(Step.path, text, {}))])
         /\ UNCHANGED answer

\* One round of _generate_and_enforce.  Only realism is worth another round;
\* after the last one the terms are scrubbed and the text is returned as it is.
Enforce(text, draft) ==
    IF RealismValid(text, Step.as.type, Step.as.log, LayerOf(job.request), draft.look)
    THEN Return(text, draft)
    ELSE IF job.tries < MaxRetries
         THEN job' = [job EXCEPT !.tries = @ + 1, !.calls = 0] /\ UNCHANGED answer
         ELSE Return(Scrubbed(text), draft)

ModelAnswers(draft) ==
    /\ Doing({"write"})
    /\ draft # Usual => drafts < MaxDrafts
    /\ drafts' = IF draft = Usual THEN drafts ELSE drafts + 1
    /\ \E again \in SUBSET DOMAIN draft.lines :
            Enforce(Attempt(draft, Step.as.content, again), draft)
    /\ UNCHANGED <<row, faults>>

\* register_honeytoken: a new row, or the value's row, armed again.
Register(value) == row' = [row EXCEPT ![value] = "on"]

TokenGenerated(value) ==
    /\ Doing({"token"})
    /\ Register(value)
    /\ job' = Advance([job EXCEPT !.held[Step.what[2]] = value,
                                  !.embedded = @ \cup {value}])
    /\ UNCHANGED <<answer, faults, drafts>>

TokenFails ==
    /\ Doing({"token"}) /\ Fault
    /\ StepFails([job EXCEPT !.held[Step.what[2]] = None])
    /\ UNCHANGED <<row, drafts>>

\* A DatabaseError is not caught by the strategy: the build is lost.
StoreFails ==
    /\ Doing({"token"}) /\ Fault
    /\ answer' = Error
    /\ UNCHANGED <<row, job, drafts>>

HeldValues(types) == {job.held[type] : type \in types}

AddFile(j, values) == [j EXCEPT !.files = Append(@, File(Step.path, <<>>, values))]

(* Mutant: the file is written as soon as one of its values is there. *)
PlaceBundleHalf ==
    IF HeldValues(Step.types) = {None} THEN job
    ELSE AddFile(job, HeldValues(Step.types) \ {None})

\* The files built from honeytokens: a missing value costs the file, in the
\* export it costs the row.  The crontab is always there.
PlaceBundle ==
    IF None \in HeldValues(Step.types) THEN job ELSE AddFile(job, HeldValues(Step.types))

PlaceRow ==
    IF None \in HeldValues(Step.types) THEN job
    ELSE [job EXCEPT !.export = @ \cup HeldValues(Step.types), !.exported = @ + 1]

PlaceSheet == IF job.exported = 0 THEN job ELSE AddFile(job, job.export)

Place ==
    /\ Doing({"bundle", "row", "sheet", "fixed"})
    /\ job' = Advance(CASE Step.do = "bundle" -> PlaceBundle
                        [] Step.do = "row" -> PlaceRow
                        [] Step.do = "sheet" -> PlaceSheet
                        [] Step.do = "fixed" -> AddFile(job, {}))
    /\ UNCHANGED <<row, answer, faults, drafts>>

Built == Working /\ job.at > Len(Steps)

\* generate_decoys: 503 only for an empty profile.
ReturnDecoys ==
    /\ Built /\ job.request.route = "decoys"
    /\ answer' = IF job.files = <<>> THEN Error
                 ELSE Answer("ok",
                        {[f EXCEPT !.path = ContainerPath(@)] : f \in ToSet(job.files)},
                        job.embedded, job.failures, TRUE)
    /\ UNCHANGED <<row, job, faults, drafts>>

\* FilesystemPopulator.populate: a file that cannot be written is an error of
\* its own.
DeployFile ==
    /\ Built /\ job.request.route = "populate" /\ job.sent + job.lost < Len(job.files)
    /\ \/ job' = [job EXCEPT !.sent = @ + 1] /\ UNCHANGED faults
       \/ /\ Fault
          /\ job' = [job EXCEPT !.lost = @ + 1,
                                !.files = RemoveAt(@, job.sent + 1) \o <<@[job.sent + 1]>>]
    /\ UNCHANGED <<row, answer, drafts>>

ReturnPopulated ==
    /\ Built /\ job.request.route = "populate" /\ job.sent + job.lost = Len(job.files)
    /\ answer' = IF job.files = <<>> THEN Error
                 ELSE Answer("ok", ToSet(SubSeq(job.files, 1, job.sent)), {}, <<>>,
                             job.lost = 0)
    /\ UNCHANGED <<row, job, faults, drafts>>

Next ==
    \/ \E request \in Requests : Ask(request)
    \/ \E error \in Retried \cup Raised : ModelFails(error)
    \/ \E draft \in (IF job = None THEN {} ELSE Drafts[job.request.route]) \cup {Usual} :
            ModelAnswers(draft)
    \/ \E value \in Values : TokenGenerated(value)
    \/ TokenFails \/ StoreFails \/ Place
    \/ ReturnDecoys \/ DeployFile \/ ReturnPopulated

Spec == Init /\ [][Next]_vars /\ WF_vars(Next)

-----------------------------------------------------------------------------
(* Properties. *)

\* Types, and the bounds of the two nested loops: no call after the last one
\* the client may make, no attempt after the last one of the generator.
DecoyTypeOK ==
    /\ row \in [Values -> {"none", "off", "on"}]
    /\ job # None =>
        /\ job.at \in 1 .. Len(Steps) + 1
        /\ job.calls \in 0 .. LlmRetries - 1 /\ job.tries \in 0 .. MaxRetries
        /\ job.held \in [TokenTypes -> Values \cup {None}]
        /\ job.exported \in 0 .. ExportRows
        /\ job.embedded \subseteq Values
    /\ answer # None => job # None /\ answer.status \in {"ok", "nothing", "error"}

\* A credential the model wrote that is still there: the pattern for AWS
\* secret keys takes one value per line, so of two on a line the first stays.
Shadowed(secrets, i) ==
    /\ secrets[i].of = "aws_secret_key"
    /\ \E j \in (i + 1) .. Len(secrets) : secrets[j].of = "aws_secret_key"

\* The body of a private key the model wrote, whose BEGIN line is gone.
KeyBody(secret) == secret.of = "private_key" /\ ~Found(secret)

\* What leaves the generator is clean, whichever attempt it came from and
\* whether or not its checks passed: a credential keeps the model's own bytes
\* only as a key body that no BEGIN line introduces, or as the shadowed one
\* (and that text is not called valid unless its line says honeytoken), and no
\* text for the system layer holds an analysis term.
NothingOfTheModelLeaks ==
    (answer # None /\ answer.status = "ok") =>
        \A file \in answer.files : \A n \in DOMAIN file.text :
            LET line == file.text[n] IN
            /\ LayerOf(job.request) = "system" => line.is # "term"
            /\ \A i \in DOMAIN line.secrets :
                line.secrets[i].bytes = "model" =>
                    \/ KeyBody(line.secrets[i])
                    \/ /\ Shadowed(line.secrets, i)
                       /\ (job.request.route = "generate" /\ answer.valid) =>
                            line.is = "marker"

\* The steps a file of the profile is made from.
FeedsOf(path) ==
    {Steps[i].what : i \in {n \in DOMAIN Steps :
        Steps[n].do \in {"write", "token"} /\ Steps[n].path = path}}

Lost(path) == \E i \in DOMAIN job.failures : job.failures[i] \in FeedsOf(path)

\* A profile that is handed over is whole but for its failures: a file is
\* missing exactly when a step it is made from failed (for the export: when
\* every row lost a value), and each honeytoken in a file has an active row
\* and, for the courier, is among the tokens it is told to watch.
AnswerIsWhole ==
    (answer # None /\ answer.status = "ok" /\ job.request.route # "generate") =>
        /\ \A path \in {Steps[i].path : i \in DOMAIN Steps} :
            LET delivered == \E i \in DOMAIN job.files : job.files[i].path = path
            IN  IF path # Export THEN delivered <=> ~Lost(path)
                ELSE /\ delivered <=> job.exported > 0
                     /\ job.exported + Cardinality({i \in DOMAIN job.failures :
                            job.failures[i] \in FeedsOf(path)}) >= ExportRows
        /\ \A file \in answer.files : \A value \in file.values :
            /\ value # None => row[value] = "on"
            /\ value # None
            /\ job.request.route = "decoys" => value \in answer.tokens
        /\ job.request.route = "populate" =>
            Cardinality(answer.files) + job.lost = Len(job.files)
=============================================================================
