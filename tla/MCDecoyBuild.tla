---------------------------- MODULE MCDecoyBuild ----------------------------
(* One request of each route, with the drafts a model may return instead of *)
(* a usual one.                                                             *)
EXTENDS DecoyBuild, TLC

CONSTANTS v1, v2

FineLook == Look(100, TRUE, 4, 75, 0, FALSE, FALSE)
PoorLook == Look(20, FALSE, 1, 50, 6, TRUE, TRUE)

Draft(lines, look, flaws) == [lines |-> lines, look |-> look, flaws |-> flaws]

MCUsual == Draft(<<Line("plain", <<>>)>>, FineLook, {})

Model(provider) ==
    Secret(provider, "model", IF provider \in GitHub THEN "checksum" ELSE "real")

Bare == {Line(kind, <<>>) : kind \in Kinds}
Leaking ==
    {Line("plain", <<Model(p)>>) :
        p \in {"aws_access_key", "aws_secret_key", "github_token", "slack_token",
               "private_key", "generic"}}
    \cup {Line(kind, <<Model("aws_secret_key"), Model("aws_secret_key")>>) :
            kind \in {"plain", "marker", "term"}}

\* Every text of one or two lines, every three-line text of the kinds whose
\* order matters, and one text of many comments.
Texts ==
    [1 .. 1 -> Bare \cup Leaking] \cup [1 .. 2 -> Bare \cup Leaking]
    \cup {<<a, b, c>> : a, b, c \in {Line(kind, <<>>) :
            kind \in {"plain", "preamble", "note", "fence", "heading"}}}
    \cup {[i \in 1 .. 4 |-> Line("todo", <<>>)]}

\* A blank answer is a text without lines.
TextDrafts ==
    {Draft(text, FineLook, {}) : text \in Texts}
    \cup {Draft(<<>>, PoorLook, {})}
    \cup {Draft(<<line, Line("plain", <<>>)>>, PoorLook, {"parse", "quotes"}) :
            line \in Bare \cup Leaking}

\* A profile meets a few of them, the long ones of "decoys" fewer.
DecoyDrafts ==
    {Draft(<<Line("term", <<>>)>>, FineLook, {}),
     Draft(<<Line("plain", <<Model("aws_access_key"), Model("private_key")>>)>>, FineLook, {}),
     Draft(<<Line("nearterm", <<>>)>>, PoorLook, {})}

ProfileDrafts ==
    DecoyDrafts \cup
    {Draft(<<line>>, FineLook, {}) :
        line \in {Line("oddfence", <<>>),
                  Line("plain", <<Model("aws_secret_key"), Model("aws_secret_key")>>)}}

MCDrafts == [generate |-> TextDrafts, decoys |-> DecoyDrafts, populate |-> ProfileDrafts]

Artifact(content, type, log, layer, category) ==
    [route |-> "generate", layer |-> layer, category |-> category,
     artifact |-> Write(<<"answer">>, <<content>>, content, type, log)]

MCRequests ==
    {[route |-> "decoys", action |-> action] :
        action \in {"observe", "show_fake_endpoints", "populate_developer_workstation",
                    "serve_minimal_banner", "simulate_cron_jobs",
                    "serve_fake_sensitive_files"}}
    \cup {[route |-> "populate", profile |-> profile] :
            profile \in {"web_server", "database_server"}}
    \cup {Artifact("source_code", "python", None, layer, None) :
            layer \in {"system", "analysis"}}
    \cup {Artifact("config", "yaml", None, "system", None),
          Artifact("document", "generic", None, "system", None),
          Artifact("logs", "syslog", "auth", "system", "system"),
          Artifact("logs", "generic", "audit", "system", "audit")}

Symmetry == Permutations(Values)
=============================================================================
