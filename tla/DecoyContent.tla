---------------------------- MODULE DecoyContent ----------------------------
(***************************************************************************)
(* What the content generator does to one piece of model output: cleaning, *)
(* replacement of credentials, and the three validators                    *)
(* (ai-brain/content-generator/generators/base.py and validators/).        *)
(*                                                                         *)
(* A text is a sequence of lines.  A line is what the regular expressions  *)
(* see of it: its kind, and the credentials it holds in order.  A draft is *)
(* a text with the outcome of the checks that read its shape.              *)
(***************************************************************************)
EXTENDS Integers, FiniteSets, SequencesExt

\* The kinds of line the code tells apart.
Kinds ==
    {"plain",     \* native content of the file type
     "preamble",  \* "Here is a script:"
     "trailer",   \* "Hope this helps"
     "note",      \* "Note: ..."
     "fence",     \* a code fence and nothing else
     "oddfence",  \* a code fence followed by more than a language name
     "heading",   \* "# Title"
     "bullet",    \* "- item" or "1. item"
     "json",      \* a line that opens with a brace
     "term",      \* holds an analysis-layer term as a word
     "nearterm",  \* holds such a term inside a longer word
     "marker",    \* a comment that says honeytoken
     "narrating", \* a comment the developer-narration patterns match
     "hack", "todo", "fixme"}

\* A credential of some provider.  bytes says whose text it is; shape says
\* whether the provider's pattern still finds it: "real" yes, "checksum" yes
\* but with a checksum that cannot be right, "broken" no.
Secret(provider, bytes, shape) ==
    [of |-> provider, bytes |-> bytes, shape |-> shape]

Line(kind, secrets) == [is |-> kind, secrets |-> secrets]

\* What a model may write: a credential of its own is one some pattern finds,
\* or the code has no means to call it a credential.
ModelLines ==
    [is : Kinds,
     secrets : Seq([of : STRING, bytes : {"model"}, shape : {"real", "checksum"}])]

Holds(text, kinds) == \E i \in DOMAIN text : text[i].is \in kinds

\* The lines at some positions, in their order: the n-th is at the position up
\* to which there are n.
LinesAt(text, kept) ==
    [n \in 1 .. Cardinality(kept) |->
        text[CHOOSE i \in kept : Cardinality({j \in kept : j <= i}) = n]]

-----------------------------------------------------------------------------
(* sanitize_llm_output. *)

\* How many of its first lines are of one kind.
Leading(text, kind) ==
    LET others == {i \in DOMAIN text : text[i].is # kind}
    IN  IF others = {} THEN Len(text) ELSE Min(others) - 1

\* max_iterations: a phrase goes once in a round.
MaxIterations == 10

\* Preambles go as long as another line follows them.
WithoutPreamble(text) ==
    LinesAt(text, {i \in DOMAIN text :
        i > Leading(text, "preamble") \/ i > MaxIterations \/ i = Len(text)})

\* Whole-line fences, the wrapping pair included.
WithoutFences(text) == LinesAt(text, {i \in DOMAIN text : text[i].is # "fence"})

WithoutHeadings(text) == SubSeq(text, Leading(text, "heading") + 1, Len(text))

\* A "Note:" takes everything after it along; the other phrases only go when
\* they come last.  Neither is looked for on the first line.
WithoutTrailer(text) ==
    LET notes == {i \in 2 .. Len(text) : text[i].is = "note"}
        cut   == IF notes = {} THEN text ELSE SubSeq(text, 1, Min(notes) - 1)
        kept  == {i \in DOMAIN cut :
                    i = 1 \/ cut[i].is # "trailer" \/ i <= Len(cut) - MaxIterations}
    IN  IF kept = {} THEN cut ELSE SubSeq(cut, 1, Max(kept))

\* Comments of source code and configuration: no HACK, two TODOs, one FIXME,
\* no narration.
Earlier(text, i, kind) == Cardinality({j \in 1 .. (i - 1) : text[j].is = kind})

Verbose(text, i) ==
    \/ text[i].is \in {"hack", "narrating"}
    \/ text[i].is = "todo" /\ Earlier(text, i, "todo") >= 2
    \/ text[i].is = "fixme" /\ Earlier(text, i, "fixme") >= 1

WithoutNarration(text) == LinesAt(text, {i \in DOMAIN text : ~Verbose(text, i)})

Sanitized(text, contentType) ==
    LET bare   == WithoutFences(WithoutPreamble(text))
        opened == IF contentType = "document" THEN bare ELSE WithoutHeadings(bare)
        ended  == WithoutTrailer(opened)
    IN  IF contentType \in {"source_code", "config"}
        THEN WithoutNarration(ended) ELSE ended

-----------------------------------------------------------------------------
(* SecurityValidator. *)

GitHub == {"github_token", "github_oauth"}

\* No rule of their own: overwritten with the letter X.
Masked == {"slack_token", "slack_webhook", "google_oauth", "generic"}

Found(secret) == secret.shape # "broken"

\* Of a private key the pattern matches the BEGIN line, and only that is
\* overwritten: the key under it stays.  A new AWS secret key of one character
\* too many is found again when it begins with "=", which the greedy part of
\* the pattern takes.
Regenerated(secret, again) ==
    IF secret.of \in Masked THEN Secret(secret.of, "mask", "broken")
    ELSE IF secret.of = "private_key" THEN Secret(secret.of, secret.bytes, "broken")
    ELSE IF secret.of \in GitHub THEN Secret(secret.of, "code", "checksum")
    ELSE Secret(secret.of, "code",
                IF secret.of = "aws_secret_key" /\ again THEN "real" ELSE "broken")

\* aws_secret_key is found by the name before it, and that part of the
\* pattern is greedy: one match per line, at the last value.
Reached(secrets, i) ==
    /\ Found(secrets[i])
    /\ secrets[i].of = "aws_secret_key" =>
        \A j \in (i + 1) .. Len(secrets) : secrets[j].of # "aws_secret_key"

\* again: the lines whose new AWS secret key begins with "=".
RegenerateSecrets(text, again) ==
    [n \in DOMAIN text |->
        [text[n] EXCEPT !.secrets =
            [i \in DOMAIN @ |->
                IF Reached(@, i) THEN Regenerated(@[i], n \in again) ELSE @[i]]]]

\* validate: what is still found is an error unless its line says honeytoken
\* or it is a GitHub token whose checksum is wrong.  A value only the generic
\* rule finds is a warning.
SecurityError(line) ==
    /\ line.is # "marker"
    /\ \E i \in DOMAIN line.secrets :
        /\ Found(line.secrets[i])
        /\ line.secrets[i].of # "generic"
        /\ line.secrets[i].of \in GitHub => line.secrets[i].shape = "real"

SecurityValid(text) == \A n \in DOMAIN text : ~SecurityError(text[n])

-----------------------------------------------------------------------------
(* RealismValidator. *)

\* Comment lines; a log may not hold one.
Comments == {"narrating", "hack", "todo", "fixme"}

PlainLogs == {"auth", "syslog", "bash_history", "apache_access", "nginx_access"}

Count(text, kinds) == Cardinality({i \in DOMAIN text : text[i].is \in kinds})

HardFail(text, type, log) ==
    \/ Holds(text, {"term"})
    \/ log \in PlainLogs /\ 10 * Count(text, {"json"}) > 3 * Len(text)
    \/ Holds(text, {"fence", "oddfence"})
    \/ /\ log \in PlainLogs \/ type \in {"syslog", "access_log"}
       /\ Holds(text, {"heading", "bullet"} \cup Comments)

\* How a draft reads apart from its lines: the share of the file type's own
\* checks it meets, whether it is long, its structural features (of five), the
\* entropy of its characters in percent, its placeholders, whether it repeats,
\* whether many lines share one indentation.
Look(checks, long, features, entropy, placeholders, repeats, uniform) ==
    [checks |-> checks, long |-> long, features |-> features, entropy |-> entropy,
     placeholders |-> placeholders, repeats |-> repeats, uniform |-> uniform]

\* Log formats are checked line by line; the other types by what the draft
\* holds.  In percent.
Native(text) == Count(text, {"plain", "term", "nearterm"})

PatternScore(text, type, look) ==
    IF type \in {"syslog", "access_log"}
    THEN 25 * ((IF 10 * Native(text) > 8 * Len(text) THEN 2
                ELSE IF 10 * Native(text) > 5 * Len(text) THEN 1 ELSE 0)
               + (IF look.long THEN 1 ELSE 0)
               + (IF Holds(text, {"json"}) THEN 0 ELSE 1))
    ELSE look.checks

StructureScore(look) == 20 * look.features

AuthenticityScore(look) ==
    100 - (IF look.placeholders > 6 THEN 30 ELSE 5 * look.placeholders)
        - (IF look.repeats THEN 20 ELSE 0) - (IF look.uniform THEN 10 ELSE 0)

NarrationScore(text) ==
    LET hits == Count(text, {"term"})
    IN  100 - (IF text # <<>> /\ Head(text).is = "preamble" THEN 30 ELSE 0)
            - (IF Holds(text, {"fence", "oddfence"}) THEN 20 ELSE 0)
            - (IF hits > 4 THEN 40 ELSE 10 * hits)

\* The weighted sum, in hundredths of a percent.
RealismScore(text, type, look) ==
    15 * (IF text = <<>> THEN 0 ELSE look.entropy) + 25 * PatternScore(text, type, look)
    + 25 * StructureScore(look) + 15 * AuthenticityScore(look)
    + 20 * NarrationScore(text)

RealismValid(text, type, log, layer, look) ==
    /\ layer = "system" => ~HardFail(text, type, log)
    /\ RealismScore(text, type, look) >= 7000

-----------------------------------------------------------------------------
(* SyntaxValidator. *)

\* The flaws each validator reports as errors; the rest are warnings.
SyntaxErrors ==
    [python     |-> {"parse"},
     javascript |-> {"braces", "parentheses", "brackets"},
     shell      |-> {"quotes", "fi"},
     go         |-> {"package", "braces"},
     yaml       |-> {"parse"},
     json       |-> {"parse"},
     nginx      |-> {"braces"}]

SyntaxValid(text, type, flaws) ==
    IF type \in DOMAIN SyntaxErrors THEN flaws \cap SyntaxErrors[type] = {}
    ELSE text # <<>>

-----------------------------------------------------------------------------
(* The last resort of _generate_and_enforce. *)

\* Lines with an analysis term anywhere in them, then the fences.
ScrubTerms(text) ==
    LinesAt(text, {i \in DOMAIN text : text[i].is \notin {"term", "nearterm"}})

Scrubbed(text) == WithoutFences(ScrubTerms(text))

\* GeneratedContent.is_valid.
IsValid(text, as, layer, draft) ==
    /\ SyntaxValid(text, as.type, draft.flaws)
    /\ RealismValid(text, as.type, as.log, layer, draft.look)
    /\ SecurityValid(text)

(* Mutant: credentials are replaced only in a text the validator flags. *)
AttemptReplacingFlagged(draft, contentType, again) ==
    LET text == Sanitized(draft.lines, contentType)
    IN  IF SecurityValid(text) THEN text ELSE RegenerateSecrets(text, again)

\* One attempt: what the loop holds before it validates.
Attempt(draft, contentType, again) ==
    RegenerateSecrets(Sanitized(draft.lines, contentType), again)
=============================================================================
