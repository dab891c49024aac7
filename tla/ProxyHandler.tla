------------------------------ MODULE ProxyHandler -----------------------------
(***************************************************************************)
(* One request on its way through ServeHTTP: the checks that may refuse    *)
(* it, the three rewritings of its body, each of which starts again from   *)
(* the client's body, and the row that says afterwards what was done.      *)
(* The resolvers and the experiment router answer as their own modules     *)
(* say; here any of their answers is possible.                             *)
(***************************************************************************)
EXTENDS Naturals

CONSTANTS
    Models,
    Replacement,     \* deprecated model -> its replacement
    ArmModels        \* models of experiment arms

ProxyHandlerAssumption ==
    /\ DOMAIN Replacement \subseteq Models /\ ArmModels \subseteq Models
    /\ \A m \in DOMAIN Replacement : Replacement[m] \in Models

VARIABLES
    pc,       \* the next step of ServeHTTP
    q,        \* the request and what the key's settings say
    up,       \* what goes upstream: the model in the body, and the form of the request
    tags,     \* of the row: redirected, arm, original model
    reply     \* status answered, 0 before that

vars == <<pc, q, up, tags, reply>>

None      == "none"
Paths     == {"bare", "openai", "messages", "generate", "converse", "other"}
Named     == {None, "openai", "anthropic", "gemini", "anthropic-openai", "azure", "bedrock", "bedrock-mantle", "unknown"}
Steps     == {"authenticate", "read", "detect", "region", "policy", "proxyKey", "deprecated", "experiment",
              "translate", "forward", "log", "done", "panic"}

NoTags == [redirected |-> FALSE, arm |-> None, original |-> None]

TypeOK ==
    /\ pc \in Steps
    /\ reply \in {0, 200, 400, 401, 403, 502}
    /\ up.model \in Models /\ tags.redirected \in BOOLEAN
    /\ tags.arm \in ArmModels \cup {None}

\* The body of the request: a JSON object, the JSON null, or something else.  A
\* Bedrock or Gemini request has its model in the path, which nothing rewrites.
Init ==
    /\ pc = "authenticate"
    /\ q \in [path : Paths, named : Named, body : {"object", "null", "other"}, model : Models,
              behavior : {"passthrough", "redirect", "warn"}, org : BOOLEAN]
    /\ up = [model |-> q.model, body |-> "client", warned |-> FALSE, path |-> "as asked"]
    /\ tags = NoTags
    /\ reply = 0

(***************************************************************************)
(* Detection: the provider named in the header, else the path.             *)
(***************************************************************************)
detectFromPath(path) ==
    CASE path \in {"bare", "openai"} -> "openai"      \* NormalizeOpenAIPath adds /v1 to the bare one
      [] path = "messages" -> "anthropic"
      [] path = "generate" -> "gemini"
      [] path = "converse" -> "bedrock"
      [] OTHER -> "unknown"

Detect == IF q.named # None THEN q.named ELSE detectFromPath(q.path)

InPath == Detect = "gemini" \/ (Detect = "bedrock" /\ q.path = "converse")

\* ExtractModel, or for Bedrock the model in the path; "unknown" stands for no model.
RequestedModel ==
    IF Detect = "bedrock" THEN IF q.path = "converse" THEN q.model ELSE None
    ELSE IF q.body = "object" /\ ~InPath THEN q.model ELSE "unknown"

LoggedModel == IF Detect = "bedrock" THEN None ELSE RequestedModel

(***************************************************************************)
(* The steps before the body is rewritten.                                 *)
(***************************************************************************)
Go(step)       == pc' = step /\ UNCHANGED <<q, up, tags, reply>>
Refuse(status) == pc' = "done" /\ reply' = status /\ UNCHANGED <<q, up, tags>>

Authenticate == pc = "authenticate" /\ (Go("read") \/ Refuse(401))
ReadBody     == pc = "read"         /\ (Go("detect") \/ Refuse(400))

DetectProvider ==
    /\ pc = "detect"
    /\ IF Detect = "unknown" THEN Refuse(400)
       ELSE IF Detect \in {"bedrock", "bedrock-mantle"} THEN Go("region") ELSE Go("policy")

\* The region of the header, or of the host where there is no header.
Region   == pc = "region"   /\ (Go("policy") \/ Refuse(400))
Policy   == pc = "policy"   /\ (Go("proxyKey") \/ Refuse(403))
ProxyKey == pc = "proxyKey" /\ (Go("deprecated") \/ Refuse(401))

(***************************************************************************)
(* The rewritings.                                                         *)
(***************************************************************************)
\* OverrideModel fails on what is not an object; on null the handler panics.
Overridden(m) == [up EXCEPT !.body = "overridden", !.model = IF InPath THEN @ ELSE m]
Panic         == pc' = "panic" /\ UNCHANGED <<q, up, tags, reply>>

Lookup(m) == m \in DOMAIN Replacement

Deprecated ==
    /\ pc = "deprecated"
    /\ IF ~Lookup(RequestedModel) \/ q.behavior = "passthrough" \/ q.body = "other"
       THEN Go("experiment")
       ELSE IF q.body = "null" THEN Panic
       ELSE /\ pc' = "experiment"
            /\ up' = [Overridden(Replacement[RequestedModel]) EXCEPT !.warned = q.behavior = "warn"]
            /\ tags' = [tags EXCEPT !.redirected = TRUE, !.original = RequestedModel]
            /\ UNCHANGED <<q, reply>>

\* The tags of the row; kept whether applied or not, a mutant of the next.
KeepAssignment(arm)  == [tags EXCEPT !.arm = arm, !.original = LoggedModel]
ClearIfFailed(arm)   == IF q.body = "other" THEN tags ELSE KeepAssignment(arm)

\* The override starts from the client's body: it takes the place of the redirect,
\* whose tag stays.
Experiment ==
    /\ pc = "experiment"
    /\ \/ Go("translate")
       \/ /\ q.org
          /\ \E arm \in ArmModels :
                IF q.body = "null" THEN Panic
                ELSE /\ pc' = "translate"
                     /\ up' = IF q.body = "other" THEN up ELSE Overridden(arm)
                     /\ tags' = ClearIfFailed(arm)
                     /\ UNCHANGED <<q, reply>>

\* Translation starts from the client's body once more.  A body it cannot decode
\* is forwarded as it is.
Translate ==
    /\ pc = "translate"
    /\ \/ Go("forward")
       \/ /\ Detect = "anthropic-openai" /\ q.body # "other"
          /\ pc' = "forward"
          /\ up' = [up EXCEPT !.body = "translated", !.model = q.model, !.path = "/v1/messages"]
          /\ UNCHANGED <<q, tags, reply>>

(***************************************************************************)
(* Forwarding and the row.                                                 *)
(***************************************************************************)
\* An upstream that cannot be reached, or whose buffered answer breaks off, leaves
\* no row.
Answer ==
    \/ Refuse(502)
    \/ pc' = "log" /\ reply' \in {200, 400} /\ UNCHANGED <<q, up, tags>>

ForwardStream == pc = "forward" /\ Detect # "anthropic-openai" /\ Answer
Forward       == pc = "forward" /\ Detect = "anthropic-openai" /\ Answer

LogAndFinish == pc = "log" /\ Go("done")

Next ==
    \/ Authenticate \/ ReadBody \/ DetectProvider \/ Region \/ Policy \/ ProxyKey
    \/ Deprecated \/ Experiment \/ Translate \/ ForwardStream \/ Forward \/ LogAndFinish

Spec == Init /\ [][Next]_vars
-----------------------------------------------------------------------------
\* What the row says was asked of the upstream: the arm's model, else the
\* replacement, else what the client asked for.
Told == IF tags.arm # None THEN tags.arm
        ELSE IF tags.redirected THEN Replacement[tags.original] ELSE q.model

\* Where the model is in the body and the body is not translated, the row tells
\* which model was asked of the upstream, however many of the overrides applied or
\* failed, and what the client had asked for if that is another one.
TagsTellWhatWasSent ==
    pc = "log" /\ ~InPath /\ Detect \notin {"bedrock", "anthropic-openai"} =>
        /\ up.model = Told
        /\ tags.original = IF tags = NoTags THEN None ELSE q.model

\* handler.go: the assignment is cleared "so we don't tag the request log with an
\* experiment that wasn't actually applied".
ExperimentTagsAreApplied == pc = "log" /\ tags.arm # None => up.model = tags.arm
=============================================================================
