------------------------------- MODULE Triage -------------------------------
(***************************************************************************)
(* How an IT request is read: the keyword rules (triage.classify), the     *)
(* model that is asked when they are unsure (llm.call) and the merge of    *)
(* its answer into their reading (triage.llm_fallback).                    *)
(*                                                                         *)
(* A text is what the keyword tables find in it.                           *)
(***************************************************************************)
EXTENDS Naturals, FiniteSets

CONSTANTS
    Services, Resources, Products,   \* codes of the three keyword tables
    CriticalCodes,                   \* CRITICAL_SERVICES
    MaxRetries                       \* settings.llm_max_retries

ASSUME TriageAssumption ==
    /\ "none" \notin Services \cup Resources \cup Products
    /\ CriticalCodes \subseteq Services \cup Resources
    /\ MaxRetries \in {0, 1}

None == "none"
Intents == {"IT_INCIDENT", "PERMISSION_REQUEST", "SOFTWARE_REQUEST", "ASSET_REQUEST"}
Places == {"dev", "staging", "production"}
Cues == {"restart", "cache"}

Texts ==
    [permission : BOOLEAN, software : BOOLEAN, asset : BOOLEAN, incident : BOOLEAN,
     verb : BOOLEAN, paid : BOOLEAN, access_level : BOOLEAN,
     service : Services \cup {None}, resource : Resources \cup {None},
     product : Products \cup {None}, environment : Places \cup {None},
     cue : Cues \cup {None}]

Readings ==
    [intent : Intents, service : Services \cup {None}, resource : Resources \cup {None},
     product : Products \cup {None}, environment : Places \cup {None},
     access_level : BOOLEAN, urgent : BOOLEAN, needs_approval : BOOLEAN,
     missing : SUBSET {"service", "resource", "software", "environment"},
     matched : BOOLEAN]

-----------------------------------------------------------------------------
(* classify.                                                               *)

SoftwareHit(t) == t.product # None \/ t.software

\* The first rule that matches; a fault without a request verb comes first.
ResolveIntent(t) ==
    LET acquisition == /\ SoftwareHit(t) /\ ~t.access_level
                       /\ t.paid \/ t.resource = None
    IN
    IF t.incident /\ ~t.verb THEN "IT_INCIDENT"
    ELSE IF t.permission /\ ~acquisition THEN "PERMISSION_REQUEST"
    ELSE IF SoftwareHit(t) THEN "SOFTWARE_REQUEST"
    ELSE IF t.asset THEN "ASSET_REQUEST"
    ELSE "IT_INCIDENT"

NeedsApproval(intent, environment, paid) ==
    \/ intent \in {"PERMISSION_REQUEST", "ASSET_REQUEST"}
    \/ intent = "SOFTWARE_REQUEST" /\ paid
    \/ intent = "IT_INCIDENT" /\ environment = "production"

Missing(r) ==
    {field \in {"service", "resource", "software", "environment"} :
        \/ field = "service" /\ r.intent = "IT_INCIDENT" /\ r.service = None
        \/ field = "resource" /\ r.intent = "PERMISSION_REQUEST" /\ r.resource = None
        \/ field = "software" /\ r.intent = "SOFTWARE_REQUEST" /\ r.product = None
        \/ /\ field = "environment" /\ r.environment = None
           /\ r.intent \in {"IT_INCIDENT", "PERMISSION_REQUEST"}}

\* _priority; below urgent nothing downstream tells the priorities apart.
Urgent(r) ==
    /\ r.environment = "production"
    /\ (IF r.service # None THEN r.service ELSE r.resource) \in CriticalCodes

\* Everything that is computed from intent and entities.
Derive(r, paid) ==
    [r EXCEPT !.urgent = Urgent(r),
              !.needs_approval = NeedsApproval(r.intent, r.environment, paid),
              !.missing = Missing(r)]

Classify(t) ==
    LET intent == ResolveIntent(t)
        Only(i, code) == IF intent = i THEN code ELSE None
    IN Derive([intent |-> intent,
               service |-> Only("IT_INCIDENT", t.service),
               resource |-> Only("PERMISSION_REQUEST", t.resource),
               product |-> Only("SOFTWARE_REQUEST", t.product),
               environment |-> t.environment,
               access_level |-> intent = "PERMISSION_REQUEST" /\ t.access_level,
               urgent |-> FALSE, needs_approval |-> FALSE, missing |-> {},
               matched |-> t.permission \/ SoftwareHit(t) \/ t.asset \/ t.incident],
              t.paid)

\* Confidence in percent: the constants of _confidence.
Confidence(r) ==
    LET entities == {e \in {"service", "resource", "product", "environment"} : r[e] # None}
                        \cup (IF r.access_level THEN {"access_level"} ELSE {})
    IN IF ~r.matched THEN 20
       ELSE IF Cardinality(entities) > 4 THEN 95
       ELSE 55 + 10 * Cardinality(entities)

NeedsFallback(r, threshold) == Confidence(r) < threshold

-----------------------------------------------------------------------------
(* One call of the model.                                                  *)

Replies == {"answer", "invalid_output", "parse_error", "timeout", "overloaded", "rejected"}
Retryable == {"timeout", "overloaded"}

Attempts == 1..(1 + MaxRetries)

\* The reply call returns: the first that is not retried, or the last allowed.
LastAsked(replies) ==
    CHOOSE n \in Attempts :
        /\ replies[n] \notin Retryable \/ n = 1 + MaxRetries
        /\ \A m \in 1..(n - 1) : replies[m] \in Retryable

Status(replies) ==
    LET reply == replies[LastAsked(replies)] IN
    CASE reply = "answer" -> "success"
      [] reply \in {"overloaded", "rejected"} -> "provider_error"
      [] OTHER -> reply

\* What a call may come back with; a model that is not ready is not asked.
Outcomes(ready) ==
    IF ready THEN {Status(replies) : replies \in [Attempts -> Replies]} ELSE {"disabled"}

-----------------------------------------------------------------------------
(* The model's answer and the merge.                                       *)

\* Fields outside the vocabularies are dropped, so they are none; an intent
\* outside them spoils the answer.
Answers ==
    [intent : Intents \cup {None}, service : Services \cup {None},
     resource : Resources \cup {None}, product : Products \cup {None},
     environment : Places \cup {None}]

Fill(known, proposed) == IF known # None THEN known ELSE proposed

Refined(base, answer, t) ==
    LET merged == [base EXCEPT !.intent = answer.intent,
                               !.service = Fill(base.service, answer.service),
                               !.resource = Fill(base.resource, answer.resource),
                               !.product = Fill(base.product, answer.product),
                               !.environment = Fill(base.environment, answer.environment),
                               !.matched = TRUE]
    IN Derive(merged, t.paid)

\* Faulty variant: everything is computed afresh from the model's intent.
LlmFallbackAnew(base, answer, t) ==
    IF answer.intent = None THEN base ELSE Refined(base, answer, t)

\* Approval and urgency only rise.
LlmFallback(base, answer, t) ==
    IF answer.intent = None THEN base
    ELSE LET merged == Refined(base, answer, t) IN
         [merged EXCEPT !.urgent = @ \/ base.urgent,
                        !.needs_approval = @ \/ base.needs_approval]

=============================================================================
