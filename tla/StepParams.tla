------------------------------ MODULE StepParams ------------------------------
(* The parameters of one browser.fill step of a workflow, from its definition *)
(* to the field it types into: the checks of validate_workflow_definition,    *)
(* the redaction of the caller's parameters before they are stored, the       *)
(* rendering of {{name}} templates from what was stored, and the provider's   *)
(* own checks.                                                                *)

\* What the definition may say.  The target is none, or its descriptor declares
\* a password field, another input type, or none.
TargetShapes == {"none", "password", "other", "undeclared"}
StepShapes == [target : TargetShapes, text : {"none", "plain", "template"},
               ref : {"none", "vault", "template", "plain"}, selector : BOOLEAN, long : BOOLEAN]

\* What the caller passes for the template's name.
Arguments == {"missing", "null", "list", "vault", "plain"}

VARIABLES
    step,       \* the step as defined
    secretKey,  \* the template's name hints at a secret
    stored,     \* run_params of the row
    filled,     \* rendered text and value_ref
    typed,      \* what reached the field
    fillPhase   \* defined, accepted, started, rendered, typed, refused

fillVars == <<step, secretKey, stored, filled, typed, fillPhase>>

\* _is_vault_or_placeholder
ReferenceShaped(ref) == ref \in {"vault", "template"}

\* A mutant: only a fill without a target must use a reference.
FillValid_TargetOnly(s) ==
    /\ s.target = "none" => s.ref # "none"
    /\ s.ref # "none" => ReferenceShaped(s.ref)
    /\ ~(s.text # "none" /\ s.ref # "none")

\* A fill of a password field, or of a field nothing is said about, takes its
\* value by reference, and no fill has both.
FillValid(s) ==
    /\ s.target \in {"none", "password"} => s.ref # "none"
    /\ s.ref # "none" => ReferenceShaped(s.ref)
    /\ ~(s.text # "none" /\ s.ref # "none")

\* A target descriptor is the one way to name the element.
InjectTarget(s) == s.target # "none" => ~s.selector

\* The parameters of all steps together have a bound.
CharBudget(s) == ~s.long

\* With templates replaced by a token, the action's own schema wants exactly
\* one value and one way to name the element.
SchemaValid(s) == ((s.text = "none") # (s.ref = "none")) /\ (s.target # "none" \/ s.selector)

ValidateStep ==
    /\ fillPhase = "defined"
    /\ fillPhase' = IF CharBudget(step) /\ FillValid(step) /\ InjectTarget(step) /\ SchemaValid(step)
                    THEN "accepted" ELSE "refused"
    /\ UNCHANGED <<step, secretKey, stored, filled, typed>>

\* redact_run_params keeps references, and anything under a harmless name.
RedactRunParams(value) ==
    IF value \in {"vault", "missing"} THEN value
    ELSE IF secretKey THEN "redacted" ELSE value

StartWith(value) ==
    /\ fillPhase = "accepted"
    /\ stored' = RedactRunParams(value)
    /\ fillPhase' = "started"
    /\ UNCHANGED <<step, secretKey, filled, typed>>

\* _lookup: a template stands for a scalar that was stored.
Lookup == IF stored \in {"missing", "null", "list"} THEN "fails" ELSE stored

\* _render
Render(value) == IF value = "template" THEN Lookup ELSE value

RenderStep ==
    /\ fillPhase = "started"
    /\ filled' = [text |-> Render(step.text), ref |-> Render(step.ref)]
    /\ fillPhase' = IF "fails" \in {filled'.text, filled'.ref} THEN "refused" ELSE "rendered"
    /\ UNCHANGED <<step, secretKey, stored, typed>>

\* browser.fill takes exactly one value, and a reference only to its vault.
Fill ==
    /\ fillPhase = "rendered"
    /\ IF filled.ref \in {"none", "vault"} /\ ((filled.text = "none") # (filled.ref = "none"))
       THEN fillPhase' = "typed" /\ typed' = IF filled.ref = "vault" THEN "secret" ELSE filled.text
       ELSE fillPhase' = "refused" /\ UNCHANGED typed
    /\ UNCHANGED <<step, secretKey, stored, filled>>

FillInit ==
    /\ step \in StepShapes /\ secretKey \in BOOLEAN
    /\ stored = "missing" /\ filled = [text |-> "none", ref |-> "none"] /\ typed = "nothing"
    /\ fillPhase = "defined"

FillNext ==
    \/ ValidateStep \/ RenderStep \/ Fill
    \/ \E value \in Arguments : StartWith(value)

FillSpec == FillInit /\ [][FillNext]_fillVars

-----------------------------------------------------------------------------
\* Whatever the definition and the caller's parameters: what is typed into a
\* declared password field was resolved from the vault, and what is stored with
\* the run under a name that hints at a secret is a reference or nothing.
SecretsByReference ==
    /\ fillPhase = "typed" /\ step.target = "password" => typed = "secret"
    /\ secretKey => stored \in {"vault", "missing", "redacted"}
=============================================================================
