----------------------------- MODULE Validation ------------------------------
(***************************************************************************)
(* What a KubeTemplatePolicy allows, as the webhook decides it             *)
(* (internal/webhook/kubetemplate_webhook.go) and as the worker decides it *)
(* again before it applies an object (internal/worker/                     *)
(* template_processor.go).                                                 *)
(*                                                                         *)
(* An object is its kind (with group and version), its namespace and the   *)
(* value found under each field path.  A CEL expression is the set of      *)
(* objects or values for which it yields true, for all others it yields    *)
(* false or an error; costly says that it exceeds the webhook's cost or    *)
(* time limit.  A pattern is the set of strings it matches.                *)
(***************************************************************************)
EXTENDS Integers, Sequences

CONSTANTS
  None,          \* an option that is not set; also the namespace of an object without one
  Whole,         \* the fieldPath "", for CEL also "object"
  Strings, EmptyString,
  Null,          \* a field that is there with the value null
  Missing,       \* no such field
  Broken,        \* a field on the way to it is not a map
  Home,          \* the namespace of the KubeTemplates
  MaxTemplates   \* maxTemplatesPerKubeTemplate

\* The first rule for a kind, found by the same loop in both.
Matching(policy, kind) == {i \in DOMAIN policy : policy[i].kind = kind}
matchedRule(policy, kind) ==
  policy[CHOOSE i \in Matching(policy, kind) : \A j \in Matching(policy, kind) : i <= j]

\* An object that names no namespace belongs to that of its KubeTemplate.
InNamespace(obj) == IF obj.namespace = None THEN [obj EXCEPT !.namespace = Home] ELSE obj
-----------------------------------------------------------------------------
(* The webhook.                                                            *)

validateCELRule(cel, x) == ~cel.costly /\ x \in cel.holds

validateFieldCEL(f, obj) ==
  /\ f.cel # None
  /\ IF f.path = Whole THEN validateCELRule(f.cel, obj)
     ELSE LET x == obj.fields[f.path]
          IN x # Broken /\ validateCELRule(f.cel, IF x = Missing THEN Null ELSE x)

\* What validateFieldRegex asks for before it needs the compiled pattern.
RegexApplies(f, obj) == f.regex # None /\ f.path # Whole /\ obj.fields[f.path] \in Strings

validateFieldRange(f, obj) ==
  /\ f.path # Whole
  /\ f.min # None \/ f.max # None
  /\ obj.fields[f.path] \in Int
  /\ f.min # None => obj.fields[f.path] >= f.min
  /\ f.max # None => obj.fields[f.path] <= f.max

validateFieldRequired(f, obj) ==
  f.path # Whole /\ obj.fields[f.path] \notin {Broken, Missing, Null, EmptyString}

validateFieldForbidden(f, obj) == f.path # Whole /\ obj.fields[f.path] = Missing

\* One field validation; for a regular expression, re is the compiled pattern.
FieldValid(f, obj, re) ==
  \/ f.type = "cel" /\ validateFieldCEL(f, obj)
  \/ f.type = "regex" /\ RegexApplies(f, obj) /\ re.compiles /\ obj.fields[f.path] \in re.matches
  \/ f.type = "range" /\ validateFieldRange(f, obj)
  \/ f.type = "required" /\ validateFieldRequired(f, obj)
  \/ f.type = "forbidden" /\ validateFieldForbidden(f, obj)

\* What both check of an object, apart from CEL: kind and namespace.
Permitted(policy, obj) ==
  /\ Matching(policy, obj.kind) # {}
  /\ obj.namespace \in matchedRule(policy, obj.kind).targets

\* What the webhook checks of one template before its field validations.
TemplateValid(policy, template) ==
  LET obj == InNamespace(template.obj) IN
    /\ ~template.huge /\ ~template.garbled
    /\ Permitted(policy, obj)
    /\ LET cel == matchedRule(policy, obj.kind).cel IN cel # None => validateCELRule(cel, obj)

FieldValidations(policy, template) ==
  matchedRule(policy, InNamespace(template.obj).kind).fields

\* What the webhook promises to accept: every template and every field validation of
\* its rule passes, each with its own pattern.
Complies(policy, templates) ==
  /\ Len(templates) <= MaxTemplates
  /\ \A t \in DOMAIN templates :
       /\ TemplateValid(policy, templates[t])
       /\ LET fields == FieldValidations(policy, templates[t]) IN
            \A i \in DOMAIN fields :
              FieldValid(fields[i], InNamespace(templates[t].obj), fields[i].regex)
-----------------------------------------------------------------------------
(* The worker.                                                             *)

validateWithCEL(cel, obj) == obj \in cel.holds

\* Mutant: the worker does not fill in the namespace.
ProcessedAsWritten(policy, template) ==
  /\ Permitted(policy, template.obj)
  /\ LET cel == matchedRule(policy, template.obj.kind).cel
     IN cel # None => validateWithCEL(cel, template.obj)

\* processItem goes on to apply this template.  One that does not parse or that the
\* policy does not allow is passed over.
Processed(policy, template) ==
  LET obj == InNamespace(template.obj) IN
    /\ Permitted(policy, obj)
    /\ LET cel == matchedRule(policy, obj.kind).cel IN cel # None => validateWithCEL(cel, obj)

Applied(policy, templates) ==
  {t \in DOMAIN templates : ~templates[t].garbled /\ Processed(policy, templates[t])}
=============================================================================
