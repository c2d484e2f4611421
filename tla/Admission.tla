----------------------------- MODULE Admission -------------------------------
(***************************************************************************)
(* The validating webhook at work: requests handled at the same time by    *)
(* goroutines of one process that share regexCache, a Go map without a     *)
(* lock, and the worker that later checks what was admitted.               *)
(*                                                                         *)
(* Cache.Get may return any policy, or an error: PolicyCache says which,   *)
(* and when.  When a goroutine accesses the map while another writes it,   *)
(* the Go runtime may end the process, and of two entries written at the   *)
(* same time one may be lost; otherwise the accesses happen in some order. *)
(***************************************************************************)
EXTENDS Validation

CONSTANTS
  Names,         \* KubeTemplates
  Handlers,      \* goroutines of the webhook server
  Specs,         \* spec.templates of the requests: sequences of templates
  Policies,      \* sequences of rules
  Idle, NoObject,
  MaxRequests    \* bound on the requests

VARIABLES
  request,       \* the request of each handler and how far its validation is, or Idle
  made,          \* regexCache is no longer nil
  regexCache,    \* CacheKey -> compiled pattern; empty when nil
  store,         \* the KubeTemplates, with the policy they were admitted under
  processed,     \* the policy under which the worker last processed each, and what it applied
  requests       \* how many requests there were

admissionVars == <<request, made, regexCache, store, processed, requests>>

AdmissionInit ==
  /\ request = [h \in Handlers |-> Idle]
  /\ made = FALSE /\ regexCache = <<>>
  /\ store = [n \in Names |-> NoObject]
  /\ processed = [n \in Names |-> NoObject]
  /\ requests = 0

\* Where a validation is: "template" t, "field" f of it, one of the accesses to the
\* map that this field needs, or its end.
Ends == {"allowed", "denied", "failed"}
Accesses == {"make", "lookup", "insert", "inserting"}
Requests ==
  [name : Names, operation : {"create", "update"}, templates : Specs, policy : Policies \union {None},
   t : Nat, f : Nat, at : {"template", "field"} \union Accesses \union Ends]

ASSUME IdleAssumption == Idle \notin Requests /\ None \notin Policies

\* The templates of a spec and the field validations of a rule are lists.
IsList(s) == Len(s) \in Nat /\ DOMAIN s = 1..Len(s)
ASSUME ListAssumption ==
  /\ MaxTemplates \in Nat /\ MaxRequests \in Nat
  /\ \A templates \in Specs : IsList(templates)
  /\ \A policy \in Policies : \A i \in DOMAIN policy :
       IsList(matchedRule(policy, policy[i].kind).fields)

\* Only patterns that compile are remembered.
AdmissionTypeOK ==
  /\ request \in [Handlers -> Requests \union {Idle}]
  /\ made \in BOOLEAN
  /\ \A k \in DOMAIN regexCache : regexCache[k].compiles
  /\ requests \in 0..MaxRequests

At(h, place) == request[h] # Idle /\ request[h].at = place
Go(h, place) == request' = [request EXCEPT ![h].at = place]
Template(h) == request[h].templates[request[h].t]
Fields(h) == FieldValidations(request[h].policy, Template(h))
Field(h) == Fields(h)[request[h].f]
Object(h) == InNamespace(Template(h).obj)
-----------------------------------------------------------------------------
\* ValidateCreate and ValidateUpdate: the policy, the number of templates.
Receive(h, n, templates, policy) ==
  /\ request[h] = Idle /\ requests < MaxRequests
  /\ requests' = requests + 1
  /\ request' = [request EXCEPT ![h] =
       [name |-> n, operation |-> IF store[n] = NoObject THEN "create" ELSE "update",
        templates |-> templates, policy |-> policy, t |-> 1, f |-> 0,
        at |-> IF policy = None \/ Len(templates) > MaxTemplates THEN "denied"
               ELSE IF Len(templates) = 0 THEN "allowed" ELSE "template"]]
  /\ UNCHANGED <<made, regexCache, store, processed>>

\* The step after a check that passed: the next field, the next template, or the end.
Advance(h) ==
  \/ /\ request[h].f < Len(Fields(h))
     /\ request' = [request EXCEPT ![h].f = @ + 1, ![h].at = "field"]
  \/ /\ request[h].f >= Len(Fields(h)) /\ request[h].t < Len(request[h].templates)
     /\ request' = [request EXCEPT ![h].t = @ + 1, ![h].f = 0, ![h].at = "template"]
  \/ /\ request[h].f >= Len(Fields(h)) /\ request[h].t >= Len(request[h].templates)
     /\ Go(h, "allowed")

Decide(h, passed) == IF passed THEN Advance(h) ELSE Go(h, "denied")

CheckTemplate(h) ==
  /\ At(h, "template")
  /\ Decide(h, TemplateValid(request[h].policy, Template(h)))
  /\ UNCHANGED <<made, regexCache, store, processed, requests>>

\* A validation that is not a regular expression, or one that fails before the map is
\* needed.  An unknown type fails.
CheckField(h) ==
  /\ At(h, "field")
  /\ ~(Field(h).type = "regex" /\ RegexApplies(Field(h), Object(h)))
  /\ Decide(h, FieldValid(Field(h), Object(h), None))
  /\ UNCHANGED <<made, regexCache, store, processed, requests>>

\* Is there a map?
CheckMap(h) ==
  /\ At(h, "field")
  /\ Field(h).type = "regex" /\ RegexApplies(Field(h), Object(h))
  /\ Go(h, IF made THEN "lookup" ELSE "make")
  /\ UNCHANGED <<made, regexCache, store, processed, requests>>

\* Another handler may have made one, and filled it, in the meantime.
MakeMap(h) ==
  /\ At(h, "make")
  /\ made' = TRUE /\ regexCache' = <<>>
  /\ Go(h, "lookup")
  /\ UNCHANGED <<store, processed, requests>>

\* Mutant: patterns are remembered under the path of their field.
CacheKeyByPath(f) == f.path

CacheKey(f) == f.regex

\* Mutant: the error of Compile is overlooked.
LookupUnchecked(h) ==
  /\ At(h, "lookup")
  /\ IF CacheKey(Field(h)) \in DOMAIN regexCache
     THEN Decide(h, FieldValid(Field(h), Object(h), regexCache[CacheKey(Field(h))]))
     ELSE Go(h, "insert")
  /\ UNCHANGED <<made, regexCache, store, processed, requests>>

LookupRegex(h) ==
  /\ At(h, "lookup")
  /\ IF CacheKey(Field(h)) \in DOMAIN regexCache
     THEN Decide(h, FieldValid(Field(h), Object(h), regexCache[CacheKey(Field(h))]))
     ELSE Go(h, IF Field(h).regex.compiles THEN "insert" ELSE "denied")
  /\ UNCHANGED <<made, regexCache, store, processed, requests>>

BeginInsert(h) ==
  /\ At(h, "insert")
  /\ Go(h, "inserting")
  /\ UNCHANGED <<made, regexCache, store, processed, requests>>

\* The entry is written, then the pattern just compiled is used.
Insert(h) ==
  /\ At(h, "inserting")
  /\ \/ regexCache' = [k \in DOMAIN regexCache \union {CacheKey(Field(h))} |->
                         IF k = CacheKey(Field(h)) THEN Field(h).regex ELSE regexCache[k]]
     \/ (\E g \in Handlers \ {h} : At(g, "inserting")) /\ UNCHANGED regexCache
  /\ Decide(h, FieldValid(Field(h), Object(h), Field(h).regex))
  /\ UNCHANGED <<made, store, processed, requests>>

\* "fatal error: concurrent map read and map write": the process ends, and with
\* failurePolicy=fail all requests that it was handling are refused.
Fatal ==
  /\ \E g, h \in Handlers : g # h /\ At(g, "inserting") /\ \E p \in Accesses : At(h, p)
  /\ made' = FALSE /\ regexCache' = <<>>
  /\ request' = [h \in Handlers |-> IF request[h] = Idle THEN Idle
                                    ELSE [request[h] EXCEPT !.at = "failed"]]
  /\ UNCHANGED <<store, processed, requests>>

Stores(h) ==
  /\ At(h, "allowed")
  /\ request[h].operation = "update" <=> store[request[h].name] # NoObject

\* The API server stores what was allowed, unless the KubeTemplate was deleted or
\* created in the meantime or the API server refuses it for another reason.
Answer(h, accepts) ==
  /\ request[h] # Idle /\ request[h].at \in Ends
  /\ request' = [request EXCEPT ![h] = Idle]
  /\ IF Stores(h) /\ accepts
     THEN /\ store' = [store EXCEPT ![request[h].name] =
                         [templates |-> request[h].templates, policy |-> request[h].policy]]
          /\ processed' = [processed EXCEPT ![request[h].name] = NoObject]
     ELSE UNCHANGED <<store, processed>>
  /\ UNCHANGED <<made, regexCache, requests>>

\* ValidateDelete allows everything.
Remove(n) ==
  /\ store' = [store EXCEPT ![n] = NoObject]
  /\ processed' = [processed EXCEPT ![n] = NoObject]

\* A worker processes the KubeTemplate under the policy it finds; without one it
\* applies nothing.
Process(n, policy) ==
  /\ store[n] # NoObject
  /\ processed' = [processed EXCEPT ![n] =
       [policy |-> policy,
        applied |-> IF policy = None THEN {} ELSE Applied(policy, store[n].templates)]]
  /\ UNCHANGED <<request, made, regexCache, store, requests>>

\* The steps of one request; NamespaceCleanup puts them next to everything else.
Validate(h) ==
  CheckTemplate(h) \/ CheckField(h) \/ CheckMap(h) \/ MakeMap(h) \/ LookupRegex(h)
  \/ BeginInsert(h) \/ Insert(h)
-----------------------------------------------------------------------------
(***************************************************************************)
(* However requests interleave at the shared map, the verdict of each is   *)
(* the one its own policy and patterns give: it is allowed when all its    *)
(* templates and fields comply, and denied otherwise                       *)
(* (validateKubeTemplate, validateFieldRegex).                             *)
(***************************************************************************)
VerdictsRight ==
  \A h \in Handlers : request[h] # Idle =>
    LET complies == request[h].policy # None /\ Complies(request[h].policy, request[h].templates)
    IN (At(h, "allowed") => complies) /\ (At(h, "denied") => ~complies)

(***************************************************************************)
(* The worker, if it finds the policy under which the webhook admitted a   *)
(* KubeTemplate, applies all of it: the second check never contradicts the *)
(* first (validateKubeTemplate, processItem).                              *)
(***************************************************************************)
AdmittedIsApplied ==
  \A n \in Names : processed[n] # NoObject /\ processed[n].policy = store[n].policy =>
    processed[n].applied = DOMAIN store[n].templates
=============================================================================
