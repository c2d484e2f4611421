-------------------------- MODULE AdmissionProofs ----------------------------
(***************************************************************************)
(* The verdicts of the webhook, proved for any number of requests handled  *)
(* at the same time, any policies and any templates; and what the          *)
(* namespace reconciler never does, for any number of KubeTemplates,       *)
(* failing calls, restarts and changes by others.                          *)
(***************************************************************************)
EXTENDS NamespaceCleanup, TLAPS

\* How long, in seconds, the provers may try a leaf.
USE SMTT(15), ZenonT(20)

\* The field validation at which a request is, and the template's object.
FieldsOf(r) == FieldValidations(r.policy, r.templates[r.t])
FieldPasses(policy, template, i) ==
  FieldValid(FieldValidations(policy, template)[i], InNamespace(template.obj),
             FieldValidations(policy, template)[i].regex)
TemplatePasses(policy, template) ==
  /\ TemplateValid(policy, template)
  /\ \A i \in DOMAIN FieldValidations(policy, template) : FieldPasses(policy, template, i)
Passes(r) == r.policy # None /\ Complies(r.policy, r.templates)

\* All that comes before field f of template t has passed; f is 0 until the template
\* itself has.
Progress(r) ==
  /\ r.policy \in Policies /\ Len(r.templates) <= MaxTemplates
  /\ r.t \in DOMAIN r.templates
  /\ \A t \in 1..(r.t - 1) : TemplatePasses(r.policy, r.templates[t])
  /\ r.f # 0 =>
       /\ TemplateValid(r.policy, r.templates[r.t])
       /\ r.f \in DOMAIN FieldsOf(r)
       /\ \A i \in 1..(r.f - 1) : FieldPasses(r.policy, r.templates[r.t], i)

CurrentPasses(r) ==
  IF r.f = 0 THEN TemplateValid(r.policy, r.templates[r.t])
  ELSE FieldPasses(r.policy, r.templates[r.t], r.f)

RequestInv(r) ==
  /\ r.at \in {"template", "field"} \union Accesses => Progress(r)
  /\ r.at = "template" => r.f = 0
  /\ r.at \in {"field"} \union Accesses => r.f # 0
  /\ r.at \in Accesses =>
       FieldsOf(r)[r.f].type = "regex"
       /\ RegexApplies(FieldsOf(r)[r.f], InNamespace(r.templates[r.t].obj))
  /\ r.at \in {"insert", "inserting"} => FieldsOf(r)[r.f].regex.compiles
  /\ r.at = "allowed" => Passes(r)
  /\ r.at = "denied" => ~Passes(r)

RequestsInv ==
  /\ request \in [Handlers -> Requests \union {Idle}]
  /\ \A h \in Handlers : request[h] # Idle => RequestInv(request[h])

\* Every entry of the map is the compiled form of its key.
CacheInv == \A k \in DOMAIN regexCache : regexCache[k] = k /\ k.compiles

VerdictInv == RequestsInv /\ CacheInv
-----------------------------------------------------------------------------
(* One request, step by step.                                              *)

\* Complies asks of every template what the webhook asks of one.
LEMMA CompliesByTemplate ==
  ASSUME NEW policy, NEW templates
  PROVE  Complies(policy, templates) <=>
           /\ Len(templates) <= MaxTemplates
           /\ \A t \in DOMAIN templates : TemplatePasses(policy, templates[t])
  BY DEF Complies, TemplatePasses, FieldPasses

\* The field validations of a rule that matches are a list.
LEMMA FieldsAreList ==
  ASSUME NEW r \in Requests, r.policy \in Policies,
         TemplateValid(r.policy, r.templates[r.t])
  PROVE  IsList(FieldsOf(r))
  <1> DEFINE obj == InNamespace(r.templates[r.t].obj)
  <1>1. PICK i \in DOMAIN r.policy : r.policy[i].kind = obj.kind
    BY DEF TemplateValid, Permitted, Matching
  <1>2. IsList(matchedRule(r.policy, r.policy[i].kind).fields)
    BY <1>1, ListAssumption
  <1>3. FieldsOf(r) = matchedRule(r.policy, r.policy[i].kind).fields
    BY <1>1 DEF FieldsOf, FieldValidations
  <1> QED BY <1>2, <1>3

\* A check that fails denies a request that does not comply.
LEMMA FailureDenies ==
  ASSUME NEW r \in Requests, Progress(r), ~CurrentPasses(r)
  PROVE  ~Passes(r)
  <1>1. ~TemplatePasses(r.policy, r.templates[r.t])
    BY DEF Progress, CurrentPasses, TemplatePasses, FieldsOf
  <1> QED BY <1>1, CompliesByTemplate DEF Passes, Progress

\* With the last field of a template, the template passes.
LEMMA TemplateDone ==
  ASSUME NEW r \in Requests, Progress(r), CurrentPasses(r), r.f >= Len(FieldsOf(r))
  PROVE  \A t \in 1..r.t : TemplatePasses(r.policy, r.templates[t])
  <1>1. TemplateValid(r.policy, r.templates[r.t])
    BY DEF Progress, CurrentPasses
  <1>2. IsList(FieldsOf(r))
    BY <1>1, FieldsAreList DEF Progress
  <1>3. r.f \in Nat
    BY DEF Requests
  <1>4. ASSUME NEW i \in DOMAIN FieldsOf(r) PROVE FieldPasses(r.policy, r.templates[r.t], i)
    <2>1. i \in 1..r.f /\ r.f # 0
      BY <1>2, <1>3 DEF IsList
    <2>2. CASE i = r.f
      BY <2>1, <2>2 DEF CurrentPasses
    <2>3. CASE i # r.f
      BY <2>1, <2>3, <1>3 DEF Progress
    <2> QED BY <2>2, <2>3
  <1>5. TemplatePasses(r.policy, r.templates[r.t])
    BY <1>1, <1>4 DEF TemplatePasses, FieldsOf
  <1>6. r.t \in Nat
    BY DEF Requests
  <1> QED BY <1>5, <1>6 DEF Progress

\* The three ways to go on after a check that passed.
LEMMA NextField ==
  ASSUME NEW r \in Requests, Progress(r), CurrentPasses(r), r.f < Len(FieldsOf(r)),
         NEW s, s = [r EXCEPT !.f = r.f + 1, !.at = "field"]
  PROVE  s \in Requests /\ RequestInv(s)
  <1>1. /\ s \in Requests /\ s.at = "field" /\ s.f = r.f + 1 /\ r.f \in Nat
        /\ s.t = r.t /\ s.policy = r.policy /\ s.templates = r.templates
    <2>1. r.f \in Nat
      BY DEF Requests
    <2>2. PICK n \in Nat : n = r.f + 1
      BY <2>1
    <2>3. s = [r EXCEPT !.f = n, !.at = "field"]
      BY <2>2
    <2>4. /\ s \in Requests /\ s.at = "field" /\ s.f = n
          /\ s.t = r.t /\ s.policy = r.policy /\ s.templates = r.templates
      BY <2>3 DEF Requests
    <2> QED BY <2>1, <2>2, <2>4
  <1>2. TemplateValid(r.policy, r.templates[r.t])
    BY DEF Progress, CurrentPasses
  <1>3. IsList(FieldsOf(r)) /\ FieldsOf(s) = FieldsOf(r)
    BY <1>1, <1>2, FieldsAreList DEF Progress, FieldsOf
  <1>4. s.f \in DOMAIN FieldsOf(s)
    BY <1>1, <1>3 DEF IsList
  <1>5. \A i \in 1..(s.f - 1) : FieldPasses(s.policy, s.templates[s.t], i)
    <2> SUFFICES ASSUME NEW i \in 1..r.f PROVE FieldPasses(r.policy, r.templates[r.t], i)
      BY <1>1
    <2>1. CASE i = r.f
      BY <2>1 DEF CurrentPasses
    <2>2. CASE i # r.f
      BY <2>2, <1>1 DEF Progress
    <2> QED BY <2>1, <2>2
  <1>6. Progress(s)
    BY <1>1, <1>2, <1>4, <1>5 DEF Progress
  <1> QED BY <1>1, <1>6 DEF RequestInv, Accesses

LEMMA NextTemplate ==
  ASSUME NEW r \in Requests, Progress(r), CurrentPasses(r), r.f >= Len(FieldsOf(r)),
         r.t < Len(r.templates),
         NEW s, s = [r EXCEPT !.t = r.t + 1, !.f = 0, !.at = "template"]
  PROVE  s \in Requests /\ RequestInv(s)
  <1>1. /\ s \in Requests /\ s.at = "template" /\ s.f = 0 /\ s.t = r.t + 1 /\ r.t \in Nat
        /\ s.policy = r.policy /\ s.templates = r.templates /\ r.templates \in Specs
    <2>1. r.t \in Nat /\ r.templates \in Specs
      BY DEF Requests
    <2>2. PICK n \in Nat, z \in Nat : n = r.t + 1 /\ z = 0
      BY <2>1
    <2>3. s = [r EXCEPT !.t = n, !.f = z, !.at = "template"]
      BY <2>2
    <2>4. /\ s \in Requests /\ s.at = "template" /\ s.f = z /\ s.t = n
          /\ s.policy = r.policy /\ s.templates = r.templates
      BY <2>3 DEF Requests
    <2> QED BY <2>1, <2>2, <2>4
  <1>2. \A t \in 1..(s.t - 1) : TemplatePasses(s.policy, s.templates[t])
    BY <1>1, TemplateDone
  <1>3. s.t \in DOMAIN s.templates
    BY <1>1, ListAssumption DEF IsList
  <1>4. Progress(s)
    BY <1>1, <1>2, <1>3 DEF Progress
  <1> QED BY <1>1, <1>4 DEF RequestInv, Accesses

LEMMA AllPassed ==
  ASSUME NEW r \in Requests, Progress(r), CurrentPasses(r), r.f >= Len(FieldsOf(r)),
         r.t >= Len(r.templates),
         NEW s, s = [r EXCEPT !.at = "allowed"]
  PROVE  s \in Requests /\ RequestInv(s)
  <1>1. /\ s \in Requests /\ s.at = "allowed" /\ r.t \in Nat
        /\ s.policy = r.policy /\ s.templates = r.templates /\ r.templates \in Specs
    BY DEF Requests, Ends
  <1>2. \A t \in DOMAIN r.templates : TemplatePasses(r.policy, r.templates[t])
    <2>1. \A t \in 1..r.t : TemplatePasses(r.policy, r.templates[t])
      BY TemplateDone
    <2>2. Len(r.templates) \in Nat /\ DOMAIN r.templates = 1..Len(r.templates)
      BY <1>1, ListAssumption DEF IsList
    <2> QED BY <1>1, <2>1, <2>2
  <1>3. Passes(s)
    BY <1>1, <1>2, CompliesByTemplate, IdleAssumption DEF Passes, Progress
  <1> QED BY <1>1, <1>3 DEF RequestInv, Accesses

LEMMA Denial ==
  ASSUME NEW r \in Requests, Progress(r), ~CurrentPasses(r),
         NEW s, s = [r EXCEPT !.at = "denied"]
  PROVE  s \in Requests /\ RequestInv(s)
  <1>1. /\ s \in Requests /\ s.at = "denied"
        /\ s.policy = r.policy /\ s.templates = r.templates
    BY DEF Requests, Ends
  <1>2. ~Passes(s)
    BY <1>1, FailureDenies DEF Passes
  <1> QED BY <1>1, <1>2 DEF RequestInv, Accesses
-----------------------------------------------------------------------------
(* All requests.                                                           *)

\* What one handler does leaves the others' requests alone.
LEMMA OthersKept ==
  ASSUME RequestsInv, NEW h \in Handlers, NEW s,
         request' = [request EXCEPT ![h] = s],
         s = Idle \/ (s \in Requests /\ RequestInv(s))
  PROVE  RequestsInv'
  <1>1. request' \in [Handlers -> Requests \union {Idle}]
    BY DEF RequestsInv
  <1>2. ASSUME NEW g \in Handlers, request'[g] # Idle PROVE RequestInv(request'[g])
    BY <1>2 DEF RequestsInv
  <1> QED BY <1>1, <1>2 DEF RequestsInv

\* The end of a check, as its result demands.
LEMMA DenyRight ==
  ASSUME RequestsInv, NEW h \in Handlers, request[h] # Idle, Progress(request[h]),
         ~CurrentPasses(request[h]), Go(h, "denied")
  PROVE  RequestsInv'
  <1> DEFINE r == request[h]
             s == [r EXCEPT !.at = "denied"]
  <1>1. r \in Requests /\ request' = [request EXCEPT ![h] = s]
    BY DEF RequestsInv, Go
  <1>2. s \in Requests /\ RequestInv(s)
    BY <1>1, Denial
  <1> QED BY <1>1, <1>2, OthersKept

LEMMA AdvanceRight ==
  ASSUME RequestsInv, NEW h \in Handlers, request[h] # Idle, Progress(request[h]),
         CurrentPasses(request[h]), Advance(h)
  PROVE  RequestsInv'
  <1> DEFINE r == request[h]
  <1>1. r \in Requests /\ request \in [Handlers -> Requests \union {Idle}]
    BY DEF RequestsInv
  <1>2. Fields(h) = FieldsOf(r)
    BY DEF Fields, FieldsOf, Template
  <1>3. CASE /\ r.f < Len(FieldsOf(r))
             /\ request' = [request EXCEPT ![h] = [r EXCEPT !.f = r.f + 1, !.at = "field"]]
    BY <1>1, <1>3, NextField, OthersKept
  <1>4. CASE /\ r.f >= Len(FieldsOf(r)) /\ r.t < Len(r.templates)
             /\ request' = [request EXCEPT
                              ![h] = [r EXCEPT !.t = r.t + 1, !.f = 0, !.at = "template"]]
    BY <1>1, <1>4, NextTemplate, OthersKept
  <1>5. CASE /\ r.f >= Len(FieldsOf(r)) /\ r.t >= Len(r.templates)
             /\ request' = [request EXCEPT ![h] = [r EXCEPT !.at = "allowed"]]
    BY <1>1, <1>5, AllPassed, OthersKept
  <1> QED BY <1>1, <1>2, <1>3, <1>4, <1>5 DEF Advance, Go

\* The current check, in the terms of the actions.
LEMMA CurrentField ==
  ASSUME NEW h \in Handlers, request[h].f # 0
  PROVE  /\ Field(h) = FieldsOf(request[h])[request[h].f]
         /\ Object(h) = InNamespace(request[h].templates[request[h].t].obj)
         /\ CurrentPasses(request[h]) <=> FieldValid(Field(h), Object(h), Field(h).regex)
  BY DEF CurrentPasses, FieldPasses, Field, Fields, FieldsOf, Object, Template

\* A step towards the map stays at the same check.
LEMMA StepToMap ==
  ASSUME RequestsInv, NEW h \in Handlers, request[h] # Idle,
         request[h].at \in {"field"} \union Accesses,
         Field(h).type = "regex", RegexApplies(Field(h), Object(h)),
         NEW place \in Accesses,
         place \in {"insert", "inserting"} => Field(h).regex.compiles,
         Go(h, place)
  PROVE  RequestsInv'
  <1> DEFINE r == request[h]
             s == [r EXCEPT !.at = place]
  <1>1. r \in Requests /\ RequestInv(r) /\ request' = [request EXCEPT ![h] = s]
    BY DEF RequestsInv, Go
  <1>2. /\ s \in Requests /\ s.at = place /\ s.t = r.t /\ s.f = r.f
        /\ s.policy = r.policy /\ s.templates = r.templates
    BY <1>1 DEF Requests
  <1>3. Progress(r) /\ r.f # 0
    BY <1>1 DEF RequestInv
  <1>4. Progress(s) /\ FieldsOf(s) = FieldsOf(r)
    BY <1>2, <1>3 DEF Progress, FieldsOf
  <1>5. RequestInv(s)
    BY <1>2, <1>3, <1>4, CurrentField DEF RequestInv, Accesses
  <1> QED BY <1>1, <1>2, <1>5, OthersKept
-----------------------------------------------------------------------------
(* The actions of the webhook.                                             *)

LEMMA ReceiveKeeps ==
  ASSUME VerdictInv, NEW h \in Handlers, NEW n \in Names, NEW templates \in Specs,
         NEW policy \in Policies \union {None}, Receive(h, n, templates, policy)
  PROVE  VerdictInv'
  <1> DEFINE place == IF policy = None \/ Len(templates) > MaxTemplates THEN "denied"
                      ELSE IF Len(templates) = 0 THEN "allowed" ELSE "template"
             op == IF store[n] = NoObject THEN "create" ELSE "update"
             s == [name |-> n, operation |-> op, templates |-> templates, policy |-> policy,
                   t |-> 1, f |-> 0, at |-> place]
  <1>1. request' = [request EXCEPT ![h] = s] /\ regexCache' = regexCache
    BY DEF Receive
  <1>2. op \in {"create", "update"} /\ place \in {"template", "field"} \union Accesses \union Ends
    BY DEF Ends
  <1>3. /\ s.at = place /\ s.f = 0 /\ s.t = 1 /\ s.policy = policy
        /\ s.templates = templates
    OBVIOUS
  <1>4. s \in Requests
    <2> HIDE DEF op, place
    <2> QED BY <1>2 DEF Requests
  <1>5. CASE policy = None \/ Len(templates) > MaxTemplates
    <2>1. place = "denied" /\ ~Passes(s)
      BY <1>3, <1>5, CompliesByTemplate, ListAssumption DEF Passes, IsList
    <2>2. RequestInv(s)
      BY <1>3, <2>1 DEF RequestInv, Accesses
    <2> QED BY <1>1, <1>4, <2>2, OthersKept DEF VerdictInv, CacheInv
  <1>6. CASE ~(policy = None \/ Len(templates) > MaxTemplates)
    <2>1. /\ policy \in Policies /\ Len(templates) <= MaxTemplates /\ Len(templates) \in Nat
          /\ DOMAIN templates = 1..Len(templates)
      BY <1>6, ListAssumption DEF IsList
    <2>2. CASE Len(templates) = 0
      <3>1. place = "allowed" /\ Passes(s)
        BY <1>3, <1>6, <2>1, <2>2, CompliesByTemplate DEF Passes
      <3>2. RequestInv(s)
        BY <1>3, <3>1 DEF RequestInv, Accesses
      <3> QED BY <1>1, <1>4, <3>2, OthersKept DEF VerdictInv, CacheInv
    <2>3. CASE Len(templates) # 0
      <3>1. place = "template" /\ Progress(s)
        BY <1>3, <1>6, <2>1, <2>3, SMTT(30) DEF Progress
      <3>2. RequestInv(s)
        BY <1>3, <3>1 DEF RequestInv, Accesses
      <3> QED BY <1>1, <1>4, <3>2, OthersKept DEF VerdictInv, CacheInv
    <2> QED BY <2>2, <2>3
  <1> QED BY <1>5, <1>6

LEMMA CheckTemplateKeeps ==
  ASSUME VerdictInv, NEW h \in Handlers, CheckTemplate(h)
  PROVE  VerdictInv'
  <1>1. /\ RequestsInv /\ request[h] # Idle /\ Progress(request[h]) /\ request[h].f = 0
        /\ regexCache' = regexCache
    BY DEF VerdictInv, RequestsInv, CheckTemplate, At, RequestInv
  <1>2. CurrentPasses(request[h]) <=> TemplateValid(request[h].policy, Template(h))
    BY <1>1 DEF CurrentPasses, Template
  <1>3. CASE CurrentPasses(request[h])
    BY <1>1, <1>2, <1>3, AdvanceRight DEF CheckTemplate, Decide, VerdictInv, CacheInv
  <1>4. CASE ~CurrentPasses(request[h])
    BY <1>1, <1>2, <1>4, DenyRight DEF CheckTemplate, Decide, VerdictInv, CacheInv
  <1> QED BY <1>3, <1>4

\* A field validation is under way.
LEMMA AtField ==
  ASSUME VerdictInv, NEW h \in Handlers, NEW place \in {"field"} \union Accesses, At(h, place)
  PROVE  /\ RequestsInv /\ request[h] # Idle /\ request[h].at = place
         /\ Progress(request[h]) /\ request[h].f # 0
         /\ CurrentPasses(request[h]) <=> FieldValid(Field(h), Object(h), Field(h).regex)
         /\ place \in Accesses => Field(h).type = "regex" /\ RegexApplies(Field(h), Object(h))
         /\ place \in {"insert", "inserting"} => Field(h).regex.compiles
  <1>1. RequestInv(request[h]) /\ request[h].at = place /\ request[h] # Idle /\ RequestsInv
    BY DEF VerdictInv, RequestsInv, At
  <1>2. Progress(request[h]) /\ request[h].f # 0
    BY <1>1 DEF RequestInv
  <1> QED BY <1>1, <1>2, CurrentField, SMTT(30) DEF RequestInv

LEMMA CheckFieldKeeps ==
  ASSUME VerdictInv, NEW h \in Handlers, CheckField(h)
  PROVE  VerdictInv'
  <1>1. /\ RequestsInv /\ request[h] # Idle /\ Progress(request[h])
        /\ CurrentPasses(request[h]) <=> FieldValid(Field(h), Object(h), Field(h).regex)
        /\ regexCache' = regexCache
    BY AtField DEF CheckField
  <1>2. FieldValid(Field(h), Object(h), Field(h).regex) <=> FieldValid(Field(h), Object(h), None)
    BY DEF CheckField, FieldValid
  <1>3. CASE CurrentPasses(request[h])
    BY <1>1, <1>2, <1>3, AdvanceRight DEF CheckField, Decide, VerdictInv, CacheInv
  <1>4. CASE ~CurrentPasses(request[h])
    BY <1>1, <1>2, <1>4, DenyRight DEF CheckField, Decide, VerdictInv, CacheInv
  <1> QED BY <1>3, <1>4

LEMMA CheckMapKeeps ==
  ASSUME VerdictInv, NEW h \in Handlers, CheckMap(h)
  PROVE  VerdictInv'
  <1>1. /\ RequestsInv /\ request[h] # Idle /\ request[h].at = "field"
        /\ Field(h).type = "regex" /\ RegexApplies(Field(h), Object(h))
        /\ regexCache' = regexCache
    BY AtField DEF CheckMap
  <1>2. PICK place \in {"lookup", "make"} : Go(h, place)
    BY DEF CheckMap
  <1>3. RequestsInv'
    BY <1>1, <1>2, StepToMap DEF Accesses
  <1> QED BY <1>1, <1>3 DEF VerdictInv, CacheInv

\* A map made late is empty, and so holds nothing wrong.
LEMMA MakeMapKeeps ==
  ASSUME VerdictInv, NEW h \in Handlers, MakeMap(h)
  PROVE  VerdictInv'
  <1>1. "make" \in Accesses /\ "lookup" \in Accesses
    BY DEF Accesses
  <1>2. RequestsInv'
    BY <1>1, AtField, StepToMap DEF MakeMap
  <1>3. DOMAIN regexCache' = {}
    BY DEF MakeMap
  <1> QED BY <1>2, <1>3 DEF VerdictInv, CacheInv

LEMMA LookupRegexKeeps ==
  ASSUME VerdictInv, NEW h \in Handlers, LookupRegex(h)
  PROVE  VerdictInv'
  <1>1. "lookup" \in Accesses /\ "insert" \in Accesses
    BY DEF Accesses
  <1>2. /\ RequestsInv /\ request[h] # Idle /\ Progress(request[h]) /\ request[h].at = "lookup"
        /\ Field(h).type = "regex" /\ RegexApplies(Field(h), Object(h))
        /\ CurrentPasses(request[h]) <=> FieldValid(Field(h), Object(h), Field(h).regex)
        /\ regexCache' = regexCache
    BY <1>1, AtField DEF LookupRegex
  <1>3. CASE CacheKey(Field(h)) \in DOMAIN regexCache
    <2>1. regexCache[CacheKey(Field(h))] = Field(h).regex
      BY <1>3 DEF VerdictInv, CacheInv, CacheKey
    <2>2. CASE CurrentPasses(request[h])
      BY <1>2, <1>3, <2>1, <2>2, AdvanceRight DEF LookupRegex, Decide, VerdictInv, CacheInv
    <2>3. CASE ~CurrentPasses(request[h])
      BY <1>2, <1>3, <2>1, <2>3, DenyRight DEF LookupRegex, Decide, VerdictInv, CacheInv
    <2> QED BY <2>2, <2>3
  <1>4. CASE CacheKey(Field(h)) \notin DOMAIN regexCache /\ Field(h).regex.compiles
    BY <1>1, <1>2, <1>4, StepToMap DEF LookupRegex, VerdictInv, CacheInv
  <1>5. CASE CacheKey(Field(h)) \notin DOMAIN regexCache /\ ~Field(h).regex.compiles
    <2>1. ~CurrentPasses(request[h])
      BY <1>2, <1>5 DEF FieldValid
    <2> QED BY <1>2, <1>5, <2>1, DenyRight DEF LookupRegex, VerdictInv, CacheInv
  <1> QED BY <1>3, <1>4, <1>5

LEMMA BeginInsertKeeps ==
  ASSUME VerdictInv, NEW h \in Handlers, BeginInsert(h)
  PROVE  VerdictInv'
  <1>1. "insert" \in Accesses /\ "inserting" \in Accesses
    BY DEF Accesses
  <1>2. RequestsInv' /\ regexCache' = regexCache
    BY <1>1, AtField, StepToMap DEF BeginInsert
  <1> QED BY <1>2 DEF VerdictInv, CacheInv

\* The entry that is written, if it is not lost, is right for its key.
LEMMA InsertKeeps ==
  ASSUME VerdictInv, NEW h \in Handlers, Insert(h)
  PROVE  VerdictInv'
  <1>1. "inserting" \in Accesses
    BY DEF Accesses
  <1>2. /\ RequestsInv /\ request[h] # Idle /\ Progress(request[h])
        /\ CurrentPasses(request[h]) <=> FieldValid(Field(h), Object(h), Field(h).regex)
        /\ Field(h).regex.compiles
    BY <1>1, AtField DEF Insert
  <1>3. CacheInv'
    BY <1>2 DEF Insert, CacheInv, CacheKey, VerdictInv
  <1>4. CASE CurrentPasses(request[h])
    BY <1>2, <1>3, <1>4, AdvanceRight DEF Insert, Decide, VerdictInv
  <1>5. CASE ~CurrentPasses(request[h])
    BY <1>2, <1>3, <1>5, DenyRight DEF Insert, Decide, VerdictInv
  <1> QED BY <1>4, <1>5

LEMMA FatalKeeps ==
  ASSUME VerdictInv, Fatal
  PROVE  VerdictInv'
  <1>1. CacheInv'
    BY DEF Fatal, CacheInv
  <1>2. ASSUME NEW h \in Handlers, request[h] # Idle
        PROVE  /\ [request[h] EXCEPT !.at = "failed"] \in Requests
               /\ [request[h] EXCEPT !.at = "failed"].at = "failed"
    BY <1>2 DEF VerdictInv, RequestsInv, Requests, Ends
  <1>3. request' \in [Handlers -> Requests \union {Idle}]
    BY <1>2 DEF Fatal
  <1>4. ASSUME NEW h \in Handlers, request'[h] # Idle PROVE RequestInv(request'[h])
    <2>1. request'[h].at = "failed"
      BY <1>2, <1>4 DEF Fatal
    <2> QED BY <2>1 DEF RequestInv, Accesses
  <1>5. RequestsInv'
    BY <1>3, <1>4 DEF RequestsInv
  <1> QED BY <1>1, <1>5 DEF VerdictInv

LEMMA AnswerKeeps ==
  ASSUME VerdictInv, NEW h \in Handlers, request' = [request EXCEPT ![h] = Idle],
         regexCache' = regexCache
  PROVE  VerdictInv'
  BY OthersKept DEF VerdictInv, CacheInv

LEMMA ValidateKeeps ==
  ASSUME VerdictInv, NEW h \in Handlers, Validate(h)
  PROVE  VerdictInv'
  BY CheckTemplateKeeps, CheckFieldKeeps, CheckMapKeeps, MakeMapKeeps, LookupRegexKeeps,
     BeginInsertKeeps, InsertKeeps DEF Validate

\* The other steps: those of the reconciler, the informers and Kubernetes.
Elsewhere ==
  \/ Reconciler \/ SyncNamespace \/ SyncTemplates \/ Restart
  \/ Touch \/ DeleteNamespace \/ DropNamespace
  \/ \E n \in Names : EmptyNamespace(n)
  \/ \E n \in Names, policy \in Policies \union {None} : Process(n, policy)

LEMMA ElsewhereKeeps ==
  ASSUME Elsewhere
  PROVE  UNCHANGED <<request, regexCache>>
  BY DEF Elsewhere, Reconciler, Reconcile, AddFinalizer, ListTemplates, DeleteTemplate,
         RemoveFinalizer, Update, SyncNamespace, SyncTemplates, Restart, Touch,
         DeleteNamespace, DropNamespace, EmptyNamespace, Process, admissionVars

\* Every request has passed what comes before its current check, and the map is right
\* (validateKubeTemplate, validateFieldRegex).
THEOREM VerdictInvariant == Spec => []VerdictInv
  <1>1. Init => VerdictInv
    BY DEF Init, AdmissionInit, VerdictInv, RequestsInv, CacheInv
  <1>2. VerdictInv /\ [Next]_vars => VerdictInv'
    <2> SUFFICES ASSUME VerdictInv, [Next]_vars PROVE VerdictInv'
      OBVIOUS
    <2>1. CASE UNCHANGED <<request, regexCache>>
      BY <2>1 DEF VerdictInv, RequestsInv, CacheInv
    <2>2. CASE Elsewhere
      BY <2>1, <2>2, ElsewhereKeeps
    <2>3. CASE Fatal
      BY <2>3, FatalKeeps
    <2>4. ASSUME NEW h \in Handlers, ValidateHere(h) PROVE VerdictInv'
      BY <2>4, ValidateKeeps DEF ValidateHere
    <2>5. ASSUME NEW h \in Handlers, AnswerHere(h) PROVE VerdictInv'
      BY <2>5, AnswerKeeps DEF AnswerHere, Answer
    <2>6. ASSUME NEW h \in Handlers, NEW n \in Names, NEW templates \in Specs,
                 NEW policy \in Policies \union {None}, ReceiveHere(h, n, templates, policy)
          PROVE  VerdictInv'
      BY <2>6, ReceiveKeeps DEF ReceiveHere
    <2>7. CASE UNCHANGED vars
      BY <2>1, <2>7 DEF vars, admissionVars
    <2> QED BY <2>2, <2>3, <2>4, <2>5, <2>6, <2>7 DEF Next, Proceed, Elsewhere
  <1> QED BY <1>1, <1>2, PTL DEF Spec

\* The verdict of every request is right, for any number of requests at the same time,
\* any policies and any templates (validateKubeTemplate, validateFieldRegex).
THEOREM VerdictsAreRight == Spec => []VerdictsRight
  <1>1. VerdictInv => VerdictsRight
    BY DEF VerdictInv, RequestsInv, RequestInv, VerdictsRight, At, Passes
  <1> QED BY <1>1, VerdictInvariant, PTL
-----------------------------------------------------------------------------
(* The worker.                                                             *)

\* What the webhook accepts, the worker applies under the same policy: the webhook's
\* checks imply the worker's (validateKubeTemplate, processItem).
THEOREM CompliantIsApplied ==
  ASSUME NEW policy, NEW templates, Complies(policy, templates)
  PROVE  Applied(policy, templates) = DOMAIN templates
  <1>1. ASSUME NEW t \in DOMAIN templates
        PROVE  ~templates[t].garbled /\ Processed(policy, templates[t])
    BY DEF Complies, TemplateValid, Processed, validateCELRule, validateWithCEL
  <1> QED BY <1>1 DEF Applied

\* Stored KubeTemplates comply with the policy that admitted them, and what was
\* processed of them is what that policy lets through.
StoreInv ==
  /\ DOMAIN store = Names /\ DOMAIN processed = Names
  /\ \A n \in Names : store[n] # NoObject =>
       store[n].policy # None /\ Complies(store[n].policy, store[n].templates)
  /\ \A n \in Names : processed[n] # NoObject =>
       /\ store[n] # NoObject
       /\ processed[n].policy # None =>
            processed[n].applied = Applied(processed[n].policy, store[n].templates)

LEMMA RemoveKeepsStore ==
  ASSUME StoreInv, NEW n \in Names, Remove(n)
  PROVE  StoreInv'
  BY DEF StoreInv, Remove

LEMMA ProcessKeepsStore ==
  ASSUME StoreInv, NEW n \in Names, NEW policy, Process(n, policy)
  PROVE  StoreInv'
  BY DEF StoreInv, Process

LEMMA AnswerKeepsStore ==
  ASSUME StoreInv, VerdictInv, NEW h \in Handlers, NEW accepts, Answer(h, accepts)
  PROVE  StoreInv'
  <1>1. CASE UNCHANGED <<store, processed>>
    BY <1>1 DEF StoreInv
  <1>2. CASE /\ Stores(h)
             /\ store' = [store EXCEPT ![request[h].name] =
                           [templates |-> request[h].templates, policy |-> request[h].policy]]
             /\ processed' = [processed EXCEPT ![request[h].name] = NoObject]
    <2>1. request[h].name \in Names /\ Passes(request[h])
      BY <1>2 DEF Stores, At, VerdictInv, RequestsInv, RequestInv, Requests
    <2> QED BY <1>2, <2>1 DEF StoreInv, Passes
  <1> QED BY <1>1, <1>2 DEF Answer

\* The worker applies all of a KubeTemplate under the policy that admitted it, for any
\* number of requests and any policies (validateKubeTemplate, processItem).
THEOREM AdmittedAreApplied == Spec => []AdmittedIsApplied
  <1>1. Init => StoreInv
    BY DEF Init, AdmissionInit, StoreInv
  <1>2. StoreInv /\ VerdictInv /\ [Next]_vars => StoreInv'
    <2> SUFFICES ASSUME StoreInv, VerdictInv, [Next]_vars PROVE StoreInv'
      OBVIOUS
    <2>1. CASE UNCHANGED <<store, processed>>
      BY <2>1 DEF StoreInv
    <2>2. ASSUME NEW n \in Names, DeleteTemplate(n) \/ EmptyNamespace(n) PROVE StoreInv'
      BY <2>1, <2>2, RemoveKeepsStore DEF DeleteTemplate, EmptyNamespace
    <2>3. ASSUME NEW n \in Names, NEW policy \in Policies \union {None}, Process(n, policy)
          PROVE  StoreInv'
      BY <2>3, ProcessKeepsStore
    <2>4. ASSUME NEW h \in Handlers, AnswerHere(h) PROVE StoreInv'
      BY <2>4, AnswerKeepsStore DEF AnswerHere
    <2>5. ASSUME NEW h \in Handlers, ValidateHere(h) PROVE StoreInv'
      BY <2>1, <2>5 DEF ValidateHere, Validate, CheckTemplate, CheckField, CheckMap, MakeMap,
           LookupRegex, BeginInsert, Insert
    <2>6. CASE Reconcile \/ AddFinalizer \/ ListTemplates \/ RemoveFinalizer \/ SyncNamespace
               \/ SyncTemplates \/ Restart \/ Touch \/ DeleteNamespace \/ DropNamespace
      BY <2>1, <2>6 DEF Reconcile, AddFinalizer, ListTemplates, RemoveFinalizer, Update,
           SyncNamespace, SyncTemplates, Restart, Touch, DeleteNamespace, DropNamespace,
           admissionVars
    <2>7. CASE Fatal
      BY <2>1, <2>7 DEF Fatal
    <2>8. ASSUME NEW h \in Handlers, NEW n \in Names, NEW templates \in Specs,
                 NEW policy \in Policies \union {None}, ReceiveHere(h, n, templates, policy)
          PROVE  StoreInv'
      BY <2>1, <2>8 DEF ReceiveHere, Receive
    <2>9. CASE UNCHANGED vars
      BY <2>1, <2>9 DEF vars, admissionVars
    <2> QED BY <2>2, <2>3, <2>4, <2>5, <2>6, <2>7, <2>8, <2>9 DEF Next, Proceed, Reconciler
  <1>3. StoreInv => AdmittedIsApplied
    <2> SUFFICES ASSUME StoreInv, NEW n \in Names, processed[n] # NoObject,
                        processed[n].policy = store[n].policy
                 PROVE  processed[n].applied = DOMAIN store[n].templates
      BY DEF AdmittedIsApplied
    <2> QED BY CompliantIsApplied DEF StoreInv
  <1> QED BY <1>1, <1>2, <1>3, VerdictInvariant, PTL DEF Spec
-----------------------------------------------------------------------------
(* The namespace reconciler.                                               *)

Namespaces == [deleting : BOOLEAN, finalizer : BOOLEAN, version : Nat]

\* A copy of the namespace is as old as its version says: with the current version it
\* is the namespace.
CopyOK(c) ==
  /\ c = Gone \/ c \in Namespaces
  /\ c # Gone /\ ns # Gone => c.version <= ns.version /\ (c.version = ns.version => c = ns)

NsInv ==
  /\ ns = Gone \/ ns \in Namespaces
  /\ CopyOK(nsSeen) /\ CopyOK(copy)
  /\ at = "add" => copy # Gone /\ ~copy.deleting

\* What is listed and still there is yet to be deleted.
ListInv ==
  /\ DOMAIN store = Names
  /\ at = "delete" => \A n \in listed : n \in Names /\ store[n] # NoObject => n \in todo
-----------------------------------------------------------------------------
\* A change of the namespace gives it a version that no copy has.
LEMMA ChangeKeepsCopies ==
  ASSUME NsInv, ns # Gone, ns' \in Namespaces, ns'.version = ns.version + 1,
         nsSeen' = nsSeen, copy' = copy \/ copy' = Gone,
         at' = "add" => at = "add" /\ copy' = copy
  PROVE  NsInv'
  <1>1. ns.version \in Nat
    BY DEF NsInv, Namespaces
  <1>2. ASSUME NEW c, CopyOK(c), c # Gone
        PROVE  c.version < ns'.version /\ c.version \in Nat /\ c \in Namespaces /\ ns'.version \in Nat
    BY <1>1, <1>2 DEF CopyOK, Namespaces
  <1>3. CopyOK(nsSeen)'
    BY <1>2 DEF NsInv, CopyOK
  <1>4. CopyOK(copy)'
    BY <1>2 DEF NsInv, CopyOK
  <1> QED BY <1>3, <1>4 DEF NsInv

\* The changes that the actions make.
LEMMA Changes ==
  ASSUME NEW c \in Namespaces, NEW f \in BOOLEAN, NEW d,
         \/ d = [c EXCEPT !.finalizer = f, !.version = c.version + 1]
         \/ d = [c EXCEPT !.deleting = TRUE, !.version = c.version + 1]
         \/ d = [c EXCEPT !.version = c.version + 1]
  PROVE  d \in Namespaces /\ d.version = c.version + 1
  <1>1. c.version \in Nat
    BY DEF Namespaces
  <1>2. PICK v \in Nat : v = c.version + 1
    BY <1>1
  <1>3. CASE d = [c EXCEPT !.finalizer = f, !.version = v]
    BY <1>2, <1>3 DEF Namespaces
  <1>4. CASE d = [c EXCEPT !.deleting = TRUE, !.version = v]
    BY <1>2, <1>4 DEF Namespaces
  <1>5. CASE d = [c EXCEPT !.version = v]
    BY <1>2, <1>5 DEF Namespaces
  <1> QED BY <1>2, <1>3, <1>4, <1>5

\* Update leaves everything as it is, or changes an up-to-date namespace.
LEMMA UpdateKeeps ==
  ASSUME NsInv, NEW f \in BOOLEAN, Update(f)
  PROVE  NsInv'
  <1>1. at' = "idle" /\ copy' = Gone /\ nsSeen' = nsSeen
    BY DEF Update, Finish, Retry, Return
  <1>2. CASE ns' = ns
    BY <1>1, <1>2 DEF NsInv, CopyOK
  <1>3. CASE ns # Gone /\ ns' = [ns EXCEPT !.finalizer = f, !.version = @ + 1]
    <2>1. ns \in Namespaces
      BY <1>3 DEF NsInv
    <2>2. ns' \in Namespaces /\ ns'.version = ns.version + 1
      BY <1>3, <2>1, Changes
    <2> QED BY <1>1, <1>3, <2>2, ChangeKeepsCopies
  <1> QED BY <1>2, <1>3 DEF Update, UpToDate

LEMMA NsInvStep ==
  ASSUME NsInv, [Next]_vars
  PROVE  NsInv'
  <1>1. CASE UNCHANGED <<ns, nsSeen, at, copy>>
    BY <1>1 DEF NsInv, CopyOK
  <1>2. CASE Reconcile
    <2>1. ns' = ns /\ nsSeen' = nsSeen
      BY <1>2 DEF Reconcile
    <2>2. CASE nsSeen # Gone /\ (nsSeen.deleting <=> nsSeen.finalizer)
      <3>1. CASE copy' = nsSeen /\ at' = (IF nsSeen.deleting THEN "list" ELSE "add")
        BY <2>1, <2>2, <3>1 DEF NsInv, CopyOK
      <3>2. CASE UNCHANGED <<at, copy>>
        BY <1>1, <2>1, <3>2
      <3> QED BY <1>2, <2>2, <3>1, <3>2 DEF Reconcile
    <2>3. CASE ~(nsSeen # Gone /\ (nsSeen.deleting <=> nsSeen.finalizer))
      BY <1>1, <1>2, <2>1, <2>3 DEF Reconcile
    <2> QED BY <2>2, <2>3
  <1>3. CASE AddFinalizer \/ RemoveFinalizer
    BY <1>3, UpdateKeeps DEF AddFinalizer, RemoveFinalizer
  <1>4. CASE ListTemplates
    BY <1>1, <1>4 DEF ListTemplates, Retry, Return, NsInv, CopyOK
  <1>5. ASSUME NEW n \in Names, DeleteTemplate(n) PROVE NsInv'
    BY <1>1, <1>5 DEF DeleteTemplate, Retry, Return, NsInv, CopyOK
  <1>6. CASE SyncNamespace
    <2>1. ns' = ns /\ nsSeen' = ns /\ copy' = copy /\ at' = at
      BY <1>6 DEF SyncNamespace
    <2>2. ns # Gone => ns.version \in Nat
      BY DEF NsInv, Namespaces
    <2> QED BY <2>1, <2>2 DEF NsInv, CopyOK
  <1>7. CASE Restart
    <2>1. ns' = ns /\ nsSeen' = ns /\ copy' = Gone /\ at' = "idle"
      BY <1>7 DEF Restart
    <2>2. ns # Gone => ns.version \in Nat
      BY DEF NsInv, Namespaces
    <2> QED BY <2>1, <2>2 DEF NsInv, CopyOK
  <1>8. CASE Touch \/ DeleteNamespace
    <2>1. ns # Gone /\ ns \in Namespaces /\ nsSeen' = nsSeen /\ copy' = copy /\ at' = at
      BY <1>8 DEF Touch, DeleteNamespace, reconcilerVars, NsInv
    <2>2. ns' \in Namespaces /\ ns'.version = ns.version + 1
      BY <1>8, <2>1, Changes DEF Touch, DeleteNamespace
    <2> QED BY <2>1, <2>2, ChangeKeepsCopies
  <1>9. CASE DropNamespace
    BY <1>9 DEF DropNamespace, reconcilerVars, NsInv, CopyOK
  <1>10. CASE SyncTemplates
    BY <1>1, <1>10 DEF SyncTemplates, reconcilerVars
  <1>11. CASE UNCHANGED nsVars
    BY <1>1, <1>11 DEF nsVars, reconcilerVars
  <1>12. ASSUME NEW h \in Handlers, AnswerHere(h) PROVE NsInv'
    BY <1>1, <1>12 DEF AnswerHere
  <1> QED BY <1>2, <1>3, <1>4, <1>5, <1>6, <1>7, <1>8, <1>9, <1>10, <1>11, <1>12
          DEF Next, Proceed, Reconciler, EmptyNamespace, ValidateHere, ReceiveHere, vars

\* The reconciler's copies are never newer than the namespace, and it adds the
\* finalizer by a copy that is not being deleted (Reconcile).
THEOREM NamespaceInvariant == Spec => []NsInv
  <1>1. Init => NsInv
    BY DEF Init, NsInv, CopyOK, Namespaces
  <1> QED BY <1>1, NsInvStep, PTL DEF Spec
-----------------------------------------------------------------------------
\* The steps that change the finalizer are the Updates of the reconciler.
LEMMA OnlyUpdates ==
  ASSUME NsInv, [Next]_vars, ns # Gone, ns' # Gone, ns'.finalizer # ns.finalizer
  PROVE  \/ at = "add" /\ UpToDate /\ ns'.finalizer = TRUE
         \/ at = "delete" /\ todo = {} /\ ns'.finalizer = FALSE /\ Update(FALSE)
  <1>1. ns \in Namespaces
    BY DEF NsInv
  <1>2. CASE AddFinalizer
    <2>1. UpToDate /\ ns' = [ns EXCEPT !.finalizer = TRUE, !.version = @ + 1]
      BY <1>2 DEF AddFinalizer, Update
    <2>2. ns'.finalizer = TRUE
      BY <1>1, <2>1 DEF Namespaces
    <2> QED BY <1>2, <2>1, <2>2 DEF AddFinalizer
  <1>3. CASE RemoveFinalizer
    <2>1. ns' = [ns EXCEPT !.finalizer = FALSE, !.version = @ + 1]
      BY <1>3 DEF RemoveFinalizer, Update
    <2>2. ns'.finalizer = FALSE
      BY <1>1, <2>1 DEF Namespaces
    <2> QED BY <1>3, <2>2 DEF RemoveFinalizer
  <1>4. CASE Touch \/ DeleteNamespace
    BY <1>1, <1>4 DEF Touch, DeleteNamespace, Namespaces
  <1>5. CASE UNCHANGED ns \/ ns' = Gone
    BY <1>5
  <1>6. CASE UNCHANGED nsVars
    BY <1>6 DEF nsVars
  <1> QED BY <1>2, <1>3, <1>4, <1>5, <1>6
          DEF Next, Proceed, Reconciler, Reconcile, ListTemplates, DeleteTemplate, SyncNamespace,
              SyncTemplates, Restart, DropNamespace, EmptyNamespace, ValidateHere, ReceiveHere,
              AnswerHere, vars

\* A namespace that is being deleted never gets the finalizer, whatever else happens
\* (Reconcile's Update).
THEOREM FinalizerNeverAddedLate == Spec => NeverAddedLate
  <1>1. NsInv /\ [Next]_vars =>
          [Deleting /\ ~ns.finalizer => ns' = Gone \/ ~ns'.finalizer]_vars
    <2> SUFFICES ASSUME NsInv, [Next]_vars, Deleting, ~ns.finalizer, ns' # Gone, ns'.finalizer
                 PROVE  FALSE
      OBVIOUS
    <2>1. ns # Gone /\ ns.deleting
      BY DEF Deleting
    <2>2. at = "add" /\ UpToDate
      BY <2>1, OnlyUpdates
    <2>3. copy = ns /\ ~copy.deleting
      BY <2>1, <2>2 DEF NsInv, CopyOK, UpToDate
    <2> QED BY <2>1, <2>3
  <1> QED BY <1>1, NamespaceInvariant, PTL DEF Spec, NeverAddedLate
-----------------------------------------------------------------------------
LEMMA RemoveKeepsList ==
  ASSUME ListInv, NEW n \in Names, Remove(n), listed' = listed,
         (at' = at /\ (todo' = todo \ {n} \/ todo' = todo)) \/ at' = "idle"
  PROVE  ListInv'
  BY DEF ListInv, Remove

LEMMA AnswerKeepsList ==
  ASSUME ListInv, NEW h \in Handlers, AnswerHere(h)
  PROVE  ListInv'
  <1>1. at' = at /\ todo' = todo
    BY DEF AnswerHere
  <1>2. CASE store' = store
    BY <1>1, <1>2 DEF ListInv, AnswerHere
  <1>3. CASE store' # store
    <2>1. Stores(h) /\ store' = [store EXCEPT ![request[h].name] =
                    [templates |-> request[h].templates, policy |-> request[h].policy]]
      BY <1>3 DEF AnswerHere, Answer
    <2>2. CASE store[request[h].name] = NoObject
      <3>1. listed' = listed \ {request[h].name}
        BY <2>1, <2>2 DEF AnswerHere
      <3> QED BY <1>1, <2>1, <3>1 DEF ListInv
    <2>3. CASE store[request[h].name] # NoObject
      <3>1. listed' = listed
        BY <2>3 DEF AnswerHere
      <3> QED BY <1>1, <2>1, <2>3, <3>1 DEF ListInv
    <2> QED BY <2>2, <2>3
  <1> QED BY <1>2, <1>3

LEMMA ListInvStep ==
  ASSUME ListInv, [Next]_vars
  PROVE  ListInv'
  <1>1. CASE UNCHANGED <<store, listed, todo>> /\ (at' = at \/ at' # "delete")
    BY <1>1 DEF ListInv
  <1>2. CASE Reconcile
    <2>1. at' = at \/ at' \in {"list", "add"}
      BY <1>2 DEF Reconcile
    <2> QED BY <1>1, <1>2, <2>1 DEF Reconcile, admissionVars
  <1>3. CASE AddFinalizer \/ RemoveFinalizer
    BY <1>3 DEF AddFinalizer, RemoveFinalizer, Update, Finish, Retry, Return, admissionVars, ListInv
  <1>4. CASE ListTemplates
    BY <1>4 DEF ListTemplates, Retry, Return, admissionVars, ListInv
  <1>5. ASSUME NEW n \in Names, DeleteTemplate(n) PROVE ListInv'
    <2>1. CASE Remove(n)
      BY <1>5, <2>1, RemoveKeepsList DEF DeleteTemplate, Retry, Return
    <2>2. CASE UNCHANGED store /\ at' = "idle"
      BY <2>2 DEF ListInv
    <2> QED BY <1>5, <2>1, <2>2 DEF DeleteTemplate, Retry, Return
  <1>6. CASE Restart
    BY <1>6 DEF Restart, admissionVars, ListInv
  <1>7. CASE SyncNamespace \/ SyncTemplates \/ Touch \/ DeleteNamespace \/ DropNamespace
    BY <1>1, <1>7 DEF SyncNamespace, SyncTemplates, Touch, DeleteNamespace, DropNamespace,
         admissionVars, reconcilerVars
  <1>8. ASSUME NEW n \in Names, EmptyNamespace(n) PROVE ListInv'
    BY <1>8, RemoveKeepsList DEF EmptyNamespace, nsVars, reconcilerVars
  <1>9. CASE UNCHANGED store /\ UNCHANGED nsVars
    BY <1>1, <1>9 DEF nsVars, reconcilerVars
  <1>10. ASSUME NEW h \in Handlers, ValidateHere(h) PROVE ListInv'
    BY <1>9, <1>10 DEF ValidateHere, Validate, CheckTemplate, CheckField, CheckMap, MakeMap,
         LookupRegex, BeginInsert, Insert
  <1>11. ASSUME NEW h \in Handlers, AnswerHere(h) PROVE ListInv'
    BY <1>11, AnswerKeepsList
  <1>12. CASE Fatal /\ UNCHANGED nsVars
    BY <1>9, <1>12 DEF Fatal
  <1>13. ASSUME NEW n \in Names, NEW policy \in Policies \union {None},
                Process(n, policy), UNCHANGED nsVars
         PROVE  ListInv'
    BY <1>9, <1>13 DEF Process
  <1>14. ASSUME NEW h \in Handlers, NEW n \in Names, NEW templates \in Specs,
                NEW policy \in Policies \union {None}, ReceiveHere(h, n, templates, policy)
         PROVE  ListInv'
    BY <1>9, <1>14 DEF ReceiveHere, Receive
  <1>15. CASE UNCHANGED vars
    BY <1>9, <1>15 DEF vars, admissionVars
  <1> QED BY <1>2, <1>3, <1>4, <1>5, <1>6, <1>7, <1>8, <1>10, <1>11, <1>12, <1>13, <1>14, <1>15
          DEF Next, Proceed, Reconciler

\* When the finalizer is taken off, everything that was listed has been deleted, for any
\* number of KubeTemplates, failing calls, restarts and requests (Reconcile's loop).
THEOREM FinalizerWaitsForListed == Spec => ListedAreDeleted
  <1>1. Init => ListInv
    BY DEF Init, AdmissionInit, ListInv
  <1>2. NsInv /\ ListInv /\ [Next]_vars =>
          [ns # Gone /\ ns.finalizer /\ ns' # Gone /\ ~ns'.finalizer
             => listed \intersect Present = {}]_vars
    <2> SUFFICES ASSUME NsInv, ListInv, [Next]_vars, ns # Gone, ns.finalizer, ns' # Gone,
                        ~ns'.finalizer
                 PROVE  listed \intersect Present = {}
      OBVIOUS
    <2>1. at = "delete" /\ todo = {}
      BY OnlyUpdates
    <2> QED BY <2>1 DEF ListInv, Present
  <1>3. Spec => []ListInv
    BY <1>1, ListInvStep, PTL DEF Spec
  <1> QED BY <1>2, <1>3, NamespaceInvariant, PTL DEF Spec, ListedAreDeleted
-----------------------------------------------------------------------------
\* A change of the namespace is one that the informer has yet to deliver.
LEMMA ChangeUnseen ==
  ASSUME NsInv, ns # Gone, ns' \in Namespaces, ns'.version = ns.version + 1, nsSeen' = nsSeen
  PROVE  ns' = Gone \/ nsSeen' # ns'
  <1> SUFFICES ASSUME ns' # Gone, nsSeen = ns' PROVE FALSE
    OBVIOUS
  <1>1. ns.version \in Nat
    BY DEF NsInv, Namespaces
  <1>2. nsSeen.version <= ns.version
    BY DEF NsInv, CopyOK
  <1> QED BY <1>1, <1>2

LEMMA UpdateKeepsTended ==
  ASSUME NsInv, NEW f \in BOOLEAN, Update(f)
  PROVE  NamespaceTended'
  <1>1. CASE Retry
    BY <1>1 DEF Retry, NamespaceTended
  <1>2. CASE UpToDate /\ ns' = [ns EXCEPT !.finalizer = f, !.version = @ + 1]
    <2>1. ns # Gone /\ ns \in Namespaces /\ nsSeen' = nsSeen
      BY <1>2 DEF UpToDate, NsInv, Update
    <2>2. ns' \in Namespaces /\ ns'.version = ns.version + 1
      BY <1>2, <2>1, Changes
    <2>3. ns' = Gone \/ nsSeen' # ns'
      BY <2>1, <2>2, ChangeUnseen
    <2> QED BY <2>3 DEF NamespaceTended
  <1> QED BY <1>1, <1>2 DEF Update

LEMMA TendedStep ==
  ASSUME NsInv, NamespaceTended, [Next]_vars
  PROVE  NamespaceTended'
  <1>1. CASE UNCHANGED <<ns, nsSeen, queued, at>>
    BY <1>1 DEF NamespaceTended
  <1>2. CASE queued' = TRUE \/ ns' = Gone
    BY <1>2 DEF NamespaceTended
  <1>3. CASE Reconcile
    <2>1. ns' = ns /\ nsSeen' = nsSeen
      BY <1>3 DEF Reconcile
    <2>2. CASE nsSeen = ns /\ ns # Gone /\ (ns.deleting <=> ns.finalizer)
      <3>1. UNCHANGED <<queued, at>> \/ at' \in {"list", "add"}
        BY <1>3, <2>2 DEF Reconcile
      <3> QED BY <1>1, <2>1, <3>1 DEF NamespaceTended
    <2> QED BY <2>1, <2>2 DEF NamespaceTended
  <1>4. CASE AddFinalizer \/ RemoveFinalizer
    BY <1>4, UpdateKeepsTended DEF AddFinalizer, RemoveFinalizer
  <1>5. CASE ListTemplates
    <2>1. at' = "delete" \/ queued' = TRUE
      BY <1>5 DEF ListTemplates, Retry
    <2> QED BY <2>1 DEF NamespaceTended
  <1>6. ASSUME NEW n \in Names, DeleteTemplate(n) PROVE NamespaceTended'
    <2>1. UNCHANGED <<ns, nsSeen, queued, at>> \/ queued' = TRUE
      BY <1>6 DEF DeleteTemplate, Retry
    <2> QED BY <1>1, <1>2, <2>1
  <1>7. CASE SyncNamespace \/ Restart \/ DropNamespace
    BY <1>2, <1>7 DEF SyncNamespace, Restart, DropNamespace
  <1>8. CASE Touch \/ DeleteNamespace
    <2>1. ns # Gone /\ ns \in Namespaces /\ nsSeen' = nsSeen
      BY <1>8 DEF Touch, DeleteNamespace, NsInv
    <2>2. ns' \in Namespaces /\ ns'.version = ns.version + 1
      BY <1>8, <2>1, Changes DEF Touch, DeleteNamespace
    <2>3. ns' = Gone \/ nsSeen' # ns'
      BY <2>1, <2>2, ChangeUnseen
    <2> QED BY <2>3 DEF NamespaceTended
  <1>9. CASE SyncTemplates \/ UNCHANGED nsVars
    BY <1>1, <1>9 DEF SyncTemplates, nsVars, reconcilerVars
  <1>10. ASSUME NEW h \in Handlers, AnswerHere(h) PROVE NamespaceTended'
    BY <1>1, <1>10 DEF AnswerHere
  <1> QED BY <1>3, <1>4, <1>5, <1>6, <1>7, <1>8, <1>9, <1>10
          DEF Next, Proceed, Reconciler, EmptyNamespace, ValidateHere, ReceiveHere, vars

\* A namespace whose finalizer is to be added or taken off stays with the reconciler or
\* comes back to it, for any number of conflicts, failing calls, restarts and changes by
\* others (Reconcile's returned errors): what NamespaceGoes rests on.
THEOREM NamespaceNeverForgotten == Spec => []NamespaceTended
  <1>1. Init => NamespaceTended
    BY DEF Init, NamespaceTended
  <1> QED BY <1>1, TendedStep, NamespaceInvariant, PTL DEF Spec
-----------------------------------------------------------------------------
(* Type correctness.                                                       *)

\* The variables that NsInv and VerdictInv say nothing of.
Counts == requests \in 0..MaxRequests /\ touches \in 0..MaxTouches /\ faults \in 0..MaxFaults
Lists == seen \subseteq Names /\ todo \subseteq Names /\ listed \subseteq Names
Flags == made \in BOOLEAN /\ queued \in BOOLEAN /\ at \in {"idle", "add", "list", "delete"}

\* Every counter stops at its bound.
LEMMA CountsStep ==
  ASSUME Counts, [Next]_vars PROVE Counts'
  <1>1. ASSUME NEW x, NEW m \in Nat, NEW y, x \in 0..m, y = x \/ (x < m /\ y = x + 1)
        PROVE  y \in 0..m
    BY <1>1
  <1>2. requests' = requests \/ (requests < MaxRequests /\ requests' = requests + 1)
    BY DEF Next, Proceed, Reconciler, Reconcile, AddFinalizer, ListTemplates, DeleteTemplate,
         RemoveFinalizer, Update, SyncNamespace, SyncTemplates, Restart, Touch,
         DeleteNamespace, DropNamespace, EmptyNamespace, Process, ValidateHere, Validate,
         CheckTemplate, CheckField, CheckMap, MakeMap, LookupRegex, BeginInsert, Insert,
         AnswerHere, Answer, Fatal, ReceiveHere, Receive, admissionVars, vars
  <1>3. UNCHANGED nsVars \/ touches' = touches \/ (touches < MaxTouches /\ touches' = touches + 1)
    BY DEF Next, Proceed, Reconciler, Reconcile, AddFinalizer, ListTemplates, DeleteTemplate,
         RemoveFinalizer, Update, SyncNamespace, SyncTemplates, Restart, Touch,
         DeleteNamespace, DropNamespace, EmptyNamespace, ValidateHere, AnswerHere,
         ReceiveHere, vars
  <1>4. UNCHANGED nsVars \/ faults' = faults \/ (faults < MaxFaults /\ faults' = faults + 1)
    BY DEF Next, Proceed, Reconciler, Reconcile, AddFinalizer, ListTemplates, DeleteTemplate,
         RemoveFinalizer, Update, SyncNamespace, SyncTemplates, Restart, Touch, Fault, NoFault,
         DeleteNamespace, DropNamespace, EmptyNamespace, ValidateHere, AnswerHere,
         ReceiveHere, vars
  <1>5. (touches' = touches \/ (touches < MaxTouches /\ touches' = touches + 1))
        /\ (faults' = faults \/ (faults < MaxFaults /\ faults' = faults + 1))
    BY <1>3, <1>4 DEF nsVars
  <1> QED BY <1>1, <1>2, <1>5, ListAssumption, BoundAssumption DEF Counts

LEMMA ListsStep ==
  ASSUME Lists, [Next]_vars PROVE Lists'
  <1>1. CASE UNCHANGED <<seen, todo, listed>>
    BY <1>1 DEF Lists
  <1>2. CASE UNCHANGED nsVars
    BY <1>1, <1>2 DEF nsVars, reconcilerVars
  <1>3. CASE Reconcile \/ SyncNamespace \/ Touch \/ DeleteNamespace \/ DropNamespace
    BY <1>1, <1>3 DEF Reconcile, SyncNamespace, Touch, DeleteNamespace, DropNamespace,
         reconcilerVars
  <1>4. CASE AddFinalizer \/ RemoveFinalizer
    BY <1>4 DEF AddFinalizer, RemoveFinalizer, Update, Finish, Retry, Return, Lists
  <1>5. CASE ListTemplates
    BY <1>5 DEF ListTemplates, Retry, Return, Lists
  <1>6. ASSUME NEW n \in Names, DeleteTemplate(n) PROVE Lists'
    BY <1>6 DEF DeleteTemplate, Retry, Return, Lists
  <1>7. CASE SyncTemplates \/ Restart
    BY <1>7 DEF SyncTemplates, Restart, Present, reconcilerVars, Lists
  <1>8. ASSUME NEW h \in Handlers, AnswerHere(h) PROVE Lists'
    BY <1>8 DEF AnswerHere, Lists
  <1> QED BY <1>2, <1>3, <1>4, <1>5, <1>6, <1>7, <1>8
          DEF Next, Proceed, Reconciler, EmptyNamespace, ValidateHere, ReceiveHere, vars

LEMMA FlagsStep ==
  ASSUME Flags, [Next]_vars PROVE Flags'
  <1>1. made' = made \/ made' = TRUE \/ made' = FALSE
    BY DEF Next, Proceed, Reconciler, Reconcile, AddFinalizer, ListTemplates, DeleteTemplate,
         RemoveFinalizer, Update, SyncNamespace, SyncTemplates, Restart, Touch,
         DeleteNamespace, DropNamespace, EmptyNamespace, Process, ValidateHere, Validate,
         CheckTemplate, CheckField, CheckMap, MakeMap, LookupRegex, BeginInsert, Insert,
         AnswerHere, Answer, Fatal, ReceiveHere, Receive, admissionVars, vars
  <1>2. \/ UNCHANGED nsVars
        \/ /\ queued' = queued \/ queued' = TRUE \/ queued' = FALSE
           /\ at' = at \/ at' \in {"idle", "add", "list", "delete"}
    BY DEF Next, Proceed, Reconciler, Reconcile, AddFinalizer, ListTemplates, DeleteTemplate,
         RemoveFinalizer, Update, Finish, Retry, Return, SyncNamespace, SyncTemplates, Restart,
         Touch, DeleteNamespace, DropNamespace, EmptyNamespace, ValidateHere, AnswerHere,
         ReceiveHere, reconcilerVars, vars
  <1>3. /\ queued' = queued \/ queued' = TRUE \/ queued' = FALSE
        /\ at' = at \/ at' \in {"idle", "add", "list", "delete"}
    BY <1>2 DEF nsVars, reconcilerVars
  <1>4. made' \in BOOLEAN /\ queued' \in BOOLEAN
    BY <1>1, <1>3, Zenon DEF Flags
  <1> QED BY <1>3, <1>4 DEF Flags

\* Requests, the map of patterns, the namespace and its copies, and what the reconciler
\* lists keep their types, for any number of requests, restarts and failing calls
\* (validateKubeTemplate, Reconcile).
THEOREM CleanupTypes == Spec => []CleanupTypeOK
  <1>1. Init => Counts /\ Lists /\ Flags
    <2> SUFFICES ASSUME Init PROVE Counts /\ Lists /\ Flags
      OBVIOUS
    <2>1. Counts
      BY ListAssumption, BoundAssumption DEF Init, AdmissionInit, Counts
    <2>2. Lists
      BY DEF Init, Lists
    <2>3. Flags
      BY Zenon DEF Init, AdmissionInit, Flags
    <2> QED BY <2>1, <2>2, <2>3
  <1>2. Counts /\ Lists /\ Flags /\ [Next]_vars => Counts' /\ Lists' /\ Flags'
    BY CountsStep, ListsStep, FlagsStep
  <1>3. VerdictInv /\ NsInv /\ Counts /\ Lists /\ Flags => CleanupTypeOK
    <2> SUFFICES ASSUME VerdictInv, NsInv, Counts, Lists, Flags PROVE CleanupTypeOK
      OBVIOUS
    <2>1. AdmissionTypeOK
      BY DEF AdmissionTypeOK, VerdictInv, RequestsInv, CacheInv, Counts, Flags
    <2>2. nsSeen = Gone \/ nsSeen.version \in Nat
      BY DEF NsInv, CopyOK, Namespaces
    <2> QED BY <2>1, <2>2 DEF CleanupTypeOK, NsInv, Namespaces, Counts, Lists, Flags
  <1> QED BY <1>1, <1>2, <1>3, VerdictInvariant, NamespaceInvariant, PTL DEF Spec
=============================================================================
