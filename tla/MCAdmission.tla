---------------------------- MODULE MCAdmission ------------------------------
(* NamespaceCleanup, with the webhook, for TLC. *)
EXTENDS NamespaceCleanup

CONSTANTS Other, sA, sB   \* another namespace; two strings

NoField == [type |-> "unknown", path |-> "x", cel |-> None, regex |-> None,
            min |-> None, max |-> None]
CEL(set) == [holds |-> set, costly |-> FALSE]
Pattern(set) == [compiles |-> TRUE, matches |-> set]
Regex(set) == [NoField EXCEPT !.type = "regex", !.regex = Pattern(set)]
FieldCEL(p, set) == [NoField EXCEPT !.type = "cel", !.path = p, !.cel = CEL(set)]
Field0(t) == [NoField EXCEPT !.type = t]
Rule(k, targets, cel, fields) ==
  [kind |-> k, targets |-> targets, cel |-> cel, fields |-> fields]

Values == Strings \union {0, 2, 5, Null, Missing, Broken}
Objects == [kind : {"cm", "dep"}, namespace : {None, Other}, fields : [{"x"} -> Values]]
Simple(x) == [huge |-> FALSE, garbled |-> FALSE,
              obj |-> [kind |-> "cm", namespace |-> None, fields |-> [p \in {"x"} |-> x]]]

\* Policies whose only field validations are patterns.
PatternPolicies ==
  { <<Rule("cm", {Home}, None, <<Regex({sA})>>)>>,
    <<Rule("cm", {Home}, None, <<Regex({sB}), Regex({sA, sB})>>)>> }

MCPolicies == PatternPolicies \union
  { <<Rule("dep", {Other}, None, <<[Field0("range") EXCEPT !.min = 1]>>),
      Rule("dep", {Home}, None, <<>>)>>,
    <<Rule("dep", {Home, Other}, None, <<[Field0("range") EXCEPT !.max = 2], Field0("range")>>),
      Rule("cm", {}, None, <<>>)>>,
    <<Rule("cm", {Home, Other}, CEL({o \in Objects : o.namespace = Home}), <<Field0("required")>>),
      Rule("dep", {Home}, None, <<Field0("forbidden"), FieldCEL("x", {Null, sA})>>)>>,
    <<Rule("cm", {Home}, [holds |-> Objects, costly |-> TRUE], <<>>),
      Rule("dep", {Home}, CEL({o \in Objects : o.fields["x"] # sA}),
           <<FieldCEL("x", {Null, 2, sB}), FieldCEL(Whole, {o \in Objects : o.fields["x"] \in {2, sB}})>>)>>,
    <<Rule("cm", {Home}, None, <<Field0("unknown")>>),
      Rule("dep", {Home}, None,
           <<[Field0("regex") EXCEPT !.regex = [compiles |-> FALSE, matches |-> {}]]>>)>>,
    <<Rule("cm", {Other}, None, <<[Regex({sA}) EXCEPT !.path = Whole]>>),
      Rule("dep", {Other}, None, <<[Field0("range") EXCEPT !.path = Whole, !.min = 0]>>)>> }

PatternSpecs == {<<Simple(sA)>>, <<Simple(sB)>>, <<Simple(sB), Simple(sA)>>}

MCSpecs ==
  PatternSpecs
  \union {<<[huge |-> FALSE, garbled |-> FALSE, obj |-> o]>> : o \in Objects}
  \union {<<>>, <<Simple(sA), Simple(sA), Simple(sA)>>, <<Simple(sA), [Simple(sA) EXCEPT !.obj.kind = "dep"]>>,
          <<[Simple(sA) EXCEPT !.huge = TRUE]>>, <<Simple(sA), [Simple(sA) EXCEPT !.garbled = TRUE]>>}

\* Three stories: one request of any kind that is processed under any policy; requests
\* at the same time whose policies have patterns; and the life of the namespace with
\* requests that comply.
Plain == [templates |-> <<Simple(sA)>>, policy |-> <<Rule("cm", {Home}, None, <<Regex({sA})>>)>>]
IsPlain(r) == r.templates = Plain.templates /\ r.policy = Plain.policy

NamespaceRests == ns # Gone /\ ns.version = 0 /\ queued /\ seen = {} /\ faults = 0
OneHandler == \A h \in Handlers : request[h] # Idle => h = CHOOSE g \in Handlers : TRUE
OneName == \A h \in Handlers : request[h] # Idle => request[h].name = CHOOSE n \in Names : TRUE

AnyRequest == NamespaceRests /\ requests <= 1 /\ OneHandler /\ OneName
Patterns ==
  /\ NamespaceRests /\ requests <= 2 /\ OneName
  /\ \A h \in Handlers : request[h] # Idle =>
       request[h].templates \in PatternSpecs /\ request[h].policy \in PatternPolicies
  /\ \A n \in Names : processed[n] = NoObject
NamespaceLives ==
  /\ OneHandler
  /\ \A h \in Handlers : request[h] # Idle => IsPlain(request[h])
  /\ \A n \in Names : processed[n] = NoObject /\ (store[n] # NoObject => IsPlain(store[n]))

Story == AnyRequest \/ Patterns \/ NamespaceLives

\* The requests that can arrive in these stories.
Offered ==
  IF requests = 0 /\ NamespaceRests THEN [templates : Specs, policy : Policies \union {None}]
  ELSE IF NamespaceRests THEN [templates : PatternSpecs, policy : PatternPolicies]
  ELSE {Plain}

StoryNext ==
  \/ Proceed /\ Story'
  \/ \E h \in Handlers, n \in Names, r \in Offered :
       ReceiveHere(h, n, r.templates, r.policy) /\ Story'

StorySpec == Init /\ [][StoryNext]_vars /\ Fairness
=============================================================================
