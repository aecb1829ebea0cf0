-------------------------- MODULE OnboardingProofs --------------------------
(***************************************************************************)
(* Proofs about Onboarding, for every set of participants, roles and        *)
(* requests: however many requests race or are cut short between two        *)
(* writes, a provisioning that is reported done is complete, and nobody is  *)
(* given a role by the registration workflow without both approvals.        *)
(***************************************************************************)
EXTENDS Onboarding, NodeExecutorProofs

\* What a request has still to do.  A source has its record to make, a sink
\* the history to read, a route its grants to add ...
Sourced == <<"source_executed">>
Reading == <<"history">>
Granting == <<"grant">>
\* ... and a request that provisions ends with the step e.
Upserting(e) == <<"upsert", "find", e>>
Finding(e) == <<"find", e>>
Assigning(e) == <<"assign", "list", e>>
Listing(e) == <<"list", e>>
GrantingMore(e) == <<"grant", "find", e>>
GrantingLast(e) == <<"grant", e>>
Ending(e) == <<e>>

LastStep == {"initialized", "sink_executed"}

\* The first step of each of these.
LEMMA FirstSteps ==
    /\ Head(Sourced) = "source_executed" /\ Head(Reading) = "history" /\ Head(Granting) = "grant"
    /\ \A e : /\ Head(Upserting(e)) = "upsert" /\ Head(Finding(e)) = "find"
              /\ Head(Assigning(e)) = "assign" /\ Head(Listing(e)) = "list"
              /\ Head(GrantingMore(e)) = "grant" /\ Head(GrantingLast(e)) = "grant"
              /\ Head(Ending(e)) = e
BY DEF Sourced, Reading, Granting, Upserting, Finding, Assigning, Listing, GrantingMore,
       GrantingLast, Ending

\* What is left of each after its first step.
LEMMA LaterSteps ==
    /\ Tail(Sourced) = << >> /\ Tail(Reading) = << >> /\ Tail(Granting) = << >>
    /\ \A e : /\ Tail(Upserting(e)) = Finding(e) /\ Tail(Finding(e)) = Ending(e)
              /\ Tail(Assigning(e)) = Listing(e) /\ Tail(Listing(e)) = Ending(e)
              /\ Tail(GrantingMore(e)) = Finding(e) /\ Tail(GrantingLast(e)) = Ending(e)
              /\ Tail(Ending(e)) = << >>
<1>1. Tail(Sourced) = << >> /\ Tail(Reading) = << >> /\ Tail(Granting) = << >>
  BY DEF Sourced, Reading, Granting
<1>2. ASSUME NEW e
      PROVE  /\ Tail(Upserting(e)) = Finding(e) /\ Tail(Finding(e)) = Ending(e)
             /\ Tail(Assigning(e)) = Listing(e) /\ Tail(Listing(e)) = Ending(e)
             /\ Tail(GrantingMore(e)) = Finding(e) /\ Tail(GrantingLast(e)) = Ending(e)
             /\ Tail(Ending(e)) = << >>
  <2>1. Tail(Upserting(e)) = Finding(e)
    BY DEF Upserting, Finding
  <2>2. Tail(Finding(e)) = Ending(e)
    BY DEF Finding, Ending
  <2>3. Tail(Assigning(e)) = Listing(e)
    BY DEF Assigning, Listing
  <2>4. Tail(Listing(e)) = Ending(e)
    BY DEF Listing, Ending
  <2>5. Tail(GrantingMore(e)) = Finding(e)
    BY DEF GrantingMore, Finding
  <2>6. Tail(GrantingLast(e)) = Ending(e)
    BY DEF GrantingLast, Ending
  <2>7. Tail(Ending(e)) = << >>
    BY DEF Ending
  <2> QED BY <2>1, <2>2, <2>3, <2>4, <2>5, <2>6, <2>7
<1> QED BY <1>1, <1>2

\* None of these is finished.
LEMMA Unfinished ==
    /\ Sourced # << >> /\ Reading # << >> /\ Granting # << >>
    /\ \A e : /\ Upserting(e) # << >> /\ Finding(e) # << >> /\ Assigning(e) # << >>
              /\ Listing(e) # << >> /\ GrantingMore(e) # << >> /\ GrantingLast(e) # << >>
              /\ Ending(e) # << >>
BY DEF Sourced, Reading, Granting, Upserting, Finding, Assigning, Listing, GrantingMore,
       GrantingLast, Ending

\* Short lists put together.
LEMMA Joined ==
    ASSUME NEW x, NEW y, NEW z
    PROVE  /\ <<x>> \o <<y>> = <<x, y>>
           /\ <<x>> \o <<y, z>> = <<x, y, z>>
           /\ <<x, y>> \o <<z>> = <<x, y, z>>
<1> DEFINE S == {x, y, z}
<1>1. ASSUME NEW a \in Seq(S), NEW b \in Seq(S), Len(a) = Len(b),
             \A i \in 1..Len(a) : a[i] = b[i]
      PROVE  a = b
  BY <1>1
<1>2. <<x>> \o <<y>> = <<x, y>>
  <2> DEFINE a == <<x>> \o <<y>>
             b == <<x, y>>
  <2>1. a \in Seq(S) /\ b \in Seq(S) /\ Len(a) = 2 /\ Len(b) = 2 /\ a[1] = b[1] /\ a[2] = b[2]
    OBVIOUS
  <2> HIDE DEF a, b, S
  <2>2. \A i \in 1..Len(a) : a[i] = b[i]
    BY <2>1
  <2>3. a = b
    BY <1>1, <2>1, <2>2
  <2> QED BY <2>3 DEF a, b
<1>3. <<x>> \o <<y, z>> = <<x, y, z>>
  <2> DEFINE a == <<x>> \o <<y, z>>
             b == <<x, y, z>>
  <2>1. /\ a \in Seq(S) /\ b \in Seq(S) /\ Len(a) = 3 /\ Len(b) = 3
        /\ a[1] = b[1] /\ a[2] = b[2] /\ a[3] = b[3]
    OBVIOUS
  <2> HIDE DEF a, b, S
  <2>2. \A i \in 1..Len(a) : a[i] = b[i]
    BY <2>1
  <2>3. a = b
    BY <1>1, <2>1, <2>2
  <2> QED BY <2>3 DEF a, b
<1>4. <<x, y>> \o <<z>> = <<x, y, z>>
  <2> DEFINE a == <<x, y>> \o <<z>>
             b == <<x, y, z>>
  <2>1. /\ a \in Seq(S) /\ b \in Seq(S) /\ Len(a) = 3 /\ Len(b) = 3
        /\ a[1] = b[1] /\ a[2] = b[2] /\ a[3] = b[3]
    OBVIOUS
  <2> HIDE DEF a, b, S
  <2>2. \A i \in 1..Len(a) : a[i] = b[i]
    BY <2>1
  <2>3. a = b
    BY <1>1, <2>1, <2>2
  <2> QED BY <2>3 DEF a, b
<1> QED BY <1>2, <1>3, <1>4

\* What a step puts in front of the rest.
LEMMA NextSteps ==
    ASSUME NEW e
    PROVE  /\ <<"list">> \o Ending(e) = Listing(e)
           /\ <<"assign", "list">> \o Ending(e) = Assigning(e)
           /\ <<"grant">> \o Finding(e) = GrantingMore(e)
           /\ <<"grant">> \o Ending(e) = GrantingLast(e)
           /\ << >> \o Finding(e) = Finding(e) /\ << >> \o Ending(e) = Ending(e)
           /\ <<"find">> \o Ending(e) = Finding(e)
           /\ <<"grant">> \o << >> = Granting /\ << >> \o << >> = << >>
           /\ (<<"grant">> \o <<"find">>) \o Ending(e) = GrantingMore(e)
           /\ (<<"grant">> \o << >>) \o Ending(e) = GrantingLast(e)
           /\ (<< >> \o <<"find">>) \o Ending(e) = Finding(e)
           /\ (<< >> \o << >>) \o Ending(e) = Ending(e)
<1>1. /\ <<"list">> \o Ending(e) = Listing(e)
      /\ <<"assign", "list">> \o Ending(e) = Assigning(e)
  BY Joined, Zenon DEF Ending, Listing, Assigning
<1>2. /\ <<"grant">> \o Finding(e) = GrantingMore(e)
      /\ <<"grant">> \o Ending(e) = GrantingLast(e)
      /\ <<"find">> \o Ending(e) = Finding(e)
  BY Joined, Zenon DEF Ending, Finding, GrantingMore, GrantingLast
<1>3. << >> \o Finding(e) = Finding(e) /\ << >> \o Ending(e) = Ending(e)
  BY DEF Ending, Finding
<1>4. <<"grant">> \o << >> = Granting /\ << >> \o << >> = << >>
  BY DEF Granting
<1>5. (<<"grant">> \o <<"find">>) \o Ending(e) = GrantingMore(e)
  BY Joined, Zenon DEF Ending, GrantingMore
<1>6. (<<"grant">> \o << >>) \o Ending(e) = GrantingLast(e)
  BY <1>2, <1>4 DEF Granting
<1>7. (<< >> \o <<"find">>) \o Ending(e) = Finding(e)
  <2>1. << >> \o <<"find">> = <<"find">>
    OBVIOUS
  <2> QED BY <1>2, <2>1
<1>8. (<< >> \o << >>) \o Ending(e) = Ending(e)
  BY <1>3, <1>4
<1> QED BY <1>1, <1>2, <1>3, <1>4, <1>5, <1>6, <1>7, <1>8

-----------------------------------------------------------------------------
(* The inductive invariant.                                                 *)

\* Both validators have accepted the card.
RegistrationApproved(card) ==
    /\ card \in DOMAIN cards
    /\ Approved(card, "registration_compliance_validator", "registration_compliant")
    /\ Approved(card, "registration_admin_reviewer", "registration_approved")

\* The roles that the request of a card is to ensure; the bootstrap has none.
CallRoles(card) == IF card = 0 THEN RootRoles ELSE cards[card].payload.roles

\* Permission i of the role of r has been granted in its scope.
Granted(r, i) == \E g \in BagToSet(grants) : /\ g.role = r.role
                                             /\ g.permission = RoleTemplate[r.role][i]
                                             /\ g.scope = r.scope

\* m are grants that the template of r's role has at these positions.
IsMissing(m, r, origin) ==
    /\ r.role \in DOMAIN RoleTemplate
    /\ DOMAIN m \subseteq permissions(r.role)
    /\ \A i \in DOMAIN m : m[i] = permission_grants(r.role, r.scope, origin)[i]

\* The role r is assigned, and each of its permissions is granted or among
\* the grants m that the request will add.
Ensured(r, m) ==
    /\ HasAssignment(r)
    /\ \A i \in permissions(r.role) :
          \/ Granted(r, i)
          \/ i \in DOMAIN m /\ m[i] = permission_grants(r.role, r.scope, "builtin")[i]

IsData(d) == d = [participant |-> d.participant, status |-> d.status, roles |-> d.roles,
                  missing |-> d.missing]

\* For whom a request that ends with step e provisions.
Entitled(card, e) ==
    \/ e = "initialized" /\ card = 0
    \/ /\ e = "sink_executed"
       /\ RegistrationApproved(card)
       /\ cards[card].payload \in Payload /\ cards[card].payload.compliant

\* Where such a request is.
Stage(todo, e, roles, m) ==
    \/ /\ todo = Upserting(e) \/ todo = Finding(e) \/ todo = Assigning(e)
       /\ roles # << >> /\ DOMAIN m = {}
    \/ /\ todo = Listing(e)
       /\ roles # << >> /\ DOMAIN m = {} /\ HasAssignment(Head(roles))
    \/ /\ todo = GrantingMore(e)
       /\ roles # << >> /\ DOMAIN m # {} /\ \E r : IsMissing(m, r, "builtin")
    \/ /\ todo = GrantingLast(e)
       /\ roles = << >> /\ DOMAIN m # {} /\ \E r : IsMissing(m, r, "builtin")
    \/ /\ todo = Ending(e)
       /\ roles = << >> /\ DOMAIN m = {}

\* A request that provisions: the roles it no longer has before it are
\* ensured, up to the grants it is adding.
Provisions(t, e) ==
    /\ IsData(t.data) /\ t.data.status \in ParticipantStatus
    /\ Entitled(t.card, e)
    /\ IsSequence(t.data.roles)
    /\ Elements(t.data.roles) \subseteq Elements(CallRoles(t.card))
    /\ \A r \in Elements(CallRoles(t.card)) :
          r \in Elements(t.data.roles) \/ Ensured(r, t.data.missing)
    /\ Stage(t.todo, e, t.data.roles, t.data.missing)

CallOK(t) ==
    /\ IsCall(t)
    /\ \/ t.todo = << >> /\ (t.data = None \/ DOMAIN t.data.missing = {})
       \/ t.todo = Sourced /\ t.card \in DOMAIN cards /\ t.data = None
       \/ t.todo = Reading /\ t.card \in DOMAIN cards /\ t.data = None
       \/ /\ t.todo = Granting /\ IsData(t.data)
          /\ DOMAIN t.data.missing # {} /\ \E r : IsMissing(t.data.missing, r, "api")
       \/ \E e \in LastStep : Provisions(t, e)

CallsOK == call = [c \in Client |-> call[c]] /\ \A c \in Client : CallOK(call[c])

\* The tables: what TypeOK says of them, and who was given a role by the
\* system.
ParticipantsOK == \A p \in DOMAIN participants : participants[p] \in ParticipantStatus

AssignmentOK(a) ==
    /\ a.participant \in DOMAIN participants
    /\ a.origin = "builtin" /\ a.participant # Root =>
          \E card \in DOMAIN cards :
             /\ \E r \in Elements(cards[card].payload.roles) : MkAssignment(r, "builtin") = a
             /\ RegistrationApproved(card)

GrantOK(g) == g.permission \in Permission /\ (g.participant = None <=> g.role # None)

AuthorityOK ==
    /\ ParticipantsOK
    /\ \A a \in BagToSet(assignments) : AssignmentOK(a)
    /\ \A g \in BagToSet(grants) : GrantOK(g)

PayloadsOK == \A i \in DOMAIN cards : cards[i].payload \in Payload

\* What a sink recorded is done.
SinksDone ==
    \A card \in DOMAIN cards : \A e \in Events(card) : e.type = "sink_executed" =>
        \A r \in Elements(cards[card].payload.roles) : Provisioned(r)

Core ==
    /\ registered = {Registration}
    /\ RuntimeOK /\ PayloadsOK /\ AuthorityOK /\ SinksDone /\ CallsOK

-----------------------------------------------------------------------------
(* What stays true while the tables grow.                                   *)

\* Nothing in the system takes a participant, a role or a grant away.
AuthorityGrows ==
    /\ DOMAIN participants \subseteq DOMAIN participants'
    /\ BagToSet(assignments) \subseteq BagToSet(assignments)'
    /\ BagToSet(grants) \subseteq BagToSet(grants)'

\* A role once assigned, a permission once granted and a role once ensured
\* stay so.
LEMMA AuthorityStays ==
    ASSUME AuthorityGrows, NEW r
    PROVE  /\ HasAssignment(r) => HasAssignment(r)'
           /\ \A i : Granted(r, i) => Granted(r, i)'
           /\ \A m : Ensured(r, m) => Ensured(r, m)'
           /\ Provisioned(r) => Provisioned(r)'
<1>1. HasAssignment(r) => HasAssignment(r)'
  BY DEF HasAssignment, list_role_assignments, AuthorityGrows
<1>2. \A i : Granted(r, i) => Granted(r, i)'
  BY DEF Granted, AuthorityGrows
<1>3. \A m : Ensured(r, m) => Ensured(r, m)'
  BY <1>1, <1>2 DEF Ensured
<1>4. ASSUME Provisioned(r) PROVE Provisioned(r)'
  <2>1. list_permission_grants(r.participant) \subseteq list_permission_grants(r.participant)'
    BY DEF list_permission_grants, list_role_assignments, AuthorityGrows
  <2> QED BY <1>1, <1>4, <2>1 DEF Provisioned
<1> QED BY <1>1, <1>2, <1>3, <1>4

\* A registration stays approved: nothing is taken out of a history.
LEMMA ApprovalsStay ==
    ASSUME RuntimeOK, Grows, NEW card, RegistrationApproved(card)
    PROVE  RegistrationApproved(card)' /\ cards'[card].payload = cards[card].payload
<1>1. /\ card \in DOMAIN cards
      /\ Approved(card, "registration_compliance_validator", "registration_compliant")
      /\ Approved(card, "registration_admin_reviewer", "registration_approved")
  BY DEF RegistrationApproved
<1>2. /\ Approved(card, "registration_compliance_validator", "registration_compliant")'
      /\ Approved(card, "registration_admin_reviewer", "registration_approved")'
  BY <1>1, ApprovalStays
<1> QED BY <1>1, <1>2 DEF RegistrationApproved, Grows

\* Cards are numbered from one.
LEMMA NoCardZero ==
    ASSUME RuntimeOK
    PROVE  0 \notin DOMAIN cards
<1>1. DOMAIN cards = 1..Len(cards) /\ Len(cards) \in Nat
  BY DEF RuntimeOK, IsSequence
<1> QED BY <1>1

\* Whom a request provisions for, and what, does not change under it.
LEMMA EntitledStays ==
    ASSUME RuntimeOK, Grows, NEW card, NEW e, Entitled(card, e)
    PROVE  Entitled(card, e)' /\ CallRoles(card)' = CallRoles(card)
<1>1. CASE e = "initialized" /\ card = 0
  BY <1>1 DEF Entitled, CallRoles, RootRoles
<1>2. CASE /\ e = "sink_executed" /\ RegistrationApproved(card)
           /\ cards[card].payload \in Payload /\ cards[card].payload.compliant
  <2>1. RegistrationApproved(card)' /\ cards'[card].payload = cards[card].payload
    BY <1>2, ApprovalsStay
  <2>2. card # 0
    BY <1>2, NoCardZero DEF RegistrationApproved
  <2> QED BY <1>2, <2>1, <2>2 DEF Entitled, CallRoles
<1> QED BY <1>1, <1>2 DEF Entitled

\* What a request that provisions has done stays done.
LEMMA ProvisionsStay ==
    ASSUME RuntimeOK, Grows, AuthorityGrows, NEW t, NEW e, Provisions(t, e)
    PROVE  Provisions(t, e)'
<1>1. PICK roles : roles = CallRoles(t.card)
  OBVIOUS
<1>2. Entitled(t.card, e)' /\ CallRoles(t.card)' = roles
  BY <1>1, EntitledStays DEF Provisions
<1>3. Stage(t.todo, e, t.data.roles, t.data.missing)'
  <2>1. PICK r : r = Head(t.data.roles)
    OBVIOUS
  <2>2. HasAssignment(r) => HasAssignment(r)'
    BY AuthorityStays
  <2>3. HasAssignment(Head(t.data.roles)) => HasAssignment(Head(t.data.roles))'
    BY <2>1, <2>2
  <2>4. Stage(t.todo, e, t.data.roles, t.data.missing)
    BY DEF Provisions
  <2> QED BY <2>3, <2>4 DEF Stage, IsMissing
<1>4. \A r \in Elements(roles) :
         r \in Elements(t.data.roles) \/ Ensured(r, t.data.missing)'
  BY <1>1, AuthorityStays DEF Provisions
<1> QED BY <1>1, <1>2, <1>3, <1>4 DEF Provisions

\* What a waiting request knows stays true while others run.
LEMMA CallStays ==
    ASSUME RuntimeOK, Grows, AuthorityGrows, NEW t, CallOK(t)
    PROVE  CallOK(t)'
<1>1. IsCall(t)
  BY DEF CallOK
<1>2. DOMAIN cards \subseteq DOMAIN cards'
  BY DEF Grows
<1>3. CASE \E e \in LastStep : Provisions(t, e)
  <2>1. PICK e \in LastStep : Provisions(t, e)
    BY <1>3
  <2>2. Provisions(t, e)'
    BY <2>1, ProvisionsStay
  <2> QED BY <1>1, <2>2 DEF CallOK
<1>4. CASE \/ t.todo = << >> /\ (t.data = None \/ DOMAIN t.data.missing = {})
           \/ t.todo = Sourced /\ t.card \in DOMAIN cards /\ t.data = None
           \/ t.todo = Reading /\ t.card \in DOMAIN cards /\ t.data = None
           \/ /\ t.todo = Granting /\ IsData(t.data)
              /\ DOMAIN t.data.missing # {} /\ \E r : IsMissing(t.data.missing, r, "api")
  BY <1>1, <1>2, <1>4 DEF CallOK
<1> QED BY <1>3, <1>4 DEF CallOK

\* The tables that no step writes stay right while the others grow.
LEMMA TablesStay ==
    ASSUME Core, Grows, AuthorityGrows, NEW a, AssignmentOK(a)
    PROVE  AssignmentOK(a)'
<1>1. a.participant \in DOMAIN participants'
  BY DEF AssignmentOK, AuthorityGrows
<1>2. ASSUME a.origin = "builtin", a.participant # Root
      PROVE  \E card \in DOMAIN cards' :
                /\ \E r \in Elements(cards'[card].payload.roles) : MkAssignment(r, "builtin") = a
                /\ RegistrationApproved(card)'
  <2>1. PICK card \in DOMAIN cards :
               /\ \E r \in Elements(cards[card].payload.roles) : MkAssignment(r, "builtin") = a
               /\ RegistrationApproved(card)
    BY <1>2 DEF AssignmentOK
  <2>2. RegistrationApproved(card)' /\ cards'[card].payload = cards[card].payload
    BY <2>1, ApprovalsStay DEF Core
  <2>3. card \in DOMAIN cards'
    BY DEF Grows
  <2> QED BY <2>1, <2>2, <2>3
<1> QED BY <1>1, <1>2 DEF AssignmentOK, MkAssignment

\* A step in which the tables grow and stay right, every new record of a sink
\* is of a completed provisioning, and a request may go on.
LEMMA Step ==
    ASSUME Core, RuntimeOK', Grows, UNCHANGED registered, PayloadsOK', AuthorityOK', AuthorityGrows,
           \A card \in DOMAIN cards' : \A e \in Events(card)' :
              \/ card \in DOMAIN cards /\ e \in Events(card)
              \/ e.type # "sink_executed"
              \/ /\ card \in DOMAIN cards
                 /\ \A r \in Elements(cards[card].payload.roles) : Provisioned(r),
           \/ UNCHANGED call
           \/ \E c \in Client : \E u : call' = [call EXCEPT ![c] = u] /\ CallOK(u)'
    PROVE  Core'
<1>1. SinksDone'
  <2> SUFFICES ASSUME NEW card \in DOMAIN cards', NEW e \in Events(card)',
                      e.type = "sink_executed",
                      NEW r \in Elements(cards'[card].payload.roles)
               PROVE  Provisioned(r)'
    BY DEF SinksDone
  <2>1. /\ card \in DOMAIN cards
        /\ \A q \in Elements(cards[card].payload.roles) : Provisioned(q)
    BY DEF Core, SinksDone
  <2>2. cards'[card].payload = cards[card].payload
    BY <2>1 DEF Grows
  <2>3. Provisioned(r)
    BY <2>1, <2>2
  <2> QED BY <2>3, AuthorityStays
<1>2. CallsOK'
  <2>1. CASE UNCHANGED call
    <3>1. ASSUME NEW d \in Client PROVE CallOK(call[d])'
      <4>1. PICK t : t = call'[d]
        OBVIOUS
      <4>2. CallOK(t)
        BY <2>1, <4>1 DEF Core, CallsOK
      <4>3. CallOK(t)'
        BY <4>2, CallStays DEF Core
      <4> QED BY <4>1, <4>3
    <3> QED BY <2>1, <3>1 DEF Core, CallsOK
  <2>2. CASE \E c \in Client : \E u : call' = [call EXCEPT ![c] = u] /\ CallOK(u)'
    <3>1. PICK c \in Client : \E u : call' = [call EXCEPT ![c] = u] /\ CallOK(u)'
      BY <2>2
    <3>2. PICK u : call' = [call EXCEPT ![c] = u] /\ CallOK(u)'
      BY <3>1
    <3>3. call' = [d \in Client |-> IF d = c THEN u ELSE call[d]]
      BY <3>2 DEF Core, CallsOK
    <3>4. ASSUME NEW d \in Client PROVE CallOK(call[d])'
      <4>1. PICK t : t = call'[d]
        OBVIOUS
      <4>2. CallOK(t)'
        <5>1. CASE d = c
          BY <3>2, <3>3, <4>1, <5>1
        <5>2. CASE d # c
          <6>1. CallOK(t)
            BY <3>3, <4>1, <5>2 DEF Core, CallsOK
          <6> QED BY <6>1, CallStays DEF Core
        <5> QED BY <5>1, <5>2
      <4> QED BY <4>1, <4>2
    <3> QED BY <3>3, <3>4 DEF CallsOK
  <2> QED BY <2>1, <2>2
<1> QED BY <1>1, <1>2 DEF Core

\* A step that leaves the tables of authority alone.
LEMMA AuthorityUnchanged ==
    ASSUME Core, Grows, UNCHANGED authorityVars
    PROVE  AuthorityOK' /\ AuthorityGrows
<1>1. AuthorityGrows
  BY DEF AuthorityGrows, authorityVars, BagToSet
<1>2. ASSUME NEW a \in BagToSet(assignments)' PROVE AssignmentOK(a)'
  <2>1. AssignmentOK(a)
    BY <1>2 DEF Core, AuthorityOK, authorityVars, BagToSet
  <2> QED BY <1>1, <2>1, TablesStay
<1>3. ParticipantsOK' /\ \A g \in BagToSet(grants)' : GrantOK(g)'
  BY DEF Core, AuthorityOK, ParticipantsOK, GrantOK, authorityVars, BagToSet
<1> QED BY <1>1, <1>2, <1>3 DEF AuthorityOK

\* A step that leaves the runtime's tables alone.
LEMMA RuntimeUnchanged ==
    ASSUME Core, UNCHANGED runtimeVars
    PROVE  /\ RuntimeOK' /\ Grows /\ UNCHANGED registered /\ PayloadsOK'
           /\ \A card \in DOMAIN cards' : \A e \in Events(card)' :
                 card \in DOMAIN cards /\ e \in Events(card)
BY NoChange DEF Core, runtimeVars, Events, PayloadsOK

\* A step of a request that writes nothing.
LEMMA RequestOnly ==
    ASSUME Core, UNCHANGED <<runtimeVars, authorityVars>>, NEW c \in Client, NEW u,
           call' = [call EXCEPT ![c] = u], CallOK(u)
    PROVE  Core'
<1>1. /\ RuntimeOK' /\ Grows /\ UNCHANGED registered /\ PayloadsOK'
      /\ \A card \in DOMAIN cards' : \A e \in Events(card)' :
            card \in DOMAIN cards /\ e \in Events(card)
  BY RuntimeUnchanged
<1>2. AuthorityOK' /\ AuthorityGrows
  BY <1>1, AuthorityUnchanged
<1>3. CallOK(u)'
  BY <1>1, <1>2, CallStays DEF Core
<1> QED BY <1>1, <1>2, <1>3, Step

\* A step that writes authority only.
LEMMA AuthorityStep ==
    ASSUME Core, UNCHANGED runtimeVars, AuthorityOK', AuthorityGrows,
           \/ UNCHANGED call
           \/ \E c \in Client : \E u : call' = [call EXCEPT ![c] = u] /\ CallOK(u)'
    PROVE  Core'
<1>1. /\ RuntimeOK' /\ Grows /\ UNCHANGED registered /\ PayloadsOK'
      /\ \A card \in DOMAIN cards' : \A e \in Events(card)' :
            card \in DOMAIN cards /\ e \in Events(card)
  BY RuntimeUnchanged
<1> QED BY <1>1, Step

-----------------------------------------------------------------------------
(* Where a request is.                                                      *)

\* The request of a client that is at a step.
LEMMA AtStep ==
    ASSUME Core, NEW c \in Client, NEW step, At(c, step), NEW t, t = call[c]
    PROVE  /\ CallOK(t) /\ IsCall(t) /\ t.todo # << >> /\ Head(t.todo) = step
           /\ Rest(c) = Tail(t.todo)
BY DEF Core, CallsOK, CallOK, At, IsIdle, Rest

\* A request goes on from its step.
LEMMA GoesOn ==
    ASSUME Core, NEW c \in Client, NEW todo, NEW ref, NEW data, Proceed(c, todo, ref, data)
    PROVE  \E u : /\ call' = [call EXCEPT ![c] = u] /\ IsCall(u) /\ u.todo = todo
                  /\ todo = << >> => u.data = None
                  /\ todo # << >> =>
                        u.card = call[c].card /\ u.ref = ref /\ u.data = data
<1>1. call = [d \in Client |-> call[d]] /\ IsCall(call[c])
  BY DEF Core, CallsOK, CallOK
<1>2. Idle.data = None
  BY DEF Idle, MkCall
<1>3. PICK u : /\ call' = [call EXCEPT ![c] = u]
               /\ IsCall(u) /\ u.todo = todo
               /\ todo = << >> => u = Idle
               /\ todo # << >> =>
                     /\ u.node = call[c].node /\ u.card = call[c].card
                     /\ u.key = call[c].key /\ u.ref = ref /\ u.data = data
  BY <1>1, ProceedCall
<1> QED BY <1>2, <1>3

\* The next step of a request that provisions tells how far it is.
LEMMA AtStage ==
    ASSUME NEW t, NEW e \in LastStep, Provisions(t, e)
    PROVE  /\ Head(t.todo) = "upsert" => t.todo = Upserting(e)
           /\ Head(t.todo) = "find" => t.todo = Finding(e)
           /\ Head(t.todo) = "assign" => t.todo = Assigning(e)
           /\ Head(t.todo) = "list" => t.todo = Listing(e)
           /\ Head(t.todo) = "grant" => t.todo = GrantingMore(e) \/ t.todo = GrantingLast(e)
           /\ Head(t.todo) \in LastStep => t.todo = Ending(e) /\ Head(t.todo) = e
           /\ Head(t.todo) \in {"upsert", "find", "assign", "list", "grant"} \union LastStep
           /\ t.todo # << >>
<1>1. Stage(t.todo, e, t.data.roles, t.data.missing)
  BY DEF Provisions
<1>2. e = "initialized" \/ e = "sink_executed"
  BY DEF LastStep
<1>3. CASE t.todo = Upserting(e)
  BY <1>2, <1>3, FirstSteps, Unfinished DEF LastStep
<1>4. CASE t.todo = Finding(e)
  BY <1>2, <1>4, FirstSteps, Unfinished DEF LastStep
<1>5. CASE t.todo = Assigning(e)
  BY <1>2, <1>5, FirstSteps, Unfinished DEF LastStep
<1>6. CASE t.todo = Listing(e)
  BY <1>2, <1>6, FirstSteps, Unfinished DEF LastStep
<1>7. CASE t.todo = GrantingMore(e) \/ t.todo = GrantingLast(e)
  BY <1>2, <1>7, FirstSteps, Unfinished DEF LastStep
<1>8. CASE t.todo = Ending(e)
  BY <1>2, <1>8, FirstSteps, Unfinished DEF LastStep
<1> QED BY <1>1, <1>3, <1>4, <1>5, <1>6, <1>7, <1>8 DEF Stage

\* The next step of a request tells what it is.
LEMMA AtProgram ==
    ASSUME NEW t, CallOK(t), t.todo # << >>
    PROVE  /\ Head(t.todo) = "source_executed" => t.todo = Sourced /\ t.card \in DOMAIN cards
           /\ Head(t.todo) = "history" => t.todo = Reading /\ t.card \in DOMAIN cards
           /\ Head(t.todo) \in {"upsert", "find", "assign", "list"} \union LastStep =>
                 \E e \in LastStep : Provisions(t, e)
           /\ Head(t.todo) = "grant" =>
                 \/ /\ t.todo = Granting /\ IsData(t.data)
                    /\ DOMAIN t.data.missing # {} /\ \E r : IsMissing(t.data.missing, r, "api")
                 \/ \E e \in LastStep : Provisions(t, e)
<1>1. CASE t.todo = Sourced /\ t.card \in DOMAIN cards
  BY <1>1, FirstSteps DEF LastStep
<1>2. CASE t.todo = Reading /\ t.card \in DOMAIN cards
  BY <1>2, FirstSteps DEF LastStep
<1>3. CASE /\ t.todo = Granting /\ IsData(t.data)
           /\ DOMAIN t.data.missing # {} /\ \E r : IsMissing(t.data.missing, r, "api")
  BY <1>3, FirstSteps DEF LastStep
<1>4. CASE \E e \in LastStep : Provisions(t, e)
  <2>1. Head(t.todo) # "source_executed" /\ Head(t.todo) # "history"
    BY <1>4, AtStage DEF LastStep
  <2> QED BY <1>4, <2>1
<1> QED BY <1>1, <1>2, <1>3, <1>4 DEF CallOK

\* What a request provisions: roles of the catalogue, at least one.
LEMMA RolesAsked ==
    ASSUME NEW card, NEW e, Entitled(card, e), RuntimeOK
    PROVE  /\ IsSequence(CallRoles(card)) /\ CallRoles(card) # << >>
           /\ \A r \in Elements(CallRoles(card)) :
                 r.role \in DOMAIN RoleTemplate /\ (card = 0 => r.participant = Root)
<1>1. CASE e = "initialized" /\ card = 0
  <2>1. "admin" \in DOMAIN RoleTemplate
    BY DEF RoleTemplate
  <2>2. PICK r : r = [participant |-> Root, role |-> "admin", scope |-> GlobalScope]
    OBVIOUS
  <2>3. r.role = "admin" /\ r.participant = Root
    BY <2>2
  <2>4. CallRoles(card) = <<r>>
    BY <1>1, <2>2 DEF CallRoles, RootRoles
  <2> QED BY <2>1, <2>3, <2>4 DEF IsSequence, Elements
<1>2. CASE /\ e = "sink_executed" /\ RegistrationApproved(card)
           /\ cards[card].payload \in Payload /\ cards[card].payload.compliant
  <2>1. card # 0
    BY <1>2, NoCardZero DEF RegistrationApproved
  <2> QED BY <1>2, <2>1, PayloadAssumption DEF CallRoles, IsSequence
<1> QED BY <1>1, <1>2 DEF Entitled

-----------------------------------------------------------------------------
(* The runtime's steps.                                                     *)

\* A step of the runtime that adds an event or nothing; a request may go on.
LEMMA EventStep ==
    ASSUME Core, NEW card \in DOMAIN cards, RuntimeOK', Grows, UNCHANGED registered, NEW e,
           UNCHANGED runtimeVars \/ Appended(card, e),
           \/ e.type # "sink_executed"
           \/ \A r \in Elements(cards[card].payload.roles) : Provisioned(r),
           UNCHANGED authorityVars,
           \/ UNCHANGED call
           \/ \E c \in Client : \E u : call' = [call EXCEPT ![c] = u] /\ CallOK(u)'
    PROVE  Core'
<1>1. AuthorityOK' /\ AuthorityGrows
  BY AuthorityUnchanged
<1>2. DOMAIN cards' = DOMAIN cards
  BY DEF runtimeVars, Appended
<1>3. PayloadsOK'
  BY <1>2 DEF Core, PayloadsOK, Grows
<1>4. \A x \in DOMAIN cards' : \A f \in Events(x)' :
         \/ x \in DOMAIN cards /\ f \in Events(x)
         \/ f.type # "sink_executed"
         \/ /\ x \in DOMAIN cards
            /\ \A r \in Elements(cards[x].payload.roles) : Provisioned(r)
  <2>1. CASE UNCHANGED runtimeVars
    BY <2>1, RuntimeUnchanged
  <2>2. CASE Appended(card, e)
    BY <2>2, EventsAfter DEF Core
  <2> QED BY <2>1, <2>2
<1> QED BY <1>1, <1>3, <1>4, Step

\* The executor's record of a card that a source made.
LEMMA RecordSourceStep ==
    ASSUME Core, NEW c \in Client, RecordSource(c)
    PROVE  Core'
<1>1. PICK t : t = call[c]
  OBVIOUS
<1>2. /\ CallOK(t) /\ IsCall(t) /\ t.todo # << >> /\ Head(t.todo) = "source_executed"
      /\ Rest(c) = Tail(t.todo)
  BY <1>1, AtStep DEF RecordSource, SourceRecorded
<1>3. t.todo = Sourced /\ t.card \in DOMAIN cards
  BY <1>2, AtProgram
<1>4. PICK e : e = MkEvent("source_executed", call[c].node, None, None, None,
                           Suffixed(call[c].key, "source"))
  OBVIOUS
<1>5. e.type = "source_executed"
  BY <1>4 DEF MkEvent
<1>6. record_event(t.card, e) /\ Continue(c, Rest(c)) /\ UNCHANGED authorityVars
  BY <1>1, <1>4 DEF RecordSource, SourceRecorded
<1>7. /\ RuntimeOK' /\ Grows /\ UNCHANGED registered
      /\ UNCHANGED runtimeVars \/ Appended(t.card, e)
  BY <1>3, <1>6, RecordCall DEF Core
<1>8. PICK u : call' = [call EXCEPT ![c] = u] /\ IsCall(u) /\ u.todo = << >> /\ u.data = None
  <2>1. Rest(c) = << >>
    BY <1>2, <1>3, LaterSteps
  <2>2. Proceed(c, << >>, t.ref, t.data)
    BY <1>1, <1>6, <2>1 DEF Continue
  <2> QED BY <2>2, GoesOn
<1>9. CallOK(u)'
  BY <1>8 DEF CallOK
<1> QED BY <1>3, <1>5, <1>6, <1>7, <1>8, <1>9, EventStep

\* A request whose roles are all ensured and that has no grant to add has
\* provisioned them.
LEMMA EnsuredIsProvisioned ==
    ASSUME NEW r, NEW m, Ensured(r, m), DOMAIN m = {}
    PROVE  Provisioned(r)
<1>1. HasAssignment(r) /\ \A i \in permissions(r.role) : Granted(r, i)
  BY DEF Ensured
<1>2. PICK a \in list_role_assignments(r.participant) : a.role = r.role
  BY <1>1 DEF HasAssignment
<1>3. ASSUME NEW i \in permissions(r.role)
      PROVE  \E g \in list_permission_grants(r.participant) :
                g.permission = RoleTemplate[r.role][i] /\ g.scope = r.scope
  <2>1. PICK g \in BagToSet(grants) : /\ g.role = r.role
                                      /\ g.permission = RoleTemplate[r.role][i]
                                      /\ g.scope = r.scope
    BY <1>1 DEF Granted
  <2>2. g \in list_permission_grants(r.participant)
    BY <1>2, <2>1 DEF list_permission_grants
  <2> QED BY <2>1, <2>2
<1> QED BY <1>1, <1>3 DEF Provisioned

\* At its last step a request has provisioned every role it was asked for.
LEMMA DoneAtTheEnd ==
    ASSUME NEW t, NEW e \in LastStep, Provisions(t, e), t.todo = Ending(e)
    PROVE  \A r \in Elements(CallRoles(t.card)) : Provisioned(r)
<1>1. t.data.roles = << >> /\ DOMAIN t.data.missing = {}
  <2>1. /\ Ending(e) # Upserting(e) /\ Ending(e) # Finding(e) /\ Ending(e) # Assigning(e)
        /\ Ending(e) # Listing(e) /\ Ending(e) # GrantingMore(e) /\ Ending(e) # GrantingLast(e)
    BY FirstSteps DEF LastStep
  <2> QED BY <2>1 DEF Provisions, Stage
<1>2. Elements(t.data.roles) = {}
  BY <1>1 DEF Elements
<1>3. \A r \in Elements(CallRoles(t.card)) : Ensured(r, t.data.missing)
  BY <1>2 DEF Provisions
<1> QED BY <1>1, <1>3, EnsuredIsProvisioned

\* The record of the sink: everything asked for on its card is provisioned.
LEMMA RecordSinkStep ==
    ASSUME Core, NEW c \in Client, RecordSink(c)
    PROVE  Core'
<1>1. PICK t : t = call[c]
  OBVIOUS
<1>2. /\ CallOK(t) /\ IsCall(t) /\ t.todo # << >> /\ Head(t.todo) = "sink_executed"
      /\ Rest(c) = Tail(t.todo)
  BY <1>1, AtStep DEF RecordSink, SinkRecorded
<1>3. PICK p \in LastStep : Provisions(t, p)
  BY <1>2, AtProgram DEF LastStep
<1>4. p = "sink_executed" /\ t.todo = Ending(p)
  BY <1>2, <1>3, AtStage DEF LastStep
<1>5. RegistrationApproved(t.card) /\ t.card \in DOMAIN cards /\ t.card # 0
  BY <1>3, <1>4, NoCardZero DEF Provisions, Entitled, RegistrationApproved, Core
<1>6. \A r \in Elements(cards[t.card].payload.roles) : Provisioned(r)
  <2>1. CallRoles(t.card) = cards[t.card].payload.roles
    BY <1>5 DEF CallRoles
  <2>2. \A r \in Elements(CallRoles(t.card)) : Provisioned(r)
    BY <1>3, <1>4, DoneAtTheEnd
  <2> QED BY <2>1, <2>2
<1>7. PICK e : e = MkEvent("sink_executed", call[c].node, None, None, call[c].ref, call[c].key)
  OBVIOUS
<1>8. record_event(t.card, e) /\ Continue(c, Rest(c)) /\ UNCHANGED authorityVars
  BY <1>1, <1>7 DEF RecordSink, SinkRecorded
<1>9. /\ RuntimeOK' /\ Grows /\ UNCHANGED registered
      /\ UNCHANGED runtimeVars \/ Appended(t.card, e)
  BY <1>5, <1>8, RecordCall DEF Core
<1>10. PICK u : call' = [call EXCEPT ![c] = u] /\ IsCall(u) /\ u.todo = << >> /\ u.data = None
  <2>1. Rest(c) = << >>
    BY <1>2, <1>4, LaterSteps
  <2>2. Proceed(c, << >>, t.ref, t.data)
    BY <1>1, <1>8, <2>1 DEF Continue
  <2> QED BY <2>2, GoesOn
<1>11. CallOK(u)'
  BY <1>10 DEF CallOK
<1> QED BY <1>5, <1>6, <1>8, <1>9, <1>10, <1>11, EventStep

\* execute_source makes the card or answers the one of its key.
LEMMA RegistrationSourceStep ==
    ASSUME Core, NEW c \in Client, NEW payload \in Payload, NEW k,
           RegistrationSource(c, payload, k)
    PROVE  Core'
<1>1. PICK n \in Node(Def(Registration)) :
             execute_source(c, Registration, n, payload, k, <<"source_executed">>)
  BY DEF RegistrationSource
<1>2. PICK card \in 1..MaxCards :
            /\ create_card(Def(Registration).id, payload, FALSE, k, card)
            /\ call' = [call EXCEPT ![c] = MkCall(<<"source_executed">>, n.id, card, k, None)]
  BY <1>1 DEF execute_source
<1>3. PICK u : u = MkCall(<<"source_executed">>, n.id, card, k, None)
  OBVIOUS
<1>4. IsCall(u) /\ u.todo = Sourced /\ u.card = card /\ u.data = None
  BY <1>3, BeginCall DEF Sourced
<1>5. RuntimeOK
  BY DEF Core
<1>6. /\ RuntimeOK' /\ Grows /\ registered' = registered
      /\ card \in DOMAIN cards'
      /\ \/ Stored(k, "card") /\ card = keys[k].card /\ UNCHANGED runtimeVars
         \/ /\ card \notin DOMAIN cards /\ DOMAIN cards' = DOMAIN cards \union {card}
            /\ cards'[card].panel \in ActivePanels(Def(Registration).id)
            /\ cards'[card].payload = payload /\ cards'[card].shadow = FALSE
            /\ history'[card] = <<MkEvent("card_created", None, None, None, None, k)>>
            /\ \A i \in DOMAIN cards : cards'[i] = cards[i] /\ history'[i] = history[i]
            /\ Keyed(k, "card", card)
  BY <1>2, <1>5, CreateCall
<1>7. CallOK(u)'
  BY <1>4, <1>6 DEF CallOK
<1>8. UNCHANGED authorityVars
  BY DEF RegistrationSource
<1>9. AuthorityOK' /\ AuthorityGrows
  BY <1>6, <1>8, AuthorityUnchanged
<1>10. PayloadsOK' /\ \A x \in DOMAIN cards' : \A f \in Events(x)' :
          (x \in DOMAIN cards /\ f \in Events(x)) \/ f.type # "sink_executed"
  <2>1. CASE UNCHANGED runtimeVars
    BY <2>1, RuntimeUnchanged
  <2>2. CASE /\ DOMAIN cards' = DOMAIN cards \union {card}
             /\ cards'[card].payload = payload
             /\ history'[card] = <<MkEvent("card_created", None, None, None, None, k)>>
             /\ \A i \in DOMAIN cards : cards'[i] = cards[i] /\ history'[i] = history[i]
    <3>1. PICK e : e = MkEvent("card_created", None, None, None, None, k)
      OBVIOUS
    <3>2. e.type = "card_created"
      BY <3>1 DEF MkEvent
    <3>3. PayloadsOK'
      BY <2>2 DEF Core, PayloadsOK
    <3> QED BY <2>2, <3>1, <3>2, <3>3, EventsCreated
  <2> QED BY <1>6, <2>1, <2>2
<1> QED BY <1>2, <1>3, <1>6, <1>7, <1>9, <1>10, Step

\* Decisions on a card.
LEMMA ValidateStep ==
    ASSUME Core, NEW card \in DOMAIN cards, NEW d, NEW k, Validate(card, d, k)
    PROVE  Core'
<1>1. PICK n \in Node(Def(Registration)) : execute_validator(Registration, n, card, d, k)
  BY DEF Validate
<1>2. PICK r : /\ r = validation_request(n, card, d)
               /\ validate_card(card, n.id, validator_accepted(n, r), r.exit, k)
  BY <1>1 DEF execute_validator
<1>3. PICK e : e = MkEvent("card_validated", n.id, validator_accepted(n, r), r.exit, None, k)
  OBVIOUS
<1>4. e.type = "card_validated"
  BY <1>3 DEF MkEvent
<1>5. /\ RuntimeOK' /\ Grows /\ registered' = registered
      /\ UNCHANGED runtimeVars \/ Appended(card, e)
  BY <1>2, <1>3, ValidateCall DEF Core
<1>6. UNCHANGED <<authorityVars, call>>
  BY DEF Validate
<1> QED BY <1>4, <1>5, <1>6, EventStep

\* A card moved by hand.
LEMMA MoveStep ==
    ASSUME Core, NEW card \in DOMAIN cards, NEW bucket, Move(card, bucket)
    PROVE  Core'
<1>1. PICK e : e = MkEvent("card_moved", None, None, None, None, NoKey)
  OBVIOUS
<1>2. e.type = "card_moved"
  BY <1>1 DEF MkEvent
<1>3. RuntimeOK' /\ Grows /\ registered' = registered /\ Appended(card, e)
  BY <1>1, MoveCall DEF Core, Move
<1> QED BY <1>2, <1>3, EventStep DEF Move

\* The sink begins: it will read the history of its card.
LEMMA ProvisionerSinkStep ==
    ASSUME Core, NEW c \in Client, NEW card \in DOMAIN cards, NEW external, NEW k,
           ProvisionerSink(c, card, external, k)
    PROVE  Core'
<1>1. PICK n \in Node(Def(Registration)) :
             execute_sink(c, Registration, n, card, external, k, <<"history">>)
  BY DEF ProvisionerSink
<1>2. PICK v : v = MkCall(<<"history">>, n.id, card, k, None)
  OBVIOUS
<1>3. IsCall(v) /\ v.todo = Reading /\ v.card = card /\ v.data = None
  BY <1>2, BeginCall DEF Reading
<1>4. PICK u : u = [v EXCEPT !.ref = external]
  OBVIOUS
<1>5. IsCall(u) /\ u.todo = Reading /\ u.card = card /\ u.data = None
  BY <1>3, <1>4 DEF IsCall
<1>6. call' = [call EXCEPT ![c] = u] /\ UNCHANGED runtimeVars
  BY <1>1, <1>2, <1>4 DEF execute_sink
<1>7. CallOK(u)
  BY <1>5 DEF CallOK
<1> QED BY <1>6, <1>7, RequestOnly DEF ProvisionerSink

-----------------------------------------------------------------------------
(* The steps of provisioning.                                               *)

\* The fields of a grant of a template.
LEMMA GrantFields ==
    ASSUME NEW role, NEW scope, NEW origin, NEW i \in permissions(role), NEW g,
           g = permission_grants(role, scope, origin)[i]
    PROVE  /\ g = [participant |-> None, role |-> role, permission |-> RoleTemplate[role][i],
                   scope |-> scope, origin |-> origin]
           /\ g.participant = None /\ g.role = role /\ g.permission = RoleTemplate[role][i]
           /\ g.scope = scope /\ g.origin = origin
<1>1. g = [participant |-> None, role |-> role, permission |-> RoleTemplate[role][i],
           scope |-> scope, origin |-> origin]
  BY DEF permission_grants
<1> QED BY <1>1

\* The grants that a request adds come in the order of the template; each is
\* one the table may hold.
LEMMA NextGrant ==
    ASSUME NEW m, NEW r, NEW origin, IsMissing(m, r, origin), DOMAIN m # {}
    PROVE  /\ Least(DOMAIN m) \in DOMAIN m /\ Least(DOMAIN m) \in permissions(r.role)
           /\ GrantOK(m[Least(DOMAIN m)])
<1>1. r.role \in DOMAIN RoleTemplate /\ DOMAIN m \subseteq permissions(r.role)
  BY DEF IsMissing
<1>2. permissions(r.role) \subseteq Nat
  <2>1. RoleTemplate[r.role] \in Seq(Elements(PermissionName))
    BY <1>1, RoleTemplateAssumption
  <2>2. DOMAIN RoleTemplate[r.role] = 1..Len(RoleTemplate[r.role])
    BY <2>1
  <2> QED BY <2>2 DEF permissions
<1>3. DOMAIN m \in SUBSET Nat
  BY <1>1, <1>2
<1>4. Least(DOMAIN m) \in DOMAIN m
  BY <1>3, LeastOfNaturals
<1>5. PICK i \in permissions(r.role) : i = Least(DOMAIN m)
  BY <1>1, <1>4
<1>6. PICK g : g = permission_grants(r.role, r.scope, origin)[i]
  OBVIOUS
<1>7. m[i] = g
  BY <1>4, <1>5, <1>6 DEF IsMissing
<1>8. g.participant = None /\ g.role = r.role /\ g.permission = RoleTemplate[r.role][i]
  BY <1>6, GrantFields
<1>9. RoleTemplate[r.role][i] \in Permission /\ r.role # None
  BY <1>1, RoleTemplateAssumption DEF permissions
<1> QED BY <1>4, <1>5, <1>7, <1>8, <1>9 DEF GrantOK

\* What adding a row to a table does.
LEMMA AddedRow ==
    ASSUME NEW B, NEW a, NEW C, C = B (+) SetToBag({a})
    PROVE  /\ BagToSet(C) = BagToSet(B) \union {a}
           /\ a \notin BagToSet(B) => C[a] = 1
BY DEF (+), SetToBag, BagToSet

\* A new row of the table of assignments.
LEMMA AssignmentAdded ==
    ASSUME Core, UNCHANGED runtimeVars, UNCHANGED <<participants, grants>>, NEW a,
           add_role_assignment(a), a.participant \in DOMAIN participants => AssignmentOK(a)
    PROVE  /\ AuthorityOK' /\ AuthorityGrows
           /\ BagToSet(assignments)' = BagToSet(assignments) \union {a}
<1>1. assignments' = assignments (+) SetToBag({a}) /\ AssignmentOK(a)
  BY DEF add_role_assignment
<1>2. BagToSet(assignments)' = BagToSet(assignments) \union {a}
  <2>1. BagToSet(assignments') = BagToSet(assignments) \union {a}
    BY <1>1, AddedRow
  <2> QED BY <2>1
<1>3. AuthorityGrows
  BY <1>2 DEF AuthorityGrows
<1>4. Grows
  BY RuntimeUnchanged
<1>5. ASSUME NEW b \in BagToSet(assignments)' PROVE AssignmentOK(b)'
  <2>1. AssignmentOK(b)
    BY <1>1, <1>2, <1>5 DEF Core, AuthorityOK
  <2> QED BY <1>3, <1>4, <2>1, TablesStay
<1>6. ParticipantsOK' /\ \A g \in BagToSet(grants)' : GrantOK(g)'
  BY DEF Core, AuthorityOK, ParticipantsOK, GrantOK
<1> QED BY <1>2, <1>3, <1>5, <1>6 DEF AuthorityOK

\* A new row of the table of grants.
LEMMA GrantAdded ==
    ASSUME Core, UNCHANGED runtimeVars, UNCHANGED <<participants, assignments>>, NEW g,
           add_permission_grant(g), GrantOK(g)
    PROVE  /\ AuthorityOK' /\ AuthorityGrows
           /\ BagToSet(grants)' = BagToSet(grants) \union {g}
<1>1. grants' = grants (+) SetToBag({g})
  BY DEF add_permission_grant
<1>2. BagToSet(grants)' = BagToSet(grants) \union {g}
  <2>1. BagToSet(grants') = BagToSet(grants) \union {g}
    BY <1>1, AddedRow
  <2> QED BY <2>1
<1>3. AuthorityGrows
  BY <1>2 DEF AuthorityGrows
<1>4. Grows
  BY RuntimeUnchanged
<1>5. ASSUME NEW b \in BagToSet(assignments)' PROVE AssignmentOK(b)'
  <2>1. AssignmentOK(b)
    BY <1>5 DEF Core, AuthorityOK, BagToSet
  <2> QED BY <1>3, <1>4, <2>1, TablesStay
<1>6. ParticipantsOK' /\ \A h \in BagToSet(grants)' : GrantOK(h)'
  <2>1. \A h \in BagToSet(grants)' : GrantOK(h)
    BY <1>2 DEF Core, AuthorityOK
  <2> QED BY <2>1 DEF Core, AuthorityOK, ParticipantsOK, GrantOK
<1> QED BY <1>2, <1>3, <1>5, <1>6 DEF AuthorityOK

\* A participant is written.
LEMMA ParticipantWritten ==
    ASSUME Core, UNCHANGED runtimeVars, UNCHANGED <<assignments, grants>>, NEW p,
           NEW status \in ParticipantStatus, upsert_participant(p, status)
    PROVE  AuthorityOK' /\ AuthorityGrows
<1>1. participants' = [q \in DOMAIN participants \union {p} |->
                         IF q = p THEN status ELSE participants[q]]
  BY DEF upsert_participant
<1>2. AuthorityGrows
  BY <1>1 DEF AuthorityGrows, BagToSet
<1>3. Grows
  BY RuntimeUnchanged
<1>4. ASSUME NEW b \in BagToSet(assignments)' PROVE AssignmentOK(b)'
  <2>1. AssignmentOK(b)
    BY <1>4 DEF Core, AuthorityOK, BagToSet
  <2> QED BY <1>2, <1>3, <2>1, TablesStay
<1>5. ParticipantsOK' /\ \A h \in BagToSet(grants)' : GrantOK(h)'
  BY <1>1 DEF Core, AuthorityOK, ParticipantsOK, GrantOK, BagToSet
<1> QED BY <1>2, <1>4, <1>5 DEF AuthorityOK

\* A request that begins to provision all its roles.
LEMMA BeginsProvisioning ==
    ASSUME RuntimeOK, NEW e \in LastStep, NEW card, Entitled(card, e), NEW participant,
           NEW status \in ParticipantStatus, NEW u, IsCall(u), u.todo = Upserting(e),
           u.card = card, u.data = Provisioning(participant, status, CallRoles(card))
    PROVE  CallOK(u)
<1>1. /\ IsData(u.data) /\ u.data.status = status /\ u.data.roles = CallRoles(card)
      /\ u.data.missing = << >>
  BY DEF Provisioning, IsData
<1>2. DOMAIN u.data.missing = {}
  BY <1>1
<1>3. IsSequence(CallRoles(card)) /\ CallRoles(card) # << >>
  BY RolesAsked
<1>4. Stage(u.todo, e, u.data.roles, u.data.missing)
  BY <1>1, <1>2, <1>3 DEF Stage
<1>5. Provisions(u, e)
  BY <1>1, <1>3, <1>4 DEF Provisions
<1> QED BY <1>5 DEF CallOK

\* seed_root_operator begins.
LEMMA BootstrapStep ==
    ASSUME Core, NEW c \in Client, Bootstrap(c)
    PROVE  Core'
<1>1. PICK data : data = Provisioning(Root, "active", RootRoles)
  OBVIOUS
<1>2. PICK u : u = MkCall(<<"upsert", "find", "initialized">>, None, 0, NoKey, data)
  OBVIOUS
<1>3. IsCall(u) /\ u.todo = Upserting("initialized") /\ u.card = 0 /\ u.data = data
  BY <1>2, BeginCall DEF Upserting
<1>4. Entitled(0, "initialized") /\ CallRoles(0) = RootRoles
  BY DEF Entitled, CallRoles
<1>5. "initialized" \in LastStep /\ "active" \in ParticipantStatus
  BY DEF LastStep, ParticipantStatus
<1>6. CallOK(u)
  BY <1>1, <1>3, <1>4, <1>5, BeginsProvisioning DEF Core
<1>7. call' = [call EXCEPT ![c] = u] /\ UNCHANGED <<runtimeVars, authorityVars>>
  BY <1>1, <1>2 DEF Bootstrap
<1> QED BY <1>6, <1>7, RequestOnly

\* The sink has found both approvals and goes on to provision.
LEMMA CheckHistoryStep ==
    ASSUME Core, NEW c \in Client, CheckHistory(c)
    PROVE  Core'
<1>1. PICK t : t = call[c]
  OBVIOUS
<1>2. /\ CallOK(t) /\ IsCall(t) /\ t.todo # << >> /\ Head(t.todo) = "history"
  BY <1>1, AtStep DEF CheckHistory
<1>3. t.card \in DOMAIN cards
  BY <1>2, AtProgram
<1>4. PICK payload : payload = cards[t.card].payload
  OBVIOUS
<1>5. /\ payload.compliant /\ ensure_authority_provisioning_history(t.card)
      /\ Proceed(c, <<"upsert", "find", "sink_executed">>, Reference(c, payload.participant),
                 Provisioning(payload.participant, payload.status, payload.roles))
      /\ UNCHANGED <<runtimeVars, authorityVars>>
  BY <1>1, <1>4 DEF CheckHistory
<1>6. PICK data : data = Provisioning(payload.participant, payload.status, payload.roles)
  OBVIOUS
<1>7. Upserting("sink_executed") # << >>
  BY Unfinished
<1>8. PICK u : /\ call' = [call EXCEPT ![c] = u] /\ IsCall(u)
               /\ u.todo = Upserting("sink_executed") /\ u.card = t.card /\ u.data = data
  <2>1. PICK ref : ref = Reference(c, payload.participant)
    OBVIOUS
  <2>2. Proceed(c, Upserting("sink_executed"), ref, data)
    BY <1>5, <1>6, <2>1 DEF Upserting
  <2> QED BY <1>1, <1>7, <2>2, GoesOn
<1>9. payload \in Payload /\ payload.status \in ParticipantStatus
  BY <1>3, <1>4, <1>5, PayloadAssumption DEF Core, PayloadsOK
<1>10. Entitled(t.card, "sink_executed")
  BY <1>3, <1>4, <1>5, <1>9 DEF Entitled, RegistrationApproved, ensure_authority_provisioning_history
<1>11. CallRoles(t.card) = payload.roles
  BY <1>3, <1>4, NoCardZero DEF CallRoles, Core
<1>12. CallOK(u)
  <2>1. "sink_executed" \in LastStep
    BY DEF LastStep
  <2> QED BY <1>6, <1>8, <1>9, <1>10, <1>11, <2>1, BeginsProvisioning DEF Core
<1> QED BY <1>5, <1>8, <1>12, RequestOnly

\* A request that provisions goes on with the same data.
LEMMA GoesOnProvisioning ==
    ASSUME Core, NEW c \in Client, NEW t, t = call[c], NEW e \in LastStep, Provisions(t, e),
           NEW todo, todo # << >>, Continue(c, todo)
    PROVE  \E u : /\ call' = [call EXCEPT ![c] = u] /\ IsCall(u) /\ u.todo = todo
                  /\ u.card = t.card /\ u.data = t.data
BY GoesOn DEF Continue

\* The same request at another stage.
LEMMA OtherStage ==
    ASSUME NEW t, NEW e \in LastStep, Provisions(t, e), NEW u, IsCall(u), u.card = t.card,
           u.data = t.data, Stage(u.todo, e, t.data.roles, t.data.missing)
    PROVE  CallOK(u)
<1>1. Provisions(u, e)
  BY DEF Provisions
<1> QED BY <1>1 DEF CallOK

\* Upsert writes the participant.
LEMMA UpsertStep ==
    ASSUME Core, NEW c \in Client, Upsert(c)
    PROVE  Core'
<1>1. PICK t : t = call[c]
  OBVIOUS
<1>2. /\ CallOK(t) /\ t.todo # << >> /\ Head(t.todo) = "upsert" /\ Rest(c) = Tail(t.todo)
  BY <1>1, AtStep DEF Upsert
<1>3. PICK e \in LastStep : Provisions(t, e)
  BY <1>2, AtProgram
<1>4. t.todo = Upserting(e)
  BY <1>2, <1>3, AtStage
<1>5. t.data.roles # << >> /\ DOMAIN t.data.missing = {}
  BY <1>2, <1>3, <1>4, FirstSteps DEF Provisions, Stage, LastStep
<1>6. /\ Rest(c) = Finding(e) /\ Finding(e) # << >>
  BY <1>2, <1>4, LaterSteps, Unfinished
<1>7. PICK u : /\ call' = [call EXCEPT ![c] = u] /\ IsCall(u) /\ u.todo = Finding(e)
               /\ u.card = t.card /\ u.data = t.data
  <2>1. Continue(c, Finding(e))
    BY <1>6 DEF Upsert
  <2> QED BY <1>1, <1>3, <1>6, <2>1, GoesOnProvisioning
<1>8. CallOK(u)
  BY <1>3, <1>5, <1>7, OtherStage DEF Stage
<1>9. UNCHANGED runtimeVars
  BY DEF Upsert
<1>10. AuthorityOK' /\ AuthorityGrows
  <2>1. t.data.status \in ParticipantStatus
    BY <1>3 DEF Provisions
  <2>2. upsert_participant(t.data.participant, t.data.status) /\ UNCHANGED <<assignments, grants>>
    BY <1>1 DEF Upsert
  <2> QED BY <1>9, <2>1, <2>2, ParticipantWritten
<1>11. CallOK(u)'
  BY <1>8, <1>9, <1>10, RuntimeUnchanged, CallStays DEF Core
<1> QED BY <1>7, <1>9, <1>10, <1>11, AuthorityStep

\* Find looks for the assignment of the current role.
LEMMA FindStep ==
    ASSUME Core, NEW c \in Client, Find(c)
    PROVE  Core'
<1>1. PICK t : t = call[c]
  OBVIOUS
<1>2. /\ CallOK(t) /\ t.todo # << >> /\ Head(t.todo) = "find" /\ Rest(c) = Tail(t.todo)
  BY <1>1, AtStep DEF Find
<1>3. PICK e \in LastStep : Provisions(t, e)
  BY <1>2, AtProgram
<1>4. t.todo = Finding(e)
  BY <1>2, <1>3, AtStage
<1>5. t.data.roles # << >> /\ DOMAIN t.data.missing = {}
  BY <1>2, <1>3, <1>4, FirstSteps DEF Provisions, Stage, LastStep
<1>6. Rest(c) = Ending(e)
  BY <1>2, <1>4, LaterSteps
<1>7. UNCHANGED <<runtimeVars, authorityVars>>
  BY DEF Find
<1>8. PICK r : r = Head(t.data.roles)
  OBVIOUS
<1>9. PICK todo : todo = (IF HasAssignment(CurrentRole(c)) THEN <<"list">> ELSE <<"assign", "list">>)
                         \o Rest(c)
  OBVIOUS
<1>10. /\ todo # << >>
       /\ \/ todo = Listing(e) /\ HasAssignment(Head(t.data.roles))
          \/ todo = Assigning(e)
  <2>1. CASE HasAssignment(CurrentRole(c))
    <3>1. todo = Listing(e)
      BY <1>6, <1>9, <2>1, NextSteps
    <3>2. HasAssignment(Head(t.data.roles))
      BY <1>1, <2>1 DEF CurrentRole
    <3> QED BY <3>1, <3>2, Unfinished
  <2>2. CASE ~HasAssignment(CurrentRole(c))
    <3>1. todo = Assigning(e)
      BY <1>6, <1>9, <2>2, NextSteps
    <3> QED BY <3>1, Unfinished
  <2> QED BY <2>1, <2>2
<1>11. PICK u : /\ call' = [call EXCEPT ![c] = u] /\ IsCall(u) /\ u.todo = todo
                /\ u.card = t.card /\ u.data = t.data
  <2>1. Continue(c, todo)
    BY <1>9 DEF Find
  <2> QED BY <1>1, <1>3, <1>10, <2>1, GoesOnProvisioning
<1>12. CallOK(u)
  BY <1>3, <1>5, <1>10, <1>11, OtherStage DEF Stage
<1> QED BY <1>7, <1>11, <1>12, RequestOnly

\* Who is being given a role by the system was approved, or is the root.
LEMMA EntitledAssignment ==
    ASSUME Core, NEW t, NEW e \in LastStep, Provisions(t, e), NEW r \in Elements(t.data.roles),
           NEW a, a = MkAssignment(r, "builtin"), a.participant \in DOMAIN participants
    PROVE  AssignmentOK(a)
<1>1. r \in Elements(CallRoles(t.card)) /\ Entitled(t.card, e)
  BY DEF Provisions
<1>2. a.participant = r.participant
  BY DEF MkAssignment
<1>3. CASE t.card = 0
  <2>1. a.participant = Root
    BY <1>1, <1>2, <1>3, RolesAsked DEF Core
  <2> QED BY <2>1 DEF AssignmentOK
<1>4. CASE t.card # 0
  <2>1. RegistrationApproved(t.card) /\ t.card \in DOMAIN cards
    BY <1>1, <1>4 DEF Entitled, RegistrationApproved
  <2>2. r \in Elements(cards[t.card].payload.roles)
    BY <1>1, <1>4 DEF CallRoles
  <2> QED BY <2>1, <2>2 DEF AssignmentOK
<1> QED BY <1>3, <1>4

\* Assign adds the assignment of the current role.
LEMMA AssignStep ==
    ASSUME Core, NEW c \in Client, Assign(c)
    PROVE  Core'
<1>1. PICK t : t = call[c]
  OBVIOUS
<1>2. /\ CallOK(t) /\ t.todo # << >> /\ Head(t.todo) = "assign" /\ Rest(c) = Tail(t.todo)
  BY <1>1, AtStep DEF Assign
<1>3. PICK e \in LastStep : Provisions(t, e)
  BY <1>2, AtProgram
<1>4. t.todo = Assigning(e)
  BY <1>2, <1>3, AtStage
<1>5. t.data.roles # << >> /\ DOMAIN t.data.missing = {} /\ IsSequence(t.data.roles)
  BY <1>2, <1>3, <1>4, FirstSteps DEF Provisions, Stage, LastStep
<1>6. Rest(c) = Listing(e) /\ Listing(e) # << >>
  BY <1>2, <1>4, LaterSteps, Unfinished
<1>7. PICK r : r = Head(t.data.roles)
  OBVIOUS
<1>8. r \in Elements(t.data.roles)
  BY <1>5, <1>7, TailElements
<1>9. PICK a : a = MkAssignment(r, "builtin")
  OBVIOUS
<1>10. add_role_assignment(a) /\ UNCHANGED runtimeVars /\ UNCHANGED <<participants, grants>>
  BY <1>1, <1>7, <1>9 DEF Assign, CurrentRole
<1>11. a.participant \in DOMAIN participants => AssignmentOK(a)
  BY <1>3, <1>8, <1>9, EntitledAssignment
<1>12. /\ AuthorityOK' /\ AuthorityGrows
       /\ BagToSet(assignments)' = BagToSet(assignments) \union {a}
  BY <1>10, <1>11, AssignmentAdded
<1>13. HasAssignment(r)'
  <2>1. a.participant = r.participant /\ a.role = r.role /\ a.scope = r.scope
    BY <1>9 DEF MkAssignment
  <2> QED BY <1>12, <2>1 DEF HasAssignment, list_role_assignments
<1>14. PICK u : /\ call' = [call EXCEPT ![c] = u] /\ IsCall(u) /\ u.todo = Listing(e)
                /\ u.card = t.card /\ u.data = t.data
  <2>1. Continue(c, Listing(e))
    BY <1>6 DEF Assign
  <2> QED BY <1>1, <1>3, <1>6, <2>1, GoesOnProvisioning
<1>15. Provisions(t, e)'
  BY <1>3, <1>10, <1>12, RuntimeUnchanged, ProvisionsStay DEF Core
<1>16. HasAssignment(Head(u.data.roles))'
  BY <1>7, <1>13, <1>14
<1>17. Stage(u.todo, e, t.data.roles, t.data.missing)'
  BY <1>5, <1>14, <1>16 DEF Stage
<1>18. Provisions(u, e)'
  BY <1>14, <1>15, <1>17 DEF Provisions
<1>19. CallOK(u)'
  BY <1>14, <1>18 DEF CallOK
<1> QED BY <1>10, <1>12, <1>14, <1>19, AuthorityStep

\* List finds the grants that the current role lacks: afterwards the role is
\* ensured up to them.
LEMMA ListedIsEnsured ==
    ASSUME NEW r, HasAssignment(r), r.role \in DOMAIN RoleTemplate, NEW m, m = MissingGrants(r)
    PROVE  Ensured(r, m) /\ IsMissing(m, r, "builtin")
<1>1. PICK all : all = permission_grants(r.role, r.scope, "builtin")
  OBVIOUS
<1>2. PICK active : active = list_permission_grants(r.participant)
  OBVIOUS
<1>3. /\ DOMAIN m = { j \in DOMAIN all : ~MatchingGrant(active, all[j]) }
      /\ \A i \in DOMAIN m : m[i] = all[i]
  BY <1>1, <1>2 DEF MissingGrants, Lacking
<1>4. DOMAIN all = permissions(r.role)
  BY <1>1 DEF permission_grants
<1>5. ASSUME NEW i \in permissions(r.role), i \notin DOMAIN m PROVE Granted(r, i)
  <2>1. PICK g : g = all[i]
    OBVIOUS
  <2>2. g.role = r.role /\ g.permission = RoleTemplate[r.role][i] /\ g.scope = r.scope
    BY <1>1, <2>1, GrantFields
  <2>3. MatchingGrant(active, g)
    BY <1>3, <1>4, <1>5, <2>1
  <2>4. PICK h \in active : /\ h.role = g.role /\ h.permission = g.permission
                            /\ h.scope = g.scope
    BY <2>3 DEF MatchingGrant
  <2>5. h \in BagToSet(grants)
    BY <1>2, <2>4 DEF list_permission_grants
  <2> QED BY <2>2, <2>4, <2>5 DEF Granted
<1>6. Ensured(r, m)
  BY <1>1, <1>3, <1>5 DEF Ensured
<1> QED BY <1>1, <1>3, <1>4, <1>6 DEF IsMissing

\* With no grant to add, a role is ensured whatever grants come next.
LEMMA EnsuredAnyway ==
    ASSUME NEW r, NEW m, Ensured(r, m), DOMAIN m = {}, NEW n
    PROVE  Ensured(r, n)
BY DEF Ensured

\* What List puts in front of the rest, and the stage it comes to.
LEMMA ListStage ==
    ASSUME NEW e \in LastStep, NEW roles, NEW m, NEW r, IsMissing(m, r, "builtin"), NEW todo,
           todo = ForGrants(m) \o ForRoles(roles) \o Ending(e)
    PROVE  Stage(todo, e, roles, m) /\ todo # << >>
<1>1. CASE DOMAIN m = {} /\ roles = << >>
  <2>1. todo = Ending(e)
    BY <1>1, NextSteps DEF ForGrants, ForRoles
  <2> QED BY <1>1, <2>1, Unfinished DEF Stage
<1>2. CASE DOMAIN m = {} /\ roles # << >>
  <2>1. todo = Finding(e)
    BY <1>2, NextSteps DEF ForGrants, ForRoles
  <2> QED BY <1>2, <2>1, Unfinished DEF Stage
<1>3. CASE DOMAIN m # {} /\ roles = << >>
  <2>1. todo = GrantingLast(e)
    BY <1>3, NextSteps DEF ForGrants, ForRoles
  <2> QED BY <1>3, <2>1, Unfinished DEF Stage
<1>4. CASE DOMAIN m # {} /\ roles # << >>
  <2>1. todo = GrantingMore(e)
    BY <1>4, NextSteps DEF ForGrants, ForRoles
  <2> QED BY <1>4, <2>1, Unfinished DEF Stage
<1> QED BY <1>1, <1>2, <1>3, <1>4

\* List reads the grants of the current role once.
LEMMA ListStep ==
    ASSUME Core, NEW c \in Client, List(c)
    PROVE  Core'
<1>1. PICK t : t = call[c]
  OBVIOUS
<1>2. /\ CallOK(t) /\ t.todo # << >> /\ Head(t.todo) = "list" /\ Rest(c) = Tail(t.todo)
  BY <1>1, AtStep DEF List
<1>3. PICK e \in LastStep : Provisions(t, e)
  BY <1>2, AtProgram
<1>4. t.todo = Listing(e)
  BY <1>2, <1>3, AtStage
<1>5. PICK roles : roles = t.data.roles
  OBVIOUS
<1>6. /\ roles # << >> /\ DOMAIN t.data.missing = {} /\ HasAssignment(Head(roles))
      /\ IsSequence(roles)
  BY <1>2, <1>3, <1>4, <1>5, FirstSteps DEF Provisions, Stage, LastStep
<1>7. Rest(c) = Ending(e)
  BY <1>2, <1>4, LaterSteps
<1>8. PICK r : r = Head(roles)
  OBVIOUS
<1>9. PICK rest : rest = Tail(roles)
  OBVIOUS
<1>10. /\ IsSequence(rest) /\ Elements(rest) \subseteq Elements(roles)
       /\ Elements(roles) = {r} \union Elements(rest)
  BY <1>6, <1>8, <1>9, TailElements
<1>11. /\ Entitled(t.card, e) /\ Elements(roles) \subseteq Elements(CallRoles(t.card))
       /\ IsData(t.data) /\ t.data.status \in ParticipantStatus
       /\ \A q \in Elements(CallRoles(t.card)) :
             q \in Elements(roles) \/ Ensured(q, t.data.missing)
  BY <1>3, <1>5 DEF Provisions
<1>12. r.role \in DOMAIN RoleTemplate
  BY <1>10, <1>11, RolesAsked DEF Core
<1>13. PICK m : m = MissingGrants(r)
  OBVIOUS
<1>14. Ensured(r, m) /\ IsMissing(m, r, "builtin")
  BY <1>6, <1>8, <1>12, <1>13, ListedIsEnsured
<1>15. PICK data : data = [t.data EXCEPT !.roles = rest, !.missing = m]
  OBVIOUS
<1>16. IsData(data) /\ data.roles = rest /\ data.missing = m /\ data.status = t.data.status
  BY <1>11, <1>15 DEF IsData
<1>17. PICK todo : todo = ForGrants(m) \o ForRoles(rest) \o Ending(e)
  OBVIOUS
<1>18. Stage(todo, e, rest, m) /\ todo # << >>
  BY <1>14, <1>17, ListStage
<1>19. CurrentRole(c) = r /\ Tail(call[c].data.roles) = rest
  BY <1>1, <1>5, <1>8, <1>9 DEF CurrentRole
<1>20. Proceed(c, todo, t.ref, data) /\ UNCHANGED <<runtimeVars, authorityVars>>
  <2>1. Proceed(c, ForGrants(m) \o ForRoles(rest) \o Rest(c), t.ref,
                [t.data EXCEPT !.roles = rest, !.missing = m])
    BY <1>1, <1>5, <1>9, <1>13, <1>19 DEF List
  <2> QED BY <1>7, <1>15, <1>17, <2>1 DEF List
<1>21. PICK u : /\ call' = [call EXCEPT ![c] = u] /\ IsCall(u) /\ u.todo = todo
                /\ u.card = t.card /\ u.data = data
  BY <1>1, <1>18, <1>20, GoesOn
<1>22. \A q \in Elements(CallRoles(t.card)) : q \in Elements(rest) \/ Ensured(q, m)
  BY <1>6, <1>10, <1>11, <1>14, EnsuredAnyway
<1>23. Provisions(u, e)
  BY <1>10, <1>11, <1>16, <1>18, <1>21, <1>22 DEF Provisions
<1>24. CallOK(u)
  BY <1>21, <1>23 DEF CallOK
<1> QED BY <1>20, <1>21, <1>24, RequestOnly

\* A grant that has been added is no longer missing: what was ensured stays so.
LEMMA GrantedIsEnsured ==
    ASSUME AuthorityGrows, NEW r, r.role \in DOMAIN RoleTemplate, NEW m, Ensured(r, m),
           NEW next \in DOMAIN m, m[next] \in BagToSet(grants)', NEW rest,
           rest = [i \in DOMAIN m \ {next} |-> m[i]]
    PROVE  Ensured(r, rest)'
<1>1. HasAssignment(r)'
  BY AuthorityStays DEF Ensured
<1>2. ASSUME NEW i \in permissions(r.role)
      PROVE  \/ Granted(r, i)'
             \/ i \in DOMAIN rest /\ rest[i] = permission_grants(r.role, r.scope, "builtin")[i]
  <2>1. CASE Granted(r, i)
    BY <2>1, AuthorityStays
  <2>2. CASE i \in DOMAIN m /\ m[i] = permission_grants(r.role, r.scope, "builtin")[i]
    <3>1. CASE i = next
      <4>1. PICK g : g = m[i]
        OBVIOUS
      <4>2. g.role = r.role /\ g.permission = RoleTemplate[r.role][i] /\ g.scope = r.scope
        BY <2>2, <4>1, GrantFields
      <4>3. g \in BagToSet(grants)'
        BY <3>1, <4>1
      <4> QED BY <4>2, <4>3 DEF Granted
    <3>2. CASE i # next
      BY <2>2, <3>2
    <3> QED BY <3>1, <3>2
  <2> QED BY <2>1, <2>2 DEF Ensured
<1> QED BY <1>1, <1>2 DEF Ensured, permission_grants

\* What is left of the grants of a role is still of its template.
LEMMA LessMissing ==
    ASSUME NEW m, NEW r, NEW origin, IsMissing(m, r, origin), NEW next, NEW rest,
           rest = [i \in DOMAIN m \ {next} |-> m[i]]
    PROVE  IsMissing(rest, r, origin)
BY DEF IsMissing

\* Grant adds the next grant of the current role.
LEMMA GrantStep ==
    ASSUME Core, NEW c \in Client, Grant(c)
    PROVE  Core'
<1>1. PICK t : t = call[c]
  OBVIOUS
<1>2. /\ CallOK(t) /\ t.todo # << >> /\ Head(t.todo) = "grant" /\ Rest(c) = Tail(t.todo)
  BY <1>1, AtStep DEF Grant
<1>3. PICK m : m = t.data.missing
  OBVIOUS
<1>4. PICK next : next = Least(DOMAIN m)
  OBVIOUS
<1>5. PICK rest : rest = [i \in DOMAIN m \ {next} |-> m[i]]
  OBVIOUS
<1>6. PICK data : data = [t.data EXCEPT !.missing = rest]
  OBVIOUS
<1>7. PICK todo : todo = ForGrants(rest) \o Rest(c)
  OBVIOUS
<1>8. /\ add_permission_grant(m[next]) /\ Proceed(c, todo, t.ref, data)
      /\ UNCHANGED runtimeVars /\ UNCHANGED <<participants, assignments>>
  BY <1>1, <1>3, <1>4, <1>5, <1>6, <1>7 DEF Grant
<1>9. PICK u : /\ call' = [call EXCEPT ![c] = u] /\ IsCall(u) /\ u.todo = todo
               /\ todo = << >> => u.data = None
               /\ todo # << >> => u.card = t.card /\ u.data = data
  BY <1>1, <1>8, GoesOn
<1>10. CASE /\ t.todo = Granting /\ IsData(t.data)
            /\ DOMAIN m # {} /\ \E r : IsMissing(m, r, "api")
  <2>1. PICK r : IsMissing(m, r, "api")
    BY <1>10
  <2>2. GrantOK(m[next])
    BY <1>4, <1>10, <2>1, NextGrant
  <2>3. AuthorityOK' /\ AuthorityGrows
    BY <1>8, <2>2, GrantAdded
  <2>4. IsMissing(rest, r, "api")
    BY <1>5, <2>1, LessMissing
  <2>5. IsData(data) /\ data.missing = rest
    BY <1>6, <1>10 DEF IsData
  <2>6. Rest(c) = << >>
    BY <1>2, <1>10, LaterSteps
  <2>7. CallOK(u)
    <3>1. CASE DOMAIN rest = {}
      <4>1. todo = << >>
        BY <1>7, <2>6, <3>1, NextSteps DEF ForGrants
      <4> QED BY <1>9, <4>1 DEF CallOK
    <3>2. CASE DOMAIN rest # {}
      <4>1. todo = Granting /\ todo # << >>
        BY <1>7, <2>6, <3>2, NextSteps, Unfinished DEF ForGrants
      <4> QED BY <1>9, <2>4, <2>5, <3>2, <4>1 DEF CallOK
    <3> QED BY <3>1, <3>2
  <2>8. CallOK(u)'
    BY <1>8, <2>3, <2>7, RuntimeUnchanged, CallStays DEF Core
  <2> QED BY <1>8, <1>9, <2>3, <2>8, AuthorityStep
<1>11. CASE \E e \in LastStep : Provisions(t, e)
  <2>1. PICK e \in LastStep : Provisions(t, e)
    BY <1>11
  <2>2. t.todo = GrantingMore(e) \/ t.todo = GrantingLast(e)
    BY <1>2, <2>1, AtStage
  <2>3. /\ DOMAIN m # {} /\ \E r : IsMissing(m, r, "builtin")
        /\ t.todo = GrantingMore(e) <=> t.data.roles # << >>
    <3>1. GrantingMore(e) # GrantingLast(e)
      <4>1. Head(Tail(GrantingMore(e))) = "find" /\ Head(Tail(GrantingLast(e))) = e
        BY LaterSteps, FirstSteps
      <4> QED BY <4>1 DEF LastStep
    <3> QED BY <1>2, <1>3, <2>1, <2>2, <3>1, FirstSteps DEF Provisions, Stage, LastStep
  <2>4. PICK r : IsMissing(m, r, "builtin")
    BY <2>3
  <2>5. next \in DOMAIN m /\ GrantOK(m[next])
    BY <1>4, <2>3, <2>4, NextGrant
  <2>6. /\ AuthorityOK' /\ AuthorityGrows
        /\ m[next] \in BagToSet(grants)'
    BY <1>8, <2>5, GrantAdded
  <2>7. IsMissing(rest, r, "builtin")
    BY <1>5, <2>4, LessMissing
  <2>8. IsData(t.data)
    BY <2>1 DEF Provisions
  <2>9. /\ IsData(data) /\ data.missing = rest /\ data.roles = t.data.roles
        /\ data.status = t.data.status
    BY <1>6, <2>8 DEF IsData
  <2>10. /\ Stage(todo, e, t.data.roles, rest) /\ todo # << >>
         /\ \/ todo = Finding(e) \/ todo = Ending(e)
            \/ todo = GrantingMore(e) \/ todo = GrantingLast(e)
    <3>1. CASE DOMAIN rest = {} /\ t.data.roles # << >>
      <4>1. todo = Finding(e)
        BY <1>2, <1>7, <2>2, <2>3, <3>1, LaterSteps, NextSteps DEF ForGrants
      <4> QED BY <3>1, <4>1, Unfinished DEF Stage
    <3>2. CASE DOMAIN rest = {} /\ t.data.roles = << >>
      <4>1. todo = Ending(e)
        BY <1>2, <1>7, <2>2, <2>3, <3>2, LaterSteps, NextSteps DEF ForGrants
      <4> QED BY <3>2, <4>1, Unfinished DEF Stage
    <3>3. CASE DOMAIN rest # {} /\ t.data.roles # << >>
      <4>1. todo = GrantingMore(e)
        BY <1>2, <1>7, <2>2, <2>3, <3>3, LaterSteps, NextSteps DEF ForGrants
      <4> QED BY <2>7, <3>3, <4>1, Unfinished DEF Stage
    <3>4. CASE DOMAIN rest # {} /\ t.data.roles = << >>
      <4>1. todo = GrantingLast(e)
        BY <1>2, <1>7, <2>2, <2>3, <3>4, LaterSteps, NextSteps DEF ForGrants
      <4> QED BY <2>7, <3>4, <4>1, Unfinished DEF Stage
    <3> QED BY <3>1, <3>2, <3>3, <3>4
  <2>11. /\ u.card = t.card /\ u.data = data
    BY <1>9, <2>10
  <2>12. /\ Entitled(t.card, e)' /\ CallRoles(t.card)' = CallRoles(t.card)
    BY <1>8, <2>1, RuntimeUnchanged, EntitledStays DEF Provisions, Core
  <2>13. ASSUME NEW q \in Elements(CallRoles(t.card))
         PROVE  q \in Elements(t.data.roles) \/ Ensured(q, rest)'
    <3>1. CASE q \in Elements(t.data.roles)
      BY <3>1
    <3>2. CASE Ensured(q, m)
      <4>1. q.role \in DOMAIN RoleTemplate
        BY <2>1, RolesAsked DEF Provisions, Core
      <4> QED BY <1>5, <2>5, <2>6, <3>2, <4>1, GrantedIsEnsured
    <3> QED BY <1>3, <2>1, <3>1, <3>2 DEF Provisions
  <2>14. Stage(todo, e, t.data.roles, rest)'
    <3>1. todo # Listing(e)
      BY <2>10, FirstSteps DEF LastStep
    <3> QED BY <2>10, <3>1 DEF Stage, IsMissing
  <2>15. Provisions(u, e)'
    <3>1. /\ IsSequence(t.data.roles) /\ t.data.status \in ParticipantStatus
          /\ Elements(t.data.roles) \subseteq Elements(CallRoles(t.card))
      BY <2>1 DEF Provisions
    <3> QED BY <1>9, <2>9, <2>11, <2>12, <2>13, <2>14, <3>1 DEF Provisions
  <2>16. CallOK(u)'
    BY <1>9, <2>15 DEF CallOK
  <2> QED BY <1>8, <1>9, <2>6, <2>16, AuthorityStep
<1> QED BY <1>2, <1>3, <1>10, <1>11, AtProgram

\* initialize_system returns.
LEMMA InitializedStep ==
    ASSUME Core, NEW c \in Client, Initialized(c)
    PROVE  Core'
<1>1. PICK t : t = call[c]
  OBVIOUS
<1>2. /\ CallOK(t) /\ t.todo # << >> /\ Head(t.todo) = "initialized" /\ Rest(c) = Tail(t.todo)
  BY <1>1, AtStep DEF Initialized
<1>3. PICK e \in LastStep : Provisions(t, e)
  BY <1>2, AtProgram DEF LastStep
<1>4. t.todo = Ending(e)
  BY <1>2, <1>3, AtStage DEF LastStep
<1>5. Rest(c) = << >>
  BY <1>2, <1>4, LaterSteps
<1>6. PICK u : call' = [call EXCEPT ![c] = u] /\ IsCall(u) /\ u.todo = << >> /\ u.data = None
  <2>1. Proceed(c, << >>, t.ref, t.data)
    BY <1>1, <1>5 DEF Initialized, Continue
  <2> QED BY <2>1, GoesOn
<1>7. CallOK(u)
  BY <1>6 DEF CallOK
<1> QED BY <1>6, <1>7, RequestOnly DEF Initialized

\* A request ends where it is.
LEMMA EndStep ==
    ASSUME Core, NEW c \in Client, End(c)
    PROVE  Core'
<1>1. PICK u : u = MkCall(<< >>, None, 0, NoKey, None)
  OBVIOUS
<1>2. IsCall(u) /\ u.todo = << >> /\ u.data = None
  BY <1>1, BeginCall
<1>3. CallOK(u)
  BY <1>2 DEF CallOK
<1>4. call' = [call EXCEPT ![c] = u] /\ UNCHANGED <<runtimeVars, authorityVars>>
  BY <1>1 DEF End, Abort, Idle
<1> QED BY <1>3, <1>4, RequestOnly

-----------------------------------------------------------------------------
(* The /participants routes.                                                *)

\* A status set by hand.
LEMMA SetParticipantStep ==
    ASSUME Core, NEW p, NEW status \in SetTo, SetParticipant(p, status)
    PROVE  Core'
<1>1. status \in ParticipantStatus
  BY ByHandAssumption
<1>2. /\ upsert_participant(p, status) /\ UNCHANGED <<assignments, grants>>
      /\ UNCHANGED runtimeVars /\ UNCHANGED call
  BY DEF SetParticipant
<1>3. AuthorityOK' /\ AuthorityGrows
  BY <1>1, <1>2, ParticipantWritten
<1> QED BY <1>2, <1>3, AuthorityStep

\* A role assigned by hand: the assignment first, then its grants.
LEMMA AssignRoleStep ==
    ASSUME Core, NEW c \in Client, NEW r \in ByHand, AssignRole(c, r)
    PROVE  Core'
<1>1. PICK a : a = MkAssignment(r, "api")
  OBVIOUS
<1>2. a.origin = "api"
  BY <1>1 DEF MkAssignment
<1>3. /\ add_role_assignment(a) /\ UNCHANGED runtimeVars
      /\ UNCHANGED <<participants, grants>>
  BY <1>1 DEF AssignRole
<1>4. a.participant \in DOMAIN participants => AssignmentOK(a)
  BY <1>2 DEF AssignmentOK
<1>5. AuthorityOK' /\ AuthorityGrows
  BY <1>3, <1>4, AssignmentAdded
<1>6. PICK all : all = permission_grants(r.role, r.scope, "api")
  OBVIOUS
<1>7. IsMissing(all, r, "api")
  BY <1>6, ByHandAssumption DEF IsMissing, permission_grants
<1>8. PICK first : first = Provisioning(r.participant, None, << >>)
  OBVIOUS
<1>9. IsData(first)
  BY <1>8 DEF Provisioning, IsData
<1>10. PICK data : data = [first EXCEPT !.missing = all]
  OBVIOUS
<1>11. IsData(data) /\ data.missing = all
  BY <1>9, <1>10 DEF IsData
<1>12. PICK todo : todo = ForGrants(all)
  OBVIOUS
<1>13. PICK u : u = MkCall(todo, None, 0, NoKey, data)
  OBVIOUS
<1>14. IsCall(u) /\ u.todo = todo /\ u.data = data
  BY <1>13, BeginCall
<1>15. call' = [call EXCEPT ![c] = u]
  BY <1>6, <1>8, <1>10, <1>12, <1>13 DEF AssignRole
<1>16. CallOK(u)'
  <2>1. CASE DOMAIN all = {}
    <3>1. u.todo = << >> /\ DOMAIN u.data.missing = {}
      BY <1>11, <1>12, <1>14, <2>1 DEF ForGrants
    <3> QED BY <1>14, <3>1 DEF CallOK
  <2>2. CASE DOMAIN all # {}
    <3>1. u.todo = Granting
      BY <1>12, <1>14, <2>2 DEF ForGrants, Granting
    <3>2. IsMissing(u.data.missing, r, "api")'
      BY <1>7, <1>11, <1>14 DEF IsMissing
    <3> QED BY <1>11, <1>14, <2>2, <3>1, <3>2 DEF CallOK
  <2> QED BY <2>1, <2>2
<1> QED BY <1>3, <1>5, <1>15, <1>16, AuthorityStep

\* A permission granted by hand.
LEMMA GrantPermissionStep ==
    ASSUME Core, NEW r \in ByHand, NEW permission \in Permission,
           GrantPermission(r.participant, permission, r.scope)
    PROVE  Core'
<1>1. PICK g : g = [participant |-> r.participant, role |-> None, permission |-> permission,
                    scope |-> r.scope, origin |-> "api"]
  OBVIOUS
<1>2. GrantOK(g)
  BY <1>1, ByHandAssumption DEF GrantOK
<1>3. /\ add_permission_grant(g) /\ UNCHANGED runtimeVars
      /\ UNCHANGED <<participants, assignments>> /\ UNCHANGED call
  BY <1>1 DEF GrantPermission
<1>4. AuthorityOK' /\ AuthorityGrows
  BY <1>2, <1>3, GrantAdded
<1> QED BY <1>3, <1>4, AuthorityStep

-----------------------------------------------------------------------------
(* The invariant and what follows from it.                                  *)

\* Init establishes Core: the workflow is registered and nothing else is.
LEMMA InitCore == Init => Core
<1> SUFFICES ASSUME Init PROVE Core
  OBVIOUS
<1>1. RuntimeOK
  BY RegistrationAssumption DEF Init, RuntimeOK, IsSequence, Elements
<1>2. PayloadsOK /\ SinksDone
  BY DEF Init, PayloadsOK, SinksDone
<1>3. AuthorityOK
  BY DEF Init, AuthorityOK, ParticipantsOK, BagToSet, EmptyBag, SetToBag
<1>4. CallsOK
  <2>1. CallOK(Idle)
    <3>1. PICK u : u = MkCall(<< >>, None, 0, NoKey, None)
      OBVIOUS
    <3>2. IsCall(u) /\ u.todo = << >> /\ u.data = None
      BY <3>1, BeginCall
    <3> QED BY <3>1, <3>2 DEF CallOK, Idle
  <2> QED BY <2>1 DEF Init, CallsOK
<1> QED BY <1>1, <1>2, <1>3, <1>4 DEF Init, Core

\* Every step keeps it.
LEMMA NextCore ==
    ASSUME Core, [Next]_vars
    PROVE  Core'
<1>1. ASSUME NEW c \in Client,
             \/ Bootstrap(c) \/ Upsert(c) \/ Find(c) \/ Assign(c) \/ List(c) \/ Grant(c)
             \/ Initialized(c) \/ RecordSource(c) \/ CheckHistory(c) \/ RecordSink(c) \/ End(c)
      PROVE  Core'
  BY <1>1, BootstrapStep, UpsertStep, FindStep, AssignStep, ListStep, GrantStep,
     InitializedStep, RecordSourceStep, CheckHistoryStep, RecordSinkStep, EndStep
<1>2. ASSUME NEW c \in Client, NEW payload \in Payload, NEW k \in Key,
             RegistrationSource(c, payload, k)
      PROVE  Core'
  BY <1>2, RegistrationSourceStep
<1>3. ASSUME NEW c \in Client, NEW card \in DOMAIN cards, NEW external \in External, NEW k \in Key,
             ProvisionerSink(c, card, external, k)
      PROVE  Core'
  BY <1>3, ProvisionerSinkStep
<1>4. ASSUME NEW c \in Client, NEW r \in ByHand, AssignRole(c, r) PROVE Core'
  BY <1>4, AssignRoleStep
<1>5. ASSUME NEW card \in DOMAIN cards, NEW d \in Decision, NEW k \in Key, Validate(card, d, k)
      PROVE  Core'
  BY <1>5, ValidateStep
<1>6. ASSUME NEW card \in DOMAIN cards, NEW bucket \in MoveTo, Move(card, bucket) PROVE Core'
  BY <1>6, MoveStep
<1>7. ASSUME NEW p \in Person, NEW status \in SetTo, SetParticipant(p, status) PROVE Core'
  BY <1>7, SetParticipantStep
<1>8. ASSUME NEW r \in ByHand, NEW permission \in Permission,
             GrantPermission(r.participant, permission, r.scope)
      PROVE  Core'
  BY <1>8, GrantPermissionStep
<1>9. CASE UNCHANGED vars
  <2>1. UNCHANGED runtimeVars /\ UNCHANGED authorityVars /\ UNCHANGED call
    BY <1>9 DEF vars
  <2>2. Grows
    BY <2>1, RuntimeUnchanged
  <2>3. AuthorityOK' /\ AuthorityGrows
    BY <2>1, <2>2, AuthorityUnchanged
  <2> QED BY <2>1, <2>3, AuthorityStep
<1> QED BY <1>1, <1>2, <1>3, <1>4, <1>5, <1>6, <1>7, <1>8, <1>9 DEF Next

\* Whatever requests run, race or end between two writes, the tables and what
\* every request under way has done of its work stay right: Core is inductive.
THEOREM OnboardingInvariant == Spec => []Core
<1>1. Init => Core
  BY InitCore
<1>2. Core /\ [Next]_vars => Core'
  BY NextCore
<1> QED BY <1>1, <1>2, PTL DEF Spec

\* A completed provisioning is complete, for any number of concurrent
\* requests: when the sink has recorded that it provisioned a card's
\* participant, or initialize_system returns, every role asked for is there
\* with all its permissions.
THEOREM ProvisioningIsComplete == Spec => []ProvisionedIsAuthorized
<1>1. Core => ProvisionedIsAuthorized
  <2> SUFFICES ASSUME Core PROVE ProvisionedIsAuthorized
    OBVIOUS
  <2>1. ASSUME NEW c \in Client, At(c, "initialized"), NEW r \in Elements(RootRoles)
        PROVE  Provisioned(r)
    <3>1. PICK t : t = call[c]
      OBVIOUS
    <3>2. CallOK(t) /\ t.todo # << >> /\ Head(t.todo) = "initialized"
      BY <2>1, <3>1, AtStep
    <3>3. PICK e \in LastStep : Provisions(t, e)
      BY <3>2, AtProgram DEF LastStep
    <3>4. t.todo = Ending(e) /\ e = "initialized"
      BY <3>2, <3>3, AtStage DEF LastStep
    <3>5. t.card = 0
      BY <3>3, <3>4 DEF Provisions, Entitled
    <3>6. CallRoles(t.card) = RootRoles
      BY <3>5 DEF CallRoles
    <3> QED BY <2>1, <3>3, <3>4, <3>6, DoneAtTheEnd
  <2> QED BY <2>1 DEF Core, SinksDone, ProvisionedIsAuthorized
<1> QED BY <1>1, OnboardingInvariant, PTL

\* Whoever got a role from the system and is not the root was approved by both
\* validators of the registration workflow, on a card that asks for the role.
THEOREM ProvisionedWereApproved == Spec => []ProvisionedWithApproval
<1>1. Core => ProvisionedWithApproval
  BY DEF Core, AuthorityOK, AssignmentOK, RegistrationApproved, ProvisionedWithApproval
<1> QED BY <1>1, OnboardingInvariant, PTL

\* The tables hold what they should; no participant has authority before it
\* has a record, and a request adds grants exactly while it lacks some.
THEOREM OnboardingTypes == Spec => []TypeOK
<1>1. Core => TypeOK
  <2> SUFFICES ASSUME Core PROVE TypeOK
    OBVIOUS
  <2>1. ASSUME NEW c \in Client, call[c].data # None
        PROVE  At(c, "grant") <=> DOMAIN call[c].data.missing # {}
    <3>1. PICK t : t = call[c]
      OBVIOUS
    <3>2. CallOK(t) /\ (At(c, "grant") <=> t.todo # << >> /\ Head(t.todo) = "grant")
      BY <3>1 DEF Core, CallsOK, At, IsIdle
    <3>3. CASE t.todo = << >> /\ DOMAIN t.data.missing = {}
      BY <3>1, <3>2, <3>3
    <3>4. CASE t.todo = Granting /\ DOMAIN t.data.missing # {}
      BY <3>1, <3>2, <3>4, FirstSteps, Unfinished
    <3>5. CASE \E e \in LastStep : Provisions(t, e)
      <4>1. PICK e \in LastStep : Provisions(t, e)
        BY <3>5
      <4>2. Stage(t.todo, e, t.data.roles, t.data.missing)
        BY <4>1 DEF Provisions
      <4>3. Head(t.todo) = "grant" <=> DOMAIN t.data.missing # {}
        BY <4>2, FirstSteps DEF Stage, LastStep
      <4> QED BY <3>1, <3>2, <4>1, <4>3, AtStage
    <3> QED BY <2>1, <3>1, <3>2, <3>3, <3>4, <3>5 DEF CallOK
  <2>2. DOMAIN history = DOMAIN cards
    BY DEF Core, RuntimeOK
  <2> QED BY <2>1, <2>2 DEF Core, PayloadsOK, AuthorityOK, ParticipantsOK, AssignmentOK, GrantOK,
                            TypeOK
<1> QED BY <1>1, OnboardingInvariant, PTL

-----------------------------------------------------------------------------
(* Once each, when requests come one after the other.                       *)

OneClient == \A c, d \in Client : c = d

\* What a request that is about to add a row read still holds: the role has
\* no assignment yet, and none of the grants is there.
StillLacking(c) ==
    /\ At(c, "assign") => ~HasAssignment(CurrentRole(c))
    /\ At(c, "grant") =>
          \A i \in DOMAIN call[c].data.missing :
             LET g == call[c].data.missing[i] IN g.origin = "builtin" => g \notin BagToSet(grants)

Once == Core /\ NoDuplicateProvisioning /\ \A c \in Client : StillLacking(c)

\* A step that adds no row and leaves the one client about to add none.
LEMMA AddsNothing ==
    ASSUME Once, Core', UNCHANGED <<assignments, grants>>, OneClient, NEW c \in Client,
           ~At(c, "assign")', ~At(c, "grant")'
    PROVE  Once'
<1>1. NoDuplicateProvisioning'
  BY DEF Once, NoDuplicateProvisioning, BagToSet
<1>2. \A d \in Client : StillLacking(d)'
  BY DEF OneClient, StillLacking
<1> QED BY <1>1, <1>2 DEF Once

\* What a request holds after a step of its own.
LEMMA RequestAfter ==
    ASSUME Core, NEW c \in Client, NEW u, call' = [call EXCEPT ![c] = u], NEW step
    PROVE  call'[c] = u /\ (At(c, step)' <=> u.todo # << >> /\ Head(u.todo) = step)
<1>1. call'[c] = u
  BY DEF Core, CallsOK
<1> QED BY <1>1 DEF At, IsIdle

\* The same, when it proceeds.
LEMMA ProceedsTo ==
    ASSUME Core, NEW c \in Client, NEW todo, NEW ref, NEW data, Proceed(c, todo, ref, data),
           NEW step
    PROVE  /\ At(c, step)' <=> todo # << >> /\ Head(todo) = step
           /\ todo # << >> => call'[c].data = data
<1>1. PICK u : /\ call' = [call EXCEPT ![c] = u] /\ u.todo = todo
               /\ todo # << >> => u.data = data
  BY GoesOn
<1> QED BY <1>1, RequestAfter

\* A request begins with another step than adding a row.
LEMMA OnceBegins ==
    ASSUME Once, OneClient, Core', NEW c \in Client,
           \/ Bootstrap(c)
           \/ \E payload \in Payload, k \in Key : RegistrationSource(c, payload, k)
           \/ \E card \in DOMAIN cards, external \in External, k \in Key :
                 ProvisionerSink(c, card, external, k)
    PROVE  Once'
<1>1. UNCHANGED <<assignments, grants>>
  BY DEF Bootstrap, RegistrationSource, ProvisionerSink, authorityVars
<1>2. CASE Bootstrap(c)
  <2>1. PICK data : data = Provisioning(Root, "active", RootRoles)
    OBVIOUS
  <2>2. PICK u : u = MkCall(Upserting("initialized"), None, 0, NoKey, data)
    OBVIOUS
  <2>3. call' = [call EXCEPT ![c] = u] /\ u.todo = Upserting("initialized")
    BY <1>2, <2>1, <2>2, BeginCall DEF Bootstrap, Upserting
  <2>4. Head(u.todo) = "upsert"
    BY <2>3, FirstSteps
  <2>5. Core /\ call' = [call EXCEPT ![c] = u]
    BY <2>3 DEF Once
  <2>6. call'[c] = u
    BY <2>5 DEF Core, CallsOK
  <2>7. ~At(c, "assign")' /\ ~At(c, "grant")'
    BY <2>4, <2>6 DEF At
  <2> QED BY <1>1, <2>7, AddsNothing
<1>3. ASSUME NEW payload \in Payload, NEW k \in Key, RegistrationSource(c, payload, k)
      PROVE  Once'
  <2>1. PICK n \in Node(Def(Registration)) :
               execute_source(c, Registration, n, payload, k, <<"source_executed">>)
    BY <1>3 DEF RegistrationSource
  <2>2. PICK card \in 1..MaxCards :
              call' = [call EXCEPT ![c] = MkCall(<<"source_executed">>, n.id, card, k, None)]
    BY <2>1 DEF execute_source
  <2>3. PICK u : u = MkCall(Sourced, n.id, card, k, None)
    OBVIOUS
  <2>4. call' = [call EXCEPT ![c] = u] /\ u.todo = Sourced
    BY <2>2, <2>3, BeginCall DEF Sourced
  <2>5. ~At(c, "assign")' /\ ~At(c, "grant")'
    BY <2>4, RequestAfter, FirstSteps DEF Once
  <2> QED BY <1>1, <2>5, AddsNothing
<1>4. ASSUME NEW card \in DOMAIN cards, NEW external \in External, NEW k \in Key,
             ProvisionerSink(c, card, external, k)
      PROVE  Once'
  <2>1. PICK n \in Node(Def(Registration)) :
               execute_sink(c, Registration, n, card, external, k, <<"history">>)
    BY <1>4 DEF ProvisionerSink
  <2>2. PICK v : v = MkCall(Reading, n.id, card, k, None)
    OBVIOUS
  <2>3. IsCall(v) /\ v.todo = Reading
    BY <2>2, BeginCall
  <2>4. PICK u : u = [v EXCEPT !.ref = external]
    OBVIOUS
  <2>5. u.todo = Reading
    BY <2>3, <2>4 DEF IsCall
  <2>6. call' = [call EXCEPT ![c] = u]
    BY <2>1, <2>2, <2>4 DEF execute_sink, Reading
  <2>7. ~At(c, "assign")' /\ ~At(c, "grant")'
    BY <2>5, <2>6, RequestAfter, FirstSteps DEF Once
  <2> QED BY <1>1, <2>7, AddsNothing
<1> QED BY <1>2, <1>3, <1>4

\* A request that has written no row goes on to no step that adds one.
LEMMA OnceContinues ==
    ASSUME Once, OneClient, Core', NEW c \in Client,
           \/ Upsert(c) \/ CheckHistory(c) \/ Initialized(c) \/ RecordSource(c) \/ RecordSink(c)
           \/ End(c)
    PROVE  Once'
<1>1. UNCHANGED <<assignments, grants>>
  BY DEF Upsert, CheckHistory, Initialized, RecordSource, RecordSink, End, authorityVars
<1>2. PICK t : t = call[c]
  OBVIOUS
<1>3. CASE Upsert(c)
  <2>1. /\ CallOK(t) /\ t.todo # << >> /\ Head(t.todo) = "upsert" /\ Rest(c) = Tail(t.todo)
    BY <1>2, <1>3, AtStep DEF Upsert, Once
  <2>2. PICK e \in LastStep : Provisions(t, e)
    BY <2>1, AtProgram
  <2>3. Rest(c) = Finding(e)
    BY <2>1, <2>2, AtStage, LaterSteps
  <2>4. Proceed(c, Finding(e), t.ref, t.data)
    BY <1>2, <1>3, <2>3 DEF Upsert, Continue
  <2>5. ~At(c, "assign")' /\ ~At(c, "grant")'
    BY <2>4, ProceedsTo, FirstSteps DEF Once
  <2> QED BY <1>1, <2>5, AddsNothing
<1>4. CASE CheckHistory(c)
  <2>1. PICK payload : payload = cards[t.card].payload
    OBVIOUS
  <2>2. Proceed(c, Upserting("sink_executed"), Reference(c, payload.participant),
                Provisioning(payload.participant, payload.status, payload.roles))
    BY <1>2, <1>4, <2>1 DEF CheckHistory, Upserting
  <2>3. PICK ref : ref = Reference(c, payload.participant)
    OBVIOUS
  <2>4. PICK data : data = Provisioning(payload.participant, payload.status, payload.roles)
    OBVIOUS
  <2>5. Proceed(c, Upserting("sink_executed"), ref, data)
    BY <2>2, <2>3, <2>4
  <2>6. ~At(c, "assign")' /\ ~At(c, "grant")'
    BY <2>5, ProceedsTo, FirstSteps DEF Once
  <2> QED BY <1>1, <2>6, AddsNothing
<1>5. CASE Initialized(c) \/ RecordSource(c) \/ RecordSink(c)
  <2>1. PICK step \in {"source_executed"} \union LastStep : At(c, step)
    BY <1>5 DEF Initialized, RecordSource, SourceRecorded, RecordSink, SinkRecorded, LastStep
  <2>2. /\ CallOK(t) /\ t.todo # << >> /\ Head(t.todo) = step /\ Rest(c) = Tail(t.todo)
    BY <1>2, <2>1, AtStep DEF Once
  <2>3. Rest(c) = << >>
    <3>1. CASE step = "source_executed"
      BY <2>2, <3>1, AtProgram, LaterSteps
    <3>2. CASE step \in LastStep
      <4>1. PICK e \in LastStep : Provisions(t, e)
        BY <2>2, <3>2, AtProgram
      <4>2. t.todo = Ending(e)
        BY <2>2, <3>2, <4>1, AtStage
      <4> QED BY <2>2, <4>2, LaterSteps
    <3> QED BY <2>1, <3>1, <3>2
  <2>4. Proceed(c, << >>, t.ref, t.data)
    BY <1>2, <1>5, <2>3
       DEF Initialized, RecordSource, SourceRecorded, RecordSink, SinkRecorded, Continue
  <2>5. ~At(c, "assign")' /\ ~At(c, "grant")'
    BY <2>4, ProceedsTo DEF Once
  <2> QED BY <1>1, <2>5, AddsNothing
<1>6. CASE End(c)
  <2>1. PICK u : u = MkCall(<< >>, None, 0, NoKey, None)
    OBVIOUS
  <2>2. u.todo = << >> /\ call' = [call EXCEPT ![c] = u]
    BY <1>6, <2>1, BeginCall DEF End, Abort, Idle
  <2>3. ~At(c, "assign")' /\ ~At(c, "grant")'
    BY <2>2, RequestAfter DEF Once
  <2> QED BY <1>1, <2>3, AddsNothing
<1> QED BY <1>3, <1>4, <1>5, <1>6

\* Find goes on to Assign only when the role has no assignment.
LEMMA OnceFinds ==
    ASSUME Once, OneClient, Core', NEW c \in Client, Find(c)
    PROVE  Once'
<1>1. PICK t : t = call[c]
  OBVIOUS
<1>2. /\ CallOK(t) /\ t.todo # << >> /\ Head(t.todo) = "find" /\ Rest(c) = Tail(t.todo)
  BY <1>1, AtStep DEF Find, Once
<1>3. PICK e \in LastStep : Provisions(t, e)
  BY <1>2, AtProgram
<1>4. Rest(c) = Ending(e)
  BY <1>2, <1>3, AtStage, LaterSteps
<1>5. UNCHANGED <<assignments, grants>>
  BY DEF Find, authorityVars
<1>6. PICK r : r = Head(t.data.roles)
  OBVIOUS
<1>7. CASE HasAssignment(r)
  <2>1. Proceed(c, Listing(e), t.ref, t.data)
    BY <1>1, <1>4, <1>6, <1>7, NextSteps DEF Find, Continue, CurrentRole
  <2>2. ~At(c, "assign")' /\ ~At(c, "grant")'
    BY <2>1, ProceedsTo, FirstSteps DEF Once
  <2> QED BY <1>5, <2>2, AddsNothing
<1>8. CASE ~HasAssignment(r)
  <2>1. Proceed(c, Assigning(e), t.ref, t.data)
    BY <1>1, <1>4, <1>6, <1>8, NextSteps DEF Find, Continue, CurrentRole
  <2>2. ~At(c, "grant")' /\ call'[c].data = t.data
    BY <2>1, ProceedsTo, FirstSteps, Unfinished DEF Once
  <2>3. ~HasAssignment(r)'
    BY <1>5, <1>8 DEF HasAssignment, list_role_assignments, BagToSet
  <2>4. ~HasAssignment(CurrentRole(c))'
    BY <1>6, <2>2, <2>3 DEF CurrentRole
  <2>5. \A d \in Client : StillLacking(d)'
    BY <2>2, <2>4 DEF OneClient, StillLacking
  <2>6. NoDuplicateProvisioning'
    BY <1>5 DEF Once, NoDuplicateProvisioning, BagToSet
  <2> QED BY <2>5, <2>6 DEF Once
<1> QED BY <1>7, <1>8

\* A new row keeps the built-in rows of a table single, when it is made by
\* hand or was not there.
LEMMA SingleRows ==
    ASSUME NEW B, NEW a, NEW C, C = B (+) SetToBag({a}),
           \A b \in BagToSet(B) : b.origin = "builtin" => B[b] = 1,
           a.origin = "builtin" => a \notin BagToSet(B)
    PROVE  \A b \in BagToSet(C) : b.origin = "builtin" => C[b] = 1
<1>1. BagToSet(C) = BagToSet(B) \union {a}
  BY AddedRow
<1>2. a \notin BagToSet(B) => C[a] = 1
  BY AddedRow
<1>3. \A b \in BagToSet(B) : b # a /\ B[b] = 1 => C[b] = 1
  BY DEF (+), SetToBag, BagToSet
<1> QED BY <1>1, <1>2, <1>3

\* A role that has no assignment gets its first one.
LEMMA OnceAssigns ==
    ASSUME Once, OneClient, Core', NEW c \in Client, Assign(c)
    PROVE  Once'
<1>1. PICK t : t = call[c]
  OBVIOUS
<1>2. /\ CallOK(t) /\ t.todo # << >> /\ Head(t.todo) = "assign" /\ Rest(c) = Tail(t.todo)
  BY <1>1, AtStep DEF Assign, Once
<1>3. PICK e \in LastStep : Provisions(t, e)
  BY <1>2, AtProgram
<1>4. Rest(c) = Listing(e)
  BY <1>2, <1>3, AtStage, LaterSteps
<1>5. PICK r : r = Head(t.data.roles)
  OBVIOUS
<1>6. ~HasAssignment(r)
  BY <1>1, <1>5 DEF Assign, Once, StillLacking, CurrentRole
<1>7. PICK a : a = MkAssignment(r, "builtin")
  OBVIOUS
<1>8. a.participant = r.participant /\ a.role = r.role /\ a.scope = r.scope
  BY <1>7 DEF MkAssignment
<1>9. a \notin BagToSet(assignments)
  BY <1>6, <1>8 DEF HasAssignment, list_role_assignments
<1>10. assignments' = assignments (+) SetToBag({a}) /\ UNCHANGED grants
  BY <1>1, <1>5, <1>7 DEF Assign, CurrentRole, add_role_assignment
<1>11. PICK table : table = assignments' /\ table = assignments (+) SetToBag({a})
  BY <1>10
<1>12. \A b \in BagToSet(table) : b.origin = "builtin" => table[b] = 1
  <2>1. \A b \in BagToSet(assignments) : b.origin = "builtin" => assignments[b] = 1
    BY DEF Once, NoDuplicateProvisioning
  <2> QED BY <1>9, <1>11, <2>1, SingleRows
<1>13. BagToSet(assignments)' = BagToSet(table) /\ BagToSet(grants)' = BagToSet(grants)
  BY <1>10, <1>11 DEF BagToSet
<1>14. NoDuplicateProvisioning'
  BY <1>10, <1>11, <1>12, <1>13 DEF Once, NoDuplicateProvisioning
<1>15. ~At(c, "assign")' /\ ~At(c, "grant")'
  <2>1. Proceed(c, Listing(e), t.ref, t.data)
    BY <1>1, <1>4 DEF Assign, Continue
  <2> QED BY <2>1, ProceedsTo, FirstSteps DEF Once
<1>16. \A d \in Client : StillLacking(d)'
  BY <1>15 DEF OneClient, StillLacking
<1> QED BY <1>14, <1>16 DEF Once

\* List keeps only grants that are not there: the role is assigned, so every
\* grant of it is among the participant's active ones.
LEMMA ListedAreAbsent ==
    ASSUME NEW r, HasAssignment(r), NEW m, m = MissingGrants(r), NEW i \in DOMAIN m
    PROVE  m[i] \notin BagToSet(grants)
<1>1. PICK all : all = permission_grants(r.role, r.scope, "builtin")
  OBVIOUS
<1>2. PICK active : active = list_permission_grants(r.participant)
  OBVIOUS
<1>3. i \in DOMAIN all /\ ~MatchingGrant(active, all[i]) /\ m[i] = all[i]
  BY <1>1, <1>2 DEF MissingGrants, Lacking
<1>4. PICK g : g = all[i]
  OBVIOUS
<1>5. g.role = r.role
  <2>1. DOMAIN all = permissions(r.role)
    BY <1>1 DEF permission_grants
  <2> QED BY <1>1, <1>3, <1>4, <2>1, GrantFields
<1>6. PICK a \in list_role_assignments(r.participant) : a.role = r.role
  BY DEF HasAssignment
<1>7. g \in BagToSet(grants) => g \in active
  BY <1>2, <1>5, <1>6 DEF list_permission_grants
<1>8. g \notin active
  BY <1>3, <1>4 DEF MatchingGrant
<1> QED BY <1>3, <1>4, <1>7, <1>8

\* The grants that a request is adding are all different.
LEMMA GrantsDiffer ==
    ASSUME NEW m, NEW r, NEW origin, IsMissing(m, r, origin), NEW i \in DOMAIN m,
           NEW j \in DOMAIN m, m[i] = m[j]
    PROVE  i = j
<1>1. r.role \in DOMAIN RoleTemplate /\ i \in permissions(r.role) /\ j \in permissions(r.role)
  BY DEF IsMissing
<1>2. PICK g : g = m[i]
  OBVIOUS
<1>3. /\ g = permission_grants(r.role, r.scope, origin)[i]
      /\ g = permission_grants(r.role, r.scope, origin)[j]
  BY <1>2 DEF IsMissing
<1>4. /\ g = [participant |-> None, role |-> r.role, permission |-> RoleTemplate[r.role][i],
               scope |-> r.scope, origin |-> origin]
      /\ g = [participant |-> None, role |-> r.role, permission |-> RoleTemplate[r.role][j],
               scope |-> r.scope, origin |-> origin]
  BY <1>1, <1>3 DEF permission_grants
<1>5. RoleTemplate[r.role][i] = RoleTemplate[r.role][j]
  BY <1>4
<1>6. i \in DOMAIN RoleTemplate[r.role] /\ j \in DOMAIN RoleTemplate[r.role]
  BY <1>1 DEF permissions
<1> QED BY <1>1, <1>5, <1>6, RoleTemplateAssumption

\* After List the grants to add are not there.
LEMMA OnceLists ==
    ASSUME Once, OneClient, Core', NEW c \in Client, List(c)
    PROVE  Once'
<1>1. PICK t : t = call[c]
  OBVIOUS
<1>2. /\ CallOK(t) /\ t.todo # << >> /\ Head(t.todo) = "list" /\ Rest(c) = Tail(t.todo)
  BY <1>1, AtStep DEF List, Once
<1>3. PICK e \in LastStep : Provisions(t, e)
  BY <1>2, AtProgram
<1>4. t.todo = Listing(e)
  BY <1>2, <1>3, AtStage
<1>5. PICK r : r = Head(t.data.roles)
  OBVIOUS
<1>6. HasAssignment(r) /\ IsData(t.data)
  BY <1>2, <1>3, <1>4, <1>5, FirstSteps DEF Provisions, Stage, LastStep
<1>7. Rest(c) = Ending(e)
  BY <1>2, <1>4, LaterSteps
<1>8. PICK rest : rest = Tail(t.data.roles)
  OBVIOUS
<1>9. PICK m : m = MissingGrants(r)
  OBVIOUS
<1>10. PICK data : data = [t.data EXCEPT !.roles = rest, !.missing = m]
  OBVIOUS
<1>11. data.missing = m
  BY <1>6, <1>10 DEF IsData
<1>12. PICK todo : todo = ForGrants(m) \o ForRoles(rest) \o Ending(e)
  OBVIOUS
<1>13. Head(todo) # "assign"
  <2>1. todo \in {Ending(e), Finding(e), GrantingLast(e), GrantingMore(e)}
    BY <1>12, NextSteps DEF ForGrants, ForRoles
  <2> QED BY <2>1, FirstSteps DEF LastStep
<1>14. CurrentRole(c) = r
  BY <1>1, <1>5 DEF CurrentRole
<1>15. Proceed(c, todo, t.ref, data) /\ UNCHANGED <<assignments, grants>>
  <2>1. Proceed(c, ForGrants(m) \o ForRoles(rest) \o Rest(c), t.ref,
                [t.data EXCEPT !.roles = rest, !.missing = m])
    BY <1>1, <1>8, <1>9, <1>14 DEF List
  <2> QED BY <1>7, <1>10, <1>12, <2>1 DEF List, authorityVars
<1>16. /\ ~At(c, "assign")'
       /\ At(c, "grant")' => call'[c].data.missing = m
  BY <1>11, <1>13, <1>15, ProceedsTo DEF Once
<1>17. \A i \in DOMAIN m : m[i] \notin BagToSet(grants)'
  BY <1>6, <1>9, <1>15, ListedAreAbsent DEF BagToSet
<1>18. \A d \in Client : StillLacking(d)'
  BY <1>16, <1>17 DEF OneClient, StillLacking
<1>19. NoDuplicateProvisioning'
  BY <1>15 DEF Once, NoDuplicateProvisioning, BagToSet
<1> QED BY <1>18, <1>19 DEF Once

\* A new row of the table of grants keeps the built-in ones single, when it is
\* made by hand or was not there.
LEMMA GrantOnce ==
    ASSUME NoDuplicateProvisioning, NEW g, add_permission_grant(g), UNCHANGED assignments,
           g.origin = "builtin" => g \notin BagToSet(grants)
    PROVE  NoDuplicateProvisioning' /\ BagToSet(grants)' = BagToSet(grants) \union {g}
<1>1. PICK table : table = grants' /\ table = grants (+) SetToBag({g})
  BY DEF add_permission_grant
<1>2. BagToSet(table) = BagToSet(grants) \union {g}
  BY <1>1, AddedRow
<1>3. \A b \in BagToSet(table) : b.origin = "builtin" => table[b] = 1
  <2>1. \A b \in BagToSet(grants) : b.origin = "builtin" => grants[b] = 1
    BY DEF NoDuplicateProvisioning
  <2> QED BY <1>1, <2>1, SingleRows
<1>4. BagToSet(assignments)' = BagToSet(assignments) /\ BagToSet(grants)' = BagToSet(table)
  BY <1>1 DEF BagToSet
<1> QED BY <1>1, <1>2, <1>3, <1>4 DEF NoDuplicateProvisioning

\* Grant adds one grant that was not there; the others still are not.
LEMMA OnceGrants ==
    ASSUME Once, OneClient, Core', NEW c \in Client, Grant(c)
    PROVE  Once'
<1>1. PICK t : t = call[c]
  OBVIOUS
<1>2. /\ CallOK(t) /\ t.todo # << >> /\ Head(t.todo) = "grant" /\ Rest(c) = Tail(t.todo)
  BY <1>1, AtStep DEF Grant, Once
<1>3. PICK m : m = t.data.missing
  OBVIOUS
<1>4. /\ IsData(t.data) /\ DOMAIN m # {} /\ \E r : \E origin : IsMissing(m, r, origin)
      /\ \/ Rest(c) = << >>
         \/ \E e \in LastStep : Rest(c) = Finding(e) \/ Rest(c) = Ending(e)
  <2>1. CASE /\ t.todo = Granting /\ IsData(t.data)
             /\ DOMAIN t.data.missing # {} /\ \E r : IsMissing(t.data.missing, r, "api")
    BY <1>2, <1>3, <2>1, LaterSteps
  <2>2. CASE \E e \in LastStep : Provisions(t, e)
    <3>1. PICK e \in LastStep : Provisions(t, e)
      BY <2>2
    <3>2. t.todo = GrantingMore(e) \/ t.todo = GrantingLast(e)
      BY <1>2, <3>1, AtStage
    <3>3. DOMAIN m # {} /\ \E r : IsMissing(m, r, "builtin")
      BY <1>2, <1>3, <3>1, <3>2, FirstSteps DEF Provisions, Stage, LastStep
    <3>4. Rest(c) = Finding(e) \/ Rest(c) = Ending(e)
      BY <1>2, <3>2, LaterSteps
    <3>5. IsData(t.data)
      BY <3>1 DEF Provisions
    <3> QED BY <3>3, <3>4, <3>5
  <2> QED BY <1>2, <2>1, <2>2, AtProgram
<1>5. PICK r : \E origin : IsMissing(m, r, origin)
  BY <1>4
<1>6. PICK origin : IsMissing(m, r, origin)
  BY <1>5
<1>7. PICK next : next = Least(DOMAIN m)
  OBVIOUS
<1>8. next \in DOMAIN m
  BY <1>4, <1>6, <1>7, NextGrant
<1>9. PICK rest : rest = [i \in DOMAIN m \ {next} |-> m[i]]
  OBVIOUS
<1>10. PICK data : data = [t.data EXCEPT !.missing = rest]
  OBVIOUS
<1>11. data.missing = rest
  BY <1>4, <1>10 DEF IsData
<1>12. PICK todo : todo = ForGrants(rest) \o Rest(c)
  OBVIOUS
<1>13. /\ add_permission_grant(m[next]) /\ Proceed(c, todo, t.ref, data)
       /\ UNCHANGED assignments
  BY <1>1, <1>3, <1>7, <1>9, <1>10, <1>12 DEF Grant
<1>14. todo # << >> => Head(todo) # "assign"
  <2>1. CASE Rest(c) = << >>
    <3>1. todo = << >> \/ todo = Granting
      BY <1>12, <2>1, NextSteps DEF ForGrants
    <3> QED BY <3>1, FirstSteps
  <2>2. CASE \E e \in LastStep : Rest(c) = Finding(e) \/ Rest(c) = Ending(e)
    <3>1. PICK e \in LastStep : Rest(c) = Finding(e) \/ Rest(c) = Ending(e)
      BY <2>2
    <3>2. todo \in {Ending(e), Finding(e), GrantingLast(e), GrantingMore(e)}
      BY <1>12, <3>1, NextSteps DEF ForGrants
    <3> QED BY <3>2, FirstSteps DEF LastStep
  <2> QED BY <1>4, <2>1, <2>2
<1>15. \A i \in DOMAIN m : m[i].origin = "builtin" => m[i] \notin BagToSet(grants)
  BY <1>1, <1>3 DEF Grant, Once, StillLacking
<1>16. PICK g : g = m[next]
  OBVIOUS
<1>17. NoDuplicateProvisioning' /\ BagToSet(grants)' = BagToSet(grants) \union {g}
  BY <1>8, <1>13, <1>15, <1>16, GrantOnce DEF Once
<1>18. \A i \in DOMAIN rest : rest[i].origin = "builtin" => rest[i] \notin BagToSet(grants)'
  <2> SUFFICES ASSUME NEW i \in DOMAIN m, i # next, m[i].origin = "builtin"
               PROVE  m[i] \notin BagToSet(grants)'
    BY <1>9
  <2>1. m[i] # g
    BY <1>6, <1>8, <1>16, GrantsDiffer
  <2> QED BY <1>15, <1>17, <2>1
<1>19. ~At(c, "assign")' /\ (At(c, "grant")' => call'[c].data.missing = rest)
  BY <1>11, <1>13, <1>14, ProceedsTo DEF Once
<1>20. \A d \in Client : StillLacking(d)'
  BY <1>18, <1>19 DEF OneClient, StillLacking
<1> QED BY <1>17, <1>20 DEF Once

\* What operators add by hand is not counted: a role ...
LEMMA OnceByHand ==
    ASSUME Once, OneClient, Core', NEW c \in Client, NEW r \in ByHand, AssignRole(c, r)
    PROVE  Once'
<1>1. PICK a : a = MkAssignment(r, "api")
  OBVIOUS
<1>2. a.origin = "api"
  BY <1>1 DEF MkAssignment
<1>3. PICK table : table = assignments' /\ table = assignments (+) SetToBag({a})
  BY <1>1 DEF AssignRole, add_role_assignment
<1>4. UNCHANGED grants
  BY DEF AssignRole
<1>5. \A b \in BagToSet(table) : b.origin = "builtin" => table[b] = 1
  <2>1. \A b \in BagToSet(assignments) : b.origin = "builtin" => assignments[b] = 1
    BY DEF Once, NoDuplicateProvisioning
  <2> QED BY <1>2, <1>3, <2>1, SingleRows
<1>6. BagToSet(assignments)' = BagToSet(table) /\ BagToSet(grants)' = BagToSet(grants)
  BY <1>3, <1>4 DEF BagToSet
<1>7. NoDuplicateProvisioning'
  BY <1>3, <1>4, <1>5, <1>6 DEF Once, NoDuplicateProvisioning
<1>8. PICK all : all = permission_grants(r.role, r.scope, "api")
  OBVIOUS
<1>9. PICK first : first = Provisioning(r.participant, None, << >>)
  OBVIOUS
<1>10. IsData(first)
  BY <1>9 DEF Provisioning, IsData
<1>11. PICK data : data = [first EXCEPT !.missing = all]
  OBVIOUS
<1>12. data.missing = all
  BY <1>10, <1>11 DEF IsData
<1>13. PICK todo : todo = ForGrants(all)
  OBVIOUS
<1>14. PICK u : u = MkCall(todo, None, 0, NoKey, data)
  OBVIOUS
<1>15. u.todo = todo /\ u.data = data
  BY <1>14, BeginCall
<1>16. call'[c] = u
  <2>1. call' = [call EXCEPT ![c] = u]
    BY <1>8, <1>9, <1>11, <1>13, <1>14 DEF AssignRole
  <2> QED BY <2>1 DEF Once, Core, CallsOK
<1>17. ~At(c, "assign")'
  <2>1. todo = << >> \/ Head(todo) = "grant"
    BY <1>13 DEF ForGrants
  <2> QED BY <1>15, <1>16, <2>1 DEF At, IsIdle
<1>18. ASSUME NEW i \in DOMAIN all PROVE all[i].origin # "builtin"
  <2>1. i \in permissions(r.role)
    BY <1>8 DEF permission_grants
  <2>2. PICK g : g = all[i]
    OBVIOUS
  <2>3. g.origin = "api"
    BY <1>8, <2>1, <2>2, GrantFields
  <2> QED BY <2>2, <2>3
<1>19. \A d \in Client : StillLacking(d)'
  BY <1>12, <1>15, <1>16, <1>17, <1>18 DEF OneClient, StillLacking
<1> QED BY <1>7, <1>19 DEF Once

\* ... or a permission, which is no grant to a role.
LEMMA OncePermissionByHand ==
    ASSUME Once, Core', NEW r \in ByHand, NEW permission \in Permission,
           GrantPermission(r.participant, permission, r.scope)
    PROVE  Once'
<1>1. PICK g : g = [participant |-> r.participant, role |-> None, permission |-> permission,
                    scope |-> r.scope, origin |-> "api"]
  OBVIOUS
<1>2. g.origin = "api"
  BY <1>1
<1>3. add_permission_grant(g) /\ UNCHANGED assignments /\ UNCHANGED call
  BY <1>1 DEF GrantPermission
<1>4. NoDuplicateProvisioning' /\ BagToSet(grants)' = BagToSet(grants) \union {g}
  BY <1>2, <1>3, GrantOnce DEF Once
<1>5. ASSUME NEW c \in Client PROVE StillLacking(c)'
  <2>1. PICK role : role = CurrentRole(c)
    OBVIOUS
  <2>2. CurrentRole(c)' = role
    BY <1>3, <2>1 DEF CurrentRole
  <2>3. HasAssignment(role)' <=> HasAssignment(role)
    BY <1>3 DEF HasAssignment, list_role_assignments, BagToSet
  <2>4. At(c, "assign")' => ~HasAssignment(CurrentRole(c))'
    BY <1>3, <2>1, <2>2, <2>3 DEF Once, StillLacking, At, IsIdle
  <2>5. At(c, "grant")' =>
           \A i \in DOMAIN call[c].data.missing :
              call[c].data.missing[i].origin = "builtin" =>
                 call[c].data.missing[i] \notin BagToSet(grants)'
    BY <1>2, <1>3, <1>4 DEF Once, StillLacking, At, IsIdle
  <2> QED BY <1>3, <2>4, <2>5 DEF StillLacking
<1> QED BY <1>4, <1>5 DEF Once

\* Steps of nobody's provisioning.
LEMMA OnceUntouched ==
    ASSUME Once, Core', UNCHANGED <<assignments, grants>>, UNCHANGED call
    PROVE  Once'
<1>1. NoDuplicateProvisioning'
  BY DEF Once, NoDuplicateProvisioning, BagToSet
<1>2. \A c \in Client : StillLacking(c)'
  BY DEF Once, StillLacking, At, IsIdle, HasAssignment, list_role_assignments, BagToSet, CurrentRole
<1> QED BY <1>1, <1>2 DEF Once

\* Every step keeps the rows single while requests come one after the other.
LEMMA NextOnce ==
    ASSUME Once, OneClient, [Next]_vars
    PROVE  Once'
<1>1. Core'
  BY NextCore DEF Once
<1>2. ASSUME NEW c \in Client, Bootstrap(c) PROVE Once'
  BY <1>1, <1>2, OnceBegins
<1>3. ASSUME NEW c \in Client, NEW payload \in Payload, NEW k \in Key,
             RegistrationSource(c, payload, k)
      PROVE  Once'
  BY <1>1, <1>3, OnceBegins
<1>4. ASSUME NEW c \in Client, NEW card \in DOMAIN cards, NEW external \in External, NEW k \in Key,
             ProvisionerSink(c, card, external, k)
      PROVE  Once'
  BY <1>1, <1>4, OnceBegins
<1>5. ASSUME NEW c \in Client,
             \/ Upsert(c) \/ CheckHistory(c) \/ Initialized(c) \/ RecordSource(c)
             \/ RecordSink(c) \/ End(c)
      PROVE  Once'
  BY <1>1, <1>5, OnceContinues
<1>6. ASSUME NEW c \in Client, Find(c) \/ Assign(c) \/ List(c) \/ Grant(c) PROVE Once'
  BY <1>1, <1>6, OnceFinds, OnceAssigns, OnceLists, OnceGrants
<1>7. ASSUME NEW c \in Client, NEW r \in ByHand, AssignRole(c, r) PROVE Once'
  BY <1>1, <1>7, OnceByHand
<1>8. ASSUME NEW card \in DOMAIN cards, NEW d \in Decision, NEW k \in Key, Validate(card, d, k)
      PROVE  Once'
  BY <1>1, <1>8, OnceUntouched DEF Validate, authorityVars
<1>9. ASSUME NEW card \in DOMAIN cards, NEW bucket \in MoveTo, Move(card, bucket) PROVE Once'
  BY <1>1, <1>9, OnceUntouched DEF Move, authorityVars
<1>10. ASSUME NEW p \in Person, NEW status \in SetTo, SetParticipant(p, status) PROVE Once'
  BY <1>1, <1>10, OnceUntouched DEF SetParticipant
<1>11. ASSUME NEW r \in ByHand, NEW permission \in Permission,
              GrantPermission(r.participant, permission, r.scope)
       PROVE  Once'
  BY <1>1, <1>11, OncePermissionByHand
<1>12. CASE UNCHANGED vars
  BY <1>1, <1>12, OnceUntouched DEF vars, authorityVars
<1> QED BY <1>2, <1>3, <1>4, <1>5, <1>6, <1>7, <1>8, <1>9, <1>10, <1>11, <1>12 DEF Next

\* While requests come one after the other, retries of the sink and restarts
\* of the process, however often they were cut short between two writes, add
\* each assignment and each grant of a template once.
THEOREM ProvisioningAddsOnce ==
    ASSUME OneClient
    PROVE  Spec => []NoDuplicateProvisioning
<1>1. Init => Once
  <2> SUFFICES ASSUME Init PROVE Once
    OBVIOUS
  <2>1. Core
    BY InitCore
  <2>2. NoDuplicateProvisioning
    BY DEF Init, NoDuplicateProvisioning, BagToSet, EmptyBag, SetToBag
  <2>3. \A c \in Client : StillLacking(c)
    BY DEF Init, StillLacking, At, IsIdle, Idle, MkCall
  <2> QED BY <2>1, <2>2, <2>3 DEF Once
<1>2. Once /\ [Next]_vars => Once'
  BY NextOnce
<1>3. Once => NoDuplicateProvisioning
  BY DEF Once
<1> QED BY <1>1, <1>2, <1>3, PTL DEF Spec
=============================================================================
