--------------------------- MODULE SurfaceProofs ---------------------------
(***************************************************************************)
(* Proofs about the changes an operator makes to a NAS: the never-lockout  *)
(* guard of the firewall (FirewallGuard), the sizes of volumes             *)
(* (StorageVolumes), and what the invocation of any tool or command sends  *)
(* and changes (Dispatch, on the facts of CatalogueFacts).                 *)
(***************************************************************************)
EXTENDS MCSurfaces, GatewayServerProofs, NaturalsInduction, WellFoundedInduction, SequenceTheorems

-----------------------------------------------------------------------------
(***************************************************************************)
(* The firewall.  First the evaluator: what it lets through DSM lets       *)
(* through, in profiles with any number of rules.                          *)
(***************************************************************************)

\* The first of some rules, or of some sections of a chain.
LEMMA FirstOf ==
    ASSUME NEW S \in SUBSET Nat, S # {}
    PROVE  LET first == CHOOSE i \in S : \A j \in S : i <= j
           IN  first \in S /\ \A j \in S : first <= j
<1> DEFINE R == {p \in Nat \X Nat : p[1] < p[2]}
<1>1. OpToRel(<, Nat) = R
  BY Zenon DEF OpToRel
<1>2. IsWellFoundedOn(R, Nat)
  BY <1>1, NatLessThanWellFounded, Zenon
<1>3. \E x \in S : \A y \in S : ~(<<y, x>> \in R)
  <2> HIDE DEF R
  <2> QED BY <1>2, WFMin
<1>4. \A x, y \in Nat : <<y, x>> \in R <=> y < x
  OBVIOUS
<1>5. PICK x \in S : \A y \in S : ~(<<y, x>> \in R)
  BY <1>3
<1>6. \A y \in S : ~(y < x)
  BY <1>4, <1>5
<1>7. \A y \in S : x <= y
  BY <1>6
<1> QED BY <1>7

AnySection ==
    [policy : {"allow", "deny", "none"}, rules : UNION {[1..k -> RulesUsed] : k \in Nat}]

\* A section that the evaluator decides in favour of the session, DSM decides
\* so; one that it leaves to the next, DSM does not decide against it.
LEMMA SectionSound ==
    ASSUME NEW s \in AnySection
    PROVE  /\ evaluateSection(s) = "allowed" => Verdict(s) = "allow"
           /\ evaluateSection(s) = "undecided" => Verdict(s) \in {"allow", "none"}
<1> DEFINE decisive == {i \in DOMAIN s.rules :
                          \/ s.rules[i].match = "yes"
                          \/ s.rules[i].match = "maybe" /\ s.rules[i].policy # "allow"}
           matching == {i \in DOMAIN s.rules : s.rules[i].really}
           d == CHOOSE i \in decisive : \A j \in decisive : i <= j
           m == CHOOSE i \in matching : \A j \in matching : i <= j
<1>1. PICK k \in Nat : s.rules \in [1..k -> RulesUsed]
  BY DEF AnySection
<1>2. /\ decisive \in SUBSET Nat /\ matching \in SUBSET Nat
      /\ decisive \subseteq DOMAIN s.rules /\ matching \subseteq DOMAIN s.rules
  BY <1>1
<1>3. \A i \in DOMAIN s.rules :
        /\ i \notin decisive => s.rules[i].policy = "allow"
        /\ i \in decisive /\ s.rules[i].policy = "allow" => i \in matching
        /\ s.rules[i].policy \in {"allow", "deny"}
  BY <1>1 DEF RulesUsed, Rule
<1>4. s.policy \in {"allow", "deny", "none"}
  BY DEF AnySection
<1>5. evaluateSection(s) =
        IF decisive # {} THEN IF s.rules[d].policy = "allow" THEN "allowed" ELSE "blocked"
        ELSE IF s.policy = "allow" THEN "allowed"
        ELSE IF s.policy = "deny" THEN "blocked" ELSE "undecided"
  BY <1>4 DEF evaluateSection
<1>6. Verdict(s) = IF matching # {} THEN s.rules[m].policy ELSE s.policy
  BY <1>4 DEF Verdict
<1>7. decisive # {} => d \in decisive /\ \A j \in decisive : d <= j
  BY <1>2, FirstOf
<1>8. matching # {} => m \in matching /\ \A j \in matching : m <= j
  BY <1>2, FirstOf
<1> HIDE DEF decisive, matching, d, m
<1>9. CASE decisive = {}
  BY <1>2, <1>3, <1>4, <1>5, <1>6, <1>8, <1>9
<1>10. CASE decisive # {}
  <2>1. evaluateSection(s) # "undecided" BY <1>5, <1>10
  <2>2. ASSUME evaluateSection(s) = "allowed" PROVE Verdict(s) = "allow"
    <3>1. s.rules[d].policy = "allow" BY <1>5, <1>10, <2>2
    <3>2. d \in matching BY <1>2, <1>3, <1>7, <1>10, <3>1
    <3>3. m \in matching /\ m <= d BY <1>8, <3>2
    <3>4. CASE m \in decisive
      <4>1. d <= m BY <1>7, <1>10, <3>4
      <4>2. m \in Nat /\ d \in Nat BY <1>2, <3>2, <3>3
      <4>3. m = d BY <3>3, <4>1, <4>2
      <4> QED BY <1>6, <3>1, <3>2, <4>3
    <3>5. CASE m \notin decisive
      BY <1>2, <1>3, <1>6, <3>2, <3>3, <3>5
    <3> QED BY <3>4, <3>5
  <2> QED BY <2>1, <2>2
<1> QED BY <1>9, <1>10

\* What it means that a chain of one section allows.
LEMMA ChainOfOne ==
    ASSUME NEW profile, NEW a, ChainAllows(profile, <<a>>)
    PROVE  evaluateSection(profile[a]) \in {"undecided", "allowed"}
<1> DEFINE deciding == {i \in DOMAIN <<a>> : evaluateSection(profile[<<a>>[i]]) # "undecided"}
           first == CHOOSE i \in deciding : \A j \in deciding : i <= j
<1>1. deciding # {} => evaluateSection(profile[<<a>>[first]]) = "allowed"
  BY DEF ChainAllows
<1>2. deciding \in SUBSET Nat OBVIOUS
<1>3. deciding # {} => first \in deciding
  BY <1>2, FirstOf
<1>4. \A i \in DOMAIN <<a>> : i = 1 /\ <<a>>[i] = a
  OBVIOUS
<1>5. 1 \in DOMAIN <<a>> OBVIOUS
<1> QED BY <1>1, <1>3, <1>4, <1>5

\* What it means that a chain of two sections allows: the first decides, or passes on.
LEMMA ChainOfTwo ==
    ASSUME NEW profile, NEW a, NEW b, ChainAllows(profile, <<a, b>>)
    PROVE  \/ evaluateSection(profile[a]) = "allowed"
           \/ /\ evaluateSection(profile[a]) = "undecided"
              /\ evaluateSection(profile[b]) \in {"undecided", "allowed"}
<1> DEFINE deciding == {i \in DOMAIN <<a, b>> : evaluateSection(profile[<<a, b>>[i]]) # "undecided"}
           first == CHOOSE i \in deciding : \A j \in deciding : i <= j
<1>1. deciding # {} => evaluateSection(profile[<<a, b>>[first]]) = "allowed"
  BY DEF ChainAllows
<1>2. deciding \in SUBSET Nat OBVIOUS
<1>3. deciding # {} => first \in deciding /\ \A j \in deciding : first <= j
  BY <1>2, FirstOf
<1>4. DOMAIN <<a, b>> = {1, 2} /\ <<a, b>>[1] = a /\ <<a, b>>[2] = b
  OBVIOUS
<1>5. \A i \in deciding : i = 1 \/ i = 2
  BY <1>4
<1>6. /\ 1 \in deciding <=> evaluateSection(profile[a]) # "undecided"
      /\ 2 \in deciding <=> evaluateSection(profile[b]) # "undecided"
  BY <1>4
<1> HIDE DEF deciding, first
<1>7. CASE 1 \in deciding
  <2>1. first \in {1, 2} /\ first <= 1 BY <1>3, <1>5, <1>7
  <2>2. first = 1 BY <2>1
  <2> QED BY <1>1, <1>4, <1>7, <2>2
<1>8. CASE 1 \notin deciding /\ 2 \in deciding
  <2>1. first = 2 BY <1>3, <1>5, <1>8
  <2> QED BY <1>1, <1>4, <1>6, <1>8, <2>1
<1>9. CASE 1 \notin deciding /\ 2 \notin deciding
  BY <1>6, <1>9
<1> QED BY <1>7, <1>8, <1>9

AnyProfile == [Adapter -> AnySection]

\* A profile that passes the guard lets the session through, on whichever
\* adapter it comes in.
LEMMA GuardSound ==
    ASSUME NEW profile \in AnyProfile, ProfileAllowsSession(profile)
    PROVE  Reachable(profile)
<1>1. profile["nic"] \in AnySection /\ profile["global"] \in AnySection
  BY DEF AnyProfile, Adapter
<1>2. evaluateSection(profile["global"]) \in {"undecided", "allowed"}
  BY ChainOfOne DEF ProfileAllowsSession
<1>3. Verdict(profile["global"]) \in {"allow", "none"}
  BY <1>1, <1>2, SectionSound
<1>4. CASE adapterConfigured(profile["nic"])
  <2>1. evaluateSection(profile["nic"]) \in {"undecided", "allowed"}
    BY <1>4, ChainOfTwo DEF ProfileAllowsSession
  <2>2. Verdict(profile["nic"]) \in {"allow", "none"}
    BY <1>1, <2>1, SectionSound
  <2> QED BY <1>3, <2>2 DEF Reachable
<1>5. CASE ~adapterConfigured(profile["nic"])
  <2>1. profile["nic"].rules = << >> /\ profile["nic"].policy = "none"
    BY <1>5 DEF adapterConfigured
  <2>2. DOMAIN profile["nic"].rules = {} BY <2>1
  <2>3. Verdict(profile["nic"]) = "none"
    BY <2>1, <2>2 DEF Verdict
  <2> QED BY <1>3, <2>3 DEF Reachable
<1> QED BY <1>4, <1>5

(***************************************************************************)
(* ... and then the changes.  A write that is not raced finds what the     *)
(* check before it has found.                                              *)
(***************************************************************************)
AnyRequest ==
    [kind : {"edit"}, profile : Profile, activate : BOOLEAN,
     desired : UNION {[A -> AnySection] : A \in SUBSET Adapter}]
        \union [kind : {"enable"}, profile : Profile, on : BOOLEAN]
        \union [kind : {"enable"}, profile : Named, on : {FALSE}]

ChangeTyped(c) ==
    \/ c = NoChange
    \/ /\ c.step \in {"planned", "write"} /\ c.request \in AnyRequest /\ c.allowBreak \in BOOLEAN
       /\ c = [step |-> c.step, request |-> c.request, observed |-> c.observed,
               allowBreak |-> c.allowBreak]

FirewallTyped ==
    /\ enabled \in BOOLEAN /\ active \in Profile /\ ingress \in {"nic", "other"}
    /\ profiles \in [Profile -> AnyProfile] /\ effort \in 0..MaxEffort
    /\ DOMAIN change = Operator /\ \A o \in Operator : ChangeTyped(change[o])
    /\ overridden \in BOOLEAN /\ raced \in BOOLEAN

\* What is about to be written the guard would let pass now.
WritesGuarded ==
    ~raced => \A o \in Operator : change[o].step = "write" =>
        Guard(change[o].request, change[o].allowBreak) # "refused"

FirewallInv == FirewallTyped /\ WritesGuarded /\ NeverLockedOut

\* A section within the bound is a section.
LEMMA SectionsAreSections ==
    ASSUME NEW n \in Nat, NEW s \in Section(n)
    PROVE  s \in AnySection /\ Len(s.rules) \in 0..n
<1>1. PICK k \in 0..n : s.rules \in [1..k -> RulesUsed]
  BY DEF Section
<1>2. s.policy \in {"allow", "deny", "none"} /\ s = [policy |-> s.policy, rules |-> s.rules]
  BY DEF Section
<1>3. Len(s.rules) = k BY <1>1
<1>4. k \in Nat BY <1>1
<1>5. s.rules \in UNION {[1..i -> RulesUsed] : i \in Nat} BY <1>1, <1>4
<1>6. [policy |-> s.policy, rules |-> s.rules] \in AnySection
  BY <1>2, <1>5 DEF AnySection
<1> QED BY <1>1, <1>2, <1>3, <1>6

\* The profile that a request results in is a profile.
LEMMA ResultingTyped ==
    ASSUME FirewallTyped, NEW r \in AnyRequest
    PROVE  r.profile \in Profile => Rules(r.profile) \in AnyProfile /\ Resulting(r) \in AnyProfile
<1> SUFFICES ASSUME r.profile \in Profile
             PROVE  Rules(r.profile) \in AnyProfile /\ Resulting(r) \in AnyProfile
  OBVIOUS
<1>1. Rules(r.profile) = profiles[r.profile] /\ profiles[r.profile] \in AnyProfile
  BY DEF Rules, FirewallTyped
<1>2. CASE r.kind = "edit"
  <2>1. PICK A \in SUBSET Adapter : r.desired \in [A -> AnySection]
    BY <1>2 DEF AnyRequest
  <2>2. Resulting(r) = MergeProfile(Rules(r.profile), r.desired) BY <1>2 DEF Resulting
  <2>3. MergeProfile(Rules(r.profile), r.desired) \in [Adapter -> AnySection]
    BY <1>1, <2>1 DEF MergeProfile, AnyProfile
  <2> QED BY <1>1, <2>2, <2>3 DEF AnyProfile
<1>3. CASE r.kind # "edit"
  BY <1>1, <1>3 DEF Resulting
<1> QED BY <1>2, <1>3

\* The guard reads the firewall, not what operators are doing.
LEMMA GuardKept ==
    ASSUME FirewallInv, UNCHANGED <<enabled, active, profiles, raced>>,
           \A o \in Operator : change'[o].step = "write" /\ ~raced =>
               Guard(change'[o].request, change'[o].allowBreak) # "refused"
    PROVE  WritesGuarded'
<1> SUFFICES ASSUME ~raced, NEW o \in Operator, change'[o].step = "write"
             PROVE  (Guard(change[o].request, change[o].allowBreak) # "refused")'
  BY DEF WritesGuarded
<1>1. Guard(change'[o].request, change'[o].allowBreak) # "refused"
  OBVIOUS
<1> QED BY <1>1 DEF Guard, TakesEffect, Resulting, Rules

\* Planning reads and changes nothing.
LEMMA PlanKeepsInv ==
    ASSUME FirewallAssumption, FirewallInv, NEW o \in Operator, NEW r \in AnyRequest,
           Cost(r) \in Nat, PlanFirewall(o, r)
    PROVE  FirewallInv'
<1>1. PICK b \in BOOLEAN :
        change' = [change EXCEPT ![o] = [step |-> "planned", request |-> r,
                                         observed |-> Observed(r), allowBreak |-> b]]
  BY DEF PlanFirewall
<1>2. /\ effort' = effort + Cost(r) /\ effort + Cost(r) <= MaxEffort
      /\ UNCHANGED <<enabled, active, profiles, ingress, overridden, raced>>
  BY DEF PlanFirewall
<1>3. /\ DOMAIN change' = Operator /\ change'[o].step = "planned"
      /\ \A p \in Operator : p # o => change'[p] = change[p]
      /\ change'[o] = [step |-> "planned", request |-> r, observed |-> Observed(r), allowBreak |-> b]
  BY <1>1 DEF FirewallInv, FirewallTyped
<1>4. ChangeTyped(change'[o])
  BY <1>3 DEF ChangeTyped
<1>5. FirewallTyped'
  <2>1. effort' \in 0..MaxEffort
    BY <1>2 DEF FirewallInv, FirewallTyped, FirewallAssumption
  <2>2. \A p \in Operator : ChangeTyped(change'[p])
    BY <1>3, <1>4 DEF FirewallInv, FirewallTyped
  <2>3. (\A p \in Operator : ChangeTyped(change[p]))'
    BY <2>2 DEF ChangeTyped, NoChange
  <2> QED BY <1>2, <1>3, <2>1, <2>3 DEF FirewallInv, FirewallTyped
<1>6. WritesGuarded'
  <2>1. \A p \in Operator : change'[p].step = "write" /\ ~raced =>
          Guard(change'[p].request, change'[p].allowBreak) # "refused"
    BY <1>3 DEF FirewallInv, WritesGuarded
  <2> QED BY <1>2, <2>1, GuardKept
<1>7. NeverLockedOut'
  BY <1>2 DEF FirewallInv, NeverLockedOut, SessionSurvives, Reachable, Rules
<1> QED BY <1>5, <1>6, <1>7 DEF FirewallInv

\* The check before the write is of the profile that will be written.
LEMMA RecheckKeepsInv ==
    ASSUME FirewallInv, NEW o \in Operator, Recheck(o)
    PROVE  FirewallInv'
<1> DEFINE c == change[o]
<1>1. /\ UNCHANGED <<enabled, active, profiles, ingress, overridden, raced, effort>>
      /\ c.step = "planned" /\ ChangeTyped(c) /\ c # NoChange
  BY DEF Recheck, FirewallInv, FirewallTyped, NoChange
<1>2. /\ DOMAIN change' = Operator
      /\ \A p \in Operator : p # o => change'[p] = change[p]
      /\ \/ change'[o] = NoChange
         \/ /\ change'[o] = [c EXCEPT !.step = "write"]
            /\ Guard(c.request, c.allowBreak) # "refused"
  BY DEF Recheck, FirewallInv, FirewallTyped
<1>3. /\ [c EXCEPT !.step = "write"].step = "write"
      /\ [c EXCEPT !.step = "write"].request = c.request
      /\ [c EXCEPT !.step = "write"].allowBreak = c.allowBreak
      /\ ChangeTyped([c EXCEPT !.step = "write"])
  <2>1. PICK r, v, b : c = [step |-> "planned", request |-> r, observed |-> v, allowBreak |-> b]
                       /\ r \in AnyRequest /\ b \in BOOLEAN
    BY <1>1 DEF ChangeTyped
  <2> HIDE DEF c
  <2>2. [c EXCEPT !.step = "write"]
            = [step |-> "write", request |-> r, observed |-> v, allowBreak |-> b]
    BY <2>1
  <2> QED BY <2>1, <2>2 DEF ChangeTyped
<1>4. FirewallTyped'
  <2>1. \A p \in Operator : ChangeTyped(change'[p])
    BY <1>2, <1>3 DEF FirewallInv, FirewallTyped, ChangeTyped
  <2>2. (\A p \in Operator : ChangeTyped(change[p]))'
    BY <2>1 DEF ChangeTyped, NoChange
  <2> QED BY <1>1, <1>2, <2>2 DEF FirewallInv, FirewallTyped
<1>5. WritesGuarded'
  <2> SUFFICES ASSUME ~raced, NEW p \in Operator, change'[p].step = "write"
               PROVE  Guard(change'[p].request, change'[p].allowBreak) # "refused"
    BY <1>1, GuardKept
  <2>1. CASE p = o
    <3>1. change'[o] = [c EXCEPT !.step = "write"] /\ Guard(c.request, c.allowBreak) # "refused"
      BY <1>2, <2>1 DEF NoChange
    <3> HIDE DEF c
    <3> QED BY <1>3, <2>1, <3>1
  <2>2. CASE p # o
    BY <1>2, <2>2 DEF FirewallInv, WritesGuarded
  <2> QED BY <2>1, <2>2
<1>6. NeverLockedOut'
  BY <1>1 DEF FirewallInv, NeverLockedOut, SessionSurvives, Reachable, Rules
<1> QED BY <1>4, <1>5, <1>6 DEF FirewallInv

\* A write that was checked keeps the session reachable.
LEMMA WriteKeepsInv ==
    ASSUME FirewallInv, NEW o \in Operator, Write(o)
    PROVE  FirewallInv'
<1> DEFINE r == change[o].request
           b == change[o].allowBreak
<1>0. /\ ingress' = ingress /\ effort' = effort /\ change[o].step = "write"
      /\ change' = [change EXCEPT ![o] = NoChange] /\ SessionSurvives
      /\ overridden' = (overridden \/ (b /\ Guard(r, FALSE) = "refused"))
      /\ raced' = (raced \/ \E other \in Operator \ {o} : change[other].step = "write")
  BY DEF Write
<1>1. r \in AnyRequest /\ b \in BOOLEAN /\ FirewallTyped
  BY <1>0 DEF FirewallInv, FirewallTyped, ChangeTyped, NoChange
<1>2. /\ r.kind = "edit" =>
           /\ profiles' = [profiles EXCEPT ![r.profile] = Resulting(r)]
           /\ active' = IF r.activate THEN r.profile ELSE active
           /\ enabled' \in {enabled, enabled \/ r.activate}
      /\ r.kind # "edit" =>
           /\ enabled' = r.on /\ active' = IF r.on THEN r.profile ELSE active
           /\ profiles' = profiles
  BY DEF Write
<1>3. /\ r.kind = "edit" => r.profile \in Profile /\ r.activate \in BOOLEAN
      /\ r.kind # "edit" => r.on \in BOOLEAN /\ (r.on => r.profile \in Profile)
      /\ r.kind # "edit" => r.kind = "enable"
  BY <1>1 DEF AnyRequest
<1>4. r.profile \in Profile => Resulting(r) \in AnyProfile /\ Rules(r.profile) \in AnyProfile
  BY <1>1, ResultingTyped
<1>5. FirewallTyped'
  <2>1. /\ DOMAIN change' = Operator /\ \A p \in Operator : change'[p] \in {NoChange, change[p]}
    BY <1>0, <1>1 DEF FirewallTyped
  <2>2. \A p \in Operator : ChangeTyped(change'[p])
    BY <1>1, <2>1 DEF FirewallTyped, ChangeTyped
  <2>3. (\A p \in Operator : ChangeTyped(change[p]))'
    BY <2>2 DEF ChangeTyped, NoChange
  <2>4. overridden' \in BOOLEAN /\ raced' \in BOOLEAN
    BY <1>0, Zenon
  <2>5. active' \in Profile
    BY <1>1, <1>2, <1>3 DEF FirewallTyped
  <2>6. enabled' \in BOOLEAN
    BY <1>1, <1>2, <1>3 DEF FirewallTyped
  <2>7. profiles' \in [Profile -> AnyProfile]
    BY <1>1, <1>2, <1>3, <1>4 DEF FirewallTyped
  <2> QED BY <1>0, <1>1, <2>1, <2>3, <2>4, <2>5, <2>6, <2>7 DEF FirewallTyped
<1>6. WritesGuarded'
  <2>1. ~raced' => \A p \in Operator : p # o => change[p].step # "write"
    BY <1>0
  <2>2. \A p \in Operator : change'[p].step = "write" => p # o /\ change[p].step = "write"
    BY <1>0, <1>1 DEF FirewallTyped, NoChange
  <2> QED BY <2>1, <2>2 DEF WritesGuarded
<1>7. NeverLockedOut'
  <2> SUFFICES ASSUME ~overridden', ~raced', enabled'
               PROVE  Reachable(Rules(active))'
    BY DEF NeverLockedOut, SessionSurvives
  <2>1. ~raced /\ ~overridden /\ ~(b /\ Guard(r, FALSE) = "refused")
    BY <1>0
  <2>2. Guard(r, b) # "refused"
    BY <1>0, <2>1 DEF FirewallInv, WritesGuarded
  <2>3. ~TakesEffect(r) \/ ProfileAllowsSession(Resulting(r))
    BY <1>1, <2>1, <2>2 DEF Guard
  <2>4. r.profile \in Profile /\ ProfileAllowsSession(Resulting(r)) => Reachable(Resulting(r))
    BY <1>4, GuardSound
  <2>5. Rules(active)' = profiles'[active'] /\ Rules(active) = profiles[active]
    BY <1>1, <1>5 DEF Rules, FirewallTyped
  <2>6. enabled => Reachable(profiles[active])
    BY <1>0, <2>5 DEF SessionSurvives
  <2>7. Reachable(profiles'[active'])
    <3>1. CASE r.kind # "edit"
      <4>1. r.on /\ active' = r.profile /\ r.profile \in Profile /\ profiles' = profiles
        BY <1>2, <1>3, <3>1
      <4>2. TakesEffect(r) BY <1>3, <3>1, <4>1 DEF TakesEffect
      <4>3. Resulting(r) = profiles[r.profile]
        BY <1>1, <3>1, <4>1 DEF Resulting, Rules, FirewallTyped
      <4> QED BY <2>3, <2>4, <4>1, <4>2, <4>3
    <3>2. CASE r.kind = "edit" /\ active' = r.profile
      <4>1. profiles'[active'] = Resulting(r) /\ r.profile \in Profile
        BY <1>1, <1>2, <1>3, <3>2 DEF FirewallTyped
      <4>2. TakesEffect(r)
        BY <1>1, <1>2, <1>3, <3>2 DEF TakesEffect, FirewallTyped
      <4> QED BY <2>3, <2>4, <4>1, <4>2
    <3>3. CASE r.kind = "edit" /\ active' # r.profile
      <4>1. ~r.activate /\ active' = active /\ enabled
        BY <1>1, <1>2, <1>3, <3>3 DEF FirewallTyped
      <4>2. profiles'[active'] = profiles[active]
        BY <1>1, <1>2, <1>3, <3>3, <4>1 DEF FirewallTyped
      <4> QED BY <2>6, <4>1, <4>2
    <3> QED BY <3>1, <3>2, <3>3
  <2> QED BY <1>0, <2>5, <2>7 DEF Reachable
<1> QED BY <1>5, <1>6, <1>7 DEF FirewallInv

\* The invariant holds always.
LEMMA FirewallInvariant == FirewallSpec => []FirewallInv
<1>1. FirewallInit => FirewallInv
  <2> SUFFICES ASSUME FirewallInit PROVE FirewallInv
    OBVIOUS
  <2>1. PICK global \in Section(2), nic \in Section(2) :
          /\ Len(global.rules) + Len(nic.rules) <= 2
          /\ profiles = [p \in Profile |-> [a \in Adapter |->
                IF p = "custom" THEN NoSection ELSE IF a = "global" THEN global ELSE nic]]
    BY DEF FirewallInit
  <2>2. global \in AnySection /\ nic \in AnySection /\ Len(global.rules) \in Nat /\ Len(nic.rules) \in Nat
    BY SectionsAreSections
  <2>3. NoSection \in AnySection
    <3>1. << >> \in [1..0 -> RulesUsed] OBVIOUS
    <3> QED BY <3>1 DEF NoSection, AnySection
  <2>4. profiles \in [Profile -> AnyProfile]
    BY <2>1, <2>2, <2>3 DEF AnyProfile
  <2>5. effort \in 0..MaxEffort
    <3>1. profiles["default"]["global"] = global /\ profiles["default"]["nic"] = nic
      BY <2>1 DEF Profile, Adapter
    <3>2. effort = Len(global.rules) + Len(nic.rules) BY <3>1 DEF FirewallInit
    <3>3. \A x, y \in Nat : x + y <= 2 => x + y \in 0..MaxEffort
      BY FirewallAssumption DEF FirewallAssumption
    <3> QED BY <2>1, <2>2, <3>2, <3>3
  <2>6. FirewallTyped
    BY <2>4, <2>5 DEF FirewallTyped, FirewallInit, ChangeTyped, Profile
  <2>7. WritesGuarded
    BY DEF FirewallInit, WritesGuarded, NoChange
  <2> QED BY <2>6, <2>7 DEF FirewallInit, FirewallInv, NeverLockedOut
<1>2. FirewallInv /\ [FirewallNext]_firewallVars => FirewallInv'
  <2> SUFFICES ASSUME FirewallInv, [FirewallNext]_firewallVars PROVE FirewallInv'
    OBVIOUS
  <2>1. CASE UNCHANGED firewallVars
    <3>1. FirewallTyped'
      BY <2>1 DEF firewallVars, FirewallInv, FirewallTyped, ChangeTyped, NoChange
    <3>2. WritesGuarded'
      BY <2>1, GuardKept DEF firewallVars, FirewallInv, WritesGuarded
    <3>3. NeverLockedOut'
      BY <2>1 DEF firewallVars, FirewallInv, NeverLockedOut, SessionSurvives, Reachable, Rules
    <3> QED BY <3>1, <3>2, <3>3 DEF FirewallInv
  <2>2. ASSUME NEW o \in Operator, NEW p \in Named, NEW a \in Adapter, NEW s \in Section(1),
               NEW activate \in BOOLEAN, PlanFirewall(o, Edit(p, [d \in {a} |-> s], activate))
        PROVE  FirewallInv'
    <3> DEFINE r == Edit(p, [d \in {a} |-> s], activate)
    <3>1. /\ r.kind = "edit" /\ r.profile = p /\ r.activate = activate
          /\ r.desired = [d \in {a} |-> s]
          /\ r = [kind |-> "edit", profile |-> p, desired |-> [d \in {a} |-> s], activate |-> activate]
      BY DEF Edit
    <3>2. p \in Profile
      BY <2>2, <3>1 DEF PlanFirewall, Found, FirewallInv, FirewallTyped
    <3>3. s \in AnySection /\ Len(s.rules) \in Nat
      BY SectionsAreSections
    <3>4. [d \in {a} |-> s] \in UNION {[A -> AnySection] : A \in SUBSET Adapter}
      <4>1. {a} \in SUBSET Adapter /\ [d \in {a} |-> s] \in [{a} -> AnySection] BY <3>3
      <4> QED BY <4>1, Zenon
    <3>5. r \in AnyRequest
      BY <3>1, <3>2, <3>4 DEF AnyRequest
    <3>6. Cost(r) \in Nat
      <4>1. (CHOOSE x \in DOMAIN r.desired : TRUE) = a BY <3>1
      <4>2. r.desired[CHOOSE x \in DOMAIN r.desired : TRUE] = s BY <3>1, <4>1
      <4> QED BY <3>1, <3>3, <4>2 DEF Cost
    <3> HIDE DEF r
    <3>7. PlanFirewall(o, r) BY <2>2 DEF r
    <3> QED BY <3>5, <3>6, <3>7, FirewallAssumption, PlanKeepsInv
  <2>3. ASSUME NEW o \in Operator, NEW on \in BOOLEAN, NEW p \in Named, PlanFirewall(o, Enable(on, p))
        PROVE  FirewallInv'
    <3> DEFINE r == Enable(on, p)
    <3>1. /\ r.kind = "enable" /\ r.profile = p /\ r.on = on
          /\ r = [kind |-> "enable", profile |-> p, on |-> on]
      BY DEF Enable
    <3>2. on => p \in Profile
      BY <2>3, <3>1 DEF PlanFirewall, Found, FirewallInv, FirewallTyped
    <3>3. r \in AnyRequest
      BY <3>1, <3>2 DEF AnyRequest
    <3>4. Cost(r) \in Nat BY <3>1 DEF Cost
    <3> HIDE DEF r
    <3>5. PlanFirewall(o, r) BY <2>3 DEF r
    <3> QED BY <3>3, <3>4, <3>5, FirewallAssumption, PlanKeepsInv
  <2>4. ASSUME NEW o \in Operator, Recheck(o) PROVE FirewallInv'
    BY <2>4, RecheckKeepsInv
  <2>5. ASSUME NEW o \in Operator, Write(o) PROVE FirewallInv'
    BY <2>5, WriteKeepsInv
  <2> QED BY <2>1, <2>2, <2>3, <2>4, <2>5 DEF FirewallNext
<1> QED BY <1>1, <1>2, PTL DEF FirewallSpec

\* Every variable of the firewall keeps its type, and the active profile is one
\* there is.
THEOREM FirewallTypes == FirewallSpec => []FirewallTypeOK
<1>1. FirewallInv => FirewallTypeOK
  BY DEF FirewallInv, FirewallTyped, FirewallTypeOK, ChangeTyped, NoChange
<1> QED BY <1>1, FirewallInvariant, PTL

\* The never-lockout guard: no sequence of planned changes, by any number of
\* operators and with sections of any length, cuts off the session, but for an
\* explicit override and a write between another's check and its write.
THEOREM SessionIsNeverLockedOut == FirewallSpec => []NeverLockedOut
<1>1. FirewallInv => NeverLockedOut
  BY DEF FirewallInv
<1> QED BY <1>1, FirewallInvariant, PTL

-----------------------------------------------------------------------------
(***************************************************************************)
(* The volumes.  First the sizes: rounding, limits and overflow.           *)
(***************************************************************************)
LEMMA RoundingDown ==
    ASSUME NEW m \in Nat, NEW g \in Nat \ {0}
    PROVE  /\ (m \div g) * g \in Nat /\ (m \div g) * g <= m /\ ((m \div g) * g) % g = 0
           /\ \A n \in Nat : n % g = 0 /\ n <= m => n <= (m \div g) * g
<1>1. m \div g \in Nat OBVIOUS
<1>2. (m \div g) * g <= m OBVIOUS
<1>3. \A q \in Nat : (q * g) % g = 0 /\ q * g \in Nat
  OBVIOUS
<1>4. ASSUME NEW n \in Nat, n % g = 0, n <= m PROVE n <= (m \div g) * g
  BY <1>4
<1> QED BY <1>1, <1>2, <1>3, <1>4

\* What resolveVolumeCapacity answers with is in whole GiB and within its
\* bounds, and is the size asked for or the largest there is.
Within(n, size, least, most) ==
    /\ n \in 0..WordMax
    /\ n # 0 => /\ n % Gib = 0 /\ least <= n /\ n <= most
                /\ size # 0 => n = size
                /\ size = 0 => \A k \in Nat : k % Gib = 0 /\ k <= most => k <= n

\* The size a request is resolved to, or 0 for a refusal, is within its limits.
LEMMA ResolvedWithin ==
    ASSUME NEW size \in Nat, NEW least \in Nat, NEW most \in 0..WordMax
    PROVE  Within(resolveVolumeCapacity(size, least, most), size, least, most)
<1> DEFINE n == resolveVolumeCapacity(size, least, most)
           rounded == (most \div Gib) * Gib
           wanted == IF size = 0 THEN rounded ELSE size
<1>1. Gib \in Nat \ {0} /\ WordMax \in Nat /\ most \in Nat
  BY StorageAssumption DEF StorageAssumption
<1>2. /\ rounded \in Nat /\ rounded <= most /\ rounded % Gib = 0
      /\ \A k \in Nat : k % Gib = 0 /\ k <= most => k <= rounded
  BY <1>1, RoundingDown
<1>3. n = 0 \/ (n = wanted /\ n % Gib = 0 /\ least <= n /\ n <= rounded)
  BY DEF resolveVolumeCapacity
<1> HIDE DEF rounded, n
<1>4. wanted \in Nat BY <1>2
<1>5. n # 0 => n % Gib = 0 /\ least <= n /\ n <= rounded /\ n \in Nat
  BY <1>3, <1>4
<1>6. n \in 0..WordMax /\ (n # 0 => n <= most)
  BY <1>1, <1>2, <1>5
<1>7. Within(n, size, least, most) BY <1>2, <1>3, <1>5, <1>6 DEF Within
<1> QED BY <1>7 DEF n

\* A limit of 0 is no limit.
LEMMA SmallestPositive ==
    ASSUME NEW a \in Nat, NEW l \in Nat
    PROVE  /\ minimumPositive(a, l) \in {a, l}
           /\ a # 0 => /\ minimumPositive(a, l) # 0 /\ minimumPositive(a, l) <= a
                       /\ l # 0 => minimumPositive(a, l) <= l
           /\ \A k \in Nat : k <= a /\ (l # 0 => k <= l) => k <= minimumPositive(a, l)
BY DEF minimumPositive

\* The numbers of an inventory are words.
LEMMA NumbersTyped ==
    ASSUME StorageAssumption, NEW v \in VolumeInventory
    PROVE  /\ v.size \in 0..WordMax /\ v.available \in 0..WordMax /\ v.allocated \in 0..WordMax
           /\ v.limit \in 0..WordMax /\ v.volumeLimit \in 0..WordMax
           /\ v.layout \in {"single", "multiple"}
           /\ WordMax \in Nat /\ MinimumSize \in Nat \ {0} /\ Gib \in Nat \ {0}
           /\ v.status \in {"normal", "actioning", "crashed"}
BY DEF VolumeInventory, StorageAssumption

\* What CapacitySound asks of a size.
SizeSound(v, action, size, n) ==
    /\ MayBe(v, action, n)
    /\ IF size # 0 THEN n = size
       ELSE \A k \in 0..WordMax : MayBe(v, action, k) => k <= n

\* The size of a new volume is what the pool may give.
LEMMA CreateSound ==
    ASSUME StorageAssumption, NEW v \in VolumeInventory, NEW size \in Nat
    PROVE  /\ CreateSize(v, size) \in 0..WordMax
           /\ CreateSize(v, size) # 0 /\ v.layout = "multiple" =>
                SizeSound(v, "create", size, CreateSize(v, size))
<1> DEFINE free == IF v.layout = "single" THEN v.size ELSE v.available
           most == minimumPositive(free, v.limit)
           n == resolveVolumeCapacity(size, MinimumSize, most)
<1>1. /\ v.size \in 0..WordMax /\ v.available \in 0..WordMax /\ v.allocated \in 0..WordMax
      /\ v.limit \in 0..WordMax /\ WordMax \in Nat /\ MinimumSize \in Nat \ {0}
      /\ Gib \in Nat \ {0} /\ v.layout \in {"single", "multiple"}
  BY NumbersTyped
<1>2. free \in 0..WordMax /\ free \in Nat /\ v.limit \in Nat
  BY <1>1
<1>3. /\ most \in {free, v.limit}
      /\ free # 0 => most # 0 /\ most <= free /\ (v.limit # 0 => most <= v.limit)
      /\ \A k \in Nat : k <= free /\ (v.limit # 0 => k <= v.limit) => k <= most
  <2> HIDE DEF free
  <2> QED BY <1>2, SmallestPositive
<1>4. most \in 0..WordMax
  <2> HIDE DEF free, most
  <2> QED BY <1>1, <1>2, <1>3
<1>5. /\ n \in 0..WordMax
      /\ n # 0 => /\ n % Gib = 0 /\ MinimumSize <= n /\ n <= most
                  /\ size # 0 => n = size
                  /\ size = 0 => \A k \in Nat : k % Gib = 0 /\ k <= most => k <= n
  <2>1. MinimumSize \in Nat BY <1>1
  <2> HIDE DEF most
  <2>2. Within(n, size, MinimumSize, most) BY <1>4, <2>1, ResolvedWithin
  <2> HIDE DEF n
  <2> QED BY <2>2 DEF Within
<1>6. /\ CreateSize(v, size) \in {0, n}
      /\ CreateSize(v, size) # 0 => v.allocated = 0 /\ CanCreateVolume(v)
  BY DEF CreateSize
<1>7. CreateSize(v, size) \in 0..WordMax
  BY <1>1, <1>5, <1>6
<1>8. ASSUME CreateSize(v, size) # 0, v.layout = "multiple"
      PROVE  SizeSound(v, "create", size, CreateSize(v, size))
  <2>1. CreateSize(v, size) = n /\ n # 0 /\ v.allocated = 0 BY <1>6, <1>8
  <2>2. free = v.available /\ v.available > MinimumSize
    BY <1>6, <1>8 DEF CanCreateVolume
  <2> HIDE DEF n, most, free
  <2>3. n \in Nat /\ most \in Nat /\ v.available \in Nat /\ v.available # 0
    BY <1>1, <1>4, <1>5, <2>2
  <2>4. n % Gib = 0 /\ n >= MinimumSize /\ n <= v.available /\ (v.limit # 0 => n <= v.limit)
    BY <1>1, <1>2, <1>3, <1>5, <2>1, <2>2, <2>3
  <2>5. MayBe(v, "create", n)
    BY <2>1, <2>3, <2>4 DEF MayBe
  <2>6. ASSUME size = 0, NEW k \in 0..WordMax, MayBe(v, "create", k) PROVE k <= n
    <3>1. k \in Nat /\ k % Gib = 0 /\ k <= v.available /\ (v.limit # 0 => k <= v.limit)
      BY <2>1, <2>3, <2>6 DEF MayBe
    <3>2. k <= most BY <1>3, <2>2, <3>1
    <3> QED BY <1>5, <2>1, <2>6, <3>1, <3>2
  <2> QED BY <1>5, <2>1, <2>5, <2>6 DEF SizeSound
<1> QED BY <1>7, <1>8

\* The size of an expanded volume is what pool and volume may have.
LEMMA ExpandSound ==
    ASSUME StorageAssumption, NEW v \in VolumeInventory, NEW size \in Nat
    PROVE  /\ ExpandSize(v, size) \in 0..WordMax
           /\ ExpandSize(v, size) # 0 /\ v.layout = "multiple" =>
                SizeSound(v, "update", size, ExpandSize(v, size))
<1> DEFINE all == v.allocated + v.available
           within == minimumPositive(all, v.volumeLimit)
           most == minimumPositive(within, v.limit)
           n == resolveVolumeCapacity(size, v.allocated + 1, most)
           possible == /\ v.allocated # 0 /\ (size # 0 => size > v.allocated)
                       /\ CanExpand(v) /\ (v.layout = "single" => size = 0)
                       /\ NoOverflow(v.allocated, v.available) /\ NoOverflow(v.allocated, 1)
<1>1. /\ v.available \in 0..WordMax /\ v.allocated \in 0..WordMax
      /\ v.limit \in 0..WordMax /\ v.volumeLimit \in 0..WordMax
      /\ WordMax \in Nat /\ Gib \in Nat \ {0}
  BY NumbersTyped
<1>2. ExpandSize(v, size) = IF possible THEN n ELSE 0
  BY DEF ExpandSize
<1>3. CASE ~possible
  BY <1>1, <1>2, <1>3
<1>4. CASE possible
  <2>1. all \in 0..WordMax /\ all \in Nat /\ all # 0
    BY <1>1, <1>4 DEF NoOverflow
  <2> HIDE DEF possible
  <2>2. /\ within \in {all, v.volumeLimit} /\ within # 0 /\ within <= all
        /\ v.volumeLimit # 0 => within <= v.volumeLimit
        /\ \A k \in Nat : k <= all /\ (v.volumeLimit # 0 => k <= v.volumeLimit) => k <= within
    <3> HIDE DEF all
    <3>1. v.volumeLimit \in Nat BY <1>1
    <3> QED BY <2>1, <3>1, SmallestPositive
  <2>3. within \in 0..WordMax /\ within \in Nat
    <3> HIDE DEF all, within
    <3> QED BY <1>1, <2>1, <2>2
  <2>4. /\ most \in {within, v.limit} /\ most <= within
        /\ v.limit # 0 => most <= v.limit
        /\ \A k \in Nat : k <= within /\ (v.limit # 0 => k <= v.limit) => k <= most
    <3> HIDE DEF all, within
    <3>1. v.limit \in Nat BY <1>1
    <3> QED BY <2>2, <2>3, <3>1, SmallestPositive
  <2>5. most \in 0..WordMax /\ most \in Nat
    <3> HIDE DEF within, most
    <3> QED BY <1>1, <2>3, <2>4
  <2>6. /\ n \in 0..WordMax
        /\ n # 0 => /\ n % Gib = 0 /\ v.allocated + 1 <= n /\ n <= most
                    /\ size # 0 => n = size
                    /\ size = 0 => \A k \in Nat : k % Gib = 0 /\ k <= most => k <= n
    <3>1. v.allocated + 1 \in Nat BY <1>1
    <3> HIDE DEF most
    <3>2. Within(n, size, v.allocated + 1, most) BY <2>5, <3>1, ResolvedWithin
    <3> HIDE DEF n
    <3> QED BY <3>2 DEF Within
  <2>7. ExpandSize(v, size) = n BY <1>2, <1>4
  <2>8. ASSUME n # 0 PROVE SizeSound(v, "update", size, n)
    <3> HIDE DEF n, most, within
    <3>1. /\ n \in Nat /\ n % Gib = 0 /\ v.allocated + 1 <= n /\ n <= most
      BY <1>1, <2>6, <2>8
    <3>2. n > v.allocated BY <1>1, <3>1
    <3>3. n <= all /\ (v.limit # 0 => n <= v.limit) /\ (v.volumeLimit # 0 => n <= v.volumeLimit)
      <4> HIDE DEF all
      <4>1. n <= within BY <2>3, <2>4, <2>5, <3>1
      <4>2. n <= all BY <2>1, <2>2, <2>3, <3>1, <4>1
      <4>3. v.limit # 0 => n <= v.limit BY <1>1, <2>4, <2>5, <3>1
      <4>4. v.volumeLimit # 0 => n <= v.volumeLimit BY <1>1, <2>2, <2>3, <3>1, <4>1
      <4> QED BY <4>2, <4>3, <4>4
    <3>4. MayBe(v, "update", n)
      BY <3>1, <3>2, <3>3 DEF MayBe
    <3>5. ASSUME size = 0, NEW k \in 0..WordMax, MayBe(v, "update", k) PROVE k <= n
      <4>1. /\ k \in Nat /\ k % Gib = 0 /\ k <= all
            /\ (v.limit # 0 => k <= v.limit) /\ (v.volumeLimit # 0 => k <= v.volumeLimit)
        BY <3>5 DEF MayBe
      <4>2. k <= within BY <2>2, <4>1
      <4>3. k <= most BY <2>4, <4>1, <4>2
      <4> QED BY <2>6, <2>8, <3>5, <4>1, <4>3
    <3>6. size # 0 => n = size BY <2>6, <2>8
    <3> QED BY <3>4, <3>5, <3>6 DEF SizeSound
  <2> HIDE DEF n
  <2> QED BY <2>6, <2>7, <2>8
<1> QED BY <1>3, <1>4

\* The size a plan shows is sound, whichever its action.
LEMMA ResolvedSound ==
    ASSUME StorageAssumption, NEW v \in VolumeInventory, NEW r \in VolumeRequest
    PROVE  /\ Resolved(v, r) \in 0..WordMax
           /\ Plannable(v, r) /\ r.action # "delete" /\ v.layout = "multiple" =>
                SizeSound(v, r.action, r.size, Resolved(v, r))
<1>1. r.size \in Nat /\ r.action \in {"create", "update", "delete"} /\ WordMax \in Nat
  BY DEF VolumeRequest, StorageAssumption
<1>2. CASE r.action = "create"
  <2>1. Resolved(v, r) = CreateSize(v, r.size) BY <1>2 DEF Resolved
  <2> QED BY <1>1, <1>2, <2>1, CreateSound DEF Plannable
<1>3. CASE r.action = "update"
  <2>1. Resolved(v, r) = ExpandSize(v, r.size) BY <1>3 DEF Resolved
  <2> QED BY <1>1, <1>3, <2>1, ExpandSound DEF Plannable
<1>4. CASE r.action = "delete"
  <2>1. Resolved(v, r) = 0 BY <1>4 DEF Resolved
  <2> QED BY <1>1, <1>4, <2>1
<1> QED BY <1>1, <1>2, <1>3, <1>4

(***************************************************************************)
(* Then the plan and its apply.                                            *)
(***************************************************************************)
StorageJob ==
    [at : {"planned", "checked", "sent", "applied"}, request : VolumeRequest,
     shown : VolumeInventory, resolved : 0..WordMax, checked : Nat]

\* The plan is the one that was worked out from what it shows, and was checked
\* after so many changes in DSM.
JobTyped ==
    job # NoJob => /\ job \in StorageJob /\ job.checked <= elsewhere
                   /\ Plannable(job.shown, job.request)
                   /\ job.resolved = Resolved(job.shown, job.request)

StorageInv ==
    /\ volumes \in VolumeInventory /\ elsewhere \in 0..MaxElsewhere
    /\ JobTyped /\ VolumeAsShown

\* A volume that was resized has an inventory of words.
LEMMA ResizedTyped ==
    ASSUME StorageAssumption, NEW v \in VolumeInventory, NEW n \in 0..WordMax
    PROVE  Resized(v, n) \in VolumeInventory
<1> DEFINE b == Bytes(v.available + v.allocated - n)
<1>1. b \in 0..WordMax
  <2>1. v.available + v.allocated - n \in Int /\ WordMax \in Nat BY NumbersTyped
  <2> QED BY <2>1 DEF Bytes
<1> HIDE DEF b
<1>2. Resized(v, n) = [v EXCEPT !.allocated = n, !.available = b]
  BY DEF Resized, b
<1> QED BY <1>1, <1>2 DEF VolumeInventory

\* Every step keeps the invariant.
LEMMA StorageInductive ==
    ASSUME StorageAssumption, StorageInv, [StorageNext]_storageVars
    PROVE  StorageInv'
<1>0. WordMax \in Nat /\ MaxElsewhere \in Nat /\ elsewhere \in Nat
  BY DEF StorageAssumption, StorageInv
<1>1. CASE UNCHANGED storageVars
  BY <1>1 DEF storageVars, StorageInv, JobTyped, VolumeAsShown
<1>2. ASSUME NEW r \in VolumeRequest, PlanVolumeChange(r) PROVE StorageInv'
  <2>1. /\ Plannable(volumes, r) /\ UNCHANGED <<volumes, elsewhere>>
        /\ job' = [at |-> "planned", request |-> r, shown |-> volumes,
                   resolved |-> Resolved(volumes, r), checked |-> 0]
    BY <1>2 DEF PlanVolumeChange
  <2>2. volumes \in VolumeInventory /\ Resolved(volumes, r) \in 0..WordMax
    BY ResolvedSound DEF StorageInv
  <2>3. /\ job' \in StorageJob /\ job'.checked = 0 /\ job'.at = "planned" /\ job'.shown = volumes
        /\ job'.request = r /\ job'.resolved = Resolved(volumes, r)
    BY <2>1, <2>2 DEF StorageJob
  <2>4. JobTyped' BY <1>0, <2>1, <2>3 DEF JobTyped
  <2> QED BY <2>1, <2>3, <2>4 DEF StorageInv, VolumeAsShown
<1>3. CASE CheckStoragePlan
  <2>1. UNCHANGED <<volumes, elsewhere>> /\ job.at = "planned" /\ job # NoJob
    BY <1>3 DEF CheckStoragePlan, NoJob
  <2>2. CASE StillPlanned(volumes, job)
    <3>1. job' = [job EXCEPT !.at = "checked", !.checked = elsewhere] /\ volumes = job.shown
      BY <1>3, <2>2 DEF CheckStoragePlan, StillPlanned
    <3>2. /\ job' \in StorageJob /\ job'.checked = elsewhere /\ job'.shown = job.shown
          /\ job'.request = job.request /\ job'.resolved = job.resolved
      BY <1>0, <2>1, <3>1 DEF StorageInv, JobTyped, StorageJob
    <3>3. JobTyped' BY <1>0, <2>1, <3>2 DEF StorageInv, JobTyped
    <3> QED BY <2>1, <3>1, <3>2, <3>3 DEF StorageInv, VolumeAsShown
  <2>3. CASE ~StillPlanned(volumes, job)
    BY <1>3, <2>1, <2>3 DEF CheckStoragePlan, StorageInv, JobTyped, VolumeAsShown, NoJob
  <2> QED BY <2>2, <2>3
<1>4. CASE SendVolumeChange
  <2>1. elsewhere' = elsewhere /\ job.at = "checked" /\ job # NoJob
    BY <1>4 DEF SendVolumeChange, NoJob
  <2>2. CASE job' = NoJob /\ UNCHANGED volumes
    BY <2>1, <2>2 DEF StorageInv, JobTyped, VolumeAsShown, NoJob
  <2>3. CASE ~(job' = NoJob /\ UNCHANGED volumes)
    <3> DEFINE n == NewSize(volumes, job.request, job.resolved)
    <3>1. job \in StorageJob /\ volumes \in VolumeInventory BY <2>1 DEF StorageInv, JobTyped
    <3>2. n \in 0..WordMax
      <4>1. n \in {0, volumes.size, job.resolved} BY DEF NewSize
      <4>2. volumes.size \in 0..WordMax BY <3>1, NumbersTyped
      <4>3. job.resolved \in 0..WordMax BY <3>1 DEF StorageJob
      <4> QED BY <1>0, <4>1, <4>2, <4>3
    <3> HIDE DEF n
    <3>3. volumes' \in {Resized(volumes, n), [volumes EXCEPT !.status = "actioning"]}
          /\ job' = [job EXCEPT !.at = "sent"]
      BY <1>4, <2>3 DEF SendVolumeChange, n
    <3>4. volumes' \in VolumeInventory
      <4>1. Resized(volumes, n) \in VolumeInventory BY <3>1, <3>2, ResizedTyped
      <4>2. [volumes EXCEPT !.status = "actioning"] \in VolumeInventory
        BY <3>1 DEF VolumeInventory
      <4> QED BY <3>3, <4>1, <4>2
    <3>5. /\ job' \in StorageJob /\ job'.checked = job.checked /\ job'.shown = job.shown
          /\ job'.request = job.request /\ job'.resolved = job.resolved /\ job'.at = "sent"
      BY <3>1, <3>3 DEF StorageJob
    <3>6. JobTyped' BY <2>1, <3>5 DEF StorageInv, JobTyped
    <3> QED BY <2>1, <3>4, <3>5, <3>6 DEF StorageInv, VolumeAsShown
  <2> QED BY <2>2, <2>3
<1>5. CASE VerifyVolume
  <2>1. UNCHANGED <<volumes, elsewhere>> /\ job.at = "sent" /\ job # NoJob
    BY <1>5 DEF VerifyVolume, NoJob
  <2>2. CASE job' = NoJob
    BY <2>1, <2>2 DEF StorageInv, JobTyped, VolumeAsShown, NoJob
  <2>3. CASE job' = [job EXCEPT !.at = "applied"]
    <3>1. /\ job' \in StorageJob /\ job'.checked = job.checked /\ job'.shown = job.shown
          /\ job'.request = job.request /\ job'.resolved = job.resolved /\ job'.at = "applied"
      BY <2>1, <2>3 DEF StorageInv, JobTyped, StorageJob
    <3>2. JobTyped' BY <2>1, <3>1 DEF StorageInv, JobTyped
    <3> QED BY <2>1, <3>1, <3>2 DEF StorageInv, VolumeAsShown
  <2> QED BY <1>5, <2>2, <2>3 DEF VerifyVolume
<1>6. CASE Elsewhere
  <2>1. elsewhere' = elsewhere + 1 /\ elsewhere < MaxElsewhere /\ job' = job
    BY <1>6 DEF Elsewhere
  <2>2. volumes' \in VolumeInventory
    <3>1. ASSUME NEW n \in Capacity PROVE Resized(volumes, n) \in VolumeInventory
      <4>1. n \in 0..WordMax BY DEF StorageAssumption
      <4> QED BY <4>1, ResizedTyped DEF StorageInv
    <3>2. \A s \in {"normal", "crashed"} : [volumes EXCEPT !.status = s] \in VolumeInventory
      BY DEF StorageInv, VolumeInventory
    <3> QED BY <1>6, <3>1, <3>2 DEF Elsewhere
  <2>3. job # NoJob => job.checked \in Nat /\ job.checked < elsewhere'
    BY <1>0, <2>1 DEF StorageInv, JobTyped, StorageJob
  <2>4. JobTyped' BY <1>0, <2>1, <2>3 DEF StorageInv, JobTyped
  <2>5. VolumeAsShown' BY <1>0, <2>1, <2>3 DEF VolumeAsShown, NoJob
  <2> QED BY <1>0, <2>1, <2>2, <2>4, <2>5 DEF StorageInv
<1> QED BY <1>1, <1>2, <1>3, <1>4, <1>5, <1>6 DEF StorageNext

\* The invariant holds always.
LEMMA StorageInvariant == StorageSpec => []StorageInv
<1>1. StorageInit => StorageInv
  <2> SUFFICES ASSUME StorageInit PROVE StorageInv
    OBVIOUS
  <2>1. volumes \in VolumeInventory
    BY StorageAssumption DEF StorageInit, VolumeInventory, StorageAssumption
  <2>2. elsewhere \in 0..MaxElsewhere
    BY StorageAssumption DEF StorageInit, StorageAssumption
  <2> QED BY <2>1, <2>2 DEF StorageInit, StorageInv, JobTyped, VolumeAsShown, NoJob
<1>2. StorageInv /\ [StorageNext]_storageVars => StorageInv'
  BY StorageAssumption, StorageInductive
<1> QED BY <1>1, <1>2, PTL DEF StorageSpec

\* Every number of an inventory stays one of 64 bits, through DSM's resizing
\* and the sizes worked out here, and a job holds a plan that was possible.
THEOREM StorageTypes == StorageSpec => []StorageTypeOK
<1>1. StorageInv => StorageTypeOK
  BY DEF StorageInv, JobTyped, StorageJob, StorageTypeOK
<1> QED BY <1>1, StorageInvariant, PTL

\* What DSM is asked to do to a volume is possible and is what was approved:
\* the size is in whole GiB, within every limit, and the one asked for or the
\* largest there is; and the volume is as it was shown, unless DSM's own users
\* come between the last read and the write.
THEOREM StorageIsSafe == StorageSpec => []StorageSafe
<1>1. StorageInv => StorageSafe
  <2> SUFFICES ASSUME StorageInv PROVE CapacitySound
    BY DEF StorageInv, StorageSafe
  <2> SUFFICES ASSUME job # NoJob, job.request.action # "delete", job.shown.layout = "multiple"
               PROVE  SizeSound(job.shown, job.request.action, job.request.size, job.resolved)
    BY DEF CapacitySound, SizeSound
  <2>1. /\ job.shown \in VolumeInventory /\ job.request \in VolumeRequest
        /\ Plannable(job.shown, job.request) /\ job.resolved = Resolved(job.shown, job.request)
    BY DEF StorageInv, JobTyped, StorageJob
  <2> QED BY <2>1, StorageAssumption, ResolvedSound
<1> QED BY <1>1, StorageInvariant, PTL

-----------------------------------------------------------------------------
(***************************************************************************)
(* Invocations.  The facts of CatalogueFacts speak of programs; what       *)
(* follows shows what an invocation makes of them.  First the operators    *)
(* that loop: a set of numbers that holds 0 and with every number the next *)
(* one holds them all, which makes the loops' recursive functions exist    *)
(* and carries a fact from one pass to the next.                           *)
(***************************************************************************)

\* Induction over a set of numbers.
LEMMA AllNumbers ==
    ASSUME NEW S \in SUBSET Nat, 0 \in S, \A n \in S : n + 1 \in S
    PROVE  \A n \in Nat : n \in S
<1> DEFINE rest == Nat \ S
           least == CHOOSE i \in rest : \A j \in rest : i <= j
<1> SUFFICES ASSUME rest # {} PROVE FALSE
  OBVIOUS
<1>1. least \in rest /\ \A j \in rest : least <= j
  <2> HIDE DEF rest
  <2>1. rest \in SUBSET Nat BY DEF rest
  <2> QED BY <2>1, FirstOf
<1> HIDE DEF least
<1>2. least \in Nat /\ least # 0 /\ least - 1 \in Nat BY <1>1
<1>3. least - 1 \in S BY <1>1, <1>2
<1>4. least - 1 + 1 \in S BY <1>3
<1> QED BY <1>1, <1>2, <1>4

\* Operation.Select as the passes of its loop over the variants.
LEMMA SelectPasses ==
    ASSUME NEW operation, Len(operation) \in Nat, NEW t
    PROVE  \E f : /\ Select(operation, t) = f[Len(operation)] /\ f[0] = Unsupported
                  /\ \A n \in 1..Len(operation) : f[n] = Consider(f[n - 1], operation[n], t)
<1> DEFINE m == Len(operation)
           upTo[n \in 0..m] ==
              IF n = 0 THEN Unsupported ELSE Consider(upTo[n - 1], operation[n], t)
           Partial == {k \in Nat : \E g : g = [n \in 0..k |->
                         IF n = 0 THEN Unsupported ELSE Consider(g[n - 1], operation[n], t)]}
<1>1. \A n \in Nat : n \in Partial
  <2>1. 0 \in Partial
    <3> DEFINE g == [n \in 0..0 |-> Unsupported]
    <3>1. g = [n \in 0..0 |-> IF n = 0 THEN Unsupported ELSE Consider(g[n - 1], operation[n], t)]
      OBVIOUS
    <3> HIDE DEF g
    <3> QED BY <3>1
  <2>2. ASSUME NEW k \in Partial PROVE k + 1 \in Partial
    <3>1. PICK g : g = [n \in 0..k |->
                      IF n = 0 THEN Unsupported ELSE Consider(g[n - 1], operation[n], t)]
      OBVIOUS
    <3> DEFINE h == [n \in 0..(k + 1) |->
                       IF n <= k THEN g[n] ELSE Consider(g[k], operation[k + 1], t)]
    <3>2. ASSUME NEW n \in 0..(k + 1)
          PROVE  h[n] = IF n = 0 THEN Unsupported ELSE Consider(h[n - 1], operation[n], t)
      <4>1. CASE n = k + 1
        <5>1. h[n] = Consider(g[k], operation[k + 1], t) /\ h[n - 1] = g[k] /\ n # 0 BY <4>1
        <5> QED BY <4>1, <5>1
      <4>2. CASE n # k + 1
        <5>1. n \in 0..k /\ h[n] = g[n] BY <4>2
        <5>2. n # 0 => h[n - 1] = g[n - 1] BY <5>1
        <5>3. g[n] = IF n = 0 THEN Unsupported ELSE Consider(g[n - 1], operation[n], t) BY <3>1, <5>1
        <5> HIDE DEF h
        <5> QED BY <5>1, <5>2, <5>3
      <4> QED BY <4>1, <4>2
    <3>3. DOMAIN h = 0..(k + 1) /\ h = [n \in 0..(k + 1) |-> h[n]] OBVIOUS
    <3> HIDE DEF h
    <3>4. h = [n \in 0..(k + 1) |-> IF n = 0 THEN Unsupported ELSE Consider(h[n - 1], operation[n], t)]
      BY <3>2, <3>3
    <3>5. k + 1 \in Nat OBVIOUS
    <3>6. \E f : f = [n \in 0..(k + 1) |->
                      IF n = 0 THEN Unsupported ELSE Consider(f[n - 1], operation[n], t)]
      BY <3>4, Zenon
    <3> QED BY <3>5, <3>6
  <2> HIDE DEF Partial
  <2>3. Partial \in SUBSET Nat BY DEF Partial
  <2> QED BY <2>1, <2>2, <2>3, AllNumbers
<1>2. \E g : g = [n \in 0..m |->
                 IF n = 0 THEN Unsupported ELSE Consider(g[n - 1], operation[n], t)]
  BY <1>1
<1>3. upTo = [n \in 0..m |-> IF n = 0 THEN Unsupported ELSE Consider(upTo[n - 1], operation[n], t)]
  BY <1>2, Zenon
<1>4. Select(operation, t) = upTo[m]
  BY Zenon DEF Select
<1> HIDE DEF upTo
<1>5. upTo[0] = Unsupported
  BY <1>3
<1>6. ASSUME NEW n \in 1..m PROVE upTo[n] = Consider(upTo[n - 1], operation[n], t)
  BY <1>3
<1> QED BY <1>4, <1>5, <1>6

\* The variant selected among the first n.
SelectedAmong(operation, t, n, r) ==
    /\ ~r.ambiguous
    /\ r.found <=> \E i \in 1..n : Match(operation[i], t)
    /\ r.found => \E i \in 1..n :
        /\ Match(operation[i], t) /\ operation[i] = r.variant
        /\ \A j \in 1..n : Match(operation[j], t) /\ j # i => operation[j].priority < operation[i].priority

\* One pass of the loop: the variant at hand is taken into account.
LEMMA ConsiderSound ==
    ASSUME NEW operation \in Seq(VariantShape), NEW t, NEW n \in 0..(Len(operation) - 1), NEW r,
           \A i, j \in DOMAIN operation : i # j => operation[i].priority # operation[j].priority,
           SelectedAmong(operation, t, n, r)
    PROVE  SelectedAmong(operation, t, n + 1, Consider(r, operation[n + 1], t))
<1> DEFINE v == operation[n + 1]
<1>0. /\ n \in Nat /\ n + 1 \in DOMAIN operation /\ \A i \in 1..n : i \in DOMAIN operation /\ i # n + 1
      /\ \A i \in 1..(n + 1) : i \in 1..n \/ i = n + 1
      /\ \A i \in 1..n : i \in 1..(n + 1)
      /\ n + 1 \in 1..(n + 1)
      /\ \A i \in DOMAIN operation : operation[i].priority \in Nat
  <2>1. Len(operation) \in Nat /\ DOMAIN operation = 1..Len(operation) OBVIOUS
  <2>2. \A i \in DOMAIN operation : operation[i] \in VariantShape OBVIOUS
  <2>3. \A i \in DOMAIN operation : operation[i].priority \in Nat BY <2>2 DEF VariantShape
  <2> QED BY <2>1, <2>3
<1>1. CASE ~Match(v, t)
  <2>1. Consider(r, v, t) = r BY <1>1 DEF Consider
  <2> QED BY <1>0, <1>1, <2>1 DEF SelectedAmong
<1>2. CASE Match(v, t) /\ ~r.found
  <2>1. Consider(r, v, t) = [found |-> TRUE, ambiguous |-> FALSE, variant |-> v]
    BY <1>2 DEF Consider, SelectedAmong
  <2>2. \A i \in 1..n : ~Match(operation[i], t) BY <1>2 DEF SelectedAmong
  <2> QED BY <1>0, <1>2, <2>1, <2>2 DEF SelectedAmong
<1>3. CASE Match(v, t) /\ r.found
  <2>1. PICK i \in 1..n :
          /\ Match(operation[i], t) /\ operation[i] = r.variant
          /\ \A j \in 1..n : Match(operation[j], t) /\ j # i => operation[j].priority < operation[i].priority
    BY <1>3 DEF SelectedAmong
  <2>2. v.priority # r.variant.priority BY <1>0, <2>1
  <2>3. CASE v.priority > r.variant.priority
    <3>1. Consider(r, v, t) = [found |-> TRUE, ambiguous |-> FALSE, variant |-> v]
      BY <1>3, <2>2, <2>3 DEF Consider, SelectedAmong
    <3>2. ASSUME NEW j \in 1..n, Match(operation[j], t) PROVE operation[j].priority < v.priority
      <4>1. operation[j].priority \in Nat /\ operation[i].priority \in Nat /\ v.priority \in Nat
        BY <1>0
      <4>2. j = i \/ operation[j].priority < operation[i].priority BY <2>1, <3>2
      <4>3. operation[i].priority < v.priority BY <2>1, <2>3, <4>1
      <4> QED BY <4>1, <4>2, <4>3
    <3> HIDE DEF v
    <3>3. \A j \in 1..(n + 1) : Match(operation[j], t) /\ j # n + 1 => operation[j].priority < v.priority
      BY <1>0, <3>2
    <3> QED BY <1>0, <1>3, <3>1, <3>3 DEF SelectedAmong, v
  <2>4. CASE ~(v.priority > r.variant.priority)
    <3>1. Consider(r, v, t) = r
      BY <1>3, <2>2, <2>4 DEF Consider, SelectedAmong
    <3>2. v.priority < operation[i].priority BY <1>0, <2>1, <2>2, <2>4
    <3>3. \A j \in 1..(n + 1) : Match(operation[j], t) /\ j # i => operation[j].priority < operation[i].priority
      BY <1>0, <2>1, <3>2
    <3> QED BY <1>0, <1>3, <2>1, <3>1, <3>3 DEF SelectedAmong
  <2> QED BY <2>3, <2>4
<1> QED BY <1>1, <1>2, <1>3

\* Operation.Select: the only matching variant that no other one outranks.
LEMMA SelectSound ==
    ASSUME NEW operation \in Seq(VariantShape), OperationSound(operation), NEW t
    PROVE  SelectedAmong(operation, t, Len(operation), Select(operation, t))
<1> DEFINE m == Len(operation)
<1>1. m \in Nat OBVIOUS
<1>2. PICK f : /\ Select(operation, t) = f[m] /\ f[0] = Unsupported
               /\ \A n \in 1..m : f[n] = Consider(f[n - 1], operation[n], t)
  BY <1>1, SelectPasses
<1> DEFINE Sound == {n \in Nat : n <= m => SelectedAmong(operation, t, n, f[n])}
<1>3. 0 \in Sound
  BY <1>1, <1>2 DEF SelectedAmong, Unsupported
<1>4. ASSUME NEW n \in Sound PROVE n + 1 \in Sound
  <2> SUFFICES ASSUME n + 1 <= m PROVE SelectedAmong(operation, t, n + 1, f[n + 1])
    OBVIOUS
  <2>1. /\ n \in 0..(m - 1) /\ n + 1 \in 1..m /\ n + 1 - 1 = n
        /\ SelectedAmong(operation, t, n, f[n])
    BY <1>1
  <2>2. f[n + 1] = Consider(f[n], operation[n + 1], t) BY <1>2, <2>1
  <2> QED BY <2>1, <2>2, ConsiderSound DEF OperationSound
<1>5. m \in Sound
  <2> HIDE DEF Sound
  <2>1. Sound \in SUBSET Nat BY DEF Sound
  <2> QED BY <1>1, <1>3, <1>4, <2>1, AllNumbers
<1> QED BY <1>1, <1>2, <1>5

\* A request of a loop, sent some number of times before the rest.
Repeated(c) == [c EXCEPT !.many = FALSE]

\* What is sent, request by request from the last to the first.
LEMMA ExpandedPasses ==
    ASSUME NEW calls_, Len(calls_) \in Nat
    PROVE  \E f : /\ Expanded(calls_) = f[1] /\ f[Len(calls_) + 1] = {<<>>}
                  /\ \A i \in 1..Len(calls_) : f[i] = Ahead(calls_[i], f[i + 1])
<1> DEFINE m == Len(calls_)
           from[i \in 1..(Len(calls_) + 1)] ==
              IF i > Len(calls_) THEN {<<>>}
              ELSE Ahead(calls_[i], from[i + 1])
           Partial == {k \in Nat : \E g : g = [i \in (m + 1 - k)..(m + 1) |->
                         IF i > m THEN {<<>>} ELSE Ahead(calls_[i], g[i + 1])]}
<1>1. \A n \in Nat : n \in Partial
  <2>1. 0 \in Partial
    <3> DEFINE g == [i \in (m + 1 - 0)..(m + 1) |-> {<<>>}]
    <3>1. g = [i \in (m + 1 - 0)..(m + 1) |-> IF i > m THEN {<<>>} ELSE Ahead(calls_[i], g[i + 1])]
      OBVIOUS
    <3> HIDE DEF g
    <3> QED BY <3>1
  <2>2. ASSUME NEW k \in Partial PROVE k + 1 \in Partial
    <3>1. PICK g : g = [i \in (m + 1 - k)..(m + 1) |->
                      IF i > m THEN {<<>>} ELSE Ahead(calls_[i], g[i + 1])]
      OBVIOUS
    <3>0. k \in Nat /\ m \in Nat OBVIOUS
    <3> DEFINE h == [i \in (m + 1 - (k + 1))..(m + 1) |->
                       IF i >= m + 1 - k THEN g[i] ELSE Ahead(calls_[i], g[m + 1 - k])]
    <3> HIDE DEF m
    <3>2. ASSUME NEW i \in (m + 1 - (k + 1))..(m + 1)
          PROVE  h[i] = IF i > m THEN {<<>>} ELSE Ahead(calls_[i], h[i + 1])
      <4>1. CASE i < m + 1 - k
        <5>1. i + 1 = m + 1 - k /\ ~(i > m) /\ i + 1 \in (m + 1 - (k + 1))..(m + 1) BY <3>0, <4>1
        <5>2. h[i] = Ahead(calls_[i], g[m + 1 - k]) /\ h[i + 1] = g[m + 1 - k]
          BY <3>0, <4>1, <5>1
        <5> QED BY <5>1, <5>2
      <4>2. CASE ~(i < m + 1 - k)
        <5>1. i \in (m + 1 - k)..(m + 1) /\ h[i] = g[i] BY <3>0, <4>2
        <5>2. ~(i > m) => h[i + 1] = g[i + 1] BY <3>0, <5>1
        <5>3. g[i] = IF i > m THEN {<<>>} ELSE Ahead(calls_[i], g[i + 1]) BY <3>1, <5>1
        <5> HIDE DEF h
        <5> QED BY <5>1, <5>2, <5>3
      <4> QED BY <4>1, <4>2
    <3>3. h = [i \in (m + 1 - (k + 1))..(m + 1) |-> h[i]] OBVIOUS
    <3> HIDE DEF h
    <3>4. h = [i \in (m + 1 - (k + 1))..(m + 1) |-> IF i > m THEN {<<>>} ELSE Ahead(calls_[i], h[i + 1])]
      BY <3>2, <3>3
    <3>5. k + 1 \in Nat BY <3>0
    <3>6. \E f : f = [i \in (m + 1 - (k + 1))..(m + 1) |->
                      IF i > m THEN {<<>>} ELSE Ahead(calls_[i], f[i + 1])]
      BY <3>4, Zenon
    <3> QED BY <3>5, <3>6
  <2> HIDE DEF Partial
  <2>3. Partial \in SUBSET Nat BY DEF Partial
  <2> QED BY <2>1, <2>2, <2>3, AllNumbers
<1>2. \E g : g = [i \in 1..(m + 1) |-> IF i > m THEN {<<>>} ELSE Ahead(calls_[i], g[i + 1])]
  <2>1. m \in Nat /\ m + 1 - m = 1 OBVIOUS
  <2>2. m \in Partial BY <1>1, <2>1
  <2> HIDE DEF m
  <2> QED BY <2>1, <2>2
<1>3. from = [i \in 1..(m + 1) |-> IF i > m THEN {<<>>} ELSE Ahead(calls_[i], from[i + 1])]
  BY <1>2, Zenon
<1>4. Expanded(calls_) = from[1]
  BY Zenon DEF Expanded
<1>0. m \in Nat OBVIOUS
<1> HIDE DEF from, m
<1>5. from[m + 1] = {<<>>}
  BY <1>0, <1>3
<1>6. ASSUME NEW i \in 1..m PROVE from[i] = Ahead(calls_[i], from[i + 1])
  <2>1. i \in 1..(m + 1) /\ ~(i > m) BY <1>0
  <2> QED BY <1>3, <2>1
<1> QED BY <1>4, <1>5, <1>6 DEF m

\* What is sent are requests of the variant, and something is sent if the
\* first of them is not a loop.
SentFrom(calls_, sent) ==
    /\ sent \in Seq(RequestShape)
    /\ \A x \in DOMAIN sent : \E j \in DOMAIN calls_ : sent[x] = Repeated(calls_[j])

\* One more request, or loop of requests, in front of what is sent.
LEMMA AheadSound ==
    ASSUME NEW calls_ \in Seq(RequestShape), NEW j \in DOMAIN calls_, NEW later,
           \A sent \in later : SentFrom(calls_, sent), NEW sent \in Ahead(calls_[j], later)
    PROVE  SentFrom(calls_, sent) /\ (~calls_[j].many => sent # <<>>)
<1> DEFINE c == Repeated(calls_[j])
<1>1. calls_[j] \in RequestShape OBVIOUS
<1>2. c \in RequestShape BY <1>1 DEF Repeated, RequestShape
<1>3. MaxEach \in Nat BY BoundsAssumption DEF BoundsAssumption
<1>4. PICK n \in Times(calls_[j]), rest \in later :
        sent = Before(n, calls_[j], rest)
  BY SMT DEF Ahead
<1>5. n \in Nat /\ (~calls_[j].many => n = 1) BY <1>3, <1>4 DEF Times
<1> DEFINE first == [k \in 1..n |-> c]
<1> HIDE DEF c
<1>6. first \in Seq(RequestShape) /\ Len(first) = n /\ \A x \in 1..n : first[x] = c BY <1>2, <1>5
<1>7. SentFrom(calls_, rest) OBVIOUS
<1>8. rest \in Seq(RequestShape) BY <1>7 DEF SentFrom
<1> HIDE DEF first
<1>9. /\ sent = first \o rest /\ sent \in Seq(RequestShape) /\ Len(sent) = n + Len(rest)
      /\ Len(rest) \in Nat
  <2>1. sent = first \o rest BY <1>4 DEF first, c, Before, Repeated
  <2>2. first \o rest \in Seq(RequestShape) /\ Len(first \o rest) = Len(first) + Len(rest)
    <3> HIDE DEF first
    <3> QED BY <1>6, <1>8, ConcatProperties, Zenon
  <2>3. Len(rest) \in Nat BY <1>8, LenProperties
  <2>4. sent \in Seq(RequestShape) /\ Len(sent) = Len(first) + Len(rest) BY <2>1, <2>2, Zenon
  <2> QED BY <1>6, <2>1, <2>3, <2>4
<1>10. ASSUME NEW x \in DOMAIN sent PROVE \E i \in DOMAIN calls_ : sent[x] = Repeated(calls_[i])
  <2>1. CASE x <= n
    <3>1. sent[x] = c BY <1>5, <1>6, <1>8, <1>9, <2>1
    <3> QED BY <3>1 DEF c
  <2>2. CASE ~(x <= n)
    <3>1. sent[x] = rest[x - n] /\ x - n \in DOMAIN rest BY <1>5, <1>6, <1>8, <1>9, <2>2
    <3> QED BY <1>7, <3>1 DEF SentFrom
  <2> QED BY <2>1, <2>2
<1>11. ~calls_[j].many => sent # <<>>
  BY <1>5, <1>9
<1> QED BY <1>9, <1>10, <1>11 DEF SentFrom

\* All that one Execute sends are requests of its variant; something is sent if
\* the first of them is not in a loop.
LEMMA ExpandedSound ==
    ASSUME NEW calls_ \in Seq(RequestShape), NEW sent \in Expanded(calls_)
    PROVE  /\ SentFrom(calls_, sent)
           /\ calls_ # <<>> /\ ~calls_[1].many => sent # <<>>
<1> DEFINE m == Len(calls_)
<1>1. m \in Nat /\ DOMAIN calls_ = 1..m OBVIOUS
<1>2. PICK f : /\ Expanded(calls_) = f[1] /\ f[m + 1] = {<<>>}
               /\ \A i \in 1..m : f[i] = Ahead(calls_[i], f[i + 1])
  BY <1>1, ExpandedPasses
<1> DEFINE Sound == {k \in Nat : k <= m => \A x \in f[m + 1 - k] : SentFrom(calls_, x)}
<1>3. 0 \in Sound
  <2>1. m + 1 - 0 = m + 1 BY <1>1
  <2>2. SentFrom(calls_, <<>>) BY DEF SentFrom
  <2> QED BY <1>2, <2>1, <2>2
<1>4. ASSUME NEW k \in Sound PROVE k + 1 \in Sound
  <2> SUFFICES ASSUME k + 1 <= m, NEW x \in f[m + 1 - (k + 1)] PROVE SentFrom(calls_, x)
    OBVIOUS
  <2>1. /\ m - k \in 1..m /\ m + 1 - (k + 1) = m - k /\ m - k + 1 = m + 1 - k
        /\ \A y \in f[m + 1 - k] : SentFrom(calls_, y)
    <3> HIDE DEF m
    <3>1. k \in Nat /\ (k <= m => \A y \in f[m + 1 - k] : SentFrom(calls_, y)) OBVIOUS
    <3> QED BY <1>1, <3>1
  <2> HIDE DEF m
  <2>2. x \in Ahead(calls_[m - k], f[m + 1 - k]) BY <1>2, <2>1
  <2> QED BY <1>1, <2>1, <2>2, AheadSound
<1>5. \A k \in Nat : k \in Sound
  <2> HIDE DEF Sound
  <2>1. Sound \in SUBSET Nat BY DEF Sound
  <2> QED BY <1>3, <1>4, <2>1, AllNumbers
<1>6. SentFrom(calls_, sent)
  <2>1. m + 1 - m = 1 /\ m \in Sound BY <1>1, <1>5
  <2>2. \A x \in f[1] : SentFrom(calls_, x) BY <1>1, <2>1
  <2> QED BY <1>2, <2>2
<1>7. ASSUME calls_ # <<>>, ~calls_[1].many PROVE sent # <<>>
  <2>1. 1 \in 1..m /\ m - 1 \in Nat /\ m + 1 - (m - 1) = 2 /\ m - 1 <= m BY <1>1, <1>7
  <2>2. \A x \in f[2] : SentFrom(calls_, x) BY <1>5, <2>1
  <2>3. sent \in Ahead(calls_[1], f[2]) BY <1>2, <2>1
  <2> QED BY <1>1, <1>7, <2>1, <2>2, <2>3, AheadSound
<1> QED BY <1>6, <1>7

-----------------------------------------------------------------------------
(***************************************************************************)
(* The invariant: either nothing runs, or the program of an entry does,    *)
(* and then the requests that are left come from its current step, only    *)
(* requests that change nothing have been carried out before, what was     *)
(* changed the program may change, and the client knows all that was asked *)
(* about on every way to the current step.  The last is what the selection *)
(* of a variant needs, and no property alone carries it from step to step. *)
(***************************************************************************)

\* What the client knows about the NAS: an API it has asked about, or, under
\* the name Catalogue, the packages that are installed now.
Knows(a) ==
    IF a = Catalogue THEN client.packagesKnown /\ client.packages = Installed
    ELSE a \in DOMAIN client.apis

\* A call on a NAS that has everything, by a client that knows it.
Complete == limit = NoLimit /\ UpToDate

AtRest ==
    /\ routine = <<>> /\ limit = NoLimit /\ client = NewClient /\ pc = 1 /\ todo = <<>>
    /\ sending = NotSending /\ effects = {} /\ faults = 0 /\ callsMade = 0
    /\ \/ doors = {} /\ outcome = "none"
       \/ outcome = "denied" /\ \E e \in Entries : doors = {Door(e)}

CallTyped ==
    /\ \E e \in Entries : routine = e.program
    /\ doors # {} /\ \A door \in doors : \E e \in Entries : e.program = routine /\ door = Door(e)
    /\ limit[1] \in {"none", "api", "package"} /\ limit[3] \in 0..Latest
    /\ pc \in 1..(Len(routine) + 1)
    /\ outcome \in {"none", "done", "error", "unsupported", "unavailable"}
    /\ faults \in 0..MaxFaults /\ callsMade \in 1..MaxCalls

ClientTyped ==
    /\ client = [apis |-> client.apis, release |-> client.release,
                 packages |-> client.packages, packagesKnown |-> client.packagesKnown]
    /\ client.release \in BOOLEAN /\ client.packagesKnown \in BOOLEAN
    /\ \A a \in DOMAIN client.apis : client.apis[a] \in 0..Latest

\* The requests that are left come from the step that runs, and are sound.
RequestsSound ==
    /\ todo \in Seq(RequestShape)
    /\ \A x \in DOMAIN todo : RequestSound(todo[x]) /\ (Changes(todo[x]) => ChangesNAS(routine))
    /\ outcome # "none" => todo = <<>>
    /\ todo # <<>> => pc \in DOMAIN routine /\ routine[pc].do \in SendingSteps

\* Every attempt but the last of a round may have been carried out, of the
\* round before a new session and of the one after it.
AttemptsCounted ==
    /\ sending \in [attempt : 1..MaxAttempts, again : BOOLEAN, carried : Nat]
    /\ sending.carried <= sending.attempt - 1 + (IF sending.again THEN MaxAttempts - 1 ELSE 0)
    /\ todo = <<>> => sending = NotSending
    /\ CarriedOutOnce

\* The invocation has changed only what its program may change.
EffectsFromProgram ==
    /\ effects \subseteq {"nas", "host"}
    /\ "nas" \in effects => ChangesNAS(routine)
    /\ "host" \in effects => WritesHost(routine)

\* At every step the client knows what was asked about on all ways there.
KnowledgeKept ==
    /\ callsMade = 1 => UpToDate
    /\ Complete => outcome \notin {"unsupported", "unavailable"}
    /\ outcome = "none" => \A a \in Asked(routine)[pc] : Knows(a)

Called ==
    /\ CallTyped /\ ClientTyped /\ RequestsSound /\ AttemptsCounted
    /\ EffectsFromProgram /\ KnowledgeKept

DispatchInv == AtRest \/ Called

\* What the facts of the catalogue say of the program that runs.
LEMMA ProgramSound ==
    ASSUME CallTyped
    PROVE  /\ routine \in Seq(StepShape) /\ WellFormed(routine)
           /\ Len(routine) \in Nat /\ DOMAIN routine = 1..Len(routine)
           /\ \A k \in DOMAIN routine : routine[k] \in StepShape
           /\ \A k \in DOMAIN routine : \A j \in DOMAIN routine[k].operations :
                  OperationSound(routine[k].operations[j])
           /\ Prepared(routine, Asked(routine))
<1>1. PICK e \in Entries : routine = e.program BY DEF CallTyped
<1>2. /\ WellFormed(routine)
      /\ \A k \in DOMAIN routine : \A j \in DOMAIN routine[k].operations :
             OperationSound(routine[k].operations[j])
      /\ \E asked \in {Asked(routine)} : Prepared(routine, asked)
  BY <1>1, ProgramsAssumption, Zenon DEF ProgramsAssumption
<1>3. routine \in Seq(StepShape) BY <1>2 DEF WellFormed
<1> QED BY <1>2, <1>3

\* The variants of an operation of a step are among those of the program,
LEMMA VariantsOfSteps ==
    ASSUME NEW steps, NEW k \in DOMAIN steps, NEW j \in DOMAIN steps[k].operations,
           NEW i \in DOMAIN steps[k].operations[j]
    PROVE  steps[k].operations[j][i] \in Variants(steps)
<1> DEFINE all == UNION {{steps[n].operations[x] : x \in DOMAIN steps[n].operations} : n \in DOMAIN steps}
           o == steps[k].operations[j]
<1>1. o \in all OBVIOUS
<1>2. Variants(steps) = UNION {{p[x] : x \in DOMAIN p} : p \in all} BY DEF Variants
<1> HIDE DEF all, o
<1>3. o[i] \in UNION {{p[x] : x \in DOMAIN p} : p \in all} BY <1>1 DEF o
<1> QED BY <1>2, <1>3 DEF o

\* and among those of the step.
LEMMA VariantsOfStep ==
    ASSUME NEW step, NEW j \in DOMAIN step.operations, NEW i \in DOMAIN step.operations[j]
    PROVE  step.operations[j][i] \in Variants(<<step>>)
<1> DEFINE s == <<step>>
<1>1. 1 \in DOMAIN s /\ s[1] = step OBVIOUS
<1> HIDE DEF s
<1>2. step.operations[j][i] \in Variants(s) BY <1>1, VariantsOfSteps
<1> QED BY <1>2 DEF s

\* The step that runs.
LEMMA CurrentStepSound ==
    ASSUME Called, NEW step \in Current
    PROVE  /\ Running /\ pc \in DOMAIN routine /\ step = routine[pc] /\ step \in StepShape
           /\ outcome = "none" /\ doors # {} /\ pc \in Nat
           /\ pc + step.skip \in 1..(Len(routine) + 1) /\ pc + step.rescue \in 1..(Len(routine) + 1)
           /\ pc + 1 \in 1..(Len(routine) + 1)
           /\ step.do \in SendingSteps => Len(step.operations) = 1
<1>1. Running /\ pc <= Len(routine) /\ step = routine[pc]
  BY DEF Current
<1>2. CallTyped /\ pc \in 1..(Len(routine) + 1) BY DEF Called, CallTyped
<1>3. /\ WellFormed(routine) /\ Len(routine) \in Nat /\ DOMAIN routine = 1..Len(routine)
      /\ \A k \in DOMAIN routine : routine[k] \in StepShape
  BY <1>2, ProgramSound
<1>4. pc \in DOMAIN routine /\ pc \in Nat BY <1>1, <1>2, <1>3
<1>5. step \in StepShape BY <1>1, <1>3, <1>4
<1>6. step.skip \in Nat /\ step.rescue \in Nat BY <1>5 DEF StepShape
<1>7. /\ pc + step.skip <= Len(routine) + 1 /\ pc + step.rescue <= Len(routine) + 1
      /\ step.do \in SendingSteps => Len(step.operations) = 1
  BY <1>1, <1>3, <1>4 DEF WellFormed
<1> QED BY <1>1, <1>2, <1>3, <1>4, <1>5, <1>6, <1>7 DEF Running

\* What a step may do to the client: it forgets nothing, and learns what the
\* step asks about.
Learns(asks) ==
    /\ ClientTyped'
    /\ UpToDate' <=> UpToDate
    /\ \A a : Knows(a) \/ a \in asks => Knows(a)'

\* The variables that no step of a program changes.
SameCall == UNCHANGED <<routine, doors, limit, callsMade>> /\ faults' \in 0..MaxFaults

\* The client is up to date as long as it learns no API and the NAS gets none.
LEMMA SameAPIs ==
    ASSUME client'.apis = client.apis, limit' = limit
    PROVE  UpToDate' <=> UpToDate
<1>1. \A a : HighestVersion(a)' = HighestVersion(a) BY DEF HighestVersion
<1> QED BY <1>1 DEF UpToDate, Outdated

\* A step that leaves the client as it is.
LEMMA SameClient ==
    ASSUME Called, UNCHANGED <<client, limit>>
    PROVE  Learns({})
BY SameAPIs DEF Called, ClientTyped, Learns, Knows, Installed

\* The count of faults stays within its bound.
LEMMA FaultCounts ==
    ASSUME Called, Fault \/ faults' = faults
    PROVE  faults' \in 0..MaxFaults
<1>1. MaxFaults \in Nat BY BoundsAssumption DEF BoundsAssumption
<1>2. faults \in 0..MaxFaults BY DEF Called, CallTyped
<1> QED BY <1>1, <1>2 DEF Fault

\* No attempt of the next request was made yet.
LEMMA NotSendingTyped ==
    /\ NotSending \in [attempt : 1..MaxAttempts, again : BOOLEAN, carried : Nat]
    /\ NotSending.carried = 0 /\ NotSending.attempt = 1 /\ NotSending.again = FALSE
    /\ MaxAttempts \in Nat \ {0}
BY BoundsAssumption DEF NotSending, BoundsAssumption

\* Nothing is left to send.
LEMMA Emptied ==
    ASSUME Called, todo' = <<>>, sending' = NotSending, routine' = routine
    PROVE  RequestsSound' /\ AttemptsCounted'
<1>1. DOMAIN todo' = {} /\ todo' \in Seq(RequestShape) OBVIOUS
<1>2. RequestsSound' BY <1>1 DEF RequestsSound
<1>3. sending'.carried = 0 /\ sending'.attempt = 1 BY NotSendingTyped
<1>4. CarriedOutOnce' BY <1>3 DEF CarriedOutOnce
<1>5. MaxAttempts - 1 \in Nat BY NotSendingTyped
<1>6. AttemptsCounted' BY <1>3, <1>4, <1>5, NotSendingTyped DEF AttemptsCounted
<1> QED BY <1>2, <1>6

\* The step goes on to one that follows it.
LEMMA GoesOn ==
    ASSUME Called, NEW step \in Current, NEW n \in Onward(step), GoTo(pc + n), Learns(Asks(step)),
           SameCall, EffectsFromProgram'
    PROVE  Called'
<1>0. /\ pc \in DOMAIN routine /\ step = routine[pc] /\ step \in StepShape /\ outcome = "none"
      /\ pc + step.skip \in 1..(Len(routine) + 1) /\ pc + 1 \in 1..(Len(routine) + 1)
  BY CurrentStepSound
<1>1. pc + n \in 1..(Len(routine) + 1)
  BY <1>0 DEF Onward
<1>2. CallTyped /\ KnowledgeKept BY DEF Called
<1>3. CallTyped'
  BY <1>1, <1>2 DEF CallTyped, SameCall, GoTo
<1>4. Asked(routine)[pc + n] \subseteq Asked(routine)[pc] \union Asks(step)
  BY <1>0, <1>2, ProgramSound DEF Prepared
<1>5. KnowledgeKept'
  <2>1. \A a \in Asked(routine)[pc + n] : Knows(a)'
    BY <1>0, <1>2, <1>4 DEF KnowledgeKept, Learns
  <2> QED BY <1>0, <1>2, <2>1 DEF KnowledgeKept, Learns, Complete, SameCall, GoTo
<1>6. RequestsSound' /\ AttemptsCounted' BY Emptied DEF GoTo, SameCall
<1> QED BY <1>3, <1>5, <1>6 DEF Called, Learns

\* The step fails.
LEMMA Raises ==
    ASSUME Called, NEW step \in Current, NEW error \in {"error", "unsupported", "unavailable"},
           Raise(step, error), error # "error" => ~Complete, Learns({}), SameCall,
           EffectsFromProgram'
    PROVE  Called'
<1>0. /\ pc \in DOMAIN routine /\ step = routine[pc] /\ step \in StepShape /\ outcome = "none"
      /\ pc + step.rescue \in 1..(Len(routine) + 1)
  BY CurrentStepSound
<1>2. CallTyped /\ KnowledgeKept BY DEF Called
<1>6. RequestsSound' /\ AttemptsCounted' BY Emptied DEF Raise, SameCall
<1>7. CASE step.rescue # 0
  <2>1. pc' = pc + step.rescue /\ outcome' = outcome BY <1>7 DEF Raise
  <2>3. CallTyped'
    BY <1>0, <1>2, <2>1 DEF CallTyped, SameCall
  <2>4. Asked(routine)[pc + step.rescue] \subseteq Asked(routine)[pc]
    BY <1>0, <1>2, <1>7, ProgramSound DEF Prepared
  <2>5. \A a \in Asked(routine)[pc + step.rescue] : Knows(a)'
    BY <1>0, <1>2, <2>4 DEF KnowledgeKept, Learns
  <2>6. KnowledgeKept'
    BY <1>0, <1>2, <2>1, <2>5 DEF KnowledgeKept, Learns, Complete, SameCall
  <2> QED BY <1>6, <2>3, <2>6 DEF Called, Learns
<1>8. CASE step.rescue = 0
  <2>1. pc' = pc /\ outcome' = error /\ error # "none" BY <1>8 DEF Raise
  <2>3. CallTyped'
    BY <1>2, <2>1 DEF CallTyped, SameCall
  <2>6. KnowledgeKept'
    BY <1>2, <2>1 DEF KnowledgeKept, Learns, Complete, SameCall
  <2> QED BY <1>6, <2>3, <2>6 DEF Called, Learns
<1> QED BY <1>7, <1>8

\* Addressing a request, and sending it as one of a loop, keep what makes it
\* sound.
LEMMA AddressedTyped ==
    ASSUME NEW r \in RequestShape, NEW v \in VariantShape
    PROVE  Addressed(r, v) \in RequestShape /\ Addressed(r, v).many = r.many
<1>1. v.api \in STRING /\ v.version \in Nat BY DEF VariantShape
<1>2. [r EXCEPT !.api = v.api, !.version = v.version] \in RequestShape
  BY <1>1 DEF RequestShape
<1>3. [r EXCEPT !.api = v.api, !.version = v.version].many = r.many
  BY DEF RequestShape
<1> QED BY <1>2, <1>3 DEF Addressed, To

\* A request of a loop changes what the call site's request changes.
LEMMA RepeatedSame ==
    ASSUME NEW r \in RequestShape
    PROVE  /\ RequestSound(r) => RequestSound(Repeated(r))
           /\ Changes(Repeated(r)) => Changes(r)
<1>1. /\ Repeated(r).api = r.api /\ Repeated(r).version = r.version
      /\ Repeated(r).methods = r.methods /\ Repeated(r).readOnly = r.readOnly
  BY DEF Repeated, RequestShape
<1>2. Changes(Repeated(r)) <=> Changes(r) BY <1>1 DEF Changes
<1> QED BY <1>1, <1>2 DEF RequestSound

\* An operation of the step that runs, and what Select finds.
LEMMA OperationOfStep ==
    ASSUME Called, NEW step \in Current, NEW j \in DOMAIN step.operations
    PROVE  /\ step.operations[j] \in Seq(VariantShape) /\ OperationSound(step.operations[j])
           /\ SelectedAmong(step.operations[j], target, Len(step.operations[j]),
                            Select(step.operations[j], target))
<1>1. step = routine[pc] /\ pc \in DOMAIN routine /\ step \in StepShape BY CurrentStepSound
<1>2. step.operations \in Seq(Seq(VariantShape)) BY <1>1 DEF StepShape
<1>3. step.operations[j] \in Seq(VariantShape) BY <1>2
<1>4. OperationSound(step.operations[j]) BY <1>1, ProgramSound DEF Called
<1> QED BY <1>3, <1>4, SelectSound

\* A step that sends has an operation.
LEMMA FirstOperation ==
    ASSUME Called, NEW step \in Current, step.do \in SendingSteps
    PROVE  1 \in DOMAIN step.operations
<1>1. step \in StepShape /\ Len(step.operations) = 1 BY CurrentStepSound
<1>2. step.operations \in Seq(Seq(VariantShape)) BY <1>1 DEF StepShape
<1> QED BY <1>1, <1>2

\* The requests of the variant selected are sound.
LEMMA SentSound ==
    ASSUME Called, NEW step \in Current, step.do \in SendingSteps, Selected(step).found,
           NEW sends \in Selected(step).variant.sends,
           NEW sent \in Expanded(Address(sends, Selected(step).variant))
    PROVE  /\ sent \in Seq(RequestShape)
           /\ \A x \in DOMAIN sent : RequestSound(sent[x]) /\ (Changes(sent[x]) => ChangesNAS(routine))
           /\ step.do = "catalogue" => sent # <<>>
<1> DEFINE operation == step.operations[1]
           v == Selected(step).variant
<1>0. /\ step = routine[pc] /\ pc \in DOMAIN routine /\ step \in StepShape
      /\ \E e \in Entries : routine = e.program
  BY CurrentStepSound DEF Called, CallTyped
<1>1. 1 \in DOMAIN step.operations BY FirstOperation
<1>2. /\ operation \in Seq(VariantShape)
      /\ SelectedAmong(operation, target, Len(operation), Selected(step))
  BY <1>1, OperationOfStep DEF Selected
<1>3. PICK i \in 1..Len(operation) : operation[i] = v
  BY <1>2 DEF SelectedAmong
<1>4. i \in DOMAIN operation /\ v \in VariantShape BY <1>2, <1>3
<1>5. v \in Variants(<<step>>) BY <1>1, <1>3, <1>4, VariantsOfStep
<1> HIDE DEF operation, v
<1>6. sends \in v.sends /\ sent \in Expanded(Address(sends, v)) BY DEF v
<1>7. sends \in Seq(RequestShape) BY <1>4, <1>6 DEF VariantShape
<1>8. /\ \A j \in DOMAIN sends : RequestSound(Addressed(sends[j], v))
      /\ step.do = "catalogue" => sends # <<>> /\ ~sends[1].many
  BY <1>0, <1>5, <1>6, RequestsAssumption DEF RequestsAssumption
<1>9. \A j \in DOMAIN sends : Changes(Addressed(sends[j], v)) => ChangesNAS(routine)
  BY <1>0, <1>5, <1>6 DEF ChangesNAS
<1> DEFINE calls_ == Address(sends, v)
<1>10. \A j \in DOMAIN sends : Addressed(sends[j], v) \in RequestShape /\ Addressed(sends[j], v).many = sends[j].many
  BY <1>4, <1>7, AddressedTyped
<1>11. /\ calls_ \in Seq(RequestShape) /\ DOMAIN calls_ = DOMAIN sends
       /\ \A j \in DOMAIN sends : calls_[j] = Addressed(sends[j], v)
  BY <1>7, <1>10 DEF Address
<1>12. sends # <<>> => calls_ # <<>> /\ 1 \in DOMAIN sends BY <1>7, <1>11
<1> HIDE DEF calls_
<1>13. SentFrom(calls_, sent) /\ (calls_ # <<>> /\ ~calls_[1].many => sent # <<>>)
  <2>1. sent \in Expanded(calls_) BY <1>6 DEF calls_
  <2> QED BY <1>11, <2>1, ExpandedSound
<1>14. step.do = "catalogue" => sent # <<>>
  BY <1>8, <1>10, <1>11, <1>12, <1>13
<1>15. ASSUME NEW x \in DOMAIN sent
       PROVE  RequestSound(sent[x]) /\ (Changes(sent[x]) => ChangesNAS(routine))
  <2>1. PICK j \in DOMAIN calls_ : sent[x] = Repeated(calls_[j]) BY <1>13 DEF SentFrom
  <2>2. calls_[j] \in RequestShape /\ RequestSound(calls_[j]) /\ (Changes(calls_[j]) => ChangesNAS(routine))
    BY <1>8, <1>9, <1>10, <1>11, <2>1
  <2> QED BY <2>1, <2>2, RepeatedSame
<1> QED BY <1>13, <1>14, <1>15 DEF SentFrom

\* The step sends its requests.
LEMMA SendsOn ==
    ASSUME Called, NEW step \in Current, step.do \in SendingSteps, Selected(step).found,
           NEW sends \in Selected(step).variant.sends,
           NEW sent \in Expanded(Address(sends, Selected(step).variant)),
           todo' = sent, sending' = NotSending, UNCHANGED <<pc, outcome>>,
           UNCHANGED <<routine, doors, limit, client, effects, faults, callsMade>>
    PROVE  Called'
<1>0. step = routine[pc] /\ pc \in DOMAIN routine /\ outcome = "none" BY CurrentStepSound
<1>1. CallTyped' BY DEF Called, CallTyped
<1>2. KnowledgeKept' BY SameAPIs DEF Called, KnowledgeKept, Complete, Knows, Installed
<1>3. CallTyped' /\ ClientTyped' /\ EffectsFromProgram' /\ KnowledgeKept'
  BY <1>1, <1>2 DEF Called, ClientTyped, EffectsFromProgram
<1>4. RequestsSound' BY <1>0, SentSound DEF RequestsSound
<1>5. sending'.carried = 0 /\ sending'.attempt = 1 BY NotSendingTyped
<1>6. CarriedOutOnce' BY <1>5 DEF CarriedOutOnce
<1>7. MaxAttempts - 1 \in Nat BY NotSendingTyped
<1>8. AttemptsCounted' BY <1>5, <1>6, <1>7, NotSendingTyped DEF AttemptsCounted
<1> QED BY <1>3, <1>4, <1>8 DEF Called

\* What a client that is up to date remembers of a NAS that has everything.
LEMMA CompleteKnown ==
    ASSUME Complete
    PROVE  \A a \in DOMAIN client.apis : client.apis[a] = Latest
<1>1. NoLimit[1] = "none" BY DEF NoLimit
<1> QED BY <1>1 DEF Complete, UpToDate, Outdated, HighestVersion

\* On a NAS that has everything, what the client knows when it comes to a step
\* is enough to find a variant.
LEMMA CompleteFinds ==
    ASSUME Called, NEW step \in Current, Complete, NEW j \in DOMAIN step.operations,
           step.do \in (SendingSteps \ {"optional"}) \union {"require"}
    PROVE  Select(step.operations[j], target).found
<1> DEFINE operation == step.operations[j]
           asked == Asked(routine)[pc]
<1>0. /\ step = routine[pc] /\ pc \in DOMAIN routine /\ outcome = "none" /\ CallTyped
      /\ \A a \in DOMAIN client.apis : client.apis[a] = Latest
      /\ \A a \in asked : Knows(a)
  BY CurrentStepSound, CompleteKnown DEF Called, KnowledgeKept
<1>1. /\ operation \in Seq(VariantShape) /\ OperationSound(operation)
      /\ SelectedAmong(operation, target, Len(operation), Select(operation, target))
  BY OperationOfStep
<1>2. ServedByLatest(operation, asked)
  BY <1>0, ProgramSound DEF Prepared
<1> HIDE DEF operation, asked
<1>3. PICK i \in DOMAIN operation :
        /\ \A need \in operation[i].needs : need[1] \in asked /\ need[2] \in 1..Latest
        /\ operation[i].package # "" =>
            /\ Catalogue \in asked /\ operation[i].package \in Packages
            /\ ~Older(<<Latest>>, operation[i].minimum)
  BY <1>2 DEF ServedByLatest
<1>4. operation[i] \in VariantShape /\ i \in 1..Len(operation) BY <1>1
<1>5. target = [apis |-> [a \in {b \in DOMAIN client.apis : client.apis[b] # 0} |-> client.apis[a]],
                packages |-> client.packages, packagesKnown |-> client.packagesKnown]
  BY DEF target, Target
<1>6. \A a \in DOMAIN client.apis : a \in DOMAIN target.apis /\ target.apis[a] = Latest
  BY <1>0, <1>5 DEF Latest
<1>7. ASSUME NEW need \in operation[i].needs PROVE APIVersion(target, need[1], need[2])
  <2>1. need[1] # Catalogue BY <1>1 DEF OperationSound
  <2>2. need[1] \in DOMAIN client.apis BY <1>0, <1>3, <2>1 DEF Knows
  <2>3. need[1] \in DOMAIN target.apis /\ target.apis[need[1]] = Latest BY <1>6, <2>2
  <2>4. need[2] \in 1..Latest BY <1>3
  <2>5. Supports(target.apis[need[1]], need[2]) BY <2>3, <2>4 DEF Supports, Latest
  <2> QED BY <2>3, <2>5 DEF APIVersion
<1>8. ASSUME operation[i].package # ""
      PROVE  PackageVersionRange(target, operation[i].package, operation[i].minimum)
  <2>1. client.packagesKnown /\ client.packages = Installed BY <1>0, <1>3, <1>8 DEF Knows
  <2>2. \A q \in Packages : limit # <<"package", q, 0>> /\ limit # <<"package", q, 1>>
    BY DEF Complete, NoLimit
  <2>3. DOMAIN Installed = Packages /\ \A q \in Packages : Installed[q] = <<Latest>>
    BY <2>2 DEF Installed
  <2>4. target.packages = Installed /\ target.packagesKnown BY <1>5, <2>1
  <2>5. <<Latest>> # <<>> OBVIOUS
  <2>6. /\ operation[i].package \in DOMAIN target.packages
        /\ target.packages[operation[i].package] = <<Latest>>
        /\ ~Older(<<Latest>>, operation[i].minimum)
    BY <1>3, <1>8, <2>3, <2>4
  <2> QED BY <2>4, <2>5, <2>6, Zenon DEF PackageVersionRange
<1>9. Match(operation[i], target) BY <1>7, <1>8 DEF Match
<1> QED BY <1>1, <1>4, <1>9 DEF SelectedAmong, operation

-----------------------------------------------------------------------------
(***************************************************************************)
(* The steps of a program.                                                 *)
(***************************************************************************)

\* Steps that leave effects alone.
LEMMA SameEffects ==
    ASSUME Called, UNCHANGED <<effects, routine>>
    PROVE  EffectsFromProgram'
BY DEF Called, EffectsFromProgram

\* A step that asks about nothing.
LEMMA LearnsLess ==
    ASSUME Learns({}), NEW asks, asks = {}
    PROVE  Learns(asks)
BY DEF Learns

\* The service's own checks refuse.
LEMMA LocalErrorKeeps ==
    ASSUME Called, NEW step \in Current, LocalError(step)
    PROVE  Called'
<1>1. SameCall BY FaultCounts DEF LocalError, SameCall
<1>2. Learns({}) BY SameClient DEF LocalError
<1>3. EffectsFromProgram' BY SameEffects DEF LocalError
<1> QED BY <1>1, <1>2, <1>3, Raises DEF LocalError

\* The method gives up.
LEMMA FailKeeps ==
    ASSUME Called, NEW step \in Current, FailStep(step)
    PROVE  Called'
<1>1. SameCall BY FaultCounts DEF FailStep, SameCall
<1>2. Learns({}) BY SameClient DEF FailStep
<1>3. EffectsFromProgram' BY SameEffects DEF FailStep
<1> QED BY <1>1, <1>2, <1>3, Raises DEF FailStep

\* A branch of the method, and the jump over the other one.
LEMMA ChooseKeeps ==
    ASSUME Called, NEW step \in Current, Choose(step)
    PROVE  Called'
<1>1. SameCall BY FaultCounts DEF Choose, SameCall
<1>2. Learns({}) BY SameClient DEF Choose
<1>3. EffectsFromProgram' BY SameEffects DEF Choose
<1>4. step.do \in {"branch", "jump"} BY DEF Choose, Starts
<1>5. Asks(step) = {} BY <1>4 DEF Asks
<1>6. PICK n \in Onward(step) : GoTo(pc + n) BY <1>4 DEF Choose, Onward
<1>7. Learns(Asks(step)) BY <1>2, <1>5, LearnsLess
<1> QED BY <1>1, <1>3, <1>6, <1>7, GoesOn

\* discoverAPIsLocked
LEMMA LearntSound ==
    ASSUME Called, NEW apis, client' = Learnt(apis), limit' = limit
    PROVE  Learns(apis \ {Catalogue})
<1> DEFINE known == [a \in DOMAIN client.apis \union apis |->
                        IF a \in DOMAIN client.apis THEN client.apis[a] ELSE HighestVersion(a)]
<1>0. ClientTyped /\ CallTyped /\ KnowledgeKept BY DEF Called
<1>1. client' = [client EXCEPT !.apis = known] BY DEF Learnt
<1>2. \A a : HighestVersion(a) \in 0..Latest /\ (limit = NoLimit => HighestVersion(a) = Latest)
  <2>1. limit[3] \in 0..Latest BY <1>0 DEF CallTyped
  <2>2. limit = NoLimit => limit[1] # "api"
    <3>1. NoLimit[1] = "none" BY DEF NoLimit
    <3> QED BY <3>1
  <2> QED BY <2>1, <2>2 DEF HighestVersion, Latest
<1>3. /\ DOMAIN known = DOMAIN client.apis \union apis
      /\ \A a \in DOMAIN client.apis : known[a] = client.apis[a]
      /\ \A a \in apis : a \notin DOMAIN client.apis => known[a] = HighestVersion(a)
  OBVIOUS
<1> HIDE DEF known
<1>4. client' = [apis |-> known, release |-> client.release, packages |-> client.packages,
                 packagesKnown |-> client.packagesKnown]
  BY <1>0, <1>1 DEF ClientTyped
<1>5. client'.apis = known /\ client'.packages = client.packages
      /\ client'.packagesKnown = client.packagesKnown /\ client'.release = client.release
  BY <1>4
<1>6. ClientTyped' BY <1>0, <1>2, <1>3, <1>4, <1>5 DEF ClientTyped
<1>7. UpToDate' <=> UpToDate
  <2>1. \A a : HighestVersion(a)' = HighestVersion(a) BY DEF HighestVersion
  <2> QED BY <1>3, <1>5, <2>1 DEF UpToDate, Outdated
<1>8. Installed' = Installed BY DEF Installed
<1>9. \A a : Knows(a) \/ a \in apis \ {Catalogue} => Knows(a)'
  BY <1>3, <1>5, <1>8 DEF Knows
<1> QED BY <1>5, <1>6, <1>7, <1>9 DEF Learns

\* discoverAPIsLocked and ensureAPIsLocked as steps of the method.
LEMMA DiscoverKeeps ==
    ASSUME Called, NEW step \in Current, DiscoverStep(step)
    PROVE  Called'
<1>0. /\ step = routine[pc] /\ pc \in DOMAIN routine /\ CallTyped BY CurrentStepSound DEF Called
<1>1. SameCall BY FaultCounts DEF DiscoverStep, SameCall
<1>3. EffectsFromProgram' BY SameEffects DEF DiscoverStep
<1>4. step.do \in {"discover", "ensure"} BY DEF DiscoverStep, Starts
<1>5. Catalogue \notin step.apis BY <1>0, ProgramSound DEF WellFormed
<1>6. Asks(step) = step.apis /\ 1 \in Onward(step) BY <1>4 DEF Asks, Onward
<1>7. Learns(step.apis \ {Catalogue}) BY LearntSound DEF DiscoverStep
<1>8. Learns(Asks(step)) BY <1>5, <1>6, <1>7 DEF Learns
<1>9. Learns({}) BY <1>8 DEF Learns
<1>10. CASE step.do = "ensure" /\ \E a \in step.apis : client'.apis[a] = 0
  <2>1. Raise(step, "unsupported") BY <1>10 DEF DiscoverStep
  <2>2. ~Complete
    <3> SUFFICES ASSUME Complete PROVE FALSE
      OBVIOUS
    <3>1. PICK a \in step.apis : client'.apis[a] = 0 BY <1>10
    <3>2. a \in DOMAIN client'.apis
      <4>1. a \in Asks(step) /\ a # Catalogue BY <1>5, <1>6
      <4>2. Knows(a)' BY <1>8, <4>1 DEF Learns
      <4> QED BY <4>1, <4>2 DEF Knows
    <3>3. client'.apis[a] = Latest
      <4>1. Complete' BY <1>1, <1>9 DEF Learns, Complete, SameCall
      <4>2. client'.apis[a] = HighestVersion(a)' BY <3>2, <4>1 DEF Complete, UpToDate, Outdated
      <4>3. limit' = NoLimit /\ NoLimit[1] = "none" BY <4>1 DEF Complete, NoLimit
      <4> QED BY <4>2, <4>3 DEF HighestVersion
    <3> QED BY <3>1, <3>3 DEF Latest
  <2> QED BY <1>1, <1>3, <1>9, <2>1, <2>2, Raises
<1>11. CASE ~(step.do = "ensure" /\ \E a \in step.apis : client'.apis[a] = 0)
  <2>1. GoTo(pc + 1) BY <1>11 DEF DiscoverStep
  <2> QED BY <1>1, <1>3, <1>6, <1>8, <2>1, GoesOn
<1> QED BY <1>10, <1>11

\* The variant of an operation is selected and its requests are set out.
LEMMA SelectKeeps ==
    ASSUME Called, NEW step \in Current, SelectStep(step)
    PROVE  Called'
<1>1. SameCall BY FaultCounts DEF SelectStep, SameCall
<1>2. Learns({}) BY SameClient DEF SelectStep
<1>3. EffectsFromProgram' BY SameEffects DEF SelectStep
<1>4. step.do \in {"run", "release", "bootstrap", "catalogue"} BY DEF SelectStep, Starts
<1>5. step.do \in SendingSteps /\ 1 \in Onward(step) /\ (step.do # "catalogue" => Asks(step) = {})
  BY <1>4 DEF SendingSteps, Onward, Asks
<1>6. /\ 1 \in DOMAIN step.operations
      /\ SelectedAmong(step.operations[1], target, Len(step.operations[1]), Selected(step))
  BY <1>5, FirstOperation, OperationOfStep DEF Selected
<1>7. CASE step.do = "bootstrap" /\ client.release
  <2>1. GoTo(pc + 1) BY <1>7 DEF SelectStep
  <2>2. Learns(Asks(step)) BY <1>2, <1>5, <1>7, LearnsLess
  <2> QED BY <1>1, <1>3, <1>5, <2>1, <2>2, GoesOn
<1>8. CASE ~(step.do = "bootstrap" /\ client.release) /\ ~Selected(step).found
  <2>1. ~Selected(step).ambiguous BY <1>6 DEF SelectedAmong
  <2>2. Raise(step, "unsupported") BY <1>8, <2>1 DEF SelectStep
  <2>3. ~Complete BY <1>4, <1>6, <1>8, CompleteFinds DEF Selected, SendingSteps
  <2> QED BY <1>1, <1>2, <1>3, <2>2, <2>3, Raises
<1>9. CASE ~(step.do = "bootstrap" /\ client.release) /\ Selected(step).found
  <2>1. ~Selected(step).ambiguous BY <1>6 DEF SelectedAmong
  <2>2. PICK sends \in Selected(step).variant.sends :
          \E sent \in Expanded(Address(sends, Selected(step).variant)) :
                IF sent = <<>> THEN GoTo(pc + 1)
                ELSE todo' = sent /\ sending' = NotSending /\ UNCHANGED <<pc, outcome>>
    BY <1>9, <2>1 DEF SelectStep
  <2>3. PICK sent \in Expanded(Address(sends, Selected(step).variant)) :
                IF sent = <<>> THEN GoTo(pc + 1)
                ELSE todo' = sent /\ sending' = NotSending /\ UNCHANGED <<pc, outcome>>
    BY <2>2
  <2>4. CASE sent = <<>>
    <3>1. GoTo(pc + 1) BY <2>3, <2>4
    <3>2. step.do # "catalogue" BY <1>5, <1>9, <2>4, SentSound
    <3>3. Learns(Asks(step)) BY <1>2, <1>5, <3>2, LearnsLess
    <3> QED BY <1>1, <1>3, <1>5, <3>1, <3>3, GoesOn
  <2>5. CASE sent # <<>>
    <3>1. todo' = sent /\ sending' = NotSending /\ UNCHANGED <<pc, outcome>> BY <2>3, <2>5
    <3>2. UNCHANGED <<routine, doors, limit, client, effects, faults, callsMade>> BY DEF SelectStep
    <3> QED BY <1>5, <1>9, <3>1, <3>2, SendsOn
  <2> QED BY <2>4, <2>5
<1> QED BY <1>7, <1>8, <1>9

\* The same for an operation the NAS may lack.
LEMMA OptionalKeeps ==
    ASSUME Called, NEW step \in Current, OptionalStep(step)
    PROVE  Called'
<1>1. SameCall BY FaultCounts DEF OptionalStep, SameCall
<1>2. Learns({}) BY SameClient DEF OptionalStep
<1>3. EffectsFromProgram' BY SameEffects DEF OptionalStep
<1>4. step.do = "optional" BY DEF OptionalStep, Starts
<1>5. step.do \in SendingSteps /\ 1 \in Onward(step) /\ Asks(step) = {}
  BY <1>4 DEF SendingSteps, Onward, Asks
<1>6. Learns(Asks(step)) BY <1>2, <1>5, LearnsLess
<1>7. CASE GoTo(pc + 1)
  BY <1>1, <1>3, <1>5, <1>6, <1>7, GoesOn
<1>8. CASE ~GoTo(pc + 1)
  <2>1. Supported(step.operations[1], target) BY <1>8 DEF OptionalStep
  <2>2. Selected(step).found BY <2>1 DEF Supported, Selected
  <2>3. PICK sends \in Selected(step).variant.sends :
          \E sent \in Expanded(Address(sends, Selected(step).variant)) :
                IF sent = <<>> THEN GoTo(pc + 1)
                ELSE todo' = sent /\ sending' = NotSending /\ UNCHANGED <<pc, outcome>>
    BY <2>1 DEF OptionalStep
  <2>4. PICK sent \in Expanded(Address(sends, Selected(step).variant)) :
                todo' = sent /\ sending' = NotSending /\ UNCHANGED <<pc, outcome>>
    BY <1>8, <2>3
  <2>5. UNCHANGED <<routine, doors, limit, client, effects, faults, callsMade>> BY DEF OptionalStep
  <2> QED BY <1>5, <2>2, <2>4, <2>5, SendsOn
<1> QED BY <1>7, <1>8

\* Capabilities are required or reported.
LEMMA RequireKeeps ==
    ASSUME Called, NEW step \in Current, RequireStep(step)
    PROVE  Called'
<1> DEFINE selections == {Select(step.operations[k], target) : k \in DOMAIN step.operations}
<1>1. SameCall BY FaultCounts DEF RequireStep, SameCall
<1>2. Learns({}) BY SameClient DEF RequireStep
<1>3. EffectsFromProgram' BY SameEffects DEF RequireStep
<1>4. step.do \in {"require", "report"} BY DEF RequireStep, Starts
<1>5. 1 \in Onward(step) /\ Asks(step) = {} BY <1>4 DEF Onward, Asks
<1>6. Learns(Asks(step)) BY <1>2, <1>5, LearnsLess
<1>7. ~\E s \in selections : s.ambiguous BY OperationOfStep DEF SelectedAmong
<1>8. IF step.do = "require" /\ \E s \in selections : ~s.found THEN Raise(step, "unsupported")
      ELSE GoTo(pc + 1)
  BY <1>7 DEF RequireStep
<1>9. CASE step.do = "require" /\ \E s \in selections : ~s.found
  <2>1. Raise(step, "unsupported") BY <1>8, <1>9
  <2>2. PICK j \in DOMAIN step.operations : ~Select(step.operations[j], target).found BY <1>9
  <2>3. ~Complete BY <1>9, <2>2, CompleteFinds
  <2> QED BY <1>1, <1>2, <1>3, <2>1, <2>3, Raises
<1>10. CASE ~(step.do = "require" /\ \E s \in selections : ~s.found)
  <2>1. GoTo(pc + 1) BY <1>8, <1>10
  <2> QED BY <1>1, <1>3, <1>5, <1>6, <2>1, GoesOn
<1> QED BY <1>9, <1>10

\* A NAS is provisioned, or a file is written on the host.
LEMMA OutsideKeeps ==
    ASSUME Called, NEW step \in Current, OutsideStep(step)
    PROVE  Called'
<1>0. step = routine[pc] /\ pc \in DOMAIN routine BY CurrentStepSound
<1>1. SameCall BY FaultCounts DEF OutsideStep, SameCall
<1>2. Learns({}) BY SameClient DEF OutsideStep
<1>4. step.do \in {"provision", "save"} BY DEF OutsideStep, Starts
<1>5. 1 \in Onward(step) /\ Asks(step) = {} BY <1>4 DEF Onward, Asks
<1>6. Learns(Asks(step)) BY <1>2, <1>5, LearnsLess
<1>7. EffectsFromProgram'
  <2>1. EffectsFromProgram BY DEF Called
  <2>2. CASE step.do = "save"
    <3>1. WritesHost(routine) BY <1>0, <2>2 DEF WritesHost
    <3>2. effects' = effects \union {"host"} /\ routine' = routine BY <2>2 DEF OutsideStep
    <3> QED BY <2>1, <3>1, <3>2 DEF EffectsFromProgram
  <2>3. CASE step.do = "provision"
    <3>1. ChangesNAS(routine) BY <1>0, <2>3 DEF ChangesNAS
    <3>2. effects' = effects \union {"nas"} /\ routine' = routine BY <2>3 DEF OutsideStep
    <3> QED BY <2>1, <3>1, <3>2 DEF EffectsFromProgram
  <2> QED BY <1>4, <2>2, <2>3
<1> QED BY <1>1, <1>5, <1>6, <1>7, GoesOn DEF OutsideStep

-----------------------------------------------------------------------------
(***************************************************************************)
(* The requests.                                                           *)
(***************************************************************************)

\* The request that is sent.
LEMMA FirstRequest ==
    ASSUME Called, todo # <<>>
    PROVE  /\ Len(todo) \in Nat \ {0} /\ 1 \in DOMAIN todo /\ Request1 \in RequestShape
           /\ RequestSound(Request1) /\ (Changes(Request1) => ChangesNAS(routine))
           /\ Request1.version \in Nat
<1>1. todo \in Seq(RequestShape) BY DEF Called, RequestsSound
<1>2. Len(todo) \in Nat \ {0} /\ 1 \in DOMAIN todo BY <1>1
<1>3. Request1 \in RequestShape BY <1>1, <1>2 DEF Request1
<1>4. Request1.version \in Nat BY <1>3 DEF RequestShape
<1> QED BY <1>2, <1>3, <1>4 DEF Called, RequestsSound, Request1

\* What the client learns from the last answer of a step.
LEMMA FinishLearns ==
    ASSUME Called, NEW step \in Current, step.do \in SendingSteps, Finish(step), limit' = limit
    PROVE  Learns(Asks(step))
<1>0. ClientTyped /\ KnowledgeKept BY DEF Called
<1>1. Installed' = Installed BY DEF Installed
<1>2. CASE step.do \in {"release", "bootstrap"}
  <2>1. client' = [client EXCEPT !.release = TRUE] BY <1>2 DEF Finish
  <2>2. client' = [apis |-> client.apis, release |-> TRUE, packages |-> client.packages,
                   packagesKnown |-> client.packagesKnown]
    BY <1>0, <2>1 DEF ClientTyped
  <2>3. ClientTyped' BY <1>0, <2>2 DEF ClientTyped
  <2>4. Asks(step) = {} BY <1>2 DEF Asks
  <2>5. \A a : Knows(a) => Knows(a)' BY <1>1, <2>2 DEF Knows
  <2> QED BY <2>2, <2>3, <2>4, <2>5, SameAPIs DEF Learns
<1>3. CASE step.do = "catalogue"
  <2>1. client' = [client EXCEPT !.packages = Installed, !.packagesKnown = TRUE] BY <1>3 DEF Finish
  <2>2. client' = [apis |-> client.apis, release |-> client.release, packages |-> Installed,
                   packagesKnown |-> TRUE]
    BY <1>0, <2>1 DEF ClientTyped
  <2>3. ClientTyped' BY <1>0, <2>2 DEF ClientTyped
  <2>4. Asks(step) = {Catalogue} BY <1>3 DEF Asks
  <2>5. \A a : Knows(a) \/ a = Catalogue => Knows(a)' BY <1>1, <2>2 DEF Knows
  <2> QED BY <2>2, <2>3, <2>4, <2>5, SameAPIs DEF Learns
<1>4. CASE step.do \notin {"release", "bootstrap", "catalogue"}
  <2>1. client' = client BY <1>4 DEF Finish
  <2>2. Learns({}) BY <2>1, SameClient
  <2>3. Asks(step) = {} BY <1>4 DEF Asks, SendingSteps
  <2> QED BY <2>2, <2>3, LearnsLess
<1> QED BY <1>2, <1>3, <1>4

\* On to the next request, or past the step.
LEMMA NextKeeps ==
    ASSUME Called, NEW step \in Current, todo # <<>>, NextRequest(step), SameCall, EffectsFromProgram'
    PROVE  Called'
<1>0. /\ step = routine[pc] /\ pc \in DOMAIN routine /\ outcome = "none"
      /\ step.do \in SendingSteps /\ limit' = limit /\ Len(todo) \in Nat \ {0}
  BY CurrentStepSound, FirstRequest DEF Called, RequestsSound, SameCall
<1>1. CASE Len(todo) > 1
  <2>1. todo' = Tail(todo) /\ sending' = NotSending /\ UNCHANGED <<pc, outcome, client>>
    BY <1>1 DEF NextRequest
  <2>2. todo \in Seq(RequestShape) BY DEF Called, RequestsSound
  <2>3. /\ todo' \in Seq(RequestShape)
        /\ \A x \in DOMAIN todo' : x + 1 \in DOMAIN todo /\ todo'[x] = todo[x + 1]
    BY <1>0, <1>1, <2>1, <2>2
  <2>4. RequestsSound'
    BY <1>0, <2>1, <2>3 DEF Called, RequestsSound, SameCall
  <2>5. sending'.carried = 0 /\ sending'.attempt = 1 BY <2>1, NotSendingTyped
  <2>6. CarriedOutOnce' BY <2>5 DEF CarriedOutOnce
  <2>7. MaxAttempts - 1 \in Nat BY NotSendingTyped
  <2>8. AttemptsCounted' BY <2>1, <2>5, <2>6, <2>7, NotSendingTyped DEF AttemptsCounted
  <2>9. CallTyped' BY <2>1 DEF Called, CallTyped, SameCall
  <2>10. ClientTyped' /\ KnowledgeKept'
    BY <2>1, SameAPIs DEF Called, ClientTyped, KnowledgeKept, Complete, Knows, Installed, SameCall
  <2> QED BY <2>4, <2>8, <2>9, <2>10 DEF Called
<1>2. CASE ~(Len(todo) > 1)
  <2>1. GoTo(pc + 1) /\ Finish(step) BY <1>2 DEF NextRequest
  <2>2. Learns(Asks(step)) BY <1>0, <2>1, FinishLearns
  <2>3. 1 \in Onward(step) BY <1>0 DEF Onward, SendingSteps
  <2> QED BY <2>1, <2>2, <2>3, GoesOn
<1> QED BY <1>1, <1>2

\* A request fails: its error is dropped, handled or returned.
LEMMA FailingKeeps ==
    ASSUME Called, NEW step \in Current, todo # <<>>, SameCall, EffectsFromProgram',
           NEW error \in {"error", "unavailable"}, RequestFails(step, error),
           error # "error" => ~Complete
    PROVE  Called'
<1>1. CASE Request1.quiet
  BY <1>1, NextKeeps DEF RequestFails
<1>2. CASE ~Request1.quiet
  <2>1. Raise(step, error) /\ client' = client BY <1>2 DEF RequestFails
  <2>2. Learns({}) BY <2>1, SameClient DEF SameCall
  <2> QED BY <2>1, <2>2, Raises
<1> QED BY <1>1, <1>2

\* A request that DSM carries out changes only what the program may change.
LEMMA CarriedSound ==
    ASSUME Called, todo # <<>>, Carried, routine' = routine
    PROVE  EffectsFromProgram'
<1>1. Changes(Request1) => ChangesNAS(routine) BY FirstRequest
<1>2. EffectsFromProgram BY DEF Called
<1> QED BY <1>1, <1>2 DEF Carried, EffectsFromProgram

\* executeLocked asks about the API of its request first.
LEMMA LearnAPIKeeps ==
    ASSUME Called, LearnAPI
    PROVE  Called'
<1>1. UNCHANGED <<routine, doors, limit, pc, todo, sending, effects, outcome, faults, callsMade>>
  BY DEF LearnAPI
<1>2. Learns({Request1.api} \ {Catalogue}) BY <1>1, LearntSound DEF LearnAPI
<1>3. CallTyped' BY <1>1 DEF Called, CallTyped
<1>4. RequestsSound' /\ AttemptsCounted' /\ EffectsFromProgram'
  BY <1>1 DEF Called, RequestsSound, AttemptsCounted, CarriedOutOnce, Request1, EffectsFromProgram
<1>5. KnowledgeKept' BY <1>1, <1>2 DEF Called, KnowledgeKept, Learns, Complete
<1> QED BY <1>2, <1>3, <1>4, <1>5 DEF Called, Learns

\* It cannot ask.
LEMMA LearnFailsKeeps ==
    ASSUME Called, NEW step \in Current, LearnFails(step)
    PROVE  Called'
<1>1. SameCall BY FaultCounts DEF LearnFails, SameCall
<1>2. EffectsFromProgram' BY SameEffects DEF LearnFails
<1> QED BY <1>1, <1>2, FailingKeeps DEF LearnFails, Sending

\* The NAS lacks the API or its version: not one that has everything.
LEMMA UnavailableKeeps ==
    ASSUME Called, NEW step \in Current, Unavailable(step)
    PROVE  Called'
<1>0. todo # <<>> /\ Ready /\ ~Accepted BY DEF Unavailable, Ready, Sending
<1>1. SameCall BY FaultCounts DEF Unavailable, SameCall
<1>2. EffectsFromProgram' BY SameEffects DEF Unavailable
<1>3. ~Complete
  <2> SUFFICES ASSUME Complete PROVE FALSE
    OBVIOUS
  <2>1. client.apis[Request1.api] = Latest BY <1>0, CompleteKnown DEF Ready
  <2>2. Request1.version \in Nat /\ Request1.version <= Latest
    BY <1>0, FirstRequest DEF RequestSound
  <2>3. Supports(Latest, VersionAsked) BY <2>1, <2>2 DEF VersionAsked, Supports, Latest
  <2> QED BY <1>0, <2>1, <2>3 DEF Accepted
<1> QED BY <1>0, <1>1, <1>2, <1>3, FailingKeeps DEF Unavailable

\* DSM answers.
LEMMA AnsweredKeeps ==
    ASSUME Called, NEW step \in Current, Answered(step)
    PROVE  Called'
<1>0. todo # <<>> BY DEF Answered, Accepted, Ready, Sending
<1>1. SameCall BY FaultCounts DEF Answered, SameCall
<1>2. EffectsFromProgram' BY <1>0, CarriedSound DEF Answered
<1> QED BY <1>0, <1>1, <1>2, NextKeeps DEF Answered

\* DSM refuses.
LEMMA RefusedKeeps ==
    ASSUME Called, NEW step \in Current, RefusedByDSM(step)
    PROVE  Called'
<1>0. todo # <<>> BY DEF RefusedByDSM, Accepted, Ready, Sending
<1>1. SameCall BY FaultCounts DEF RefusedByDSM, SameCall
<1>2. EffectsFromProgram' BY SameEffects DEF RefusedByDSM
<1> QED BY <1>0, <1>1, <1>2, FailingKeeps DEF RefusedByDSM

\* The request is sent again: what else is left to send is the same.
LEMMA AgainKeeps ==
    ASSUME Called, SameCall, EffectsFromProgram', UNCHANGED <<pc, todo, outcome, client>>, todo # <<>>,
           sending' \in [attempt : 1..MaxAttempts, again : BOOLEAN, carried : Nat],
           sending'.carried <= sending'.attempt - 1 + (IF sending'.again THEN MaxAttempts - 1 ELSE 0),
           sending'.carried > 0 => ~Changes(Request1)
    PROVE  Called'
<1>1. CallTyped' BY DEF Called, CallTyped, SameCall
<1>2. ClientTyped' /\ KnowledgeKept'
  BY SameAPIs DEF Called, ClientTyped, KnowledgeKept, Complete, Knows, Installed, SameCall
<1>3. RequestsSound' BY DEF Called, RequestsSound, SameCall
<1>4. AttemptsCounted' BY DEF AttemptsCounted, CarriedOutOnce, Request1
<1> QED BY <1>1, <1>2, <1>3, <1>4 DEF Called

\* The answer is lost: only what is marked ReadOnly is sent again.
LEMMA LostKeeps ==
    ASSUME Called, NEW step \in Current, NEW done \in BOOLEAN, Lost(step, done)
    PROVE  Called'
<1>0. todo # <<>> BY DEF Lost, Accepted, Ready, Sending
<1>1. SameCall BY FaultCounts DEF Lost, SameCall
<1>2. EffectsFromProgram'
  <2>1. CASE done BY <1>0, <2>1, CarriedSound DEF Lost
  <2>2. CASE ~done BY <2>2, SameEffects DEF Lost
  <2> QED BY <2>1, <2>2
<1>3. CASE Retryable
  <2> DEFINE more == IF done THEN 1 ELSE 0
  <2>1. /\ sending' = [sending EXCEPT !.attempt = @ + 1, !.carried = @ + more]
        /\ UNCHANGED <<pc, todo, outcome, client>>
    BY <1>3 DEF Lost
  <2>2. /\ sending \in [attempt : 1..MaxAttempts, again : BOOLEAN, carried : Nat]
        /\ sending.carried <= sending.attempt - 1 + (IF sending.again THEN MaxAttempts - 1 ELSE 0)
        /\ MaxAttempts \in Nat
    BY NotSendingTyped DEF Called, AttemptsCounted
  <2>3. Request1.readOnly /\ sending.attempt < MaxAttempts BY <1>3 DEF Retryable
  <2>4. more \in {0, 1} OBVIOUS
  <2> HIDE DEF more
  <2>5. sending' = [attempt |-> sending.attempt + 1, again |-> sending.again,
                    carried |-> sending.carried + more]
    BY <2>1, <2>2
  <2>6. sending.attempt + 1 \in 1..MaxAttempts /\ sending.carried + more \in Nat /\ sending.again \in BOOLEAN
    BY <2>2, <2>3, <2>4
  <2>7. /\ sending'.attempt = sending.attempt + 1 /\ sending'.carried = sending.carried + more
        /\ sending'.again = sending.again
        /\ sending' \in [attempt : 1..MaxAttempts, again : BOOLEAN, carried : Nat]
    BY <2>5, <2>6
  <2>8. sending'.carried <= sending'.attempt - 1 + (IF sending'.again THEN MaxAttempts - 1 ELSE 0)
    BY <2>2, <2>4, <2>7
  <2>9. ~Changes(Request1) BY <1>0, <2>3, FirstRequest DEF RequestSound
  <2> QED BY <1>0, <1>1, <1>2, <2>1, <2>7, <2>8, <2>9, AgainKeeps
<1>4. CASE ~Retryable
  <2>1. RequestFails(step, "error") BY <1>4 DEF Lost
  <2> QED BY <1>0, <1>1, <1>2, <2>1, FailingKeeps
<1> QED BY <1>3, <1>4

\* The session has ended: the request is sent again once, with new attempts.
LEMMA SessionEndedKeeps ==
    ASSUME Called, NEW step \in Current, NEW recovered \in BOOLEAN, SessionEnded(step, recovered)
    PROVE  Called'
<1>0. todo # <<>> BY DEF SessionEnded, Accepted, Ready, Sending
<1>1. SameCall BY FaultCounts DEF SessionEnded, SameCall
<1>2. EffectsFromProgram' BY SameEffects DEF SessionEnded
<1>3. CASE recovered /\ Request1.resend /\ ~sending.again
  <2>1. /\ sending' = [sending EXCEPT !.again = TRUE, !.attempt = 1]
        /\ UNCHANGED <<pc, todo, outcome, client>>
    BY <1>3 DEF SessionEnded
  <2>2. /\ sending \in [attempt : 1..MaxAttempts, again : BOOLEAN, carried : Nat]
        /\ sending.carried <= sending.attempt - 1 + (IF sending.again THEN MaxAttempts - 1 ELSE 0)
        /\ MaxAttempts \in Nat \ {0}
    BY NotSendingTyped DEF Called, AttemptsCounted
  <2>3. sending' = [attempt |-> 1, again |-> TRUE, carried |-> sending.carried]
    BY <2>1, <2>2
  <2>4. 1 \in 1..MaxAttempts /\ sending.carried \in Nat
    BY <2>2
  <2>5. /\ sending'.attempt = 1 /\ sending'.carried = sending.carried /\ sending'.again
        /\ sending' \in [attempt : 1..MaxAttempts, again : BOOLEAN, carried : Nat]
    BY <2>3, <2>4
  <2>6. sending'.carried <= sending'.attempt - 1 + (IF sending'.again THEN MaxAttempts - 1 ELSE 0)
    BY <1>3, <2>2, <2>5
  <2>7. sending'.carried > 0 => ~Changes(Request1)
    BY <2>5 DEF Called, AttemptsCounted, CarriedOutOnce
  <2> QED BY <1>0, <1>1, <1>2, <2>1, <2>5, <2>6, <2>7, AgainKeeps
<1>4. CASE ~(recovered /\ Request1.resend /\ ~sending.again)
  <2>1. RequestFails(step, "error") BY <1>4 DEF SessionEnded
  <2> QED BY <1>0, <1>1, <1>2, <2>1, FailingKeeps
<1> QED BY <1>3, <1>4

-----------------------------------------------------------------------------
(***************************************************************************)
(* The invocation and its end.                                             *)
(***************************************************************************)

\* Every variant of a program is one of an operation of a step.
LEMMA VariantFrom ==
    ASSUME NEW steps, NEW v \in Variants(steps)
    PROVE  \E k \in DOMAIN steps : \E j \in DOMAIN steps[k].operations :
               \E i \in DOMAIN steps[k].operations[j] : v = steps[k].operations[j][i]
<1> DEFINE all == UNION {{steps[n].operations[x] : x \in DOMAIN steps[n].operations} : n \in DOMAIN steps}
<1>1. Variants(steps) = UNION {{p[x] : x \in DOMAIN p} : p \in all} BY DEF Variants
<1>2. PICK o \in all : \E i \in DOMAIN o : v = o[i]
  <2> HIDE DEF all
  <2> QED BY <1>1
<1>3. PICK k \in DOMAIN steps : \E j \in DOMAIN steps[k].operations : o = steps[k].operations[j]
  OBVIOUS
<1> QED BY <1>2, <1>3

\* A NAS that has everything.
LEMMA NoLimitTyped == NoLimit[1] = "none" /\ NoLimit[3] = 0
<1>1. NoLimit[1] = "none" BY DEF NoLimit
<1>2. NoLimit[3] = 0 BY DEF NoLimit
<1> QED BY <1>1, <1>2

\* What a NAS may lack for an entry.
LEMMA LackTyped ==
    ASSUME NEW e \in Entries, NEW lack \in Limits(e.program)
    PROVE  lack[1] \in {"none", "api", "package"} /\ lack[3] \in 0..Latest
<1> DEFINE variants == Variants(e.program)
           needs == UNION {v.needs : v \in variants}
           names == {v.package : v \in variants} \ {""}
<1>1. \A v \in variants : \A need \in v.needs : need[2] \in 1..Latest
  <2> SUFFICES ASSUME NEW v \in variants
               PROVE  \A need \in v.needs : need[2] \in 1..Latest
    OBVIOUS
  <2>0. v \in Variants(e.program) OBVIOUS
  <2>1. PICK k \in DOMAIN e.program : \E j \in DOMAIN e.program[k].operations :
           \E i \in DOMAIN e.program[k].operations[j] : v = e.program[k].operations[j][i]
    BY <2>0, VariantFrom
  <2>2. PICK j \in DOMAIN e.program[k].operations :
           \E i \in DOMAIN e.program[k].operations[j] : v = e.program[k].operations[j][i]
    BY <2>1
  <2>3. PICK i \in DOMAIN e.program[k].operations[j] : v = e.program[k].operations[j][i]
    BY <2>2
  <2>4. OperationSound(e.program[k].operations[j])
    BY ProgramsAssumption, Zenon DEF ProgramsAssumption
  <2> QED BY <2>3, <2>4 DEF OperationSound
<1>2. \A n \in needs : n[2] \in 1..Latest
  BY <1>1
<1>4. \/ lack = NoLimit
      \/ \E n \in needs : lack = <<"api", n[1], 0>> \/ lack = <<"api", n[1], n[2] - 1>>
      \/ lack \in {"package"} \X names \X (0..1)
  <2> HIDE DEF needs
  <2>1. lack \in {NoLimit} \union {<<"api", n[1], 0>> : n \in needs}
                 \union {<<"api", n[1], n[2] - 1>> : n \in needs}
                 \union {"package"} \X names \X (0..1)
    BY DEF Limits, needs
  <2> HIDE DEF names
  <2> QED BY <2>1
<1>5. CASE lack = NoLimit BY <1>5, NoLimitTyped DEF Latest
<1>6. CASE \E n \in needs : lack = <<"api", n[1], 0>> \/ lack = <<"api", n[1], n[2] - 1>>
  <2>1. PICK n \in needs : lack = <<"api", n[1], 0>> \/ lack = <<"api", n[1], n[2] - 1>> BY <1>6
  <2>2. n[2] - 1 \in 0..Latest /\ 0 \in 0..Latest BY <1>2 DEF Latest
  <2> QED BY <2>1, <2>2
<1>7. CASE lack \in {"package"} \X names \X (0..1)
  <2> HIDE DEF names
  <2> QED BY <1>7 DEF Latest
<1> QED BY <1>4, <1>5, <1>6, <1>7

\* The call is denied.
LEMMA DeniedKeeps ==
    ASSUME AtRest, doors = {}, NEW e \in Entries, NEW door \in DoorsTo(e.program, Entries), Deny(door)
    PROVE  AtRest'
<1>1. \E x \in Entries : door = Door(x) BY DEF DoorsTo
<1> QED BY <1>1 DEF AtRest, Deny

\* The call is let in: nothing was asked about yet, and nothing is needed.
LEMMA InvokeStarts ==
    ASSUME AtRest, doors = {}, NEW e \in Entries, NEW lack \in Limits(e.program),
           NEW open \in SUBSET DoorsTo(e.program, Entries), Invoke(e.program, open, lack)
    PROVE  Called'
<1>0. /\ routine' = e.program /\ doors' = open /\ limit' = lack /\ open # {} /\ callsMade' = 1
      /\ client' = NewClient /\ pc' = 1 /\ todo' = <<>> /\ sending' = NotSending /\ effects' = {}
      /\ outcome' = "none" /\ faults' = IF lack = NoLimit THEN 0 ELSE 1
      /\ lack # NoLimit => MaxFaults > 0
  BY DEF AtRest, Invoke
<1>1. /\ WellFormed(e.program) /\ \E asked \in {Asked(e.program)} : Prepared(e.program, asked)
  BY ProgramsAssumption, Zenon DEF ProgramsAssumption
<1>2. \A door \in doors' : \E x \in Entries : x.program = e.program /\ door = Door(x)
  BY <1>0 DEF DoorsTo
<1>3. CallTyped'
  <2>1. limit'[1] \in {"none", "api", "package"} /\ limit'[3] \in 0..Latest BY <1>0, LackTyped
  <2>2. MaxFaults \in Nat /\ MaxCalls \in Nat \ {0} BY BoundsAssumption DEF BoundsAssumption
  <2>3. faults' \in 0..MaxFaults /\ callsMade' \in 1..MaxCalls BY <1>0, <2>2
  <2>4. e.program \in Seq(StepShape) BY <1>1 DEF WellFormed
  <2>5. pc' \in 1..(Len(routine') + 1) BY <1>0, <2>4
  <2>6. \E x \in Entries : routine' = x.program BY <1>0
  <2>7. \A door \in doors' : \E x \in Entries : x.program = routine' /\ door = Door(x)
    BY <1>0, <1>2
  <2>8. doors' # {} /\ outcome' = "none" BY <1>0
  <2> QED BY <2>1, <2>3, <2>5, <2>6, <2>7, <2>8 DEF CallTyped
<1>4. ClientTyped' /\ DOMAIN client'.apis = {}
  BY <1>0 DEF ClientTyped, NewClient
<1>5. KnowledgeKept'
  <2>1. Asked(routine')[pc'] = {} BY <1>0, <1>1 DEF Prepared
  <2>2. UpToDate' BY <1>4 DEF UpToDate
  <2> QED BY <1>0, <2>1, <2>2 DEF KnowledgeKept
<1>6. RequestsSound'
  <2>1. DOMAIN todo' = {} /\ todo' \in Seq(RequestShape) BY <1>0
  <2> QED BY <1>0, <2>1 DEF RequestsSound
<1>7. AttemptsCounted'
  <2>1. sending'.carried = 0 /\ sending'.attempt = 1 BY <1>0, NotSendingTyped
  <2>2. CarriedOutOnce' BY <2>1 DEF CarriedOutOnce
  <2>3. MaxAttempts - 1 \in Nat BY NotSendingTyped
  <2> QED BY <1>0, <2>1, <2>2, <2>3, NotSendingTyped DEF AttemptsCounted
<1>8. EffectsFromProgram' BY <1>0 DEF EffectsFromProgram
<1> QED BY <1>3, <1>4, <1>5, <1>6, <1>7, <1>8 DEF Called

\* The method has returned.
LEMMA ReturnKeeps ==
    ASSUME Called, Return
    PROVE  Called'
<1>1. UNCHANGED <<routine, doors, limit, client, pc, todo, sending, effects, faults, callsMade>>
      /\ outcome' = "done" /\ todo = <<>>
  BY DEF Return
<1>2. CallTyped' BY <1>1 DEF Called, CallTyped
<1>3. ClientTyped' BY <1>1 DEF Called, ClientTyped
<1>4. RequestsSound' /\ AttemptsCounted' /\ EffectsFromProgram'
  BY <1>1 DEF Called, RequestsSound, AttemptsCounted, CarriedOutOnce, Request1, EffectsFromProgram
<1>5. KnowledgeKept' BY <1>1, SameAPIs DEF Called, KnowledgeKept, Complete
<1> QED BY <1>2, <1>3, <1>4, <1>5 DEF Called

\* The method is called again, on the client of the first call.
LEMMA AgainStarts ==
    ASSUME Called, InvokeAgain
    PROVE  Called'
<1>1. /\ UNCHANGED <<routine, doors, client, todo, sending, faults>>
      /\ outcome # "none" /\ limit' = NoLimit /\ callsMade < MaxCalls /\ callsMade' = callsMade + 1
      /\ pc' = 1 /\ outcome' = "none" /\ effects' = {}
  BY DEF InvokeAgain
<1>0. CallTyped /\ callsMade \in 1..MaxCalls /\ MaxCalls \in Nat
  BY BoundsAssumption DEF BoundsAssumption, Called, CallTyped
<1>6. Len(routine) \in Nat /\ Prepared(routine, Asked(routine)) BY <1>0, ProgramSound
<1>2. CallTyped'
  <2>1. pc' \in 1..(Len(routine') + 1) /\ callsMade' \in 1..MaxCalls BY <1>0, <1>1, <1>6
  <2>2. limit'[1] \in {"none", "api", "package"} /\ limit'[3] \in 0..Latest
    BY <1>1, NoLimitTyped DEF Latest
  <2> QED BY <1>0, <1>1, <2>1, <2>2 DEF CallTyped
<1>3. ClientTyped' BY <1>1 DEF Called, ClientTyped
<1>4. RequestsSound' /\ AttemptsCounted' /\ EffectsFromProgram'
  BY <1>1 DEF Called, RequestsSound, AttemptsCounted, CarriedOutOnce, Request1, EffectsFromProgram
<1>5. KnowledgeKept'
  <2>1. callsMade' # 1 BY <1>0, <1>1
  <2>2. Asked(routine')[pc'] = {} BY <1>1, <1>6 DEF Prepared
  <2>3. outcome' = "none" BY <1>1
  <2> QED BY <2>1, <2>2, <2>3 DEF KnowledgeKept
<1> QED BY <1>2, <1>3, <1>4, <1>5 DEF Called

\* The client is evicted.
LEMMA ForgetRests ==
    ASSUME DispatchInv, Forget
    PROVE  AtRest'
<1>1. todo = <<>> /\ sending = NotSending
  BY DEF DispatchInv, AtRest, Called, RequestsSound, AttemptsCounted, Forget
<1> QED BY <1>1 DEF AtRest, Forget

\* Any step of the method.
LEMMA StepKeeps ==
    ASSUME Called, NEW step \in Current,
           \/ LocalError(step) \/ Choose(step) \/ FailStep(step) \/ DiscoverStep(step)
           \/ SelectStep(step) \/ OptionalStep(step) \/ RequireStep(step) \/ OutsideStep(step)
           \/ LearnFails(step) \/ Unavailable(step) \/ Answered(step) \/ RefusedByDSM(step)
           \/ \E b \in BOOLEAN : Lost(step, b) \/ SessionEnded(step, b)
    PROVE  Called'
BY LocalErrorKeeps, ChooseKeeps, FailKeeps, DiscoverKeeps, SelectKeeps, OptionalKeeps, RequireKeeps,
   OutsideKeeps, LearnFailsKeeps, UnavailableKeeps, AnsweredKeeps, RefusedKeeps, LostKeeps,
   SessionEndedKeeps

\* Steps of other parts leave the invocation alone.
LEMMA StutterKeeps ==
    ASSUME DispatchInv, UNCHANGED dispatchVars
    PROVE  DispatchInv'
<1>0. UNCHANGED <<routine, doors, limit, client, pc, todo, sending, effects, outcome, faults, callsMade>>
  BY DEF dispatchVars
<1>1. CASE AtRest BY <1>0, <1>1 DEF DispatchInv, AtRest
<1>2. CASE Called
  <2>1. CallTyped' BY <1>0, <1>2 DEF Called, CallTyped
  <2>2. ClientTyped' BY <1>0, <1>2 DEF Called, ClientTyped
  <2>3. RequestsSound' /\ AttemptsCounted' /\ EffectsFromProgram'
    BY <1>0, <1>2 DEF Called, RequestsSound, AttemptsCounted, CarriedOutOnce, Request1, EffectsFromProgram
  <2>4. KnowledgeKept' BY <1>0, <1>2, SameAPIs DEF Called, KnowledgeKept, Complete, Knows, Installed
  <2> QED BY <2>1, <2>2, <2>3, <2>4 DEF DispatchInv, Called
<1> QED BY <1>1, <1>2 DEF DispatchInv

\* Every step of the dispatch machine keeps the invariant.
LEMMA DispatchKeeps ==
    ASSUME DispatchInv, DispatchNext
    PROVE  DispatchInv'
<1>1. CASE \E entries \in {Offered} : \E e \in entries :
           \E leading \in {DoorsTo(e.program, entries)} :
               \/ \E lack \in Limits(e.program) :
                      Invoke(e.program, {door \in leading : door.callers # {}}, lack)
               \/ \E door \in leading : Deny(door)
  <2>1. PICK e \in Offered :
           \/ \E lack \in Limits(e.program) :
                  Invoke(e.program, {door \in DoorsTo(e.program, Offered) : door.callers # {}}, lack)
           \/ \E door \in DoorsTo(e.program, Offered) : Deny(door)
    BY <1>1
  <2>2. doors = {} /\ Offered = Entries BY <2>1 DEF Offered
  <2>3. AtRest BY <2>2 DEF DispatchInv, Called, CallTyped
  <2>4. /\ e \in Entries
        /\ \/ \E lack \in Limits(e.program) :
                  Invoke(e.program, {door \in DoorsTo(e.program, Entries) : door.callers # {}}, lack)
           \/ \E door \in DoorsTo(e.program, Entries) : Deny(door)
    BY <2>1, <2>2
  <2>5. CASE \E door \in DoorsTo(e.program, Entries) : Deny(door)
    BY <2>2, <2>3, <2>4, <2>5, DeniedKeeps DEF DispatchInv
  <2>6. CASE \E lack \in Limits(e.program) :
                Invoke(e.program, {door \in DoorsTo(e.program, Entries) : door.callers # {}}, lack)
    <3> DEFINE open == {door \in DoorsTo(e.program, Entries) : door.callers # {}}
    <3>1. PICK lack \in Limits(e.program) : Invoke(e.program, open, lack) BY <2>6
    <3>2. open \in SUBSET DoorsTo(e.program, Entries) OBVIOUS
    <3> HIDE DEF open
    <3>3. Called' BY <2>2, <2>3, <2>4, <3>1, <3>2, InvokeStarts
    <3> QED BY <3>3 DEF DispatchInv
  <2> QED BY <2>4, <2>5, <2>6
<1>2. CASE Forget
  BY <1>2, ForgetRests DEF DispatchInv
<1>3. CASE AtRest /\ ~Forget
  <2>1. ~Running BY <1>3 DEF AtRest, Running
  <2>2. Current = {} BY <2>1 DEF Current
  <2>3. ~Return /\ ~LearnAPI /\ ~InvokeAgain
    BY <1>3, <2>1 DEF Return, LearnAPI, Sending, InvokeAgain, AtRest
  <2> QED BY <1>1, <1>3, <2>2, <2>3 DEF DispatchNext
<1>4. CASE Called
  <2>1. CASE \E step \in Current :
           \/ LocalError(step) \/ Choose(step) \/ FailStep(step) \/ DiscoverStep(step)
           \/ SelectStep(step) \/ OptionalStep(step) \/ RequireStep(step) \/ OutsideStep(step)
           \/ LearnFails(step) \/ Unavailable(step) \/ Answered(step) \/ RefusedByDSM(step)
           \/ \E b \in BOOLEAN : Lost(step, b) \/ SessionEnded(step, b)
    BY <1>4, <2>1, StepKeeps DEF DispatchInv
  <2>2. CASE Return BY <1>4, <2>2, ReturnKeeps DEF DispatchInv
  <2>3. CASE InvokeAgain BY <1>4, <2>3, AgainStarts DEF DispatchInv
  <2>4. CASE LearnAPI BY <1>4, <2>4, LearnAPIKeeps DEF DispatchInv
  <2> QED BY <1>1, <1>2, <2>1, <2>2, <2>3, <2>4 DEF DispatchNext
<1> QED BY <1>2, <1>3, <1>4 DEF DispatchInv

\* The invariant of the dispatch machine.
LEMMA DispatchInvariant == DispatchSpec => []DispatchInv
<1>1. DispatchInit => DispatchInv
  BY DEF DispatchInit, DispatchInv, AtRest
<1>2. DispatchInv /\ [DispatchNext]_dispatchVars => DispatchInv'
  BY DispatchKeeps, StutterKeeps
<1> QED BY <1>1, <1>2, PTL DEF DispatchSpec

\* What is recorded of the tool or command that is called.
LEMMA DoorTyped ==
    ASSUME NEW e \in Entries
    PROVE  /\ Door(e).kind \in {"tool", "command"} /\ Door(e).callers \subseteq Callers
           /\ Door(e).callers = AdmittedTo(e) /\ Door(e).hint = e.hint
           /\ Door(e).role = IF e.kind = "command" THEN commandCatalogRole(e) ELSE "none"
<1>1. e.kind \in {"tool", "command"} BY AccessAssumption DEF AccessAssumption
<1>2. AdmittedTo(e) \subseteq Callers BY DEF AdmittedTo
<1> QED BY <1>1, <1>2 DEF Door

\* Every variable of the dispatch machine has its type: in particular no
\* selection is ambiguous, and of a request at most two rounds of attempts are
\* carried out.
THEOREM DispatchTypes == DispatchSpec => []DispatchTypeOK
<1>1. DispatchInv => DispatchTypeOK
  <2>1. ASSUME AtRest PROVE DispatchTypeOK
    <3>1. /\ limit[1] = "none" /\ limit[3] = 0 /\ sending.attempt = 1 /\ sending.carried = 0
          /\ MaxAttempts \in Nat \ {0} /\ MaxFaults \in Nat /\ MaxCalls \in Nat
      BY <2>1, NoLimitTyped, NotSendingTyped, BoundsAssumption DEF AtRest, BoundsAssumption
    <3>2. client.release \in BOOLEAN /\ client.packagesKnown \in BOOLEAN /\ DOMAIN client.apis = {}
      BY <2>1 DEF AtRest, NewClient
    <3>3. \A door \in doors : door.kind \in {"tool", "command"} /\ door.callers \subseteq Callers
      BY <2>1, DoorTyped DEF AtRest
    <3>4. pc \in 1..(Len(routine) + 1) /\ effects = {} /\ faults = 0 /\ callsMade = 0
          /\ outcome \in {"none", "denied"}
      BY <2>1 DEF AtRest
    <3>5. /\ sending.attempt \in 1..MaxAttempts /\ sending.carried \in 0..(2 * MaxAttempts)
          /\ faults \in 0..MaxFaults /\ callsMade \in 0..MaxCalls /\ limit[3] \in 0..Latest
      BY <3>1, <3>4 DEF Latest
    <3> QED BY <3>1, <3>2, <3>3, <3>4, <3>5 DEF DispatchTypeOK
  <2>2. ASSUME Called PROVE DispatchTypeOK
    <3>1. \A door \in doors : door.kind \in {"tool", "command"} /\ door.callers \subseteq Callers
      BY <2>2, DoorTyped DEF Called, CallTyped
    <3>2. sending.attempt \in 1..MaxAttempts /\ sending.carried \in 0..(2 * MaxAttempts)
      <4>1. /\ sending.attempt \in 1..MaxAttempts /\ sending.carried \in Nat
            /\ sending.carried <= sending.attempt - 1 + (IF sending.again THEN MaxAttempts - 1 ELSE 0)
        BY <2>2 DEF Called, AttemptsCounted
      <4>2. MaxAttempts \in Nat \ {0} BY NotSendingTyped
      <4> QED BY <4>1, <4>2
    <3>3. callsMade \in 0..MaxCalls /\ faults \in 0..MaxFaults
      BY <2>2, BoundsAssumption DEF Called, CallTyped, BoundsAssumption
    <3> QED BY <2>2, <3>1, <3>2, <3>3 DEF DispatchTypeOK, Called, CallTyped, ClientTyped, EffectsFromProgram
  <2> QED BY <2>1, <2>2 DEF DispatchInv
<1> QED BY <1>1, DispatchInvariant, PTL

\* What an invocation of any tool or command changes is covered by what its
\* caller was let in for, through the tools, services, client and operations,
\* and however many requests its loops send and whatever goes wrong.
THEOREM EffectsAreAuthorized == DispatchSpec => []EffectsAuthorized
<1>1. DispatchInv => EffectsAuthorized
  <2> SUFFICES ASSUME Called, effects # {}, NEW door \in doors
               PROVE  /\ \A who \in door.callers :
                             \/ who \in {"local", "user"}
                             \/ who \in {"nas.apply", "nas.provision"} /\ effects = {"nas"}
                      /\ door.role # "plan"
                      /\ "nas" \in effects => door.hint # "readOnly"
    BY DEF DispatchInv, AtRest, EffectsAuthorized
  <2>1. PICK e \in Entries : e.program = routine /\ door = Door(e) BY DEF Called, CallTyped
  <2>2. /\ effects \subseteq {"nas", "host"}
        /\ "nas" \in effects => ChangesNAS(e.program)
        /\ "host" \in effects => WritesHost(e.program)
    BY <2>1 DEF Called, EffectsFromProgram
  <2>3. /\ e.kind = "command" => e \notin New
        /\ ChangesNAS(e.program) =>
            /\ e \notin NewReadOnly /\ e.hint # "readOnly"
            /\ e.kind = "command" => commandCatalogRole(e) # "plan"
            /\ e \in NewRemote => ToolScope(e) \in {"nas.apply", "nas.provision"}
        /\ WritesHost(e.program) =>
            /\ e \notin NewReadOnly /\ e \notin NewRemote
            /\ e.kind = "command" => commandCatalogRole(e) # "plan"
    BY AccessAssumption, Zenon DEF AccessAssumption
  <2>4. /\ door.callers = AdmittedTo(e) /\ door.hint = e.hint
        /\ door.role = IF e.kind = "command" THEN commandCatalogRole(e) ELSE "none"
    BY <2>1, DoorTyped
  <2>5. "nas" \in effects \/ "host" \in effects BY <2>2
  <2>6. door.role # "plan" BY <2>2, <2>3, <2>4, <2>5
  <2>7. ASSUME NEW who \in door.callers, who \notin {"local", "user"}
        PROVE  who \in {"nas.apply", "nas.provision"} /\ effects = {"nas"}
    <3>1. Admits(who, e) BY <2>4, <2>7 DEF AdmittedTo
    <3>2. CASE who = "developer"
      <4>1. e \in NewReadOnly BY <3>1, <3>2 DEF Admits
      <4> QED BY <2>2, <2>3, <2>5, <4>1
    <3>3. CASE who # "developer"
      <4>1. e \in NewRemote /\ ToolScope(e) = who BY <2>7, <3>1, <3>3 DEF Admits
      <4>2. "host" \notin effects BY <2>2, <2>3, <4>1
      <4>3. effects = {"nas"} BY <2>2, <2>5, <4>2
      <4> QED BY <2>2, <2>3, <4>1, <4>3
    <3> QED BY <3>2, <3>3
  <2> QED BY <2>2, <2>3, <2>4, <2>6, <2>7
<1> QED BY <1>1, DispatchInvariant, PTL

\* requestWithRetryLocked never sends a request again that changes the NAS and
\* that DSM has carried out, whatever the number of attempts.
THEOREM ChangesAreCarriedOutOnce == DispatchSpec => []CarriedOutOnce
<1>1. DispatchInv => CarriedOutOnce
  <2>1. AtRest => CarriedOutOnce BY NotSendingTyped DEF AtRest, CarriedOutOnce
  <2> QED BY <2>1 DEF DispatchInv, Called, AttemptsCounted
<1> QED BY <1>1, DispatchInvariant, PTL

\* A variant matches what the client knows exactly when the NAS has it, unless
\* what the client remembers of its APIs is out of date.
LEMMA MatchOnNAS ==
    ASSUME Called, NEW step \in Current, step.do \in SendingSteps, 1 \in DOMAIN step.operations,
           \A api \in Needed(step.operations[1]) : ~Outdated(api),
           NEW i \in DOMAIN step.operations[1]
    PROVE  Match(step.operations[1][i], target)
           <=> Match(step.operations[1][i], OnNAS(Needed(step.operations[1])))
<1> DEFINE operation == step.operations[1]
           v == operation[i]
           nas == OnNAS(Needed(operation))
<1>1. /\ step = routine[pc] /\ pc \in DOMAIN routine /\ CallTyped
      /\ \A a \in Asked(routine)[pc] : Knows(a)
  BY CurrentStepSound DEF Called, KnowledgeKept
<1>2. /\ Needed(operation) \subseteq Asked(routine)[pc]
      /\ (\E x \in Variants(<<step>>) : x.package # "") => Catalogue \in Asked(routine)[pc]
  BY <1>1, ProgramSound DEF Prepared
<1>3. v.package # "" => client.packagesKnown /\ client.packages = Installed
  <2>1. v \in Variants(<<step>>) BY VariantsOfStep
  <2> HIDE DEF v
  <2>2. v.package # "" => Knows(Catalogue) BY <1>1, <1>2, <2>1
  <2> QED BY <2>2 DEF Knows
<1>4. OperationSound(operation) BY OperationOfStep
<1> HIDE DEF operation
<1>5. ASSUME NEW need \in v.needs
      PROVE  /\ need[1] \in Needed(operation) /\ need[1] \in DOMAIN client.apis
             /\ client.apis[need[1]] = HighestVersion(need[1])
  <2>1. need[1] \in Needed(operation)
    <3>1. need[1] \in {n[1] : n \in operation[i].needs} OBVIOUS
    <3> QED BY <3>1 DEF Needed, operation
  <2>2. need[1] # Catalogue BY <1>4 DEF OperationSound, operation
  <2>3. need[1] \in DOMAIN client.apis BY <1>1, <1>2, <2>1, <2>2 DEF Knows
  <2> QED BY <2>1, <2>3 DEF Outdated, operation
<1>6. /\ target.apis = [a \in {b \in DOMAIN client.apis : client.apis[b] # 0} |-> client.apis[a]]
      /\ target.packages = client.packages /\ target.packagesKnown = client.packagesKnown
  BY DEF target, Target
<1>7. /\ nas.apis = [a \in {b \in Needed(operation) : HighestVersion(b) # 0} |-> HighestVersion(a)]
      /\ nas.packages = Installed /\ nas.packagesKnown = TRUE
  BY DEF OnNAS, Target
<1> HIDE DEF nas, v
<1>8. ASSUME NEW need \in v.needs
      PROVE  APIVersion(target, need[1], need[2]) <=> APIVersion(nas, need[1], need[2])
  <2>1. need[1] \in DOMAIN target.apis <=> need[1] \in DOMAIN nas.apis BY <1>5, <1>6, <1>7
  <2>2. need[1] \in DOMAIN nas.apis => target.apis[need[1]] = nas.apis[need[1]]
    BY <1>5, <1>6, <1>7
  <2> QED BY <2>1, <2>2 DEF APIVersion
<1>9. v.package # "" =>
        (PackageVersionRange(target, v.package, v.minimum)
         <=> PackageVersionRange(nas, v.package, v.minimum))
  BY <1>3, <1>6, <1>7 DEF PackageVersionRange
<1>10. Match(v, target) <=> Match(v, nas) BY <1>8, <1>9 DEF Match
<1> QED BY <1>10 DEF v, nas, operation

\* Every method discovers what it selects on before it selects; Operation.Select
\* finds the best variant the NAS has in one pass, and nothing is refused on a
\* NAS that has everything, unless the client remembers an API as it was in an
\* earlier call; what is selected for a package is selected on the packages
\* installed now, in every later call too.
THEOREM SelectionIsSound == DispatchSpec => []SelectionSound
<1>1. DispatchInv => CompleteNASServed
  <2>1. Called => CompleteNASServed
    BY DEF Called, CallTyped, KnowledgeKept, Complete, CompleteNASServed
  <2>2. AtRest => UpToDate BY DEF AtRest, NewClient, UpToDate
  <2> QED BY <2>1, <2>2 DEF DispatchInv, AtRest, CompleteNASServed
<1>2. DispatchInv /\ Current # {} => Called
  BY DEF DispatchInv, AtRest, Current, Running
<1>3. DispatchInv => BestVariant
  <2> SUFFICES ASSUME Called, NEW step \in Current, Starts(step, SendingSteps),
                      \A api \in Needed(step.operations[1]) : ~Outdated(api)
               PROVE  LET operation == step.operations[1]
                          offered == {i \in DOMAIN operation :
                                         Match(operation[i], OnNAS(Needed(operation)))}
                          selected == Selected(step)
                      IN  /\ selected.found <=> offered # {}
                          /\ selected.found =>
                                 \E i \in offered :
                                     /\ operation[i] = selected.variant
                                     /\ \A j \in offered \ {i} :
                                            operation[j].priority < operation[i].priority
    BY <1>2 DEF BestVariant, SendingSteps
  <2> DEFINE operation == step.operations[1]
             offered == {i \in DOMAIN operation : Match(operation[i], OnNAS(Needed(operation)))}
             selected == Selected(step)
  <2>1. step.do \in SendingSteps BY DEF Starts
  <2>2. 1 \in DOMAIN step.operations BY <2>1, FirstOperation
  <2>3. operation \in Seq(VariantShape) /\ SelectedAmong(operation, target, Len(operation), selected)
    BY <2>2, OperationOfStep DEF Selected
  <2>4. DOMAIN operation = 1..Len(operation) BY <2>3
  <2>5. ASSUME NEW i \in DOMAIN operation
        PROVE  Match(operation[i], target) <=> Match(operation[i], OnNAS(Needed(operation)))
    BY <2>1, <2>2, MatchOnNAS
  <2> HIDE DEF operation, selected
  <2>6. /\ selected.found <=> offered # {}
        /\ selected.found =>
               \E i \in offered : /\ operation[i] = selected.variant
                                  /\ \A j \in offered \ {i} :
                                         operation[j].priority < operation[i].priority
    BY <2>3, <2>4, <2>5 DEF SelectedAmong
  <2> QED BY <2>6 DEF operation, selected
<1>4. DispatchInv => CatalogueFresh
  <2> SUFFICES ASSUME Called, NEW step \in Current, Starts(step, {"run", "optional"}),
                      \E v \in Variants(<<step>>) : v.package # ""
               PROVE  client.packagesKnown /\ client.packages = Installed
    BY <1>2 DEF CatalogueFresh
  <2>1. step = routine[pc] /\ pc \in DOMAIN routine /\ outcome = "none" BY CurrentStepSound
  <2>2. Prepared(routine, Asked(routine)) BY ProgramSound DEF Called
  <2>3. Catalogue \in Asked(routine)[pc]
    <3>1. step.do \in SendingSteps BY DEF Starts, SendingSteps
    <3> QED BY <2>1, <2>2, <3>1 DEF Prepared
  <2>4. Knows(Catalogue) BY <2>1, <2>3 DEF Called, KnowledgeKept
  <2> QED BY <2>4 DEF Knows
<1>5. DispatchInv => SelectionSound BY <1>1, <1>3, <1>4 DEF SelectionSound
<1> QED BY <1>5, DispatchInvariant, PTL

-----------------------------------------------------------------------------
(***************************************************************************)
(* The composition that TLC runs.                                          *)
(***************************************************************************)

\* A behaviour of the composition is one of each of its machines, so that what
\* is proved of a machine holds of the machine that runs and of those that
\* rest.
THEOREM SurfacesImplementMachines ==
    MCSpec => /\ DispatchSpec /\ FirewallSpec /\ StorageSpec
              /\ EdgeSpec /\ AdminSpec /\ VaultSpec
<1>1. MCInit => /\ DispatchInit /\ FirewallInit /\ StorageInit
                /\ EdgeInit /\ AdminInit /\ VaultInit
  BY DEF MCInit, FirewallAtRest, StorageAtRest
<1>2. [MCNext]_surfaceVars =>
        /\ [DispatchNext]_dispatchVars /\ [FirewallNext]_firewallVars
        /\ [StorageNext]_storageVars /\ [LimiterNext \/ BinderNext]_edgeVars
        /\ [AdminNext]_adminVars /\ [VaultNext]_vaultVars
  BY DEF MCNext, surfaceVars, RequestsPart, DispatchesPart, FirewallPart, LimiterPart,
         BinderPart, AdministratorsPart, VaultPart, StoragePart
<1> QED
  BY <1>1, <1>2, PTL
  DEF MCSpec, DispatchSpec, FirewallSpec, StorageSpec, EdgeSpec, AdminSpec, VaultSpec

\* Tools, firewall, volumes, server, administrators and vault stay well typed
\* together, with every table within its limit.
THEOREM SurfaceTypes == MCSpec => []SurfacesTypeOK
<1>1. /\ DispatchTypeOK /\ FirewallTypeOK /\ StorageTypeOK
      /\ EdgeTypeOK /\ AdminTypeOK /\ VaultTypeOK
      => SurfacesTypeOK
  BY DEF SurfacesTypeOK
<1> QED
  BY <1>1, SurfacesImplementMachines, DispatchTypes, FirewallTypes, StorageTypes,
     EdgeTypes, AdminTypes, VaultTypes, PTL

=============================================================================
