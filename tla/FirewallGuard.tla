---------------------------- MODULE FirewallGuard ----------------------------
(***************************************************************************)
(* internal/domain/firewall and the guarded firewall writes of             *)
(* internal/application/firewall_write.go.  Before a change takes effect   *)
(* the never-lockout guard asks an evaluator of its own whether the        *)
(* resulting rules would provably let the current session through.         *)
(*                                                                         *)
(* A rule is reduced to how it matches the session's address, port and     *)
(* protocol: "yes" or "maybe" (the evaluator cannot decide it), and really *)
(* says whether DSM will in fact match it; the guard does not read that.   *)
(* deny stands for deny and drop.  The source to keep is one address: a    *)
(* keep_reachable with a range is left out.  External: DSM's own           *)
(* evaluation, and on which adapter the session comes in.                  *)
(*                                                                         *)
(* Bound: the effort is at most MaxEffort: 1 for every rule, in the first  *)
(* profile or in an edit, 2 for an edit and 1 for enabling or disabling.   *)
(***************************************************************************)
EXTENDS Integers, FiniteSets, Sequences

CONSTANTS Operator, MaxEffort

ASSUME FirewallAssumption == Operator # {} /\ MaxEffort \in Nat /\ MaxEffort >= 2

VARIABLES
    enabled, active,  \* FirewallStatus
    profiles,         \* name -> adapter -> section
    ingress,          \* the adapter the session comes in on
    change,           \* what each operator is doing
    overridden,       \* allow_connectivity_break let a lockout pass
    raced,            \* a write came between another one's check and write
    effort

firewallVars == <<enabled, active, profiles, ingress, change, overridden, raced, effort>>

Profile == {"default", "custom"}
Named == Profile \union {"unknown"}  \* what a request may name
Adapter == {"global", "nic"}
NoSection == [policy |-> "none", rules |-> <<>>]  \* also of an adapter that is not listed

Rule(match, really, policy) == [match |-> match, really |-> really, policy |-> policy]
\* the rules that tell the evaluator and DSM apart, and the plain ones; a rule
\* that is not enabled, or does not match, is as good as none
RulesUsed ==
    {Rule("yes", TRUE, "allow"), Rule("yes", TRUE, "deny"),
     Rule("maybe", TRUE, "deny"), Rule("maybe", FALSE, "allow")}
Section(n) ==
    [policy : {"allow", "deny", "none"}, rules : UNION {[1..k -> RulesUsed] : k \in 0..n}]

(***************************************************************************)
(* The evaluator.                                                          *)
(***************************************************************************)
SectionTrusting(section) == \* Fault: a rule that may match is skipped whatever it does
    LET decisive == {i \in DOMAIN section.rules : section.rules[i].match = "yes"}
    IN  IF decisive # {}
        THEN IF section.rules[CHOOSE i \in decisive : \A j \in decisive : i <= j].policy = "allow"
             THEN "allowed" ELSE "blocked"
        ELSE CASE section.policy = "allow" -> "allowed"
               [] section.policy = "deny" -> "blocked"
               [] OTHER -> "undecided"

\* The first enabled rule that matches, or that may match and blocks.
evaluateSection(section) ==
    LET decisive == {i \in DOMAIN section.rules :
                        \/ section.rules[i].match = "yes"
                        \/ section.rules[i].match = "maybe" /\ section.rules[i].policy # "allow"}
    IN  IF decisive # {}
        THEN IF section.rules[CHOOSE i \in decisive : \A j \in decisive : i <= j].policy = "allow"
             THEN "allowed" ELSE "blocked"
        ELSE CASE section.policy = "allow" -> "allowed"
               [] section.policy = "deny" -> "blocked"
               [] OTHER -> "undecided"

adapterConfigured(section) == section.rules # <<>> \/ section.policy # "none"

\* reachChain.evaluate: the adapter, then all interfaces, then allow
ChainAllows(profile, chain) ==
    LET deciding == {i \in DOMAIN chain : evaluateSection(profile[chain[i]]) # "undecided"}
        first == CHOOSE i \in deciding : \A j \in deciding : i <= j
    IN  deciding # {} => evaluateSection(profile[chain[first]]) = "allowed"

ConfiguredChainsAllow(profile) == \* Fault: all interfaces only when no adapter is configured
    IF adapterConfigured(profile["nic"]) THEN ChainAllows(profile, <<"nic", "global">>)
    ELSE ChainAllows(profile, <<"global">>)

\* under every chain the session may come in on
ProfileAllowsSession(profile) ==
    /\ adapterConfigured(profile["nic"]) => ChainAllows(profile, <<"nic", "global">>)
    /\ ChainAllows(profile, <<"global">>)

MergeProfile(current, desired) ==
    [a \in Adapter |-> IF a \in DOMAIN desired THEN desired[a] ELSE current[a]]

(***************************************************************************)
(* What DSM does (external): the first rule that really matches decides,   *)
(* then the default of the section, then all interfaces, then allow.       *)
(***************************************************************************)
Verdict(section) ==
    LET matching == {i \in DOMAIN section.rules : section.rules[i].really}
    IN  IF matching # {}
        THEN section.rules[CHOOSE i \in matching : \A j \in matching : i <= j].policy
        ELSE IF section.policy \in {"allow", "deny"} THEN section.policy ELSE "none"

Reachable(profile) ==
    LET own == IF ingress = "nic" THEN Verdict(profile["nic"]) ELSE "none"
    IN  IF own # "none" THEN own = "allow" ELSE Verdict(profile["global"]) # "deny"

NoRules == [a \in Adapter |-> NoSection]
Rules(p) == IF p \in DOMAIN profiles THEN profiles[p] ELSE NoRules

SessionSurvives == enabled => Reachable(Rules(active))

NoChange == [step |-> "idle"]

FirewallInit ==
    /\ enabled \in BOOLEAN /\ active = "default"
    /\ \E global, nic \in Section(2) :
        /\ Len(global.rules) + Len(nic.rules) <= 2
        /\ profiles = [p \in Profile |-> [a \in Adapter |->
              IF p = "custom" THEN NoSection ELSE IF a = "global" THEN global ELSE nic]]
    /\ ingress \in {"nic", "other"}
    /\ SessionSurvives
    /\ change = [o \in Operator |-> NoChange]
    /\ overridden = FALSE /\ raced = FALSE
    /\ effort = Len(profiles["default"]["global"].rules) + Len(profiles["default"]["nic"].rules)

(***************************************************************************)
(* Planning.  A request is a change of one adapter of a profile, or of the *)
(* enable flag.                                                            *)
(***************************************************************************)
Edit(profile, desired, activate) ==
    [kind |-> "edit", profile |-> profile, desired |-> desired, activate |-> activate]
Enable(on, profile) == [kind |-> "enable", profile |-> profile, on |-> on]

Resulting(r) ==
    IF r.kind = "edit" THEN MergeProfile(Rules(r.profile), r.desired) ELSE Rules(r.profile)

TakesEffectIfActive(r) == \* Fault: activating is not an effect
    IF r.kind = "enable" THEN r.on ELSE enabled /\ active = r.profile

TakesEffect(r) ==
    IF r.kind = "enable" THEN r.on ELSE r.activate \/ (enabled /\ active = r.profile)

Pointless(r) ==
    IF r.kind = "edit" THEN Resulting(r) = Rules(r.profile) /\ ~r.activate
    ELSE IF r.on THEN enabled /\ active = r.profile ELSE ~enabled

\* "safe", "overridden", or "refused" by the guard.  The session has one address;
\* where it is not determined, or is not an address, the call is refused too.
Guard(r, allowBreak) ==
    IF ~TakesEffect(r) \/ ProfileAllowsSession(Resulting(r)) THEN "safe"
    ELSE IF allowBreak THEN "overridden" ELSE "refused"

\* FirewallRules answers with the profile; disabling does not read it
Found(r) == r.profile \in DOMAIN profiles \/ (r.kind = "enable" /\ ~r.on)

Observed(r) == [enabled |-> enabled, active |-> active, profile |-> Rules(r.profile)]

Cost(r) == IF r.kind = "edit" THEN 2 + Len(r.desired[CHOOSE a \in DOMAIN r.desired : TRUE].rules) ELSE 1

PlanFirewall(o, r) ==
    /\ change[o].step = "idle" /\ SessionSurvives
    /\ effort + Cost(r) <= MaxEffort /\ effort' = effort + Cost(r)
    /\ Found(r) /\ ~Pointless(r)
    /\ \E allowBreak \in BOOLEAN :
        /\ Guard(r, allowBreak) = IF allowBreak THEN "overridden" ELSE "safe"
        /\ change' = [change EXCEPT ![o] = [step |-> "planned", request |-> r,
                                            observed |-> Observed(r), allowBreak |-> allowBreak]]
    /\ UNCHANGED <<enabled, active, profiles, ingress, overridden, raced>>

RecheckNothing(o) == \* Fault: the plan is applied without planning again
    /\ change[o].step = "planned"
    /\ change' = [change EXCEPT ![o].step = "write"]
    /\ UNCHANGED <<enabled, active, profiles, ingress, overridden, raced, effort>>

\* The plan is made again and compared with all it had observed.
Recheck(o) ==
    /\ change[o].step = "planned" /\ SessionSurvives
    /\ LET c == change[o]
       IN  change' = [change EXCEPT ![o] =
               IF Observed(c.request) = c.observed /\ ~Pointless(c.request)
                  /\ Guard(c.request, c.allowBreak) # "refused"
               THEN [c EXCEPT !.step = "write"] ELSE NoChange]
    /\ UNCHANGED <<enabled, active, profiles, ingress, overridden, raced, effort>>

\* ApplyFirewallProfileChange merges into the profile it reads again;
\* ApplyFirewallEnableChange switches.  Whether DSM also enables the firewall
\* when it applies a profile is not known.
Write(o) ==
    /\ change[o].step = "write" /\ SessionSurvives
    /\ LET r == change[o].request
       IN  /\ IF r.kind = "edit"
              THEN /\ profiles' = [profiles EXCEPT ![r.profile] = Resulting(r)]
                   /\ active' = IF r.activate THEN r.profile ELSE active
                   /\ enabled' \in {enabled, enabled \/ r.activate}
              ELSE /\ enabled' = r.on
                   /\ active' = IF r.on THEN r.profile ELSE active
                   /\ UNCHANGED profiles
           /\ overridden' = (overridden \/ (change[o].allowBreak /\ Guard(r, FALSE) = "refused"))
           /\ raced' = (raced \/ \E other \in Operator \ {o} : change[other].step = "write")
    /\ change' = [change EXCEPT ![o] = NoChange]
    /\ UNCHANGED <<ingress, effort>>

FirewallNext ==
    \E o \in Operator :
        \/ /\ effort + 2 <= MaxEffort
           /\ \E p \in Named, a \in Adapter, s \in Section(1), activate \in BOOLEAN :
                  PlanFirewall(o, Edit(p, [b \in {a} |-> s], activate))
        \/ /\ effort < MaxEffort
           /\ \E on \in BOOLEAN, p \in Named : PlanFirewall(o, Enable(on, p))
        \/ Recheck(o) \/ Write(o)

FirewallSpec == FirewallInit /\ [][FirewallNext]_firewallVars

-----------------------------------------------------------------------------

\* Every variable of the firewall has its type; the active profile is one there
\* is.
FirewallTypeOK ==
    /\ enabled \in BOOLEAN /\ active \in Profile /\ ingress \in {"nic", "other"}
    /\ DOMAIN profiles = Profile /\ effort \in 0..MaxEffort
    /\ \A o \in Operator : change[o].step \in {"idle", "planned", "write"}

\* No sequence of planned changes cuts off the session the guard protects:
\* neither one write whose rules the evaluator judged wrongly, on any adapter
\* and whatever the rules it could not decide turn out to match, nor several
\* that take effect only together (an edit of a profile that is not active,
\* then its activation).  Excepted are an explicit allow_connectivity_break
\* and a write that comes between another one's check and its write.
NeverLockedOut == ~overridden /\ ~raced => SessionSurvives

=============================================================================
