--------------------------- MODULE PlanApplyProofs ---------------------------
(***************************************************************************)
(* Proofs about PlanApply, for any set of callers, processes, machines,    *)
(* services, requests, fields and sections and any bounds.                 *)
(*                                                                         *)
(* The invariant ties a call to the profile and to the machines: a plan    *)
(* that was not torn and carries the gateway profile's present revision    *)
(* was made on the profile's present machine; an apply that passed the     *)
(* revision check, in a profile that has not moved since, still has its    *)
(* revision, and once resolved its client is the profile's; a machine that *)
(* is in the state a plan was made on is among those its apply has found   *)
(* so; of the calls that wait for one another one at a time is between its *)
(* read and its set; and what it read is still there unless somebody wrote *)
(* who does not wait.                                                      *)
(***************************************************************************)
EXTENDS PlanApply, TLAPS

(* The steps of an apply that come after a client was resolved.            *)
Resolved == {"replan", "rerevise", "reclient", "mutate", "set", "next",
             "verify", "applied"}

(* What is true of the plans that callers hold.                            *)
PlanFacts ==
    /\ 1 <= profile.revision
    /\ profile.revision <= profile.client
    /\ \A p \in plans :
          /\ p.revision <= profile.revision
          /\ ~p.torn /\ p.revision = profile.revision
                /\ profile.device # Absent
             => p.from = profile.device

(* What ties a call to the profile, as its process knows it, and to the    *)
(* plans.                                                                  *)
ProfileFacts(c) ==
    /\ call[c].pc \in Applying => call[c].plan \in plans
    /\ call[c].pc \in Planning /\ ~call[c].moved
       => call[c].plan.from = Configured(c).device
    /\ /\ call[c].pc \in Applying \ {"check"}
       /\ call[c].plan.service.revision
       /\ ~call[c].moved
       => /\ Configured(c).device # Absent
          /\ Configured(c).revision = call[c].plan.revision
    /\ call[c].pc \in Resolved /\ ~call[c].moved
       => call[c].client.nas = Configured(c).device

(* What ties it to the states of the machines.                             *)
StateFacts(c) ==
    /\ call[c].pc \in Applying
       => \A n \in Nas : nas[n] = call[c].plan.observed => n \in call[c].seen
    /\ call[c].pc \in {"rerevise", "reclient"}
       => /\ call[c].plan.service.replan = "service"
          /\ call[c].client.nas \in call[c].seen
    /\ /\ call[c].pc \in Writing
       /\ call[c].plan.service.replan \in {"client", "service"}
       => \/ call[c].client.nas \in call[c].seen
          \/ call[c].plan.service.replan = "service" /\ call[c].moved
    /\ call[c].pc = "verify" /\ Matches(Live(c), call[c].plan.request)
       => call[c].shown
    /\ call[c].pc = "applied" /\ call[c].plan.service.readback = "whole"
       => call[c].shown
    /\ call[c].pc = "set" /\ ~call[c].outside => call[c].basis = Live(c)

(* One call at a time holds a client.                                      *)
Exclusive == \A c \in Caller : call[c].pc \in Holding => ~Locked(c)

PlanInv ==
    /\ TypeOK
    /\ PlanFacts
    /\ Exclusive
    /\ \A c \in Caller : ProfileFacts(c)
    /\ \A c \in Caller : StateFacts(c)

-----------------------------------------------------------------------------
(* A patch of a state is a state.                                          *)
LEMMA PatchedType ==
  ASSUME NEW s \in State, NEW r \in Patches
  PROVE  /\ Patched(s, r) \in State
         /\ DOMAIN r \subseteq Field
         /\ \A f \in DOMAIN r : r[f] \in Value
BY DEF Patched, State, Patches

(* The profile as a process knows it.                                      *)
LEMMA ConfiguredType ==
  ASSUME TypeOK, NEW c \in Caller
  PROVE  /\ Configured(c) \in Profile
         /\ Configured(c).device # Absent => /\ Current(c) \in Client
                                             /\ nas[Configured(c).device] \in State
<1>1. Configured(c) \in Profile
  <2>1. CASE Home[c] = Gateway
    BY <2>1 DEF Configured, TypeOK
  <2>2. CASE Home[c] # Gateway
    <3>1. loaded[Home[c]] \in Nas
      BY <2>2, ConstantsAssumption DEF TypeOK, Local
    <3> QED
      BY <2>2, <3>1, ConstantsAssumption DEF Configured, Profile
  <2> QED
    BY <2>1, <2>2
<1> QED
  BY <1>1 DEF TypeOK, Current, Client, Profile

(* A call that is under way has a record.                                  *)
LEMMA RunningType ==
  ASSUME TypeOK, NEW c \in Caller, call[c].pc # "idle"
  PROVE  /\ call[c] \in CallRecord
         /\ Live(c) \in State
         /\ call[c].client.nas \in Nas
         /\ call[c].plan \in Plan
         /\ call[c].plan.request \in Patches
<1>1. call[c] \in CallRecord
  BY DEF TypeOK, Idle
<1>2. call[c].client.nas \in Nas /\ call[c].plan \in Plan
  BY <1>1 DEF CallRecord, Client
<1> QED
  BY <1>1, <1>2, ConstantsAssumption DEF TypeOK, Live, Plan

(* What noticing changes in a call, and what it does not.                  *)
LEMMA NoticedFields ==
  ASSUME TypeOK, NEW n \in Nas, NEW s \in State, NEW by \in SUBSET Caller,
         NEW c \in Caller
  PROVE  /\ call[c].pc \notin Applying => Noticed(n, s, by)[c] = call[c]
         /\ call[c].pc \in Applying =>
              /\ Noticed(n, s, by)[c] \in CallRecord
              /\ Noticed(n, s, by)[c].pc = call[c].pc
              /\ Noticed(n, s, by)[c].plan = call[c].plan
              /\ Noticed(n, s, by)[c].client = call[c].client
              /\ Noticed(n, s, by)[c].basis = call[c].basis
              /\ Noticed(n, s, by)[c].moved = call[c].moved
              /\ call[c].seen \subseteq Noticed(n, s, by)[c].seen
              /\ s = call[c].plan.observed => n \in Noticed(n, s, by)[c].seen
              /\ call[c].shown => Noticed(n, s, by)[c].shown
              /\ call[c].client.nas = n /\ Matches(s, call[c].plan.request)
                 => Noticed(n, s, by)[c].shown
              /\ call[c].outside => Noticed(n, s, by)[c].outside
              /\ call[c].client.nas = n /\ c \notin by
                 => Noticed(n, s, by)[c].outside
<1>1. CASE call[c].pc \notin Applying
  BY <1>1 DEF Noticed
<1>2. CASE call[c].pc \in Applying
  <2>1. call[c] \in CallRecord
    BY <1>2, RunningType DEF Applying
  <2> DEFINE e == IF s = call[c].plan.observed
                    THEN call[c].seen \cup {n} ELSE call[c].seen
             w == \/ call[c].shown
                  \/ /\ call[c].client.nas = n
                     /\ Matches(s, call[c].plan.request)
             o == \/ call[c].outside
                  \/ call[c].client.nas = n /\ c \notin by
  <2>2. Noticed(n, s, by)[c] =
          [call[c] EXCEPT !.seen = e, !.shown = w, !.outside = o]
    BY <1>2 DEF Noticed
  <2>3. e \in SUBSET Nas /\ w \in BOOLEAN /\ o \in BOOLEAN
    BY <2>1 DEF CallRecord
  <2>4. /\ call[c].seen \subseteq e
        /\ s = call[c].plan.observed => n \in e
        /\ call[c].shown => w
        /\ call[c].client.nas = n /\ Matches(s, call[c].plan.request) => w
        /\ call[c].outside => o
        /\ call[c].client.nas = n /\ c \notin by => o
    OBVIOUS
  <2> HIDE DEF e, w, o
  <2> QED
    BY <1>2, <2>1, <2>2, <2>3, <2>4 DEF CallRecord
<1> QED
  BY <1>1, <1>2

(* Noticing keeps the type of the calls.                                   *)
LEMMA NoticedType ==
  ASSUME TypeOK, NEW n \in Nas, NEW s \in State, NEW by \in SUBSET Caller
  PROVE  Noticed(n, s, by) \in [Caller -> {Idle} \cup CallRecord]
<1> SUFFICES ASSUME NEW c \in Caller
             PROVE  Noticed(n, s, by)[c] \in {Idle} \cup CallRecord
  BY DEF Noticed
<1> QED
  BY NoticedFields DEF TypeOK

-----------------------------------------------------------------------------
(* Nobody begins to hold a client, and who holds one keeps to it.          *)
LEMMA ExclusiveKept ==
  ASSUME Exclusive,
         \A d \in Caller : call'[d].pc \in Holding
            => call[d].pc \in Holding /\ call'[d].client = call[d].client
  PROVE  Exclusive'
BY DEF Exclusive, Locked, Together, Holding

(* A step of one call that leaves the profile and the machines alone.      *)
LEMMA OneCallChanges ==
  ASSUME PlanInv, NEW c \in Caller, NEW r \in {Idle} \cup CallRecord,
         call' = [call EXCEPT ![c] = r],
         UNCHANGED <<profile, loaded, nas, plans, edits>>,
         Exclusive', ProfileFacts(c)', StateFacts(c)'
  PROVE  PlanInv'
<1>1. TypeOK'
  BY DEF PlanInv, TypeOK
<1>2. PlanFacts'
  BY DEF PlanInv, PlanFacts
<1>3. ASSUME NEW d \in Caller, d # c
      PROVE  ProfileFacts(d)' /\ StateFacts(d)'
  <2>1. call'[d] = call[d] /\ ProfileFacts(d) /\ StateFacts(d)
    BY <1>3 DEF PlanInv, TypeOK
  <2>2. ProfileFacts(d)'
    BY <2>1 DEF ProfileFacts, Configured
  <2>3. StateFacts(d)'
    BY <2>1 DEF StateFacts, Matches, Live
  <2> QED
    BY <2>2, <2>3
<1> QED
  BY <1>1, <1>2, <1>3 DEF PlanInv

(* The same, when the call does not hold its client afterwards.            *)
LEMMA OneCallFree ==
  ASSUME PlanInv, NEW c \in Caller, NEW r \in {Idle} \cup CallRecord,
         call' = [call EXCEPT ![c] = r], r.pc \notin Holding,
         UNCHANGED <<profile, loaded, nas, plans, edits>>,
         ProfileFacts(c)', StateFacts(c)'
  PROVE  PlanInv'
<1>1. \A d \in Caller : call'[d].pc \in Holding
         => call[d].pc \in Holding /\ call'[d].client = call[d].client
  BY DEF PlanInv, TypeOK
<1>2. Exclusive'
  BY <1>1, ExclusiveKept DEF PlanInv
<1> QED
  BY <1>2, OneCallChanges

(* A call that has ended.                                                  *)
LEMMA IdleFacts ==
  ASSUME NEW c \in Caller, call'[c] = Idle
  PROVE  ProfileFacts(c)' /\ StateFacts(c)'
BY DEF ProfileFacts, StateFacts, Idle, Planning, Applying, Writing, Holding,
       Resolved

(* A planning call resolves its client.                                    *)
LEMMA PlanClientInv ==
  ASSUME PlanInv, NEW c \in Caller, NEW s \in Service, NEW r \in Request,
         PlanClient(c, s, r)
  PROVE  PlanInv'
<1> DEFINE p == [service |-> s, request |-> r,
                 observed |-> nas[Configured(c).device],
                 revision |-> Configured(c).revision,
                 from |-> Configured(c).device, torn |-> FALSE]
           k == [pc |-> "observe", plan |-> p, client |-> Current(c),
                 basis |-> nas[Configured(c).device],
                 part |-> {}, todo |-> {}, moved |-> FALSE,
                 outside |-> FALSE, seen |-> {}, shown |-> FALSE]
<1>0. TypeOK
  BY DEF PlanInv
<1>1. /\ Current(c) \in Client
      /\ nas[Configured(c).device] \in State
      /\ Configured(c).device \in Nas
      /\ Configured(c).revision \in 0 .. MaxClients
  BY <1>0, ConfiguredType DEF PlanClient, Profile
<1>2. p \in Plan
  BY <1>1 DEF Plan
<1>3. call' = [call EXCEPT ![c] = k]
      /\ UNCHANGED <<profile, loaded, nas, plans, edits>>
  BY DEF PlanClient
<1>4. p.from = Configured(c).device
  OBVIOUS
<1> HIDE DEF p
<1>5. k \in CallRecord /\ k.pc = "observe" /\ k.plan = p
  BY <1>1, <1>2 DEF CallRecord, Planning
<1> HIDE DEF k
<1>6. call'[c] = k /\ Configured(c)' = Configured(c)
  BY <1>0, <1>3 DEF TypeOK, Configured
<1>7. ProfileFacts(c)' /\ StateFacts(c)'
  BY <1>4, <1>5, <1>6 DEF ProfileFacts, StateFacts, Planning, Applying,
                          Writing, Holding, Resolved
<1> QED
  BY <1>3, <1>5, <1>7, OneCallFree DEF Holding

(* It observes the resource.                                               *)
LEMMA PlanObserveInv ==
  ASSUME PlanInv, NEW c \in Caller, PlanObserve(c)
  PROVE  PlanInv'
<1>0. TypeOK /\ ProfileFacts(c)
  BY DEF PlanInv
<1>1. call[c] \in CallRecord /\ Live(c) \in State /\ call[c].pc = "observe"
  BY <1>0, RunningType DEF PlanObserve
<1> DEFINE p == [call[c].plan EXCEPT !.observed = Live(c)]
           k == [call[c] EXCEPT !.pc = "revise", !.plan = p]
<1>2. p \in Plan /\ p.from = call[c].plan.from
  BY <1>1 DEF CallRecord, Plan
<1>3. call' = [call EXCEPT ![c] = k]
      /\ UNCHANGED <<profile, loaded, nas, plans, edits>>
  BY DEF PlanObserve
<1> HIDE DEF p
<1>4. k \in CallRecord /\ k.pc = "revise" /\ k.plan = p
      /\ k.moved = call[c].moved
  BY <1>1, <1>2 DEF CallRecord, Planning
<1> HIDE DEF k
<1>5. call'[c] = k /\ Configured(c)' = Configured(c)
  BY <1>0, <1>3 DEF TypeOK, Configured
<1>6. ProfileFacts(c)' /\ StateFacts(c)'
  BY <1>0, <1>1, <1>2, <1>4, <1>5
  DEF ProfileFacts, StateFacts, Planning, Applying, Writing, Holding, Resolved
<1> QED
  BY <1>3, <1>4, <1>6, OneCallFree DEF Holding

(* It returns the plan.                                                    *)
LEMMA PlanRevisionInv ==
  ASSUME PlanInv, NEW c \in Caller, PlanRevision(c)
  PROVE  PlanInv'
<1>0. TypeOK /\ PlanFacts /\ Exclusive /\ ProfileFacts(c)
  BY DEF PlanInv
<1>1. call[c] \in CallRecord /\ call[c].pc = "revise"
  BY <1>0, RunningType DEF PlanRevision
<1> DEFINE p == [call[c].plan EXCEPT !.revision = Configured(c).revision,
                                     !.torn = call[c].moved]
<1>2. Configured(c) \in Profile
  BY <1>0, ConfiguredType
<1>3. /\ p \in Plan
      /\ p.revision = Configured(c).revision
      /\ p.torn = call[c].moved
      /\ p.from = call[c].plan.from
  BY <1>1, <1>2 DEF CallRecord, Plan, Profile
<1>4. plans' = plans \cup {p} /\ call' = [call EXCEPT ![c] = Idle]
      /\ UNCHANGED <<profile, loaded, nas, edits>>
  BY DEF PlanRevision
<1> HIDE DEF p
<1>5. TypeOK'
  BY <1>0, <1>3, <1>4 DEF TypeOK
<1>6. PlanFacts'
  <2>1. ~p.torn => p.from = Configured(c).device
    BY <1>0, <1>1, <1>3 DEF ProfileFacts, Planning
  <2>2. \/ Configured(c) = profile
        \/ Configured(c).revision = 0
    BY DEF Configured
  <2>3. profile.revision \in Nat /\ profile.client \in Nat
    BY <1>0, ConstantsAssumption DEF TypeOK, Profile
  <2>4. /\ p.revision <= profile.revision
        /\ ~p.torn /\ p.revision = profile.revision => p.from = profile.device
    BY <1>0, <1>3, <2>1, <2>2, <2>3 DEF PlanFacts
  <2> QED
    BY <1>0, <1>4, <2>4 DEF PlanFacts
<1>7. call'[c] = Idle /\ \A d \in Caller \ {c} : call'[d] = call[d]
  BY <1>0, <1>4 DEF TypeOK
<1>8. Exclusive'
  BY <1>0, <1>7, ExclusiveKept DEF Idle, Holding
<1>9. ASSUME NEW d \in Caller
      PROVE  ProfileFacts(d)' /\ StateFacts(d)'
  <2>1. CASE d = c
    BY <1>7, <2>1, IdleFacts
  <2>2. CASE d # c
    <3>1. call'[d] = call[d] /\ ProfileFacts(d) /\ StateFacts(d)
      BY <1>7, <2>2 DEF PlanInv
    <3>2. ProfileFacts(d)'
      BY <1>4, <3>1 DEF ProfileFacts, Configured
    <3>3. StateFacts(d)'
      BY <1>4, <3>1 DEF StateFacts, Matches, Live
    <3> QED
      BY <3>2, <3>3
  <2> QED
    BY <2>1, <2>2
<1> QED
  BY <1>5, <1>6, <1>8, <1>9 DEF PlanInv

-----------------------------------------------------------------------------
(* A plan is submitted.                                                    *)
LEMMA SubmitInv ==
  ASSUME PlanInv, NEW c \in Caller, NEW p \in plans, Submit(c, p)
  PROVE  PlanInv'
<1>0. TypeOK
  BY DEF PlanInv
<1> DEFINE k == [pc |-> "check", plan |-> p,
                 client |-> [nas |-> p.from, number |-> 0],
                 basis |-> p.observed, part |-> {},
                 todo |-> DOMAIN p.request, moved |-> FALSE,
                 outside |-> FALSE,
                 seen |-> {n \in Nas : nas[n] = p.observed},
                 shown |-> FALSE]
<1>1. p \in Plan
  BY <1>0 DEF TypeOK
<1>2. DOMAIN p.request \subseteq Field /\ p.observed \in State
  BY <1>1, ConstantsAssumption DEF Plan, Patches
<1>3. [nas |-> p.from, number |-> 0] \in Client
  BY <1>1, ConstantsAssumption DEF Plan, Client
<1>4. call' = [call EXCEPT ![c] = k]
      /\ UNCHANGED <<profile, loaded, nas, plans, edits>>
  BY DEF Submit
<1>5. /\ k \in CallRecord
      /\ k.pc = "check"
      /\ k.plan = p
      /\ k.seen = {n \in Nas : nas[n] = p.observed}
  BY <1>1, <1>2, <1>3 DEF CallRecord, Applying
<1> HIDE DEF k
<1>6. call'[c] = k
  BY <1>0, <1>4 DEF TypeOK
<1>7. ProfileFacts(c)'
  BY <1>4, <1>5, <1>6 DEF ProfileFacts, Planning, Applying, Resolved
<1>8. StateFacts(c)'
  BY <1>4, <1>5, <1>6 DEF StateFacts, Applying, Writing, Holding
<1> QED
  BY <1>4, <1>5, <1>7, <1>8, OneCallFree DEF Holding

(* The checks of an apply.                                                 *)
LEMMA ChecksInv ==
  ASSUME PlanInv, NEW c \in Caller, NEW x \in Applying,
         \/ VerifyRevision(c) /\ x = "client"
         \/ ReplanRevision(c) /\ x = "reclient"
  PROVE  PlanInv'
<1>0. TypeOK /\ ProfileFacts(c) /\ StateFacts(c)
  BY DEF PlanInv
<1>1. call[c] \in CallRecord
  BY <1>0, RunningType DEF VerifyRevision, ReplanRevision
<1> DEFINE k == [call[c] EXCEPT !.pc = x]
<1>2. call' = [call EXCEPT ![c] = k]
      /\ UNCHANGED <<profile, loaded, nas, plans, edits>>
  BY DEF VerifyRevision, ReplanRevision
<1>3. /\ k \in CallRecord
      /\ k.pc = x
      /\ k.plan = call[c].plan
      /\ k.client = call[c].client
      /\ k.moved = call[c].moved
      /\ k.seen = call[c].seen
  BY <1>1 DEF CallRecord
<1> HIDE DEF k
<1>4. call'[c] = k /\ Configured(c)' = Configured(c)
  BY <1>0, <1>2 DEF TypeOK, Configured
<1>5. ProfileFacts(c)'
  BY <1>0, <1>2, <1>3, <1>4
  DEF VerifyRevision, ReplanRevision, RevisionHolds, ProfileFacts, Planning,
      Applying, Resolved
<1>6. StateFacts(c)'
  BY <1>0, <1>2, <1>3, <1>4
  DEF VerifyRevision, ReplanRevision, StateFacts, Applying, Writing, Holding
<1>7. k.pc \notin Holding
  BY <1>3 DEF Holding
<1> QED
  BY <1>2, <1>3, <1>5, <1>6, <1>7, OneCallFree

(* A client is resolved.                                                   *)
LEMMA ResolveInv ==
  ASSUME PlanInv, NEW c \in Caller, ResolveClient(c)
  PROVE  PlanInv'
<1>0. TypeOK /\ ProfileFacts(c) /\ StateFacts(c)
  BY DEF PlanInv
<1>1. call[c] \in CallRecord /\ call[c].pc \in {"client", "reclient"}
  BY <1>0, RunningType DEF ResolveClient
<1>2. Current(c) \in Client /\ Current(c).nas = Configured(c).device
  BY <1>0, ConfiguredType DEF ResolveClient, Current
<1> DEFINE k == [call[c] EXCEPT !.client = Current(c), !.pc = AfterClient(c)]
<1>3. call' = [call EXCEPT ![c] = k]
      /\ UNCHANGED <<profile, loaded, nas, plans, edits>>
  BY DEF ResolveClient
<1>4. /\ AfterClient(c) \in {"mutate", "replan"}
      /\ call[c].pc = "client" /\ AfterClient(c) = "mutate"
         => call[c].plan.service.replan = "none"
  BY <1>1 DEF AfterClient
<1>5. /\ k \in CallRecord
      /\ k.pc = AfterClient(c)
      /\ k.plan = call[c].plan
      /\ k.client = Current(c)
      /\ k.moved = call[c].moved
      /\ k.seen = call[c].seen
  BY <1>1, <1>2, <1>4 DEF CallRecord, Applying
<1> HIDE DEF k
<1>6. call'[c] = k /\ Configured(c)' = Configured(c)
  BY <1>0, <1>3 DEF TypeOK, Configured
<1>7. ProfileFacts(c)'
  BY <1>0, <1>1, <1>2, <1>3, <1>4, <1>5, <1>6
  DEF ProfileFacts, Planning, Applying, Resolved
<1>8. call[c].pc = "reclient" /\ ~call[c].moved
      => call[c].client.nas = Current(c).nas
  BY <1>0, <1>2 DEF ProfileFacts, Resolved
<1>9. StateFacts(c)'
  BY <1>0, <1>1, <1>3, <1>4, <1>5, <1>6, <1>8
  DEF StateFacts, Applying, Writing, Holding
<1>10. k.pc \notin Holding
  BY <1>4, <1>5 DEF Holding
<1> QED
  BY <1>3, <1>5, <1>7, <1>9, <1>10, OneCallFree

(* The plan is rebuilt and compared.                                       *)
LEMMA ReplanInv ==
  ASSUME PlanInv, NEW c \in Caller, Replan(c)
  PROVE  PlanInv'
<1>0. TypeOK /\ ProfileFacts(c) /\ StateFacts(c)
  BY DEF PlanInv
<1>1. call[c] \in CallRecord /\ call[c].client.nas \in Nas
      /\ call[c].pc = "replan"
  BY <1>0, RunningType DEF Replan
<1> DEFINE x == IF call[c].plan.service.replan = "service"
                  THEN "rerevise" ELSE "mutate"
           k == [call[c] EXCEPT !.pc = x, !.outside = FALSE]
<1>2. call' = [call EXCEPT ![c] = k]
      /\ UNCHANGED <<profile, loaded, nas, plans, edits>>
  BY DEF Replan
<1>3. /\ x \in {"rerevise", "mutate"}
      /\ x = "rerevise" => call[c].plan.service.replan = "service"
  OBVIOUS
<1> HIDE DEF x
<1>4. /\ k \in CallRecord
      /\ k.pc = x
      /\ k.plan = call[c].plan
      /\ k.client = call[c].client
      /\ k.moved = call[c].moved
      /\ k.seen = call[c].seen
  BY <1>1, <1>3 DEF CallRecord, Applying
<1> HIDE DEF k
<1>5. call'[c] = k /\ Configured(c)' = Configured(c)
  BY <1>0, <1>2 DEF TypeOK, Configured
<1>6. call[c].client.nas \in call[c].seen
  BY <1>0, <1>1 DEF Replan, StillHolds, Live, StateFacts, Applying
<1>7. ProfileFacts(c)'
  BY <1>0, <1>1, <1>2, <1>3, <1>4, <1>5
  DEF ProfileFacts, Planning, Applying, Resolved
<1>8. StateFacts(c)'
  BY <1>0, <1>1, <1>2, <1>3, <1>4, <1>5, <1>6
  DEF StateFacts, Applying, Writing, Holding
<1>9. k.pc \notin Holding
  BY <1>3, <1>4 DEF Holding
<1> QED
  BY <1>2, <1>4, <1>7, <1>8, <1>9, OneCallFree

(* A section is read, and the client is held from now on.                  *)
LEMMA RefreshInv ==
  ASSUME PlanInv, NEW c \in Caller, NEW part \in SUBSET Field,
         Refresh(c, part)
  PROVE  PlanInv'
<1>0. TypeOK /\ Exclusive /\ ProfileFacts(c) /\ StateFacts(c)
  BY DEF PlanInv
<1>1. call[c] \in CallRecord /\ Live(c) \in State
      /\ call[c].pc \in {"mutate", "next"}
  BY <1>0, RunningType DEF Refresh
<1> DEFINE k == [call[c] EXCEPT !.pc = "set", !.part = part,
                                !.basis = Live(c), !.outside = FALSE]
<1>2. call' = [call EXCEPT ![c] = k] /\ ~Locked(c)
      /\ UNCHANGED <<profile, loaded, nas, plans, edits>>
  BY DEF Refresh
<1>3. /\ k \in CallRecord
      /\ k.pc = "set"
      /\ k.plan = call[c].plan
      /\ k.client = call[c].client
      /\ k.moved = call[c].moved
      /\ k.seen = call[c].seen
      /\ k.basis = Live(c)
  BY <1>1 DEF CallRecord, Applying
<1> HIDE DEF k
<1>4. call'[c] = k /\ Configured(c)' = Configured(c)
      /\ \A d \in Caller \ {c} : call'[d] = call[d]
  BY <1>0, <1>2 DEF TypeOK, Configured
<1>5. ProfileFacts(c)'
  BY <1>0, <1>1, <1>2, <1>3, <1>4
  DEF ProfileFacts, Planning, Applying, Resolved
<1>6. Live(c)' = Live(c)
  BY <1>2, <1>3, <1>4 DEF Live
<1>7. StateFacts(c)'
  BY <1>0, <1>1, <1>2, <1>3, <1>4, <1>6
  DEF StateFacts, Applying, Writing, Holding
<1>8. Exclusive'
  <2> SUFFICES ASSUME NEW a \in Caller, NEW b \in Caller \ {a},
                      call'[a].pc \in Holding, call'[b].pc \in Holding,
                      Together(a, b)'
               PROVE  FALSE
    BY DEF Exclusive, Locked
  <2>1. Home[a] = Home[b] /\ call'[a].client = call'[b].client
    BY DEF Together
  <2>2. CASE a = c
    BY <1>1, <1>2, <1>3, <1>4, <2>1, <2>2 DEF Locked, Together, Holding
  <2>3. CASE b = c
    BY <1>1, <1>2, <1>3, <1>4, <2>1, <2>3 DEF Locked, Together, Holding
  <2>4. CASE a # c /\ b # c
    BY <1>0, <1>4, <2>1, <2>4 DEF Exclusive, Locked, Together, Holding
  <2> QED
    BY <2>2, <2>3, <2>4
<1> QED
  BY <1>2, <1>3, <1>5, <1>7, <1>8, OneCallChanges

(* The result is read back.                                                *)
LEMMA VerifyInv ==
  ASSUME PlanInv, NEW c \in Caller, VerifyPostcondition(c)
  PROVE  PlanInv'
<1>0. TypeOK /\ ProfileFacts(c) /\ StateFacts(c)
  BY DEF PlanInv
<1>1. call[c] \in CallRecord /\ call[c].pc = "verify"
  BY <1>0, RunningType DEF VerifyPostcondition
<1> DEFINE k == [call[c] EXCEPT !.pc = "applied"]
<1>2. call' = [call EXCEPT ![c] = k]
      /\ UNCHANGED <<profile, loaded, nas, plans, edits>>
  BY DEF VerifyPostcondition
<1>3. /\ k \in CallRecord
      /\ k.pc = "applied"
      /\ k.plan = call[c].plan
      /\ k.client = call[c].client
      /\ k.moved = call[c].moved
      /\ k.seen = call[c].seen
      /\ k.shown = call[c].shown
  BY <1>1 DEF CallRecord, Applying
<1> HIDE DEF k
<1>4. call'[c] = k /\ Configured(c)' = Configured(c)
  BY <1>0, <1>2 DEF TypeOK, Configured
<1>5. call[c].plan.service.readback = "whole" => call[c].shown
  BY <1>0, <1>1 DEF VerifyPostcondition, StateFacts
<1>6. ProfileFacts(c)'
  BY <1>0, <1>1, <1>2, <1>3, <1>4
  DEF ProfileFacts, Planning, Applying, Resolved
<1>7. StateFacts(c)'
  BY <1>0, <1>1, <1>2, <1>3, <1>4, <1>5
  DEF StateFacts, Applying, Writing, Holding
<1>8. k.pc \notin Holding
  BY <1>3 DEF Holding
<1> QED
  BY <1>2, <1>3, <1>6, <1>7, <1>8, OneCallFree

(* The call ends.                                                          *)
LEMMA EndInv ==
  ASSUME PlanInv, NEW c \in Caller, Return(c) \/ GiveUp(c)
  PROVE  PlanInv'
<1>1. call' = [call EXCEPT ![c] = Idle] /\ Idle.pc \notin Holding
      /\ UNCHANGED <<profile, loaded, nas, plans, edits>>
  BY DEF Return, GiveUp, Idle, Holding
<1>2. call'[c] = Idle
  BY <1>1 DEF PlanInv, TypeOK
<1> QED
  BY <1>1, <1>2, IdleFacts, OneCallFree

-----------------------------------------------------------------------------
(* A machine's state changes, and a call that does not itself hold one has *)
(* noticed it.                                                             *)
LEMMA NoticedFacts ==
  ASSUME PlanInv, NEW n \in Nas, NEW s \in State, NEW by \in SUBSET Caller,
         NEW d \in Caller,
         nas' = [nas EXCEPT ![n] = s], UNCHANGED <<profile, loaded, plans>>,
         call'[d] = Noticed(n, s, by)[d],
         call[d].pc = "set" => d \notin by
  PROVE  ProfileFacts(d)' /\ StateFacts(d)'
<1>0. TypeOK /\ ProfileFacts(d) /\ StateFacts(d)
      /\ Configured(d)' = Configured(d)
  BY DEF PlanInv, Configured
<1>1. CASE call[d].pc \notin Applying
  <2>1. call'[d] = call[d]
    BY <1>0, <1>1, NoticedFields
  <2>2. ProfileFacts(d)'
    BY <1>0, <2>1 DEF ProfileFacts
  <2>3. StateFacts(d)'
    BY <1>1, <2>1 DEF StateFacts, Applying, Writing, Holding
  <2> QED
    BY <2>2, <2>3
<1>2. CASE call[d].pc \in Applying
  <2>1. /\ call'[d].pc = call[d].pc
        /\ call'[d].plan = call[d].plan
        /\ call'[d].client = call[d].client
        /\ call'[d].basis = call[d].basis
        /\ call'[d].moved = call[d].moved
        /\ call[d].seen \subseteq call'[d].seen
        /\ s = call[d].plan.observed => n \in call'[d].seen
        /\ call[d].shown => call'[d].shown
        /\ call[d].client.nas = n /\ Matches(s, call[d].plan.request)
           => call'[d].shown
        /\ call[d].outside => call'[d].outside
        /\ call[d].client.nas = n /\ d \notin by => call'[d].outside
    BY <1>0, <1>2, NoticedFields
  <2>2. call[d].client.nas \in Nas
    BY <1>0, <1>2, RunningType DEF Applying
  <2>3. \A m \in Nas : nas'[m] = IF m = n THEN s ELSE nas[m]
    BY <1>0 DEF TypeOK
  <2>4. /\ call[d].client.nas = n => Live(d)' = s
        /\ call[d].client.nas # n => Live(d)' = Live(d)
    BY <2>1, <2>2, <2>3 DEF Live
  <2>5. ProfileFacts(d)'
    BY <1>0, <2>1 DEF ProfileFacts
  <2>6. \A m \in Nas : nas'[m] = call'[d].plan.observed => m \in call'[d].seen
    BY <1>0, <1>2, <2>1, <2>3 DEF StateFacts
  <2>7. /\ call'[d].pc = "verify" /\ Matches(Live(d)', call'[d].plan.request)
           => call'[d].shown
        /\ call'[d].pc = "set" /\ ~call'[d].outside
           => call'[d].basis = Live(d)'
    BY <1>0, <2>1, <2>4 DEF StateFacts
  <2>8. StateFacts(d)'
    BY <1>0, <2>1, <2>6, <2>7 DEF StateFacts, Matches
  <2> QED
    BY <2>5, <2>8
<1> QED
  BY <1>1, <1>2

(* What a write of the values in s leaves on the machine it is sent to.    *)
Left(c, s, carried) ==
    [f \in Field |-> IF f \in carried THEN s[f] ELSE Live(c)[f]]

(* DSM answers a write of values v for the fields F.                       *)
LEMMA AnsweredInv ==
  ASSUME PlanInv, NEW c \in Caller, call[c].pc \in {"mutate", "set"},
         NEW F \in SUBSET Field, NEW v \in [F -> Value],
         NEW rest \in SUBSET Field, Answered(c, v, rest),
         ~Locked(c), call[c].pc = "set" \/ rest = {},
         UNCHANGED <<profile, loaded, plans, edits>>
  PROVE  PlanInv'
<1>0. TypeOK /\ PlanFacts /\ Exclusive /\ ProfileFacts(c) /\ StateFacts(c)
      /\ Configured(c)' = Configured(c)
  BY DEF PlanInv, Configured
<1> DEFINE n == call[c].client.nas
           by == {d \in Caller : Together(c, d)}
<1>1. call[c] \in CallRecord /\ n \in Nas /\ call[c].pc \in Applying
      /\ Live(c) \in State
  BY <1>0, RunningType DEF Applying
<1>2. PICK carried \in SUBSET DOMAIN v, accepted \in BOOLEAN :
        LET new == [f \in Field |-> IF f \in carried THEN v[f]
                                                     ELSE nas[n][f]]
            seen == Noticed(n, new, by)
        IN /\ nas' = [nas EXCEPT ![n] = new]
           /\ call' = [seen EXCEPT ![c] =
                 IF ~accepted THEN Idle
                 ELSE [seen[c] EXCEPT
                         !.pc = IF rest = {} THEN "verify" ELSE "next",
                         !.todo = rest,
                         !.shown = Matches(new, call[c].plan.request)]]
  BY DEF Answered
<1> DEFINE new == Left(c, v, carried)
           seen == Noticed(n, new, by)
           pc1 == IF rest = {} THEN "verify" ELSE "next"
           w == Matches(new, call[c].plan.request)
           k == [seen[c] EXCEPT !.pc = pc1, !.todo = rest, !.shown = w]
<1>3. new \in State
  BY <1>1 DEF State, Left
<1>4. nas' = [nas EXCEPT ![n] = new]
      /\ call' = [seen EXCEPT ![c] = IF ~accepted THEN Idle ELSE k]
  BY <1>2 DEF Left, Live
<1>5. w \in BOOLEAN
  BY DEF Matches
<1> HIDE DEF new, n, w
<1>6. seen \in [Caller -> {Idle} \cup CallRecord]
  BY <1>0, <1>1, <1>3, NoticedType
<1>7. /\ seen[c] \in CallRecord
      /\ seen[c].pc = call[c].pc
      /\ seen[c].plan = call[c].plan
      /\ seen[c].client = call[c].client
      /\ seen[c].moved = call[c].moved
      /\ call[c].seen \subseteq seen[c].seen
      /\ new = call[c].plan.observed => n \in seen[c].seen
  BY <1>0, <1>1, <1>3, NoticedFields
<1>8. \A d \in Caller : seen[d].pc \in Holding
         => call[d].pc \in Holding /\ seen[d].client = call[d].client
  <2> SUFFICES ASSUME NEW d \in Caller, seen[d].pc \in Holding
               PROVE  call[d].pc \in Holding /\ seen[d].client = call[d].client
    OBVIOUS
  <2>1. CASE call[d].pc \in Applying
    BY <1>0, <1>1, <1>3, <2>1, NoticedFields
  <2>2. CASE call[d].pc \notin Applying
    BY <1>0, <1>1, <1>3, <2>2, NoticedFields
  <2> QED
    BY <2>1, <2>2
<1> HIDE DEF seen
<1>9. /\ k \in CallRecord
      /\ k.pc = pc1
      /\ k.plan = call[c].plan
      /\ k.client = call[c].client
      /\ k.moved = call[c].moved
      /\ k.seen = seen[c].seen
      /\ k.shown = w
  BY <1>5, <1>7 DEF CallRecord, Applying
<1> HIDE DEF k
<1>10. TypeOK'
  BY <1>0, <1>1, <1>3, <1>4, <1>6, <1>9 DEF TypeOK
<1>11. PlanFacts'
  BY <1>0 DEF PlanFacts
<1>12. Exclusive'
  <2>1. \A d \in Caller : call'[d].pc \in Holding
           => call[d].pc \in Holding /\ call'[d].client = call[d].client
    BY <1>4, <1>6, <1>8, <1>9 DEF Holding, Idle
  <2> QED
    BY <1>0, <2>1, ExclusiveKept
<1>13. ASSUME NEW d \in Caller, d # c
       PROVE  ProfileFacts(d)' /\ StateFacts(d)'
  <2>1. call'[d] = Noticed(n, new, by)[d]
    BY <1>4, <1>6, <1>13 DEF seen
  <2>2. call[d].pc = "set" => d \notin by
    BY <1>13 DEF Locked, Holding
  <2> QED
    BY <1>1, <1>3, <1>4, <2>1, <2>2, NoticedFacts
<1>14. ProfileFacts(c)' /\ StateFacts(c)'
  <2>1. CASE ~accepted
    <3>1. call'[c] = Idle
      BY <1>4, <1>6, <2>1
    <3> QED
      BY <3>1, IdleFacts
  <2>2. CASE accepted
    <3>1. call'[c] = k
      BY <1>4, <1>6, <2>2
    <3>2. \A m \in Nas : nas'[m] = IF m = n THEN new ELSE nas[m]
      BY <1>0, <1>4 DEF TypeOK
    <3>3. ProfileFacts(c)'
      BY <1>0, <1>9, <3>1
      DEF ProfileFacts, Planning, Applying, Resolved
    <3>4. call[c].plan.service.replan \in {"client", "service"}
          => \/ call[c].client.nas \in seen[c].seen
             \/ call[c].plan.service.replan = "service" /\ call[c].moved
      BY <1>0, <1>7 DEF StateFacts, Writing, Holding
    <3>5. \A m \in Nas : nas'[m] = call[c].plan.observed => m \in seen[c].seen
      BY <1>0, <1>1, <1>7, <3>2 DEF StateFacts
    <3>6. Live(c)' = new
      BY <1>1, <1>9, <3>1, <3>2 DEF Live, n
    <3>7. Matches(Live(c)', call'[c].plan.request) => call'[c].shown
      BY <1>9, <3>1, <3>6 DEF w
    <3>8. StateFacts(c)'
      BY <1>9, <3>1, <3>4, <3>5, <3>7
      DEF StateFacts, Writing, Holding, Matches
    <3> QED
      BY <3>3, <3>8
  <2> QED
    BY <2>1, <2>2
<1> QED
  BY <1>10, <1>11, <1>12, <1>13, <1>14 DEF PlanInv

(* Every shape of write keeps the invariant, whatever DSM carries out.     *)
LEMMA WritingInv ==
  ASSUME PlanInv, NEW c \in Caller, Write(c)
  PROVE  PlanInv'
<1>0. TypeOK /\ call[c].pc \in {"mutate", "set"}
  BY DEF PlanInv, Write, MutatePatch, MutateSection, MutateObserved
<1>1. call[c] \in CallRecord /\ call[c].plan \in Plan
      /\ call[c].plan.request \in Patches
  BY <1>0, RunningType
<1>2. /\ call[c].plan.observed \in State
      /\ call[c].basis \in State
      /\ call[c].part \in SUBSET Field
      /\ call[c].todo \in SUBSET Field
  BY <1>1 DEF CallRecord, Plan
<1>3. UNCHANGED <<profile, loaded, plans, edits>>
  BY DEF Write, MutatePatch, MutateSection, MutateObserved
<1>4. CASE MutatePatch(c)
  <2>1. PICK F \in SUBSET Field : call[c].plan.request \in [F -> Value]
    BY <1>1 DEF Patches
  <2> QED
    BY <1>0, <1>3, <1>4, <2>1, AnsweredInv DEF MutatePatch
<1>5. CASE MutateSection(c)
  <2> DEFINE m == Patched(call[c].basis, call[c].plan.request)
             s == [f \in call[c].part |-> m[f]]
  <2>1. m \in State
    BY <1>1, <1>2, PatchedType
  <2>2. s \in [call[c].part -> Value]
    BY <1>2, <2>1 DEF State
  <2>3. Answered(c, s, call[c].todo \ call[c].part) /\ call[c].pc = "set"
    BY <1>5 DEF MutateSection
  <2>4. ~Locked(c)
    BY <2>3 DEF PlanInv, Exclusive, Holding
  <2>5. call[c].todo \ call[c].part \in SUBSET Field
    BY <1>2
  <2> HIDE DEF s
  <2> QED
    BY <1>0, <1>2, <1>3, <2>2, <2>3, <2>4, <2>5, AnsweredInv
<1>6. CASE MutateObserved(c)
  <2>1. Patched(call[c].plan.observed, call[c].plan.request)
           \in [Field -> Value]
    BY <1>1, <1>2, PatchedType DEF State
  <2> QED
    BY <1>0, <1>3, <1>6, <2>1, AnsweredInv DEF MutateObserved
<1> QED
  BY <1>4, <1>5, <1>6 DEF Write

-----------------------------------------------------------------------------
(* What a change of the gateway's profile does to the calls.               *)
LEMMA MovedFacts ==
  ASSUME TypeOK, NEW d \in Caller
  PROVE  /\ Moved[d] \in {Idle} \cup CallRecord
         /\ call[d].pc = "idle" \/ Home[d] # Gateway => Moved[d] = call[d]
         /\ call[d].pc # "idle" /\ Home[d] = Gateway =>
              /\ Moved[d].moved
              /\ Moved[d].pc = call[d].pc
              /\ Moved[d].plan = call[d].plan
              /\ Moved[d].client = call[d].client
              /\ Moved[d].basis = call[d].basis
              /\ Moved[d].seen = call[d].seen
              /\ Moved[d].shown = call[d].shown
              /\ Moved[d].outside = call[d].outside
<1>1. CASE call[d].pc = "idle" \/ Home[d] # Gateway
  BY <1>1 DEF Moved, TypeOK
<1>2. CASE call[d].pc # "idle" /\ Home[d] = Gateway
  <2>1. call[d] \in CallRecord
    BY <1>2, RunningType
  <2>2. Moved[d] = [call[d] EXCEPT !.moved = TRUE]
    BY <1>2 DEF Moved
  <2> QED
    BY <1>2, <2>1, <2>2 DEF CallRecord
<1> QED
  BY <1>1, <1>2

(* An administrator's edit of the profile keeps the invariant.             *)
LEMMA ProfileInv ==
  ASSUME PlanInv, DeleteProfile \/ \E d \in Nas : UpdateProfile(d)
  PROVE  PlanInv'
<1>0. TypeOK /\ PlanFacts /\ Exclusive
  BY DEF PlanInv
<1>1. call' = Moved /\ UNCHANGED <<loaded, nas, plans, edits>>
  BY DEF UpdateProfile, DeleteProfile
<1>2. profile \in Profile /\ profile.revision \in Nat /\ profile.client \in Nat
  BY <1>0, ConstantsAssumption DEF TypeOK, Profile
<1>3. /\ profile' \in Profile
      /\ \/ /\ profile'.revision = profile.revision
            /\ profile'.client = profile.client
            /\ profile'.device = Absent
         \/ /\ profile'.revision = profile.client + 1
            /\ profile'.client = profile.client + 1
  BY <1>2, ConstantsAssumption DEF UpdateProfile, DeleteProfile, Profile
<1>4. TypeOK'
  <2>1. Moved \in [Caller -> {Idle} \cup CallRecord]
    BY <1>0, MovedFacts DEF Moved
  <2> QED
    BY <1>0, <1>1, <1>3, <2>1 DEF TypeOK
<1>5. PlanFacts'
  <2>1. \A p \in plans : p.revision \in Nat
    BY <1>0, ConstantsAssumption DEF TypeOK, Plan
  <2> QED
    BY <1>0, <1>1, <1>2, <1>3, <2>1 DEF PlanFacts
<1>6. ASSUME NEW d \in Caller
      PROVE  /\ call'[d].pc = call[d].pc
             /\ call'[d].pc \in Holding => call'[d].client = call[d].client
             /\ ProfileFacts(d)' /\ StateFacts(d)'
  <2>0. ProfileFacts(d) /\ StateFacts(d)
    BY DEF PlanInv
  <2>1. CASE call[d].pc = "idle"
    <3>1. call'[d] = call[d]
      BY <1>0, <1>1, <2>1, MovedFacts
    <3>2. call'[d] = Idle
      BY <1>0, <2>1, <3>1 DEF TypeOK, CallRecord, Planning, Applying
    <3> QED
      BY <3>1, <3>2, IdleFacts
  <2>2. CASE call[d].pc # "idle" /\ Home[d] # Gateway
    <3>1. call'[d] = call[d] /\ Configured(d)' = Configured(d)
      BY <1>0, <1>1, <2>2, MovedFacts DEF Configured
    <3>2. ProfileFacts(d)'
      BY <1>1, <2>0, <3>1 DEF ProfileFacts
    <3>3. StateFacts(d)'
      BY <1>1, <2>0, <3>1 DEF StateFacts, Matches, Live
    <3> QED
      BY <3>1, <3>2, <3>3
  <2>3. CASE call[d].pc # "idle" /\ Home[d] = Gateway
    <3>1. /\ call'[d].moved
          /\ call'[d].pc = call[d].pc
          /\ call'[d].plan = call[d].plan
          /\ call'[d].client = call[d].client
          /\ call'[d].basis = call[d].basis
          /\ call'[d].seen = call[d].seen
          /\ call'[d].shown = call[d].shown
          /\ call'[d].outside = call[d].outside
      BY <1>0, <1>1, <2>3, MovedFacts
    <3>2. ProfileFacts(d)'
      BY <1>1, <2>0, <3>1 DEF ProfileFacts
    <3>3. StateFacts(d)'
      BY <1>1, <2>0, <3>1 DEF StateFacts, Matches, Live
    <3> QED
      BY <3>1, <3>2, <3>3
  <2> QED
    BY <2>1, <2>2, <2>3
<1>7. Exclusive'
  BY <1>0, <1>6, ExclusiveKept
<1> QED
  BY <1>4, <1>5, <1>6, <1>7 DEF PlanInv

(* A step that leaves calls, machines and plans alone, and what a call's   *)
(* process knows of the profile unless the call is idle.                   *)
LEMMA CallsAlone ==
  ASSUME PlanInv, TypeOK', PlanFacts', UNCHANGED <<call, nas, plans>>,
         \A c \in Caller : call[c].pc # "idle" =>
            /\ Configured(c)'.device = Configured(c).device
            /\ Configured(c)'.revision = Configured(c).revision
  PROVE  PlanInv'
<1>1. Exclusive'
  BY DEF PlanInv, Exclusive, Locked, Together
<1>2. ASSUME NEW d \in Caller
      PROVE  ProfileFacts(d)' /\ StateFacts(d)'
  <2>0. TypeOK /\ ProfileFacts(d) /\ StateFacts(d)
    BY DEF PlanInv
  <2>1. CASE call[d].pc = "idle"
    <3>1. call'[d] = Idle
      BY <2>0, <2>1 DEF TypeOK, CallRecord, Planning, Applying
    <3> QED
      BY <3>1, IdleFacts
  <2>2. CASE call[d].pc # "idle"
    <3>1. ProfileFacts(d)'
      BY <2>0, <2>2 DEF ProfileFacts
    <3>2. StateFacts(d)'
      BY <2>0 DEF StateFacts, Matches, Live
    <3> QED
      BY <3>1, <3>2
  <2> QED
    BY <2>1, <2>2
<1> QED
  BY <1>1, <1>2 DEF PlanInv

(* The gateway's next client keeps the invariant.                          *)
LEMMA ReconnectInv ==
  ASSUME PlanInv, Reconnect
  PROVE  PlanInv'
<1>0. TypeOK /\ PlanFacts
  BY DEF PlanInv
<1>1. profile \in Profile /\ profile.revision \in Nat /\ profile.client \in Nat
  BY <1>0, ConstantsAssumption DEF TypeOK, Profile
<1>2. /\ profile' \in Profile
      /\ profile'.device = profile.device
      /\ profile'.revision = profile.revision
      /\ profile'.client = profile.client + 1
      /\ UNCHANGED <<loaded, nas, plans, edits, call>>
  BY <1>1, ConstantsAssumption DEF Reconnect, Profile
<1>3. TypeOK'
  BY <1>0, <1>2 DEF TypeOK
<1>4. PlanFacts'
  BY <1>0, <1>1, <1>2 DEF PlanFacts
<1>5. \A c \in Caller : /\ Configured(c)'.device = Configured(c).device
                        /\ Configured(c)'.revision = Configured(c).revision
  BY <1>2 DEF Configured
<1> QED
  BY <1>2, <1>3, <1>4, <1>5, CallsAlone

(* So does the start of another process.                                   *)
LEMMA StartInv ==
  ASSUME PlanInv, NEW p \in Local, NEW d \in Nas, Start(p, d)
  PROVE  PlanInv'
<1>0. TypeOK /\ PlanFacts
  BY DEF PlanInv
<1>1. UNCHANGED <<profile, nas, plans, edits, call>>
      /\ loaded' = [loaded EXCEPT ![p] = d]
  BY DEF Start
<1>2. TypeOK'
  BY <1>0, <1>1 DEF TypeOK
<1>3. PlanFacts'
  BY <1>0, <1>1 DEF PlanFacts
<1>4. ASSUME NEW c \in Caller, call[c].pc # "idle"
      PROVE  Configured(c)' = Configured(c)
  <2>1. Home[c] # p
    BY <1>4 DEF Start
  <2>2. Home[c] # Gateway => loaded'[Home[c]] = loaded[Home[c]]
    BY <1>0, <1>1, <2>1, ConstantsAssumption DEF TypeOK, Local
  <2> QED
    BY <1>1, <2>2 DEF Configured
<1> QED
  BY <1>1, <1>2, <1>3, <1>4, CallsAlone

(* A change made in DSM by somebody else keeps the invariant.              *)
LEMMA EditInv ==
  ASSUME PlanInv, NEW n \in Nas, NEW f \in Field, NEW v \in Value,
         Edit(n, f, v)
  PROVE  PlanInv'
<1>0. TypeOK /\ PlanFacts /\ Exclusive
  BY DEF PlanInv
<1> DEFINE s == [nas[n] EXCEPT ![f] = v]
<1>1. s \in State
  BY <1>0 DEF TypeOK, State
<1>2. /\ nas' = [nas EXCEPT ![n] = s]
      /\ call' = Noticed(n, s, {})
      /\ UNCHANGED <<profile, loaded, plans>>
      /\ edits' = edits + 1 /\ edits < MaxEdits
  BY DEF Edit
<1> HIDE DEF s
<1>3. TypeOK'
  BY <1>0, <1>1, <1>2, NoticedType, ConstantsAssumption DEF TypeOK
<1>4. PlanFacts'
  BY <1>0, <1>2 DEF PlanFacts
<1>5. ASSUME NEW d \in Caller
      PROVE  /\ call'[d].pc \in Holding
                => call[d].pc \in Holding /\ call'[d].client = call[d].client
             /\ ProfileFacts(d)' /\ StateFacts(d)'
  <2>1. ProfileFacts(d)' /\ StateFacts(d)'
    BY <1>1, <1>2, NoticedFacts
  <2>2. CASE call[d].pc \in Applying
    BY <1>0, <1>1, <1>2, <2>1, <2>2, NoticedFields
  <2>3. CASE call[d].pc \notin Applying
    BY <1>0, <1>1, <1>2, <2>1, <2>3, NoticedFields
  <2> QED
    BY <2>2, <2>3
<1>6. Exclusive'
  BY <1>0, <1>5, ExclusiveKept
<1> QED
  BY <1>3, <1>4, <1>5, <1>6 DEF PlanInv

-----------------------------------------------------------------------------
(* The invariant holds initially.                                          *)
LEMMA InitInv ==
  Init => PlanInv
<1> SUFFICES ASSUME Init PROVE PlanInv
  OBVIOUS
<1>1. TypeOK
  BY ConstantsAssumption DEF Init, TypeOK, Idle, Profile
<1>2. PlanFacts
  BY DEF Init, PlanFacts
<1>3. ASSUME NEW c \in Caller
      PROVE  ProfileFacts(c) /\ StateFacts(c) /\ call[c].pc \notin Holding
  BY DEF Init, Idle, ProfileFacts, StateFacts, Planning, Applying, Writing,
         Holding, Resolved
<1> QED
  BY <1>1, <1>2, <1>3 DEF PlanInv, Exclusive

(* Every step keeps the invariant.                                         *)
LEMMA NextInv ==
  PlanInv /\ [Next]_vars => PlanInv'
<1> SUFFICES ASSUME PlanInv, [Next]_vars PROVE PlanInv'
  OBVIOUS
<1>1. ASSUME NEW c \in Caller, CallStep(c)
      PROVE  PlanInv'
  <2>1. CASE \/ \E s \in Service, r \in Request : PlanClient(c, s, r)
             \/ PlanObserve(c)
             \/ PlanRevision(c)
    BY <2>1, PlanClientInv, PlanObserveInv, PlanRevisionInv
  <2>2. CASE \/ \E p \in plans : Submit(c, p)
             \/ ResolveClient(c)
             \/ Replan(c)
             \/ \E part \in SUBSET Field : Refresh(c, part)
    BY <2>2, SubmitInv, ResolveInv, ReplanInv, RefreshInv
  <2>3. CASE VerifyRevision(c) \/ ReplanRevision(c)
    BY <2>3, ChecksInv DEF Applying
  <2>4. CASE Write(c)
    BY <2>4, WritingInv
  <2>5. CASE \/ VerifyPostcondition(c)
             \/ Return(c)
             \/ GiveUp(c)
    BY <2>5, VerifyInv, EndInv
  <2> QED
    BY <1>1, <2>1, <2>2, <2>3, <2>4, <2>5 DEF CallStep
<1>2. CASE DeleteProfile \/ \E d \in Nas : UpdateProfile(d)
  BY <1>2, ProfileInv
<1>3. CASE Reconnect
  BY <1>3, ReconnectInv
<1>4. CASE \E p \in Local, d \in Nas : Start(p, d)
  BY <1>4, StartInv
<1>5. CASE \E n \in Nas, f \in Field, v \in Value : Edit(n, f, v)
  BY <1>5, EditInv
<1>6. CASE UNCHANGED vars
  <2>1. TypeOK' /\ PlanFacts' /\ UNCHANGED <<call, nas, plans>>
    BY <1>6 DEF PlanInv, TypeOK, PlanFacts, vars
  <2>2. \A c \in Caller : Configured(c)' = Configured(c)
    BY <1>6 DEF Configured, vars
  <2> QED
    BY <2>1, <2>2, CallsAlone
<1> QED
  BY <1>1, <1>2, <1>3, <1>4, <1>5, <1>6 DEF Next

(* The invariant holds in every state.                                     *)
THEOREM PlanInvariant ==
  Spec => []PlanInv
BY InitInv, NextInv, PTL DEF Spec

(* The state of plans, calls, profile, processes and machines stays well   *)
(* typed: no client leads to a profile that is gone.                       *)
THEOREM PlanTypeCorrect ==
  Spec => []TypeOK
<1>1. PlanInv => TypeOK
  BY DEF PlanInv
<1> QED
  BY <1>1, PlanInvariant, PTL

(* An apply, in whatever process, writes only to a machine it found,       *)
(* during this call, in the state its plan was approved for, unless its    *)
(* service resolves a second client and the gateway's profile moved        *)
(* meanwhile.                                                              *)
THEOREM WritesAreFreshlyObserved ==
  Spec => []FreshlyObserved
<1>1. PlanInv => FreshlyObserved
  BY DEF PlanInv, StateFacts, FreshlyObserved, AboutToWrite
<1> QED
  BY <1>1, PlanInvariant, PTL

(* In the gateway an apply that compares revisions writes to the machine   *)
(* its plan was made on, unless the profile changed during one of the two  *)
(* calls.                                                                  *)
THEOREM WritesReachPlannedTarget ==
  Spec => []TargetAsPlanned
<1>1. PlanInv => TargetAsPlanned
  <2> SUFFICES ASSUME PlanInv, NEW c \in Caller, Home[c] = Gateway,
                      AboutToWrite(c), call[c].plan.service.revision,
                      ~call[c].moved, ~call[c].plan.torn
               PROVE  call[c].client.nas = call[c].plan.from
    BY DEF TargetAsPlanned
  <2>1. /\ call[c].plan \in plans
        /\ Configured(c).device # Absent
        /\ Configured(c).revision = call[c].plan.revision
        /\ call[c].client.nas = Configured(c).device
    BY DEF PlanInv, ProfileFacts, AboutToWrite, Writing, Holding, Applying,
           Resolved
  <2>2. Configured(c) = profile
    BY DEF Configured
  <2> QED
    BY <2>1, <2>2 DEF PlanInv, PlanFacts
<1> QED
  BY <1>1, PlanInvariant, PTL

(* A call of a service that reads back all that was requested reports      *)
(* Applied only if the machine it wrote to has shown the whole request     *)
(* since the call's last write.                                            *)
THEOREM AppliedMeansApplied ==
  Spec => []AppliedIsTrue
<1>1. PlanInv => AppliedIsTrue
  BY DEF PlanInv, StateFacts, AppliedIsTrue
<1> QED
  BY <1>1, PlanInvariant, PTL

-----------------------------------------------------------------------------
(* The field of a machine that a write leaves as it was.                   *)
LEMMA AnsweredKeeps ==
  ASSUME TypeOK, NEW c \in Caller, call[c].pc # "idle", NEW s, NEW rest,
         Answered(c, s, rest), NEW f \in Field,
         f \in DOMAIN s => s[f] = Live(c)[f]
  PROVE  nas'[call[c].client.nas][f] = Live(c)[f]
<1>1. PICK carried \in SUBSET DOMAIN s :
        nas' = [nas EXCEPT ![call[c].client.nas] =
                  [g \in Field |-> IF g \in carried THEN s[g]
                                   ELSE nas[call[c].client.nas][g]]]
  BY DEF Answered
<1>2. call[c].client.nas \in Nas
  BY RunningType
<1> QED
  BY <1>1, <1>2 DEF TypeOK, Live

(* A write changes no field that was not requested unless somebody who     *)
(* does not wait for the call's client changed the machine since the call  *)
(* read it, when no service writes what its plan observed.                 *)
THEOREM UnspecifiedFieldsAreKept ==
  ASSUME \A s \in Service : s.write # "observed"
  PROVE  Spec => UnspecifiedKept
<1> DEFINE Kept == \A c \in Caller : Write(c) /\ ~call[c].outside =>
                     \A f \in Field \ DOMAIN call[c].plan.request :
                         nas'[call[c].client.nas][f] = Live(c)[f]
<1>1. PlanInv => Kept
  <2> SUFFICES ASSUME PlanInv, NEW c \in Caller, Write(c), ~call[c].outside,
                      NEW f \in Field \ DOMAIN call[c].plan.request
               PROVE  nas'[call[c].client.nas][f] = Live(c)[f]
    OBVIOUS
  <2>0. TypeOK /\ StateFacts(c) /\ call[c].pc # "idle"
    BY DEF PlanInv, Write, MutatePatch, MutateSection, MutateObserved
  <2>1. CASE MutatePatch(c)
    <3>1. Answered(c, call[c].plan.request, {})
      BY <2>1 DEF MutatePatch
    <3> QED
      BY <2>0, <3>1, AnsweredKeeps
  <2>2. CASE MutateSection(c)
    <3> DEFINE m == Patched(call[c].basis, call[c].plan.request)
               s == [g \in call[c].part |-> m[g]]
    <3>1. Answered(c, s, call[c].todo \ call[c].part)
      BY <2>2 DEF MutateSection
    <3>2. call[c].basis = Live(c)
      BY <2>0, <2>2 DEF MutateSection, StateFacts
    <3>3. f \in DOMAIN s => s[f] = Live(c)[f]
      BY <3>2 DEF Patched
    <3> HIDE DEF s
    <3> QED
      BY <2>0, <3>1, <3>3, AnsweredKeeps
  <2>3. CASE MutateObserved(c)
    <3>1. call[c].plan.service \in Service
      BY <2>0, RunningType DEF Plan
    <3> QED
      BY <2>3, <3>1 DEF MutateObserved
  <2> QED
    BY <2>1, <2>2, <2>3 DEF Write
<1>2. PlanInv => [Kept]_vars
  BY <1>1
<1> QED
  BY <1>2, PlanInvariant, PTL DEF UnspecifiedKept
=============================================================================
