--------------------------- MODULE ClientsProofs ----------------------------
(***************************************************************************)
(* Proofs about Clients, for any number of threads, callers, settings,     *)
(* reconfigurations and faults:                                            *)
(*                                                                         *)
(*   UsesNode        the clients use the node as Node says, so that the    *)
(*                   theorems of NodeProofs are about them;                *)
(*   UsesHttp        they use the HTTP client as Http says;                *)
(*   ClientsQuietCall   hence what Node promises of a quiet call;          *)
(*   TypeCorrect     the type invariant;                                   *)
(*   PromiseKept     on one thread they implement Queries;                 *)
(*   NullExplained   no call ends without an answer for no reason;         *)
(*   FalseCorrect    on one thread isNodeRunning is false because of the   *)
(*                   node, if no caller is cancelled.                      *)
(***************************************************************************)
EXTENDS Clients, NodeProofs

-----------------------------------------------------------------------------
(* The parts of the composition.                                           *)

\* Every step of a caller, its call or the world around it is a step of the node
\* or leaves it alone.
LEMMA NodeStep == [Next]_vars => [NodeNext]_nodeVars
<1> SUFFICES ASSUME [Next]_vars PROVE [NodeNext]_nodeVars
  OBVIOUS
<1> USE DEF NodeNext
<1>1. CASE OwnerStep
  BY <1>1 DEF OwnerStep, Everyone
<1>2. CASE TimePasses \/ \E u \in ConfiguredUrls : DaemonStops(u) \/ DaemonStarts(u)
  BY <1>2 DEF TimePasses, DaemonStops, DaemonStarts
<1>3. CASE \E c \in Callers : CallStep(c)
  <2>1. PICK c \in Callers : CallStep(c)
    BY <1>3
  <2>2. CASE \E o \in Ops : StartCall(c, o)
    BY <2>2 DEF StartCall
  <2>3. CASE BuildUrl(c)
    BY <2>3 DEF BuildUrl
  <2>4. CASE SendRequest(c)
    BY <2>4 DEF SendRequest, Everyone
  <2>5. CASE RefuseCancelled(c) \/ RefuseUrl(c)
    BY <2>5 DEF RefuseCancelled, RefuseUrl
  <2>6. CASE \E t \in Threads : ResumeCall(c, t)
    BY <2>6 DEF ResumeCall, Everyone
  <2>7. CASE FinishCall(c) \/ Escape(c)
    BY <2>7 DEF FinishCall, Escape
  <2>8. QED
    BY <2>1, <2>2, <2>3, <2>4, <2>5, <2>6, <2>7 DEF CallStep
<1>4. CASE \E c \in Callers : CallerStep(c)
  BY <1>4 DEF CallerStep, Delay, WakeUp, DieSuspended, Terminate, Everyone
<1>5. CASE \E c \in Callers : WorldStep(c)
  BY <1>5 DEF WorldStep, CancelCaller, ReplyArrives, ConnectionRefused, NetworkFails,
              ClientCrashes, RequestExpires
<1>6. CASE UNCHANGED vars
  BY <1>6 DEF vars
<1>7. QED
  BY <1>1, <1>2, <1>3, <1>4, <1>5, <1>6 DEF Next

\* The same for the HTTP client.
LEMMA HttpStep == [Next]_vars => [HttpNext]_httpVars
<1> SUFFICES ASSUME [Next]_vars PROVE [HttpNext]_httpVars
  OBVIOUS
<1> USE DEF HttpNext
<1>1. CASE OwnerStep \/ TimePasses
  BY <1>1 DEF OwnerStep, TimePasses
<1>2. CASE \E u \in ConfiguredUrls : DaemonStops(u) \/ DaemonStarts(u)
  BY <1>2 DEF DaemonStops, DaemonStarts
<1>3. CASE \E c \in Callers : CallStep(c)
  BY <1>3 DEF CallStep, StartCall, BuildUrl, SendRequest, RefuseCancelled, RefuseUrl,
              ResumeCall, FinishCall, Escape
<1>4. CASE \E c \in Callers : CallerStep(c)
  BY <1>4 DEF CallerStep, Delay, WakeUp, DieSuspended, Terminate
<1>5. CASE \E c \in Callers : WorldStep(c)
  BY <1>5 DEF WorldStep, CancelCaller, ReplyArrives, ConnectionRefused, NetworkFails,
              ClientCrashes, RequestExpires
<1>6. CASE UNCHANGED vars
  BY <1>6 DEF vars
<1>7. QED
  BY <1>1, <1>2, <1>3, <1>4, <1>5, <1>6 DEF Next

\* The clients use the shared Node as its own specification says.
THEOREM UsesNode == Spec => NodeSpec
<1>1. Init => NodeInit
  BY DEF Init
<1>2. QED
  BY <1>1, NodeStep, PTL DEF Spec, NodeSpec

\* The clients use the shared HTTP client as its own specification says.
THEOREM UsesHttp == Spec => HttpSpec
<1>1. Init => HttpInit
  BY DEF Init
<1>2. QED
  BY <1>1, HttpStep, PTL DEF Spec, HttpSpec

\* What Node promises of a quiet call holds of the clients' calls.
THEOREM ClientsQuietCall == Spec => []QuietCall
BY UsesNode, QuietCallCorrect, PTL

-----------------------------------------------------------------------------
(* Type correctness.                                                       *)

LEMMA HttpTypeInit == HttpInit => HttpTypeOK
BY HttpAssumption DEF HttpInit, HttpTypeOK, Blank, Replies

LEMMA HttpTypeStep == HttpTypeOK /\ [HttpNext]_httpVars => HttpTypeOK'
<1> SUFFICES ASSUME HttpTypeOK, [HttpNext]_httpVars PROVE HttpTypeOK'
  OBVIOUS
<1> USE DEF HttpTypeOK
<1>1. CASE Tick
  <2>1. \A c \in Callers : age[c] < AgeBound => age[c] + 1 \in 0 .. AgeBound
    BY HttpAssumption
  <2>2. QED
    BY <1>1, <2>1 DEF Tick
<1>2. CASE \E c \in Callers : Submit(c) \/ Reject(c)
  BY <1>2 DEF Submit, Reject
<1>3. CASE \E c \in Callers, r \in Replies : Deliver(c, r)
  BY <1>3 DEF Deliver
<1>4. CASE \E c \in Callers : Fail(c) \/ Crash(c) \/ Expire(c)
  BY <1>4 DEF Fail, Crash, Expire
<1>5. CASE \E c \in Callers : Cancel(c) \/ Complete(c)
  BY <1>5 DEF Cancel, Complete
<1>6. CASE \E c \in Callers : Wake(c)
  BY <1>6 DEF Wake
<1>7. CASE \E c \in Callers : Close(c)
  BY <1>7, HttpAssumption DEF Close, Blank, Replies
<1>8. CASE UNCHANGED httpVars
  BY <1>8 DEF httpVars
<1>9. QED
  BY <1>1, <1>2, <1>3, <1>4, <1>5, <1>6, <1>7, <1>8 DEF HttpNext

\* A reconfiguration under way is not the constructor's setting.
Begun == pending # {} => target # 0

\* The types of the variables Clients adds.
CallTypeOK ==
  /\ op \in [Callers -> Ops]
  /\ outcome \in [Callers -> UNION {Outcomes(o) : o \in Ops}]
  /\ \A c \in Callers : outcome[c] \in Outcomes(op[c])
  /\ up \in [ConfiguredUrls -> BOOLEAN]
  /\ since \in [Callers -> Generations]
  /\ spoiled \in [Callers -> SUBSET AllFaults]

LEMMA BegunInit == NodeInit => Begun
BY DEF NodeInit, Begun

LEMMA BegunStep == NodeTypeOK /\ Begun /\ [NodeNext]_nodeVars => Begun'
<1> SUFFICES ASSUME NodeTypeOK, Begun, [NodeNext]_nodeVars PROVE Begun'
  OBVIOUS
<1>1. CASE Reconfigure
  <2>1. target \in Nat
    BY NodeAssumption DEF NodeTypeOK, Generations
  <2>2. QED
    BY <1>1, <2>1 DEF Reconfigure, Begun
<1>2. CASE ~Reconfigure
  <2>1. target' = target /\ pending' \subseteq pending
    BY <1>2 DEF NodeNext, nodeVars, Resume, Park, Assign, Call, ReadSsl, ReadHostName, ReadPort,
                Read, Return
  <2>2. QED
    BY <2>1 DEF Begun
<1>3. QED
  BY <1>1, <1>2

\* What is published is a generation.
LEMMA PublishedGeneration == NodeTypeOK /\ Begun => Published \in Generations
BY NodeAssumption DEF NodeTypeOK, Begun, Published, Generations

\* What a call composes is a URL.
LEMMA UrlType == ASSUME NEW v \in View PROVE UrlOf(v) \in Url
<1>1. \A f \in Fields : v[f] \in Generations
  BY ViewNat
<1>2. \A f \in Fields : Settings[v[f]] \in Setting
  BY <1>1, NodeAssumption
<1>3. /\ Settings[v["ssl"]].ssl \in BOOLEAN
      /\ Settings[v["hostName"]].hostName \in Hosts
      /\ Settings[v["port"]].port \in Ports
  BY <1>2 DEF Fields, Setting
<1>4. QED
  BY <1>3 DEF UrlOf, Url

\* Every outcome a method can have is of the kind its operation declares.
LEMMA OutcomeType ==
  ASSUME NodeTypeOK, NEW c \in Callers, op[c] \in Ops
  PROVE  /\ Nothing \in Outcomes(op[c])
         /\ [value |-> "threw", from |-> NoUrl] \in Outcomes(op[c])
         /\ Result(c) \in Outcomes(op[c])
<1>1. UrlOf(got[c]) \in Url
  BY UrlType DEF NodeTypeOK
<1>2. QED
  BY <1>1 DEF Nothing, Result, Outcomes, Values

LEMMA CallTypeInit == Init => CallTypeOK
BY NodeAssumption DEF Init, CallTypeOK, Nothing, Outcomes, Values, Generations

\* The outcome of one caller changes to another of its operation.
LEMMA OutcomeUpdate ==
  ASSUME CallTypeOK, NEW c \in Callers, NEW x \in Outcomes(op[c]),
         outcome' = [outcome EXCEPT ![c] = x], op' = op
  PROVE  /\ outcome' \in [Callers -> UNION {Outcomes(o) : o \in Ops}]
         /\ \A d \in Callers : outcome'[d] \in Outcomes(op'[d])
<1>1. op[c] \in Ops
  BY DEF CallTypeOK
<1>2. x \in UNION {Outcomes(o) : o \in Ops}
  BY <1>1
<1>3. outcome' \in [Callers -> UNION {Outcomes(o) : o \in Ops}]
  BY <1>2 DEF CallTypeOK
<1>4. \A d \in Callers : outcome'[d] = IF d = c THEN x ELSE outcome[d]
  BY DEF CallTypeOK
<1>5. \A d \in Callers : outcome'[d] \in Outcomes(op[d])
  BY <1>4 DEF CallTypeOK
<1>6. QED
  BY <1>3, <1>5

LEMMA CallTypeStep ==
  NodeTypeOK /\ HttpTypeOK /\ Begun /\ CallTypeOK /\ [Next]_vars => CallTypeOK'
<1> SUFFICES ASSUME NodeTypeOK, HttpTypeOK, Begun, CallTypeOK, [Next]_vars
             PROVE  CallTypeOK'
  OBVIOUS
<1>a. ASSUME UNCHANGED callVars PROVE CallTypeOK'
  BY <1>a DEF callVars, CallTypeOK
<1>b. ASSUME NEW c \in Callers, NEW fault \in AllFaults, Spoil(c, fault),
             UNCHANGED <<op, outcome, up, since>>
      PROVE  CallTypeOK'
  BY <1>b DEF Spoil, CallTypeOK
<1>1. CASE OwnerStep \/ TimePasses
  BY <1>1, <1>a DEF OwnerStep, TimePasses
<1>2. CASE \E u \in ConfiguredUrls : DaemonStops(u) \/ DaemonStarts(u)
  <2>1. PICK u \in ConfiguredUrls : DaemonStops(u) \/ DaemonStarts(u)
    BY <1>2
  <2>2. UNCHANGED <<op, outcome, since>>
    BY <2>1 DEF DaemonStops, DaemonStarts
  <2>3. up' \in [ConfiguredUrls -> BOOLEAN]
    BY <2>1 DEF DaemonStops, DaemonStarts, CallTypeOK
  <2>4. spoiled' \in [Callers -> SUBSET AllFaults]
    <3>1. CASE DaemonStops(u)
      <4>1. \A c \in Callers : spoiled[c] \in SUBSET AllFaults
                               /\ spoiled[c] \cup {"down"} \in SUBSET AllFaults
        BY DEF CallTypeOK, AllFaults
      <4>2. QED
        BY <3>1, <4>1 DEF DaemonStops
    <3>2. CASE DaemonStarts(u)
      BY <3>2 DEF DaemonStarts, CallTypeOK
    <3>3. QED
      BY <2>1, <3>1, <3>2
  <2>5. QED
    BY <2>2, <2>3, <2>4 DEF CallTypeOK
<1>3. CASE \E c \in Callers : CallStep(c)
  <2>1. PICK c \in Callers : CallStep(c)
    BY <1>3
  <2>2. CASE \E o \in Ops : StartCall(c, o)
    <3>1. PICK o \in Ops : StartCall(c, o)
      BY <2>2
    <3>2. op' \in [Callers -> Ops] /\ op'[c] = o /\ \A d \in Callers : d # c => op'[d] = op[d]
      BY <3>1 DEF StartCall, CallTypeOK
    <3>3. Nothing \in Outcomes(o)
      BY DEF Nothing, Outcomes, Values
    <3>4. /\ outcome' \in [Callers -> UNION {Outcomes(p) : p \in Ops}]
          /\ \A d \in Callers : outcome'[d] \in Outcomes(op'[d])
      BY <3>1, <3>2, <3>3 DEF StartCall, CallTypeOK
    <3>5. since' \in [Callers -> Generations]
      BY <3>1, PublishedGeneration DEF StartCall, CallTypeOK
    <3>6. spoiled' \in [Callers -> SUBSET AllFaults]
      BY <3>1 DEF StartCall, CallTypeOK, AllFaults
    <3>7. QED
      BY <3>1, <3>2, <3>4, <3>5, <3>6 DEF StartCall, CallTypeOK
  <2>3. CASE \/ BuildUrl(c) \/ SendRequest(c) \/ RefuseCancelled(c)
             \/ \E t \in Threads : ResumeCall(c, t)
    BY <2>3, <1>a DEF BuildUrl, SendRequest, RefuseCancelled, ResumeCall
  <2>4. CASE RefuseUrl(c)
    BY <2>4, <1>b DEF RefuseUrl, AllFaults
  <2>5. CASE FinishCall(c) \/ Escape(c)
    <3>1. op[c] \in Ops
      BY DEF CallTypeOK
    <3>2. PICK x \in Outcomes(op[c]) : outcome' = [outcome EXCEPT ![c] = x]
      BY <2>5, <3>1, OutcomeType DEF FinishCall, Escape
    <3>3. UNCHANGED <<op, up, since, spoiled>>
      BY <2>5 DEF FinishCall, Escape
    <3>4. QED
      BY <3>2, <3>3, OutcomeUpdate DEF CallTypeOK
  <2>6. QED
    BY <2>1, <2>2, <2>3, <2>4, <2>5 DEF CallStep
<1>4. CASE \E c \in Callers : CallerStep(c)
  <2>1. PICK c \in Callers : CallerStep(c)
    BY <1>4
  <2>2. CASE Delay(c)
    <3>1. op[c] \in Ops
      BY DEF CallTypeOK
    <3>2. Nothing \in Outcomes(op[c])
      BY <3>1, OutcomeType
    <3>3. QED
      BY <2>2, <3>2, OutcomeUpdate DEF Delay, CallTypeOK
  <2>3. CASE (\E t \in Threads : WakeUp(c, t)) \/ DieSuspended(c) \/ Terminate(c)
    BY <2>3, <1>a DEF WakeUp, DieSuspended, Terminate
  <2>4. QED
    BY <2>1, <2>2, <2>3 DEF CallerStep
<1>5. CASE \E c \in Callers : WorldStep(c)
  <2>1. PICK c \in Callers : WorldStep(c)
    BY <1>5
  <2>2. CASE CancelCaller(c) \/ \E r \in Replies : ReplyArrives(c, r)
    <3>1. UNCHANGED <<op, outcome, up, since>>
      BY <2>2 DEF CancelCaller, ReplyArrives
    <3>2. \/ UNCHANGED spoiled
          \/ Spoil(c, "cancel")
          \/ Spoil(c, "reply")
      BY <2>2 DEF CancelCaller, ReplyArrives
    <3>3. QED
      BY <3>1, <3>2, <1>a, <1>b DEF callVars, AllFaults
  <2>3. CASE ConnectionRefused(c)
    BY <2>3, <1>a DEF ConnectionRefused
  <2>4. CASE NetworkFails(c) \/ ClientCrashes(c) \/ RequestExpires(c)
    BY <2>4, <1>b DEF NetworkFails, ClientCrashes, RequestExpires, AllFaults
  <2>5. QED
    BY <2>1, <2>2, <2>3, <2>4 DEF WorldStep
<1>6. CASE UNCHANGED vars
  BY <1>6, <1>a DEF vars
<1>7. QED
  BY <1>1, <1>2, <1>3, <1>4, <1>5, <1>6 DEF Next

\* The variables of Clients keep their types; in particular a method returns
\* only what its declaration allows: null is no answer to isNodeRunning, false
\* none to the others, and an answer comes from a URL.
THEOREM TypeCorrect == Spec => []TypeOK
<1>1. Init => NodeTypeOK /\ HttpTypeOK /\ Begun /\ CallTypeOK
  BY TypeInit, HttpTypeInit, BegunInit, CallTypeInit DEF Init
<1>2. NodeTypeOK /\ HttpTypeOK /\ Begun /\ CallTypeOK /\ [Next]_vars
        => (NodeTypeOK /\ HttpTypeOK /\ Begun /\ CallTypeOK)'
  BY NodeStep, TypeStep, HttpStep, HttpTypeStep, BegunStep, CallTypeStep
<1>3. NodeTypeOK /\ HttpTypeOK /\ CallTypeOK => TypeOK
  BY DEF CallTypeOK, TypeOK
<1>4. QED
  BY <1>1, <1>2, <1>3, PTL DEF Spec

-----------------------------------------------------------------------------
(* On one thread the clients keep the promise of Queries.                  *)

\* The values of a call whose URL is complete are of one generation, which was
\* published at some time since the call began.
Timely ==
  \A c \in Callers :
    /\ pc[c] # "idle" => since[c] <= Published
    /\ pc[c] = "get" =>
         \E g \in since[c] .. Published : \A f \in Fields : got[c][f] = g

\* The invariant of the refinement.
Sound ==
  /\ NodeTypeOK /\ HttpTypeOK /\ Begun /\ CallTypeOK
  /\ Known /\ Confined /\ Timely

\* Publication goes one generation at a time: with the last assignment.
LEMMA PublishedStep ==
  ASSUME NodeTypeOK, Begun, [NodeNext]_nodeVars
  PROVE  /\ Published \in Nat /\ Published' \in Nat
         /\ \/ Published' = Published
            \/ /\ Published' = Published + 1
               /\ Published < MaxGeneration
<1>1. target \in Nat /\ target <= MaxGeneration /\ Published \in Nat
  BY PublishedGeneration, NodeAssumption DEF NodeTypeOK, Generations
<1>2. CASE Reconfigure
  BY <1>1, <1>2 DEF Reconfigure, Published, Fields
<1>3. CASE \E f \in Fields : Assign(f)
  <2>1. pending # {} /\ target # 0 /\ target' = target
    BY <1>3 DEF Assign, Begun
  <2>2. Published = target - 1 /\ Published' \in {target, target - 1}
    BY <2>1 DEF Published
  <2>3. QED
    BY <1>1, <1>3, <2>2, <2>1, NodeAssumption
<1>4. CASE ~Reconfigure /\ ~ \E f \in Fields : Assign(f)
  <2>1. target' = target /\ pending' = pending
    BY <1>4 DEF NodeNext, nodeVars, Resume, Park, Call, ReadSsl, ReadHostName, ReadPort,
                Read, Return
  <2>2. QED
    BY <1>1, <2>1 DEF Published
<1>5. QED
  BY <1>2, <1>3, <1>4

LEMMA TimelyInit == Init => Timely
BY DEF Init, NodeInit, Timely, Published

\* A step in which no call begins or completes its URL: what is published may
\* only grow.
LEMMA TimelySame ==
  ASSUME Sound, [NodeNext]_nodeVars, since' = since, NEW c \in Callers,
         pc[c] # "idle", pc'[c] = "get" => pc[c] = "get" /\ got'[c] = got[c]
  PROVE  /\ since'[c] <= Published'
         /\ pc'[c] = "get" =>
              \E g \in since'[c] .. Published' : \A f \in Fields : got'[c][f] = g
<1>1. Published \in Nat /\ Published' \in Nat /\ Published <= Published'
  BY PublishedStep DEF Sound
<1>2. since[c] \in Nat
  BY NodeAssumption DEF Sound, CallTypeOK, Generations
<1>3. since[c] <= Published /\ since[c] .. Published \subseteq since[c] .. Published'
  BY <1>1, <1>2 DEF Sound, Timely
<1>4. QED
  BY <1>1, <1>2, <1>3 DEF Sound, Timely

LEMMA TimelyStep ==
  ASSUME OneThread, Sound, [Next]_vars
  PROVE  Timely'
<1>1. [NodeNext]_nodeVars
  BY NodeStep
<1> SUFFICES ASSUME NEW c \in Callers, pc'[c] # "idle"
             PROVE  /\ since'[c] <= Published'
                    /\ pc'[c] = "get" =>
                         \E g \in since'[c] .. Published' : \A f \in Fields : got'[c][f] = g
  BY DEF Timely
<1>2. CASE \E d \in Callers, o \in Ops : StartCall(d, o)
  <2>1. PICK d \in Callers, o \in Ops : StartCall(d, o)
    BY <1>2
  <2>2. Published' = Published /\ Published \in Nat
    BY <2>1, PublishedStep, <1>1 DEF StartCall, Call, Published, Sound
  <2>3. CASE c = d
    BY <2>1, <2>2, <2>3 DEF StartCall, Call, Sound, NodeTypeOK, CallTypeOK
  <2>4. CASE c # d
    <3>1. since'[c] = since[c] /\ pc'[c] = pc[c] /\ got'[c] = got[c]
      BY <2>1, <2>4 DEF StartCall, Call, Sound, NodeTypeOK, CallTypeOK
    <3>2. QED
      BY <2>2, <3>1 DEF Sound, Timely
  <2>5. QED
    BY <2>3, <2>4
<1>3. CASE \E d \in Callers : BuildUrl(d)
  <2>1. PICK d \in Callers : BuildUrl(d)
    BY <1>3
  <2>2. since' = since
    BY <2>1 DEF BuildUrl, callVars
  <2>3. CASE c = d /\ pc'[c] = "get"
    <3>1. /\ ReadSoFar(c)' /\ target' = target
          /\ Running(c) /\ pc[c] # "idle" /\ pending' = pending
      BY <2>1, <2>3, ConfinedRead DEF BuildUrl, Sound, ReadSsl, ReadHostName, ReadPort, Read
    <3>2. pending = {}
      BY <3>1, OneRuns DEF Sound
    <3>3. Published = target /\ Published' = target
      BY <3>1, <3>2 DEF Published
    <3>4. since[c] <= target /\ since[c] \in Nat /\ target \in Nat
      BY <3>1, <3>3, NodeAssumption DEF Sound, Timely, NodeTypeOK, CallTypeOK, Generations
    <3>5. \A f \in Fields : got'[c][f] = target
      BY <2>3, <3>1 DEF ReadSoFar, Fields
    <3>6. QED
      BY <2>2, <3>3, <3>4, <3>5
  <2>4. CASE ~(c = d /\ pc'[c] = "get")
    <3>1. pc[c] # "idle" /\ (pc'[c] = "get" => pc[c] = "get" /\ got'[c] = got[c])
      BY <2>1, <2>4 DEF BuildUrl, Sound, ReadSsl, ReadHostName, ReadPort, Read, NodeTypeOK
    <3>2. QED
      BY <1>1, <2>2, <3>1, TimelySame
  <2>5. QED
    BY <2>3, <2>4
<1>4. CASE \E d \in Callers : FinishCall(d) \/ Escape(d)
  <2>1. since' = since /\ pc[c] # "idle" /\ pc'[c] = pc[c] /\ got'[c] = got[c]
    BY <1>4 DEF FinishCall, Escape, Return, Sound, NodeTypeOK
  <2>2. QED
    BY <1>1, <2>1, TimelySame
<1>5. CASE UNCHANGED <<since, pc, got>>
  BY <1>1, <1>5, TimelySame
<1>6. QED
  <2>1. CASE OwnerStep \/ TimePasses
    BY <2>1, <1>5 DEF OwnerStep, Resume, Park, Reconfigure, Assign, TimePasses, callVars, nodeVars
  <2>2. CASE \E u \in ConfiguredUrls : DaemonStops(u) \/ DaemonStarts(u)
    BY <2>2, <1>5 DEF DaemonStops, DaemonStarts, nodeVars
  <2>3. CASE \E d \in Callers : CallStep(d)
    BY <2>3, <1>2, <1>3, <1>4, <1>5
       DEF CallStep, SendRequest, RefuseCancelled, RefuseUrl, ResumeCall, Park, Resume,
           callVars, nodeVars
  <2>4. CASE \E d \in Callers : CallerStep(d)
    BY <2>4, <1>5 DEF CallerStep, Delay, WakeUp, DieSuspended, Terminate, Park, Resume,
                      callVars, nodeVars
  <2>5. CASE \E d \in Callers : WorldStep(d)
    BY <2>5, <1>5 DEF WorldStep, CancelCaller, ReplyArrives, ConnectionRefused, NetworkFails,
                      ClientCrashes, RequestExpires, callVars, nodeVars
  <2>6. CASE UNCHANGED vars
    BY <2>6, <1>5 DEF vars, callVars, nodeVars
  <2>7. QED
    BY <2>1, <2>2, <2>3, <2>4, <2>5, <2>6 DEF Next

LEMMA SoundStep ==
  ASSUME OneThread
  PROVE  Sound /\ [Next]_vars => Sound'
BY NodeStep, TypeStep, HttpStep, HttpTypeStep, BegunStep, CallTypeStep, KnownStep, ConfinedStep,
   TimelyStep DEF Sound

\* What the caller is told at the end of a call is an answer of a node
\* published since it asked, or nothing.
LEMMA ResultIsKept ==
  ASSUME Sound, NEW c \in Callers, pc[c] = "get"
  PROVE  \/ \E g \in since[c] .. Published :
              /\ g \in Generations
              /\ Result(c) = [value |-> IF op[c] \in {o \in Ops : AsksStatus(o)}
                                       THEN "true" ELSE "answer",
                              from |-> ConfiguredUrl(g)]
         \/ Result(c) = [value |-> IF op[c] \in {o \in Ops : AsksStatus(o)}
                                  THEN "false" ELSE "null",
                         from |-> NoUrl]
<1>1. PICK g \in since[c] .. Published : \A f \in Fields : got[c][f] = g
  BY DEF Sound, Timely
<1>2. got[c] \in View
  BY DEF Sound, NodeTypeOK
<1>3. g \in Generations
  BY <1>1, <1>2, ViewNat DEF Fields
<1>4. UrlOf(got[c]) = ConfiguredUrl(g)
  BY <1>1, WholeView DEF Fields
<1>5. op[c] \in Ops
  BY DEF Sound, CallTypeOK
<1>6. QED
  BY <1>1, <1>3, <1>4, <1>5 DEF Result

LEMMA PromiseInit == Init => Promise!Init
BY DEF Init, NodeInit, Promise!Init, Published, Nothing, Promise!Nothing

\* A step that touches none of what the promise is about, but for publication.
LEMMA PromiseQuiet ==
  ASSUME Sound, [NodeNext]_nodeVars, UNCHANGED <<op, since, outcome>>,
         \A c \in Callers : (pc'[c] # "idle") <=> (pc[c] # "idle")
  PROVE  [Promise!Next]_(Promise!vars)
<1>1. [c \in Callers |-> pc'[c] # "idle"] = [c \in Callers |-> pc[c] # "idle"]
  OBVIOUS
<1>2. \/ Published' = Published
      \/ /\ Published' = Published + 1
         /\ Published < MaxGeneration
  BY PublishedStep DEF Sound
<1>3. CASE Published' = Published
  BY <1>1, <1>3 DEF Promise!vars
<1>4. CASE Published' = Published + 1 /\ Published < MaxGeneration
  BY <1>1, <1>4 DEF Promise!Next, Promise!Reconfigure
<1>5. QED
  BY <1>2, <1>3, <1>4

LEMMA PromiseStep ==
  ASSUME OneThread, Sound, [Next]_vars
  PROVE  [Promise!Next]_(Promise!vars)
<1>1. [NodeNext]_nodeVars
  BY NodeStep
<1>2. CASE \E c \in Callers, o \in Ops : StartCall(c, o)
  <2>1. PICK c \in Callers, o \in Ops : StartCall(c, o)
    BY <1>2
  <2>2. Published' = Published
    BY <2>1 DEF StartCall, Call, Published
  <2>3. pc[c] = "idle" /\ pc' = [pc EXCEPT ![c] = "ssl"]
    BY <2>1 DEF StartCall, Call
  <2>4. [d \in Callers |-> pc'[d] # "idle"]
          = [[d \in Callers |-> pc[d] # "idle"] EXCEPT ![c] = TRUE]
    BY <2>3 DEF Sound, NodeTypeOK
  <2>5. Promise!Ask(c, o)
    BY <2>1, <2>2, <2>3, <2>4 DEF StartCall, Promise!Ask, Nothing, Promise!Nothing
  <2>6. QED
    BY <2>5 DEF Promise!Next
<1>3. CASE \E c \in Callers : FinishCall(c) \/ Escape(c)
  <2>1. PICK c \in Callers : FinishCall(c) \/ Escape(c)
    BY <1>3
  <2>2. Published' = Published /\ UNCHANGED <<op, since>>
    BY <2>1 DEF FinishCall, Escape, Return, Published
  <2>3. pc[c] = "get" /\ pc' = [pc EXCEPT ![c] = "idle"]
    BY <2>1 DEF FinishCall, Escape, Return
  <2>4. [d \in Callers |-> pc'[d] # "idle"]
          = [[d \in Callers |-> pc[d] # "idle"] EXCEPT ![c] = FALSE]
    BY <2>3 DEF Sound, NodeTypeOK
  <2>5. ASSUME NEW value, NEW from, outcome' = [outcome EXCEPT ![c] = [value |-> value, from |-> from]]
        PROVE  Promise!Tell(c, value, from)
    BY <2>2, <2>3, <2>4, <2>5 DEF Promise!Tell
  <2>6. CASE Escape(c)
    <3>1. Promise!GiveUp(c)
      BY <2>5, <2>6 DEF Escape, Promise!GiveUp
    <3>2. QED
      BY <3>1 DEF Promise!Next
  <2>7. CASE FinishCall(c)
    <3>1. outcome' = [outcome EXCEPT ![c] = Result(c)]
      BY <2>7 DEF FinishCall
    <3>2. CASE \E g \in since[c] .. Published :
                 /\ g \in Generations
                 /\ Result(c) = [value |-> IF op[c] \in {o \in Ops : AsksStatus(o)}
                                          THEN "true" ELSE "answer",
                                 from |-> ConfiguredUrl(g)]
      <4>1. PICK g \in since[c] .. Published :
                 /\ g \in Generations
                 /\ Result(c) = [value |-> IF op[c] \in {o \in Ops : AsksStatus(o)}
                                          THEN "true" ELSE "answer",
                                 from |-> ConfiguredUrl(g)]
        BY <3>2
      <4>2. Promise!Answer(c, g)
        BY <3>1, <4>1, <2>5 DEF Promise!Answer
      <4>3. QED
        BY <4>1, <4>2 DEF Promise!Next, Generations
    <3>3. CASE Result(c) = [value |-> IF op[c] \in {o \in Ops : AsksStatus(o)}
                                     THEN "false" ELSE "null",
                            from |-> NoUrl]
      <4>1. Promise!GiveUp(c)
        BY <3>1, <3>3, <2>5 DEF Promise!GiveUp
      <4>2. QED
        BY <4>1 DEF Promise!Next
    <3>4. QED
      BY <2>3, <3>2, <3>3, ResultIsKept
  <2>8. QED
    BY <2>1, <2>6, <2>7
<1>4. CASE \E c \in Callers : Delay(c)
  <2>1. PICK c \in Callers : Delay(c)
    BY <1>4
  <2>2. Published' = Published /\ pc' = pc /\ UNCHANGED <<op, since>>
    BY <2>1 DEF Delay, Park, Published
  <2>3. Promise!Forget(c)
    BY <2>1, <2>2 DEF Delay, Promise!Forget, Nothing, Promise!Nothing
  <2>4. QED
    BY <2>3 DEF Promise!Next
<1>5. CASE \E c \in Callers : BuildUrl(c)
  <2>1. \A d \in Callers : (pc'[d] # "idle") <=> (pc[d] # "idle")
    BY <1>5 DEF BuildUrl, ReadSsl, ReadHostName, ReadPort, Read, Sound, NodeTypeOK
  <2>2. QED
    BY <1>1, <1>5, <2>1, PromiseQuiet DEF BuildUrl, callVars
<1>6. CASE UNCHANGED <<op, since, outcome, pc>>
  BY <1>1, <1>6, PromiseQuiet
<1>7. QED
  <2>1. CASE OwnerStep \/ TimePasses
    BY <2>1, <1>6 DEF OwnerStep, Resume, Park, Reconfigure, Assign, TimePasses, callVars, nodeVars
  <2>2. CASE \E u \in ConfiguredUrls : DaemonStops(u) \/ DaemonStarts(u)
    BY <2>2, <1>6 DEF DaemonStops, DaemonStarts, nodeVars
  <2>3. CASE \E d \in Callers : CallStep(d)
    BY <2>3, <1>2, <1>3, <1>5, <1>6
       DEF CallStep, SendRequest, RefuseCancelled, RefuseUrl, ResumeCall, Park, Resume,
           callVars, nodeVars
  <2>4. CASE \E d \in Callers : CallerStep(d)
    BY <2>4, <1>4, <1>6 DEF CallerStep, WakeUp, DieSuspended, Terminate, Park, Resume,
                            callVars, nodeVars
  <2>5. CASE \E d \in Callers : WorldStep(d)
    BY <2>5, <1>6 DEF WorldStep, CancelCaller, ReplyArrives, ConnectionRefused, NetworkFails,
                      ClientCrashes, RequestExpires, callVars, nodeVars
  <2>6. CASE UNCHANGED vars
    BY <2>6, <1>6 DEF vars, callVars, nodeVars
  <2>7. QED
    BY <2>1, <2>2, <2>3, <2>4, <2>5, <2>6 DEF Next

\* When all coroutines share one thread the clients implement Queries: an
\* answer is that of a node configured since the question was asked.
THEOREM PromiseKept ==
  ASSUME OneThread
  PROVE  Spec => KeepsPromise
<1>1. Init => Sound
  BY TypeInit, HttpTypeInit, BegunInit, CallTypeInit, KnownInit, ConfinedInit, TimelyInit
     DEF Init, Sound
<1>2. Sound /\ [Next]_vars => Sound'
  BY SoundStep
<1>3. Sound /\ [Next]_vars => [Promise!Next]_(Promise!vars)
  BY PromiseStep
<1>4. QED
  BY <1>1, <1>2, <1>3, PromiseInit, PTL DEF Spec, KeepsPromise, Promise!Spec

-----------------------------------------------------------------------------
(* No answer without a reason.                                             *)

\* Calls of which NullIsExplained speaks.
Spoken(c) == OneThread \/ calm[c]

\* The request of such a call goes to a URL the application configured.
ToConfigured ==
  \A c \in Callers :
    pc[c] = "get" /\ Spoken(c) => UrlOf(got[c]) \in ConfiguredUrls

\* What goes wrong in a call is recorded before the caller is told, from the
\* moment the cancellation, the fault or the bad reply happens.
Explained ==
  \A c \in Callers :
    /\ exchange[c] # "none" => pc[c] = "get"
    /\ pc[c] # "idle" =>
         /\ outcome[c] = Nothing
         /\ job[c] = "cancelling" \/ (\E u \in ConfiguredUrls : ~up[u]) => spoiled[c] # {}
    /\ Spoken(c) =>
         /\ exchange[c] \in {"failed", "crashed"} => spoiled[c] # {}
         /\ exchange[c] = "answered" /\ reply[c] # GoodReply => spoiled[c] # {}
         /\ outcome[c].value \in {"null", "false", "threw"} => spoiled[c] # {}

LEMMA ToConfiguredOneThread ==
  ASSUME OneThread
  PROVE  Spec => []ToConfigured
<1>1. Init => Sound
  BY TypeInit, HttpTypeInit, BegunInit, CallTypeInit, KnownInit, ConfinedInit, TimelyInit
     DEF Init, Sound
<1>2. Sound /\ [Next]_vars => Sound'
  BY SoundStep
<1>3. Sound => ToConfigured
  <2> SUFFICES ASSUME Sound, NEW c \in Callers, pc[c] = "get"
               PROVE  UrlOf(got[c]) \in ConfiguredUrls
    BY DEF ToConfigured
  <2>1. PICK g \in since[c] .. Published : \A f \in Fields : got[c][f] = g
    BY DEF Sound, Timely
  <2>2. got[c] \in View
    BY DEF Sound, NodeTypeOK
  <2>3. g \in Generations
    BY <2>1, <2>2, ViewNat DEF Fields
  <2>4. UrlOf(got[c]) = ConfiguredUrl(g)
    BY <2>1, WholeView DEF Fields
  <2>5. QED
    BY <2>3, <2>4 DEF ConfiguredUrls
<1>4. QED
  BY <1>1, <1>2, <1>3, PTL DEF Spec

LEMMA ToConfiguredThreads ==
  ASSUME ~OneThread
  PROVE  Spec => []ToConfigured
<1>1. TypeOK /\ QuietCall => ToConfigured
  BY DEF TypeOK, NodeTypeOK, QuietCall, ToConfigured, Spoken, ConfiguredUrls
<1>2. QED
  BY <1>1, TypeCorrect, ClientsQuietCall, PTL

LEMMA ExplainedInit == Init => Explained
BY DEF Init, NodeInit, HttpInit, Explained, Nothing

\* A step of the node that leaves the calls where they are.
LEMMA ExplainedSame ==
  ASSUME Explained, UNCHANGED <<pc, exchange, reply, job, outcome, up, spoiled>>,
         \A c \in Callers : calm'[c] => calm[c]
  PROVE  Explained'
BY DEF Explained, Spoken

\* A step of one call, beside which the others stay as they are.
LEMMA ExplainedCall ==
  ASSUME TypeOK, Explained, NEW c \in Callers, CallStep(c)
  PROVE  Explained'
<1> USE DEF TypeOK, NodeTypeOK, HttpTypeOK, Explained, Spoken
<1>1. CASE \E o \in Ops : StartCall(c, o)
  <2>1. PICK o \in Ops : StartCall(c, o)
    BY <1>1
  <2>2. pc[c] = "idle" /\ exchange[c] = "none"
    BY <2>1 DEF StartCall, Call
  <2>3. /\ outcome'[c] = Nothing
        /\ exchange'[c] = "none"
        /\ job'[c] = "cancelling" \/ (\E u \in ConfiguredUrls : ~up'[u]) => spoiled'[c] # {}
    BY <2>1, <2>2 DEF StartCall, httpVars
  <2>4. \A d \in Callers \ {c} :
          /\ pc'[d] = pc[d] /\ calm'[d] = calm[d]
          /\ outcome'[d] = outcome[d] /\ spoiled'[d] = spoiled[d]
    BY <2>1 DEF StartCall, Call
  <2>5. UNCHANGED <<exchange, reply, job, up>>
    BY <2>1 DEF StartCall, httpVars
  <2>6. QED
    BY <2>3, <2>4, <2>5 DEF Nothing
<1>2. CASE BuildUrl(c)
  <2>1. /\ pc[c] \in {"ssl", "hostName", "port"}
        /\ pc'[c] # "idle"
        /\ \A d \in Callers \ {c} : pc'[d] = pc[d]
    BY <1>2 DEF BuildUrl, ReadSsl, ReadHostName, ReadPort, Read
  <2>2. UNCHANGED <<exchange, reply, job, outcome, up, spoiled, calm>>
    BY <1>2 DEF BuildUrl, ReadSsl, ReadHostName, ReadPort, Read, httpVars, callVars
  <2>3. exchange[c] = "none"
    BY <2>1
  <2>4. QED
    BY <2>1, <2>2, <2>3
<1>3. CASE SendRequest(c) \/ RefuseCancelled(c)
  <2>1. pc[c] = "get" /\ UNCHANGED <<pc, calm, reply, job, outcome, up, spoiled>>
    BY <1>3 DEF SendRequest, RefuseCancelled, Submit, Park, nodeVars, callVars
  <2>2. /\ exchange'[c] \in {"inflight", "failed"}
        /\ exchange'[c] = "failed" => job[c] = "cancelling"
        /\ \A d \in Callers \ {c} : exchange'[d] = exchange[d]
    BY <1>3 DEF SendRequest, RefuseCancelled, Submit
  <2>3. QED
    BY <2>1, <2>2
<1>4. CASE RefuseUrl(c)
  <2>1. pc[c] = "get" /\ UNCHANGED <<pc, calm, reply, job, outcome, up>>
    BY <1>4 DEF RefuseUrl, Reject, nodeVars
  <2>2. /\ spoiled'[c] # {}
        /\ \A d \in Callers \ {c} : exchange'[d] = exchange[d] /\ spoiled'[d] = spoiled[d]
    BY <1>4 DEF RefuseUrl, Reject, Spoil
  <2>3. QED
    BY <2>1, <2>2
<1>5. CASE \E t \in Threads : ResumeCall(c, t)
  <2>1. pc[c] = "get" /\ UNCHANGED <<pc, calm, reply, job, outcome, up, spoiled>>
    BY <1>5 DEF ResumeCall, Wake, Resume, callVars
  <2>2. /\ exchange'[c] # exchange[c] => exchange'[c] = "failed" /\ job[c] = "cancelling"
        /\ \A d \in Callers \ {c} : exchange'[d] = exchange[d]
    BY <1>5 DEF ResumeCall, Wake
  <2>3. QED
    BY <2>1, <2>2
<1>6. CASE FinishCall(c) \/ Escape(c)
  <2>1. pc[c] = "get" /\ pc'[c] = "idle" /\ exchange'[c] = "none"
    BY <1>6 DEF FinishCall, Escape, Return, Close
  <2>2. UNCHANGED <<calm, job, up, spoiled>>
    BY <1>6 DEF FinishCall, Escape, Return, Close
  <2>3. \A d \in Callers \ {c} :
          /\ pc'[d] = pc[d] /\ exchange'[d] = exchange[d]
          /\ reply'[d] = reply[d] /\ outcome'[d] = outcome[d]
    BY <1>6 DEF FinishCall, Escape, Return, Close
  <2>4. ASSUME Spoken(c), outcome'[c].value \in {"null", "false", "threw"}
        PROVE  spoiled[c] # {}
    <3>1. CASE exchange[c] \in {"failed", "crashed"}
      BY <3>1, <2>4
    <3>2. CASE exchange[c] = "answered"
      <4>1. outcome'[c] = Result(c)
        BY <1>6, <3>2 DEF FinishCall, Escape
      <4>2. reply[c] # GoodReply
        BY <4>1, <3>2, <2>4 DEF Result, GoodReply
      <4>3. QED
        BY <4>2, <3>2, <2>4
    <3>3. QED
      BY <1>6, <3>1, <3>2 DEF FinishCall, Escape
  <2>5. QED
    BY <2>1, <2>2, <2>3, <2>4
<1>7. QED
  BY <1>1, <1>2, <1>3, <1>4, <1>5, <1>6 DEF CallStep

\* What happens to a call from outside.
LEMMA ExplainedWorld ==
  ASSUME TypeOK, ToConfigured, Explained, NEW c \in Callers, WorldStep(c)
  PROVE  Explained'
<1> USE DEF TypeOK, NodeTypeOK, HttpTypeOK, Explained, Spoken
<1>a. UNCHANGED <<pc, calm, got, outcome, up>>
  BY DEF WorldStep, CancelCaller, ReplyArrives, ConnectionRefused, NetworkFails, ClientCrashes,
         RequestExpires, nodeVars, callVars
<1>1. CASE CancelCaller(c)
  <2>1. /\ UNCHANGED <<exchange, reply>>
        /\ \A d \in Callers \ {c} : job'[d] = job[d] /\ spoiled'[d] = spoiled[d]
    BY <1>1 DEF CancelCaller, Cancel, Spoil
  <2>2. IF pc[c] = "idle" THEN spoiled'[c] = spoiled[c] ELSE spoiled'[c] # {}
    BY <1>1 DEF CancelCaller, Spoil
  <2>3. pc[c] = "idle" => exchange[c] = "none"
    OBVIOUS
  <2>4. QED
    BY <1>a, <2>1, <2>2, <2>3
<1>2. CASE \E r \in Replies : ReplyArrives(c, r)
  <2>1. PICK r \in Replies : ReplyArrives(c, r)
    BY <1>2
  <2>2. /\ pc[c] = "get" /\ exchange'[c] = "answered" /\ reply'[c] = r
        /\ UNCHANGED job
        /\ \A d \in Callers \ {c} : exchange'[d] = exchange[d] /\ reply'[d] = reply[d]
    BY <2>1 DEF ReplyArrives, Deliver, InFlight
  <2>3. /\ r = GoodReply \/ spoiled'[c] # {}
        /\ spoiled[c] # {} => spoiled'[c] # {}
        /\ \A d \in Callers \ {c} : spoiled'[d] = spoiled[d]
    BY <2>1 DEF ReplyArrives, Spoil
  <2>4. QED
    BY <1>a, <2>2, <2>3
<1>3. CASE ConnectionRefused(c)
  <2>1. /\ pc[c] = "get" /\ exchange'[c] = "failed"
        /\ UNCHANGED <<reply, job, spoiled>>
        /\ \A d \in Callers \ {c} : exchange'[d] = exchange[d]
    BY <1>3 DEF ConnectionRefused, Fail, InFlight, callVars
  <2>2. Spoken(c) => \E u \in ConfiguredUrls : ~up[u]
    BY <1>3, <2>1 DEF ConnectionRefused, Serving, ToConfigured
  <2>3. QED
    BY <1>a, <2>1, <2>2
<1>4. CASE NetworkFails(c) \/ ClientCrashes(c) \/ RequestExpires(c)
  <2>1. Spoil(c, "flake") \/ Spoil(c, "crash") \/ Spoil(c, "slow")
    BY <1>4 DEF NetworkFails, ClientCrashes, RequestExpires
  <2>2. spoiled'[c] # {} /\ \A d \in Callers \ {c} : spoiled'[d] = spoiled[d]
    BY <2>1 DEF Spoil
  <2>3. Fail(c) \/ Crash(c) \/ Expire(c)
    BY <1>4 DEF NetworkFails, ClientCrashes, RequestExpires
  <2>4. /\ pc[c] = "get" /\ exchange'[c] \in {"failed", "crashed"}
        /\ UNCHANGED <<reply, job>>
        /\ \A d \in Callers \ {c} : exchange'[d] = exchange[d]
    BY <2>3 DEF Fail, Crash, Expire, InFlight
  <2>5. QED
    BY <1>a, <2>2, <2>4
<1>5. QED
  BY <1>1, <1>2, <1>3, <1>4 DEF WorldStep

LEMMA ExplainedStep ==
  TypeOK /\ ToConfigured /\ Explained /\ [Next]_vars => Explained'
<1> SUFFICES ASSUME TypeOK, ToConfigured, Explained, [Next]_vars PROVE Explained'
  OBVIOUS
<1>1. CASE OwnerStep
  <2>1. UNCHANGED <<pc, exchange, reply, job, outcome, up, spoiled>>
    BY <1>1 DEF OwnerStep, Resume, Park, Reconfigure, Assign, httpVars, callVars
  <2>2. \A c \in Callers : calm'[c] => calm[c]
    BY <1>1 DEF OwnerStep, Resume, Park, Reconfigure, Assign
  <2>3. QED
    BY <2>1, <2>2, ExplainedSame
<1>2. CASE TimePasses
  BY <1>2, ExplainedSame DEF TimePasses, Tick, nodeVars, callVars
<1>3. CASE \E u \in ConfiguredUrls : DaemonStops(u)
  <2>1. UNCHANGED <<pc, calm, exchange, reply, job, outcome>>
    BY <1>3 DEF DaemonStops, nodeVars, httpVars
  <2>2. \A c \in Callers : /\ spoiled[c] # {} => spoiled'[c] # {}
                           /\ pc[c] # "idle" => spoiled'[c] # {}
    BY <1>3 DEF DaemonStops
  <2>3. QED
    BY <2>1, <2>2 DEF Explained, Spoken
<1>4. CASE \E u \in ConfiguredUrls : DaemonStarts(u)
  <2>1. UNCHANGED <<pc, calm, exchange, reply, job, outcome, spoiled>>
    BY <1>4 DEF DaemonStarts, nodeVars, httpVars
  <2>2. (\E u \in ConfiguredUrls : ~up'[u]) => \E u \in ConfiguredUrls : ~up[u]
    BY <1>4 DEF DaemonStarts, TypeOK
  <2>3. QED
    BY <2>1, <2>2 DEF Explained, Spoken
<1>5. CASE \E c \in Callers : CallStep(c)
  BY <1>5, ExplainedCall
<1>6. CASE \E c \in Callers : CallerStep(c)
  <2>1. PICK c \in Callers : CallerStep(c)
    BY <1>6
  <2>2. CASE Delay(c)
    <3>1. /\ pc[c] = "idle" /\ outcome'[c] = Nothing
          /\ UNCHANGED <<pc, calm, exchange, reply, job, up>>
          /\ \A d \in Callers \ {c} : outcome'[d] = outcome[d] /\ spoiled'[d] = spoiled[d]
      BY <2>2 DEF Delay, Park, httpVars, TypeOK
    <3>2. QED
      BY <3>1 DEF Explained, Spoken, Nothing
  <2>3. CASE \E t \in Threads : WakeUp(c, t)
    BY <2>3, ExplainedSame DEF WakeUp, Resume, httpVars, callVars
  <2>4. CASE DieSuspended(c) \/ Terminate(c)
    <3>1. /\ UNCHANGED <<pc, calm, exchange, reply, outcome, up, spoiled>>
          /\ \A d \in Callers : job'[d] = "cancelling" => job[d] = "cancelling"
      BY <2>4 DEF DieSuspended, Terminate, Complete, Park, nodeVars, callVars, TypeOK, HttpTypeOK
    <3>2. QED
      BY <3>1 DEF Explained, Spoken
  <2>5. QED
    BY <2>1, <2>2, <2>3, <2>4 DEF CallerStep
<1>7. CASE \E c \in Callers : WorldStep(c)
  BY <1>7, ExplainedWorld
<1>8. CASE UNCHANGED vars
  BY <1>8, ExplainedSame DEF vars, nodeVars, httpVars, callVars
<1>9. QED
  BY <1>1, <1>2, <1>3, <1>4, <1>5, <1>6, <1>7, <1>8 DEF Next

\* A call returns null or false or throws only if it was cancelled, a daemon
\* was down, or something went wrong with its request or reply: of any call if
\* all coroutines share one thread, else of any that no reconfiguration overlaps.
THEOREM NullExplained == Spec => []NullIsExplained
<1>1. OneThread => (Spec => []ToConfigured)
  BY ToConfiguredOneThread
<1>2. ~OneThread => (Spec => []ToConfigured)
  BY ToConfiguredThreads
<1>3. Explained => NullIsExplained
  BY DEF Explained, Spoken, NullIsExplained
<1>4. QED
  BY <1>1, <1>2, <1>3, ExplainedInit, ExplainedStep, TypeCorrect, PTL DEF Spec

-----------------------------------------------------------------------------
(* What the violated promise of this module needs.                         *)

\* Nobody is cancelled.
Uncancelled == \A c \in Callers : job[c] # "cancelling" /\ "cancel" \notin spoiled[c]

LEMMA UncancelledStep ==
  ASSUME "cancel" \notin Faults, TypeOK, Uncancelled, [Next]_vars
  PROVE  Uncancelled'
<1> USE DEF Uncancelled, TypeOK, HttpTypeOK
<1>1. CASE \E c \in Callers : CallStep(c)
  <2>1. PICK c \in Callers : CallStep(c)
    BY <1>1
  <2>2. job' = job
    BY <2>1 DEF CallStep, StartCall, BuildUrl, SendRequest, RefuseCancelled, RefuseUrl,
               ResumeCall, FinishCall, Escape, Submit, Reject, Wake, Close, httpVars
  <2>3. CASE \E o \in Ops : StartCall(c, o)
    BY <2>2, <2>3 DEF StartCall
  <2>4. CASE RefuseUrl(c)
    BY <2>2, <2>4 DEF RefuseUrl, Spoil
  <2>5. CASE UNCHANGED spoiled
    BY <2>2, <2>5
  <2> QED BY <2>1, <2>3, <2>4, <2>5
        DEF CallStep, BuildUrl, SendRequest, RefuseCancelled, ResumeCall, FinishCall, Escape,
            callVars
<1>2. CASE \E c \in Callers : CallerStep(c)
  <2>1. PICK c \in Callers : CallerStep(c)
    BY <1>2
  <2>2. CASE Delay(c)
    BY <2>2 DEF Delay, httpVars
  <2>3. CASE \E t \in Threads : WakeUp(c, t)
    BY <2>3 DEF WakeUp, httpVars, callVars
  <2>4. CASE DieSuspended(c) \/ Terminate(c)
    BY <2>4 DEF DieSuspended, Terminate, Complete, callVars
  <2> QED BY <2>1, <2>2, <2>3, <2>4 DEF CallerStep
<1>3. CASE \E c \in Callers : WorldStep(c)
  BY <1>3 DEF WorldStep, CancelCaller, ReplyArrives, ConnectionRefused, NetworkFails,
             ClientCrashes, RequestExpires, Deliver, Fail, Crash, Expire, Spoil, callVars
<1>4. CASE \E u \in ConfiguredUrls : DaemonStops(u) \/ DaemonStarts(u)
  BY <1>4 DEF DaemonStops, DaemonStarts, httpVars
<1>5. CASE OwnerStep \/ TimePasses \/ UNCHANGED vars
  BY <1>5 DEF OwnerStep, TimePasses, Tick, vars, httpVars, callVars
<1>6. QED
  BY <1>1, <1>2, <1>3, <1>4, <1>5 DEF Next

\* On one thread, that a cancellation is caught with the rest is all that makes
\* isNodeRunning speak of the caller: if nobody is cancelled, false is about the node.
THEOREM FalseCorrect ==
  ASSUME OneThread, "cancel" \notin Faults
  PROVE  Spec => []FalseIsAboutTheNode
<1>1. Init => Uncancelled
  BY DEF Init, HttpInit, Uncancelled
<1>2. TypeOK /\ Uncancelled /\ [Next]_vars => Uncancelled'
  BY UncancelledStep
<1>3. Uncancelled /\ NullIsExplained => FalseIsAboutTheNode
  <2> SUFFICES ASSUME Uncancelled, NullIsExplained, NEW c \in Callers,
                      outcome[c].value = "false"
               PROVE  spoiled[c] \ {"cancel"} # {}
    BY DEF FalseIsAboutTheNode
  <2>1. spoiled[c] # {}
    BY DEF NullIsExplained
  <2>2. "cancel" \notin spoiled[c]
    BY DEF Uncancelled
  <2> QED BY <2>1, <2>2
<1>4. QED
  BY <1>1, <1>2, <1>3, TypeCorrect, NullExplained, PTL DEF Spec

=============================================================================
