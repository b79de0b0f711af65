--------------------------------- MODULE Job ---------------------------------
(***************************************************************************)
(* Package nomad: the Nomad job that CreateJob makes of a message of the   *)
(* second queue, and what NewHandler then does with that job.              *)
(*                                                                         *)
(* A name is the sequence of its words between dashes.  Left out are what  *)
(* is the same for every message - region, driver, restart policy, ports,  *)
(* template, artifact - and the fields of a message that no code reads:    *)
(* Go, and of its groups Mount and HeapMemory.                             *)
(***************************************************************************)
EXTENDS Integers, FiniteSets, SequencesExt

CONSTANTS
    Messages,       \* the messages: records of type MessageSQS
    Nil,            \* a pointer that is nil, a field that is not set
    BodyOptional    \* the Nomad endpoint takes a request with an empty body

ASSUME BodyAssumption == BodyOptional \in BOOLEAN

VARIABLES
    msg,      \* the message being handled
    pc,       \* where NewHandler is
    job,      \* the api.Job
    posted    \* the bodies of its requests to Nomad

vars == <<msg, pc, job, posted>>

GroupNames == {"publishing", "web"}

(* MessageSQS.Publishing, MessageSQS.Web.                                  *)
Details(m, group) == IF group = "publishing" THEN m.publishing ELSE m.web

Asked(m) == {g \in GroupNames : Details(m, g) # Nil}

(* The Go types of the fields that are read.                               *)
GroupsType ==
    [count : Int, cpu : Int, memory : Int, args : Seq(STRING),
     volumes : Seq(STRING), usernsMode : BOOLEAN, distinctHosts : BOOLEAN]

ASSUME MessagesAssumption ==
    \A m \in Messages :
        /\ m.job \in Seq(STRING) /\ m.java \in BOOLEAN
        /\ m.healthcheck # Nil => m.healthcheck.enabled \in BOOLEAN
        /\ \A g \in Asked(m) : Details(m, g) \in GroupsType

-----------------------------------------------------------------------------
(* job.go, task.go, service.go.                                            *)

Seconds(n) == n

UpdateStrategy(java) ==
    [stagger |-> IF java THEN Seconds(150) ELSE Seconds(60),
     minHealthyTime |-> Seconds(30), healthyDeadline |-> Seconds(120),
     maxParallel |-> 1, autoRevert |-> TRUE]

NodeClass(value) == [lTarget |-> "${node.class}", rTarget |-> value]
DistinctHosts == [operand |-> "distinct_hosts"]

Constraints(details, group) ==
    {NodeClass(group)} \cup (IF details.distinctHosts THEN {DistinctHosts} ELSE {})

Config(details, revision) ==
    [image |-> revision, args |-> details.args, volumes |-> details.volumes,
     usernsMode |-> details.usernsMode]

Resources(details) == [cpu |-> details.cpu, memory |-> details.memory]

(* Mutant of Task: the policy of its service, not of its group.            *)
TaskOfService(name, details, revision) ==
    [name |-> name, config |-> Config(details, revision),
     resources |-> Resources(details), policies |-> {Front(name)}]

(* createTask, with its Vault policy.                                      *)
Task(name, details, revision) ==
    [name |-> name, config |-> Config(details, revision),
     resources |-> Resources(details), policies |-> {name}]

Service(name, group, healthcheck) ==
    [name |-> name, tags |-> {group},
     checks |-> IF healthcheck.enabled THEN {healthcheck.path} ELSE {}]

(* Mutant of TaskGroup: both groups are built from the details of one.     *)
TaskGroupOfFirst(m, group, details) ==
    LET first == IF m.publishing # Nil THEN m.publishing ELSE details
    IN  [name |-> group, count |-> first.count,
         task |-> Task(m.job \o <<group>>, first, m.revision),
         service |-> Service(m.job, group, m.healthcheck),
         constraints |-> Constraints(first, group)]

TaskGroup(m, group, details) ==
    [name |-> group, count |-> details.count,
     task |-> Task(m.job \o <<group>>, details, m.revision),
     service |-> Service(m.job, group, m.healthcheck),
     constraints |-> Constraints(details, group)]

(* A group that is nil is skipped.                                         *)
TaskGroupsOf(m, group) ==
    IF group \in Asked(m) THEN <<TaskGroup(m, group, Details(m, group))>> ELSE <<>>

(* Payload, which planNew and runNew will post, is not set.                *)
CreateJob(m) ==
    [name |-> m.job, type |-> "service", update |-> UpdateStrategy(m.java),
     taskGroups |-> TaskGroupsOf(m, "publishing") \o TaskGroupsOf(m, "web"),
     payload |-> Nil]

-----------------------------------------------------------------------------
(* NewHandler, for one message.                                            *)

NoJob == CreateJob([job |-> <<>>, java |-> FALSE, publishing |-> Nil, web |-> Nil])

(* json.Unmarshal has made the message.                                    *)
Init ==
    /\ msg \in Messages
    /\ pc = "create"
    /\ job = NoJob
    /\ posted = <<>>

(* createService reads healthcheck.Enabled for every group.                *)
Dereferenced == Asked(msg) = {} \/ msg.healthcheck # Nil

Create ==
    /\ pc = "create"
    /\ Dereferenced
    /\ job' = CreateJob(msg)
    /\ pc' = "plan"
    /\ UNCHANGED <<msg, posted>>

(* Nothing recovers from the panic: the process ends.                      *)
Panics ==
    /\ pc = "create"
    /\ ~Dereferenced
    /\ pc' = "panicked"
    /\ UNCHANGED <<msg, job, posted>>

(* planNew and runNew post job.Payload.                                    *)
Post(next) ==
    /\ posted' = Append(posted, job.payload)
    /\ \/ (job.payload # Nil \/ BodyOptional) /\ pc' = next
       \/ pc' = "failed"
    /\ UNCHANGED <<msg, job>>

PlanNew == pc = "plan" /\ Post("run")
RunNew == pc = "run" /\ Post("check")

(* The job is a service: successCheckByDeployment, of whatever Nomad has   *)
(* registered.                                                             *)
SuccessCheck ==
    /\ pc = "check"
    /\ pc' \in {"deployed", "aborted", "timeout", "failed"}
    /\ UNCHANGED <<msg, job, posted>>

Next == Create \/ Panics \/ PlanNew \/ RunNew \/ SuccessCheck

Spec == Init /\ [][Next]_vars

-----------------------------------------------------------------------------
(* Properties.                                                             *)

Created == pc \notin {"create", "panicked"}
GroupsOf(j) == {j.taskGroups[k] : k \in DOMAIN j.taskGroups}

(* Two messages ask the same of group g.                                   *)
AskAlike(m, n, g) ==
    /\ Details(m, g) = Details(n, g)
    /\ m.revision = n.revision
    /\ m.healthcheck.enabled = n.healthcheck.enabled
    /\ m.healthcheck.enabled => m.healthcheck.path = n.healthcheck.path

(* The job has the groups that the message asks for, each of them once.    *)
(* Nothing that is asked of a group gets lost on the way, and nothing of   *)
(* the other group gets into it: compared with the job of any other        *)
(* message for the service, a group is the same exactly if the two         *)
(* messages ask the same of it, whatever they ask of the other; and so for *)
(* Java and the way the job is updated.                                    *)
JobIsAsAsked ==
    Created =>
        /\ {g.name : g \in GroupsOf(job)} = Asked(msg)
        /\ Len(job.taskGroups) = Cardinality(Asked(msg))
        /\ \A n \in {k \in Messages : k.job = msg.job /\ k.healthcheck # Nil} :
              /\ job.update = CreateJob(n).update <=> msg.java = n.java
              /\ \A x \in GroupsOf(job), y \in GroupsOf(CreateJob(n)) :
                    x.name = y.name => (x = y <=> AskAlike(msg, n, x.name))

(* The Vault policy that opens the secrets of one group of one service is  *)
(* given to no task of another group or service, however their names are   *)
(* put together with dashes.                                               *)
PoliciesApart ==
    Created => \A g \in GroupsOf(job), m \in Messages : \A other \in Asked(m) :
        /\ m.healthcheck # Nil
        /\ <<other, m.job>> # <<g.name, msg.job>>
        => TaskGroup(m, other, Details(m, other)).task.policies
               \cap g.task.policies = {}

(* "CreateJob Creates the Nomad job structure for an application           *)
(* deployment" (job.go): what NewHandler registers is that job.            *)
RegistersTheJob == \A k \in DOMAIN posted : posted[k] # Nil
=============================================================================
