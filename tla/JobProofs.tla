------------------------------ MODULE JobProofs ------------------------------
(***************************************************************************)
(* Proofs about module Job.                                                *)
(***************************************************************************)
EXTENDS Job, FiniteSetTheorems, SequenceTheorems, TLAPS

(* Until it is posted the job is the one made of the message, which is     *)
(* only made where no health check is read through a nil pointer.          *)
IInv ==
    /\ msg \in Messages
    /\ Created => Dereferenced /\ job = CreateJob(msg)

(* IInv holds at the start and no step breaks it: what createJob has       *)
(* returned is not changed before it is used (NewHandler).                 *)
THEOREM Inductive == Spec => []IInv
<1>1. Init => IInv
  BY DEF Init, IInv, Created
<1>2. IInv /\ [Next]_vars => IInv'
  <2> SUFFICES ASSUME IInv, [Next]_vars PROVE IInv'
    OBVIOUS
  <2> USE DEF IInv, Created, Dereferenced
  <2>1. CASE Create
    BY <2>1 DEF Create
  <2>2. CASE Panics
    BY <2>2 DEF Panics
  <2>3. CASE PlanNew
    BY <2>3 DEF PlanNew, Post
  <2>4. CASE RunNew
    BY <2>4 DEF RunNew, Post
  <2>5. CASE SuccessCheck
    BY <2>5 DEF SuccessCheck
  <2>6. CASE UNCHANGED vars
    BY <2>6 DEF vars
  <2> QED
    BY <2>1, <2>2, <2>3, <2>4, <2>5, <2>6 DEF Next
<1> QED
  BY <1>1, <1>2, PTL DEF Spec

-----------------------------------------------------------------------------
(* A job's groups are those of the parts of the message that are not nil,  *)
(* as many of them (CreateJob).                                            *)
LEMMA GroupsOfJob ==
    ASSUME NEW m
    PROVE  /\ GroupsOf(CreateJob(m))
                 = {TaskGroup(m, g, Details(m, g)) : g \in Asked(m)}
           /\ Len(CreateJob(m).taskGroups) = Cardinality(Asked(m))
<1> DEFINE made == CreateJob(m).taskGroups
           of(g) == TaskGroup(m, g, Details(m, g))
           Both == {of("publishing"), of("web")}
           Holds == /\ {made[k] : k \in DOMAIN made} = {of(g) : g \in Asked(m)}
                    /\ Len(made) = Cardinality(Asked(m))
<1>1. made = TaskGroupsOf(m, "publishing") \o TaskGroupsOf(m, "web")
  BY DEF CreateJob
<1>2. \A g : TaskGroupsOf(m, g) = IF g \in Asked(m) THEN <<of(g)>> ELSE <<>>
  BY DEF TaskGroupsOf
<1>3. Asked(m) \subseteq {"publishing", "web"}
  BY DEF Asked, GroupNames
<1>4. <<of("publishing")>> \in Seq(Both) /\ <<of("web")>> \in Seq(Both)
  OBVIOUS
<1> SUFFICES Holds
  BY DEF GroupsOf
<1> HIDE DEF of, made
<1>5. CASE Asked(m) = {}
  <2>1. made = <<>>
    BY <1>1, <1>2, <1>5
  <2>2. Cardinality({}) = 0
    BY FS_EmptySet
  <2> QED
    BY <2>1, <2>2, <1>5
<1>6. ASSUME NEW g \in {"publishing", "web"}, Asked(m) = {g} PROVE Holds
  <2>1. made = <<of(g)>>
    <3>1. <<of(g)>> \in Seq(Both)
      BY <1>4, <1>6
    <3>2. made = <<of(g)>> \o <<>> \/ made = <<>> \o <<of(g)>>
      BY <1>1, <1>2, <1>6
    <3> QED
      BY <3>1, <3>2, ConcatEmptySeq
  <2>2. Cardinality({g}) = 1
    BY FS_Singleton
  <2>3. Len(made) = 1 /\ DOMAIN made = {1} /\ made[1] = of(g)
    BY <2>1
  <2> QED
    BY <2>3, <2>2, <1>6
<1>7. CASE Asked(m) = {"publishing", "web"}
  <2>1. TaskGroupsOf(m, "publishing") = <<of("publishing")>>
        /\ TaskGroupsOf(m, "web") = <<of("web")>>
    BY <1>2, <1>7
  <2>2. made = <<of("publishing")>> \o <<of("web")>>
    BY <1>1, <2>1
  <2>3. Len(made) = 2 /\ DOMAIN made = {1, 2}
        /\ made[1] = of("publishing") /\ made[2] = of("web")
    BY <2>2, <1>4
  <2>4. Cardinality({"publishing", "web"}) = 2
    <3>1. IsFiniteSet({"publishing"}) /\ Cardinality({"publishing"}) = 1
      BY FS_Singleton
    <3>2. {"publishing", "web"} = {"publishing"} \cup {"web"} /\ "web" \notin {"publishing"}
      OBVIOUS
    <3> QED
      BY <3>1, <3>2, FS_AddElement
  <2> QED
    BY <2>3, <2>4, <1>7
<1> QED
  BY <1>3, <1>5, <1>6, <1>7

(* What createTaskGroup puts in a group's constraints tells whether it is  *)
(* to have hosts of its own.                                               *)
LEMMA ConstraintsOf ==
    ASSUME NEW details, details.distinctHosts \in BOOLEAN, NEW group
    PROVE  DistinctHosts \in Constraints(details, group) <=> details.distinctHosts
<1>1. NodeClass(group) # DistinctHosts
  <2>1. DOMAIN NodeClass(group) = {"lTarget", "rTarget"}
    BY DEF NodeClass
  <2>2. DOMAIN DistinctHosts = {"operand"}
    BY DEF DistinctHosts
  <2> QED
    BY <2>1, <2>2
<1> QED
  BY <1>1 DEF Constraints

(* Every field of a group that is read has a place of its own in the task  *)
(* group, so that different details give different task groups.            *)
LEMMA GroupTellsDetails ==
    ASSUME NEW m, NEW n, NEW g, NEW d \in GroupsType, NEW e \in GroupsType,
           TaskGroup(m, g, d) = TaskGroup(n, g, e)
    PROVE  d = e /\ m.revision = n.revision
<1>1. /\ TaskGroup(m, g, d).count = d.count
      /\ TaskGroup(m, g, d).task.resources = Resources(d)
      /\ TaskGroup(m, g, d).task.config = Config(d, m.revision)
      /\ TaskGroup(m, g, d).constraints = Constraints(d, g)
  BY DEF TaskGroup, Task
<1>2. /\ TaskGroup(n, g, e).count = e.count
      /\ TaskGroup(n, g, e).task.resources = Resources(e)
      /\ TaskGroup(n, g, e).task.config = Config(e, n.revision)
      /\ TaskGroup(n, g, e).constraints = Constraints(e, g)
  BY DEF TaskGroup, Task
<1>3. /\ d.count = e.count /\ Resources(d) = Resources(e)
      /\ Config(d, m.revision) = Config(e, n.revision)
      /\ Constraints(d, g) = Constraints(e, g)
  BY <1>1, <1>2
<1>4. d.cpu = e.cpu /\ d.memory = e.memory
  BY <1>3 DEF Resources
<1>5. /\ m.revision = n.revision /\ d.args = e.args
      /\ d.volumes = e.volumes /\ d.usernsMode = e.usernsMode
  BY <1>3 DEF Config
<1>6. d.distinctHosts = e.distinctHosts
  <2>1. d.distinctHosts \in BOOLEAN /\ e.distinctHosts \in BOOLEAN
    BY DEF GroupsType
  <2> QED
    BY <1>3, <2>1, ConstraintsOf
<1> QED
  BY <1>3, <1>4, <1>5, <1>6 DEF GroupsType

(* And so has the health check in its service.                             *)
LEMMA ChecksTell ==
    ASSUME NEW a, NEW b, a.enabled \in BOOLEAN, b.enabled \in BOOLEAN, NEW name, NEW g
    PROVE  Service(name, g, a) = Service(name, g, b)
              <=> /\ a.enabled = b.enabled
                  /\ a.enabled => a.path = b.path
<1> DEFINE checks(c) == IF c.enabled THEN {c.path} ELSE {}
<1>1. \A c : /\ Service(name, g, c) = [name |-> name, tags |-> {g}, checks |-> checks(c)]
            /\ Service(name, g, c).checks = checks(c)
  BY DEF Service
<1>2. Service(name, g, a) = Service(name, g, b) <=> checks(a) = checks(b)
  BY <1>1
<1>3. checks(a) = checks(b) <=> /\ a.enabled = b.enabled
                                /\ a.enabled => a.path = b.path
  <2>1. \A x, y : {x} # {} /\ ({x} = {y} <=> x = y)
    OBVIOUS
  <2> QED
    BY <2>1
<1> QED
  BY <1>2, <1>3

(* Two messages for one service make the same task group of what they ask  *)
(* of it, and only then.                                                   *)
LEMMA GroupAsAsked ==
    ASSUME NEW m \in Messages, NEW n \in Messages, n.job = m.job,
           m.healthcheck # Nil, n.healthcheck # Nil,
           NEW g \in Asked(m), g \in Asked(n)
    PROVE  TaskGroup(m, g, Details(m, g)) = TaskGroup(n, g, Details(n, g))
              <=> AskAlike(m, n, g)
<1>1. /\ Details(m, g) \in GroupsType /\ Details(n, g) \in GroupsType
      /\ m.healthcheck.enabled \in BOOLEAN /\ n.healthcheck.enabled \in BOOLEAN
  BY MessagesAssumption
<1>2. Service(m.job, g, m.healthcheck) = Service(m.job, g, n.healthcheck)
         <=> /\ m.healthcheck.enabled = n.healthcheck.enabled
             /\ m.healthcheck.enabled => m.healthcheck.path = n.healthcheck.path
  BY <1>1, ChecksTell
<1>3. ASSUME TaskGroup(m, g, Details(m, g)) = TaskGroup(n, g, Details(n, g))
      PROVE  AskAlike(m, n, g)
  <2>1. Details(m, g) = Details(n, g) /\ m.revision = n.revision
    BY <1>1, <1>3, GroupTellsDetails
  <2>2. /\ TaskGroup(m, g, Details(m, g)).service = Service(m.job, g, m.healthcheck)
        /\ TaskGroup(n, g, Details(n, g)).service = Service(m.job, g, n.healthcheck)
    BY DEF TaskGroup
  <2> QED
    BY <1>2, <1>3, <2>1, <2>2 DEF AskAlike
<1>4. ASSUME AskAlike(m, n, g)
      PROVE  TaskGroup(m, g, Details(m, g)) = TaskGroup(n, g, Details(n, g))
  <2>1. Service(m.job, g, m.healthcheck) = Service(n.job, g, n.healthcheck)
    BY <1>2, <1>4 DEF AskAlike
  <2> QED
    BY <1>4, <2>1 DEF AskAlike, TaskGroup
<1> QED
  BY <1>3, <1>4

(* The job that NewHandler has in hand after CreateJob deploys what the    *)
(* message asks for and nothing else, of no group more or less than it     *)
(* asks of it.                                                             *)
THEOREM AsAsked == Spec => []JobIsAsAsked
<1>1. ASSUME IInv, Created PROVE JobIsAsAsked
  <2> DEFINE of(m, g) == TaskGroup(m, g, Details(m, g))
  <2>1. msg \in Messages /\ Dereferenced /\ job = CreateJob(msg)
    BY <1>1 DEF IInv
  <2>2. \A m, g : of(m, g).name = g
    BY DEF TaskGroup
  <2>3. /\ GroupsOf(job) = {of(msg, g) : g \in Asked(msg)}
        /\ Len(job.taskGroups) = Cardinality(Asked(msg))
    BY <2>1, GroupsOfJob
  <2>4. ASSUME NEW n \in Messages, n.job = msg.job, n.healthcheck # Nil,
               NEW x \in GroupsOf(job), NEW y \in GroupsOf(CreateJob(n)),
               x.name = y.name
        PROVE  x = y <=> AskAlike(msg, n, x.name)
    <3>1. PICK g \in Asked(msg) : x = of(msg, g)
      BY <2>3
    <3>2. PICK h \in Asked(n) : y = of(n, h)
      BY GroupsOfJob
    <3>3. x.name = g /\ h = g
      BY <2>2, <2>4, <3>1, <3>2
    <3>4. msg.healthcheck # Nil
      BY <2>1, <3>1 DEF Dereferenced
    <3> QED
      BY <2>1, <2>4, <3>1, <3>2, <3>3, <3>4, GroupAsAsked
  <2>5. ASSUME NEW n \in Messages
        PROVE  job.update = CreateJob(n).update <=> msg.java = n.java
    <3>1. job.update = UpdateStrategy(msg.java) /\ CreateJob(n).update = UpdateStrategy(n.java)
      BY <2>1 DEF CreateJob
    <3>2. UpdateStrategy(TRUE).stagger # UpdateStrategy(FALSE).stagger
      BY DEF UpdateStrategy, Seconds
    <3>3. msg.java \in BOOLEAN /\ n.java \in BOOLEAN
      BY <2>1, MessagesAssumption
    <3>4. UpdateStrategy(TRUE) # UpdateStrategy(FALSE)
      BY <3>2
    <3>5. \A a, b \in BOOLEAN : UpdateStrategy(a) = UpdateStrategy(b) <=> a = b
      <4> SUFFICES ASSUME NEW a \in BOOLEAN, NEW b \in BOOLEAN
                   PROVE  UpdateStrategy(a) = UpdateStrategy(b) <=> a = b
        OBVIOUS
      <4>1. CASE a = b
        BY <4>1
      <4>2. CASE a = TRUE /\ b = FALSE
        BY <3>4, <4>2
      <4>3. CASE a = FALSE /\ b = TRUE
        BY <3>4, <4>3
      <4> QED
        BY <4>1, <4>2, <4>3
    <3> QED
      BY <3>1, <3>3, <3>5
  <2>6. {g.name : g \in GroupsOf(job)} = Asked(msg)
    <3> HIDE DEF of
    <3>1. {g.name : g \in GroupsOf(job)} = {of(msg, h).name : h \in Asked(msg)}
      BY <2>3
    <3> QED
      BY <2>2, <3>1
  <2> QED
    BY <2>3, <2>4, <2>5, <2>6 DEF JobIsAsAsked
<1>2. IInv => JobIsAsAsked
  BY <1>1 DEF JobIsAsAsked
<1> QED
  BY <1>2, Inductive, PTL

-----------------------------------------------------------------------------
(* Two names that end in the same word after a dash are the same before it.*)
LEMMA NamesApart ==
    ASSUME NEW Words, NEW p \in Seq(Words), NEW q \in Seq(Words),
           NEW a \in Words, NEW b \in Words,
           p \o <<a>> = q \o <<b>>
    PROVE  p = q /\ a = b
<1>1. Len(p \o <<a>>) = Len(p) + 1 /\ Len(q \o <<b>>) = Len(q) + 1
  OBVIOUS
<1>2. Len(p) = Len(q)
  BY <1>1
<1>3. a = b
  <2>1. <<a>> \in Seq(Words) /\ Len(<<a>>) = 1 /\ <<a>>[1] = a
        /\ <<b>> \in Seq(Words) /\ Len(<<b>>) = 1 /\ <<b>>[1] = b
    OBVIOUS
  <2>2. (p \o <<a>>)[Len(p) + 1] = a /\ (q \o <<b>>)[Len(q) + 1] = b
    BY <2>1, ConcatProperties
  <2> QED
    BY <1>2, <2>2
<1>4. \A k \in 1 .. Len(p) : p[k] = (p \o <<a>>)[k] /\ q[k] = (q \o <<b>>)[k]
  BY <1>2
<1> QED
  BY <1>2, <1>3, <1>4

(* No Vault policy is given to tasks of two groups or services, whatever   *)
(* dashes the services' names have (createTask).                           *)
THEOREM PoliciesKeptApart == Spec => []PoliciesApart
<1>1. ASSUME IInv, Created PROVE PoliciesApart
  <2> SUFFICES ASSUME NEW g \in GroupsOf(job), NEW m \in Messages, NEW other \in Asked(m),
                      <<other, m.job>> # <<g.name, msg.job>>
               PROVE  TaskGroup(m, other, Details(m, other)).task.policies
                         \cap g.task.policies = {}
    BY DEF PoliciesApart
  <2>1. msg \in Messages /\ job = CreateJob(msg)
    BY <1>1 DEF IInv
  <2>2. PICK h \in Asked(msg) : g = TaskGroup(msg, h, Details(msg, h))
    BY <2>1, GroupsOfJob
  <2>3. g.name = h /\ g.task.policies = {msg.job \o <<h>>}
    BY <2>2 DEF TaskGroup, Task
  <2>4. TaskGroup(m, other, Details(m, other)).task.policies = {m.job \o <<other>>}
    BY DEF TaskGroup, Task
  <2> DEFINE Words == STRING \cup GroupNames
  <2>5. h \in Words /\ other \in Words
    BY DEF Asked
  <2>6. m.job \in Seq(Words) /\ msg.job \in Seq(Words)
    BY <2>1, MessagesAssumption
  <2> HIDE DEF Words
  <2> QED
    BY <2>3, <2>4, <2>5, <2>6, NamesApart
<1>2. IInv => PoliciesApart
  BY <1>1 DEF PoliciesApart
<1> QED
  BY <1>2, Inductive, PTL
=============================================================================
