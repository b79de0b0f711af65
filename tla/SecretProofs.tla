---------------------------- MODULE SecretProofs ----------------------------
(***************************************************************************)
(* Proofs about module Secret, for any handlers, any artifacts and any     *)
(* number of uploads and failures.                                         *)
(***************************************************************************)
EXTENDS Secret, TLAPS

USE HandlersAssumption, ArtifactsAssumption, BoundsAssumption

-----------------------------------------------------------------------------
(* The inductive invariant.                                                *)

(* Between the head of the loop and the write there is an artifact.        *)
InBounds ==
    \A h \in Handlers : pc[h] \in {"get", "decode", "write"} =>
        i[h] < Len(ArtifactsOf[h])

WriteHasPath == \A h \in Handlers : At(h, "write") => HasPath(Current(h))

ResultIsFinal == \A h \in Handlers : result[h] # "none" => At(h, "returned")

(* What was over when a handler began will not write again.                *)
BeforeIsOver == \A h \in Handlers : before[h] \subseteq Over

(* The path of an artifact holds nothing that is older than h.             *)
Fresh(h, a) == HasPath(a) /\ vault[PathFor(a)].by \notin before[h] \cup {"nobody"}

(* The artifacts a handler has been through stay fresh: whoever writes     *)
(* after it does so while it is at work or later.                          *)
DoneIsFresh ==
    \A h \in Active : \A k \in 1 .. i[h] : Fresh(h, ArtifactsOf[h][k])

BeginsAtFirst == \A h \in Handlers : At(h, "idle") => i[h] = 0

(* What is in Vault, or on its way there, has been in S3, where versions   *)
(* only go up.                                                             *)
VaultWasUploaded ==
    \A p \in Paths : vault[p].by \in Handlers =>
        /\ vault[p].artifact \in Artifacts
        /\ vault[p].version <= s3[vault[p].artifact].version

GotWasUploaded ==
    \A h \in Handlers : pc[h] \in {"decode", "write"} =>
        got[h].version <= s3[Current(h)].version

(* What a handler has got of an artifact is no older than what the         *)
(* handlers before it have written of that artifact.                       *)
GotIsNewer ==
    \A h \in Handlers : pc[h] \in {"decode", "write"} =>
        \A p \in Paths :
            vault[p].by \in before[h] /\ vault[p].artifact = Current(h) =>
                vault[p].version <= got[h].version

Shape == TypeOK /\ InBounds /\ WriteHasPath /\ ResultIsFinal /\ BeforeIsOver

IFresh == DoneIsFresh /\ BeginsAtFirst /\ OkReplacesOlder
IVersions == VaultWasUploaded /\ GotWasUploaded /\ GotIsNewer

IInv == Shape /\ IFresh /\ IVersions

-----------------------------------------------------------------------------
(* A message lists a number of artifacts.                                  *)
LEMMA LengthIsNat == \A h \in Handlers : Len(ArtifactsOf[h]) \in Nat
  OBVIOUS

(* The artifact at hand is one of the artifacts, and so has its path.      *)
LEMMA CurrentIsArtifact ==
  ASSUME TypeOK, NEW h \in Handlers, i[h] < Len(ArtifactsOf[h])
  PROVE  /\ Current(h) \in Artifacts
         /\ HasPath(Current(h)) => PathFor(Current(h)) \in Paths
<1>1. ArtifactsOf[h] \in Seq(Artifacts) /\ i[h] + 1 \in 1 .. Len(ArtifactsOf[h])
  BY DEF TypeOK
<1>2. Current(h) \in Artifacts
  BY <1>1 DEF Current
<1>3. QED
  BY <1>2 DEF Paths

(* What a handler puts in Vault.                                           *)
Entry(h) == [artifact |-> Current(h), version |-> got[h].version, by |-> h]

(* vault.Write changes one path, and only to what its handler has got.     *)
LEMMA WriteEffect ==
  ASSUME Shape, NEW h \in Handlers, At(h, "write"),
         vault' = [vault EXCEPT ![PathFor(Current(h))] = Entry(h)]
  PROVE  /\ vault' \in [Paths -> Entries]
         /\ HasPath(Current(h)) /\ PathFor(Current(h)) \in Paths
         /\ Current(h) \in Artifacts
         /\ vault'[PathFor(Current(h))] = Entry(h)
         /\ \A p \in Paths : vault'[p] = vault[p] \/ vault'[p] = Entry(h)
<1>1. HasPath(Current(h)) /\ i[h] < Len(ArtifactsOf[h]) /\ TypeOK
  BY DEF Shape, WriteHasPath, InBounds, At
<1>2. Current(h) \in Artifacts /\ PathFor(Current(h)) \in Paths
  BY <1>1, CurrentIsArtifact
<1>3. Entry(h) \in Entries
  BY <1>1, <1>2 DEF Entry, Entries, TypeOK, Objects
<1>4. vault \in [Paths -> Entries]
  BY <1>1 DEF TypeOK
<1>5. QED
  BY <1>1, <1>2, <1>3, <1>4

-----------------------------------------------------------------------------

LEMMA InitIInv == Init => IInv
<1> SUFFICES ASSUME Init PROVE IInv
  OBVIOUS
<1> USE DEF Init
<1>1. TypeOK
  <2>1. s3 \in [Artifacts -> Objects] /\ vault \in [Paths -> Entries]
    BY DEF Objects, Entries, Empty
  <2>2. i \in [Handlers -> Nat] /\ \A h \in Handlers : i[h] <= Len(ArtifactsOf[h])
    BY LengthIsNat
  <2>3. NoObject \in Objects
    BY DEF NoObject, Objects, Contents
  <2>4. faults \in 0 .. MaxFaults
    OBVIOUS
  <2>5. QED
    BY <2>1, <2>2, <2>3, <2>4 DEF TypeOK
<1>2. InBounds /\ WriteHasPath /\ ResultIsFinal /\ BeforeIsOver
  BY DEF InBounds, WriteHasPath, ResultIsFinal, BeforeIsOver, At
<1>3. IFresh
  BY DEF IFresh, DoneIsFresh, BeginsAtFirst, OkReplacesOlder, Active
<1>4. IVersions
  BY DEF IVersions, VaultWasUploaded, GotWasUploaded, GotIsNewer, Empty
<1>5. QED
  BY <1>1, <1>2, <1>3, <1>4 DEF IInv, Shape

-----------------------------------------------------------------------------
(* Types, places and what is over: one step of each kind.                  *)

LEMMA ReturnShape ==
  ASSUME Shape, NEW h \in Handlers, h \in Active, NEW r \in {"ok", "err", "aborted"},
         Return(h, r), s3' = s3, vault' \in [Paths -> Entries],
         ctxDone' = ctxDone, faults' \in 0 .. MaxFaults
  PROVE  Shape'
<1> USE DEF Shape, Return, GoTo, Drop, Active
<1>1. NoObject \in Objects
  BY DEF NoObject, Objects, Contents
<1>2. TypeOK'
  BY <1>1 DEF TypeOK
<1>3. InBounds' /\ WriteHasPath'
  BY DEF TypeOK, InBounds, WriteHasPath, At, Current
<1>4. ResultIsFinal' /\ BeforeIsOver'
  BY DEF TypeOK, ResultIsFinal, BeforeIsOver, Over, At
<1>5. QED
  BY <1>2, <1>3, <1>4

LEMMA ShapeStep == Shape /\ [Next]_vars => Shape'
<1> SUFFICES ASSUME Shape, [Next]_vars PROVE Shape'
  OBVIOUS
<1> USE DEF Shape
<1>0. NoObject \in Objects
  BY DEF NoObject, Objects, Contents
<1>1. ASSUME NEW h \in Handlers, Begin(h) PROVE Shape'
  <2> USE <1>1 DEF Begin, At, GoTo
  <2>1. TypeOK'
    BY DEF TypeOK, Over
  <2>2. InBounds' /\ WriteHasPath'
    BY DEF TypeOK, InBounds, WriteHasPath, Current
  <2>3. ResultIsFinal' /\ BeforeIsOver'
    BY DEF TypeOK, ResultIsFinal, BeforeIsOver, Over
  <2>4. QED
    BY <2>1, <2>2, <2>3
<1>2. ASSUME NEW h \in Handlers, Loop(h) PROVE Shape'
  <2>1. CASE \E r \in {"ok", "aborted"} : Return(h, r)
    <3>1. h \in Active
      BY <1>2 DEF Loop, At, Active
    <3>2. QED
      BY <1>2, <2>1, <3>1, ReturnShape DEF Loop, TypeOK
  <2>2. CASE /\ i[h] < Len(ArtifactsOf[h])
             /\ GoTo(h, "get")
             /\ UNCHANGED <<i, got, result, before>>
    <3> USE <1>2, <2>2 DEF Loop, At, GoTo
    <3>1. TypeOK'
      BY DEF TypeOK
    <3>2. InBounds' /\ WriteHasPath'
      BY DEF TypeOK, InBounds, WriteHasPath, Current
    <3>3. ResultIsFinal' /\ BeforeIsOver'
      BY DEF TypeOK, ResultIsFinal, BeforeIsOver, Over
    <3>4. QED
      BY <3>1, <3>2, <3>3
  <2>3. QED
    BY <1>2, <2>1, <2>2 DEF Loop
<1>3. ASSUME NEW h \in Handlers, Get(h) PROVE Shape'
  <2>1. Current(h) \in Artifacts
    BY <1>3, CurrentIsArtifact DEF Get, InBounds, At
  <2> USE <1>3 DEF Get, At, GoTo
  <2>2. TypeOK'
    BY <2>1 DEF TypeOK
  <2>3. InBounds' /\ WriteHasPath'
    BY DEF TypeOK, InBounds, WriteHasPath, Current
  <2>4. ResultIsFinal' /\ BeforeIsOver'
    BY DEF TypeOK, ResultIsFinal, BeforeIsOver, Over
  <2>5. QED
    BY <2>2, <2>3, <2>4
<1>4. ASSUME NEW h \in Handlers, Decode(h) PROVE Shape'
  <2> USE <1>4 DEF Decode, At, GoTo
  <2>1. TypeOK'
    BY DEF TypeOK
  <2>2. InBounds' /\ WriteHasPath'
    BY DEF TypeOK, InBounds, WriteHasPath, Current
  <2>3. ResultIsFinal' /\ BeforeIsOver'
    BY DEF TypeOK, ResultIsFinal, BeforeIsOver, Over
  <2>4. QED
    BY <2>1, <2>2, <2>3
<1>5. ASSUME NEW h \in Handlers, Write(h) PROVE Shape'
  <2>1. vault' \in [Paths -> Entries]
    BY <1>5, WriteEffect DEF Write, Entry
  <2> USE <1>5 DEF Write, At, GoTo, Drop
  <2>2. TypeOK'
    BY <1>0, <2>1 DEF TypeOK, InBounds
  <2>3. InBounds' /\ WriteHasPath'
    BY DEF TypeOK, InBounds, WriteHasPath, Current
  <2>4. ResultIsFinal' /\ BeforeIsOver'
    BY DEF TypeOK, ResultIsFinal, BeforeIsOver, Over
  <2>5. QED
    BY <2>2, <2>3, <2>4
<1>6. ASSUME NEW h \in Handlers, DecodeFails(h) PROVE Shape'
  BY <1>6, ReturnShape DEF DecodeFails, At, Active, TypeOK
<1>7. ASSUME NEW h \in Handlers, CallFails(h) PROVE Shape'
  <2>1. vault' \in [Paths -> Entries]
    BY <1>7, WriteEffect DEF CallFails, Entry, TypeOK
  <2>2. faults' \in 0 .. MaxFaults
    BY <1>7 DEF CallFails, Disturb, TypeOK
  <2>3. QED
    BY <1>7, <2>1, <2>2, ReturnShape DEF CallFails, Active
<1>8. ASSUME NEW a \in Artifacts, Upload(a) PROVE Shape'
  <2> USE <1>8 DEF Upload, handlerVars
  <2>1. s3' \in [Artifacts -> Objects]
    BY DEF TypeOK, Objects
  <2>2. TypeOK'
    BY <2>1 DEF TypeOK
  <2>3. InBounds' /\ WriteHasPath' /\ ResultIsFinal' /\ BeforeIsOver'
    BY DEF InBounds, WriteHasPath, ResultIsFinal, BeforeIsOver, Over, At, Current
  <2>4. QED
    BY <2>2, <2>3
<1>9. CASE Cancel
  BY <1>9 DEF Cancel, Disturb, handlerVars, TypeOK, InBounds, WriteHasPath,
     ResultIsFinal, BeforeIsOver, Over, At, Current
<1>10. CASE ProcessEnds
  <2> USE <1>10 DEF ProcessEnds, Active
  <2>0. faults' \in 0 .. MaxFaults
    BY DEF TypeOK, Disturb
  <2>1. got' \in [Handlers -> Objects] /\ i' \in [Handlers -> Nat]
        /\ \A h \in Handlers : i'[h] <= Len(ArtifactsOf[h])
    BY <1>0, LengthIsNat
  <2>2. pc' \in [Handlers -> {"idle", "loop", "get", "decode", "write",
                              "returned", "killed"}]
    BY DEF TypeOK
  <2>3. TypeOK'
    BY <2>0, <2>1, <2>2 DEF TypeOK
  <2>4. InBounds' /\ WriteHasPath'
    BY DEF TypeOK, InBounds, WriteHasPath, At
  <2>5. ResultIsFinal' /\ BeforeIsOver'
    BY DEF TypeOK, ResultIsFinal, BeforeIsOver, Over, At
  <2>6. QED
    BY <2>3, <2>4, <2>5
<1>11. CASE UNCHANGED vars
  BY <1>11 DEF vars, TypeOK, InBounds, WriteHasPath, ResultIsFinal, BeforeIsOver,
     Over, At, Current
<1>12. QED
  BY <1>1, <1>2, <1>3, <1>4, <1>5, <1>6, <1>7, <1>8, <1>9, <1>10, <1>11
     DEF Next, HandlerStep

-----------------------------------------------------------------------------
(* What one step may do to Vault, to a handler's place and to its result.  *)

LEMMA VaultStep ==
  ASSUME Shape, [Next]_vars, NEW p \in Paths, vault'[p] # vault[p]
  PROVE  \E w \in Handlers : At(w, "write") /\ vault'[p] = Entry(w)
<1>1. CASE \E w \in Handlers : Write(w) \/ CallFails(w)
  <2>1. PICK w \in Handlers : Write(w) \/ CallFails(w)
    BY <1>1
  <2>2. At(w, "write") /\ vault' = [vault EXCEPT ![PathFor(Current(w))] = Entry(w)]
    BY <2>1 DEF Write, CallFails, Entry
  <2>3. QED
    BY <2>2, WriteEffect
<1>2. CASE ~ \E w \in Handlers : Write(w) \/ CallFails(w)
  BY <1>2 DEF Next, HandlerStep, Begin, Loop, Get, Decode, DecodeFails, Upload,
     Cancel, ProcessEnds, vars
<1>3. QED
  BY <1>1, <1>2

LEMMA PlaceStep ==
  ASSUME Shape, [Next]_vars, NEW h \in Handlers, h \in Active'
  PROVE  \/ Begin(h)
         \/ Write(h)
         \/ h \in Active /\ i'[h] = i[h] /\ before'[h] = before[h]
<1> USE DEF Shape, Active, At, GoTo
<1>1. CASE \E g \in Handlers : HandlerStep(g)
  <2>1. PICK g \in Handlers : HandlerStep(g)
    BY <1>1
  <2>2. CASE g = h
    BY <2>1, <2>2 DEF HandlerStep, Loop, Get, Decode, DecodeFails, CallFails,
       Return, TypeOK
  <2>3. CASE g # h
    BY <2>1, <2>3 DEF HandlerStep, Begin, Loop, Get, Decode, Write, DecodeFails,
       CallFails, Return, TypeOK
  <2>4. QED
    BY <2>2, <2>3
<1>2. CASE ~ \E g \in Handlers : HandlerStep(g)
  BY <1>2 DEF Next, Upload, Cancel, ProcessEnds, vars, handlerVars, TypeOK
<1>3. QED
  BY <1>1, <1>2

LEMMA ResultStep ==
  ASSUME Shape, [Next]_vars, NEW h \in Handlers, result'[h] = "ok"
  PROVE  \/ result[h] = "ok" /\ before'[h] = before[h]
         \/ /\ h \in Active /\ i[h] = Len(ArtifactsOf[h])
            /\ vault' = vault /\ before'[h] = before[h]
<1> USE DEF Shape, Active, At, GoTo, ResultIsFinal
<1>1. CASE \E g \in Handlers : HandlerStep(g)
  <2>1. PICK g \in Handlers : HandlerStep(g)
    BY <1>1
  <2>2. CASE g = h
    BY <2>1, <2>2 DEF HandlerStep, Begin, Loop, Get, Decode, Write, DecodeFails,
       CallFails, Return, TypeOK
  <2>3. CASE g # h
    BY <2>1, <2>3 DEF HandlerStep, Begin, Loop, Get, Decode, Write, DecodeFails,
       CallFails, Return, TypeOK
  <2>4. QED
    BY <2>2, <2>3
<1>2. CASE ~ \E g \in Handlers : HandlerStep(g)
  BY <1>2 DEF Next, Upload, Cancel, ProcessEnds, vars, handlerVars, TypeOK
<1>3. QED
  BY <1>1, <1>2

-----------------------------------------------------------------------------
(* Whoever writes is at work, so it is not among the handlers that were    *)
(* over when another began: what is fresh stays so.                        *)

LEMMA FreshKept ==
  ASSUME Shape, [Next]_vars, NEW h \in Handlers, NEW a \in ToSet(ArtifactsOf[h]),
         before'[h] = before[h], Fresh(h, a)
  PROVE  Fresh(h, a)'
<1>1. a \in Artifacts /\ PathFor(a) \in Paths
  BY DEF Artifacts, Paths, Fresh
<1>2. CASE vault'[PathFor(a)] = vault[PathFor(a)]
  BY <1>2 DEF Fresh
<1>3. CASE vault'[PathFor(a)] # vault[PathFor(a)]
  <2>1. PICK w \in Handlers : At(w, "write") /\ vault'[PathFor(a)] = Entry(w)
    BY <1>1, <1>3, VaultStep
  <2>2. w \notin before[h]
    BY <2>1 DEF Shape, BeforeIsOver, Over, At
  <2>3. QED
    BY <2>1, <2>2 DEF Fresh, Entry
<1>4. QED
  BY <1>2, <1>3

LEMMA ArtifactInList ==
  ASSUME NEW h \in Handlers, NEW k \in 1 .. Len(ArtifactsOf[h])
  PROVE  ArtifactsOf[h][k] \in ToSet(ArtifactsOf[h])
<1>1. ArtifactsOf[h] \in Seq(Artifacts)
  OBVIOUS
<1>2. QED
  BY <1>1 DEF ToSet

LEMMA FreshStep == Shape /\ IFresh /\ [Next]_vars => IFresh'
<1> SUFFICES ASSUME Shape, IFresh, [Next]_vars PROVE IFresh'
  OBVIOUS
<1>0. Shape'
  BY ShapeStep
<1>1. DoneIsFresh'
  <2> SUFFICES ASSUME NEW h \in Active', NEW k \in 1 .. i'[h]
               PROVE  Fresh(h, ArtifactsOf[h][k])'
    BY DEF DoneIsFresh
  <2>1. h \in Handlers
    BY DEF Active
  <2>2. k \in 1 .. Len(ArtifactsOf[h])
    BY <1>0, <2>1, LengthIsNat DEF Shape, TypeOK
  <2>3. ArtifactsOf[h][k] \in ToSet(ArtifactsOf[h])
    BY <2>1, <2>2, ArtifactInList
  <2>4. CASE Begin(h)
    BY <2>1, <2>4 DEF Begin, IFresh, BeginsAtFirst
  <2>5. CASE h \in Active /\ before'[h] = before[h] /\ k \in 1 .. i[h]
    BY <2>1, <2>3, <2>5, FreshKept DEF IFresh, DoneIsFresh
  <2>6. CASE Write(h) /\ k = i'[h]
    <3>1. At(h, "write") /\ vault' = [vault EXCEPT ![PathFor(Current(h))] = Entry(h)]
      BY <2>6 DEF Write, Entry
    <3>2. ArtifactsOf[h][k] = Current(h)
      BY <2>1, <2>6 DEF Write, Current, Shape, TypeOK
    <3>3. HasPath(Current(h)) /\ vault'[PathFor(Current(h))] = Entry(h)
      BY <2>1, <3>1, WriteEffect
    <3>4. h \notin before'[h]
      BY <2>1, <2>6, <3>1 DEF Write, Shape, BeforeIsOver, Over, At
    <3>5. QED
      BY <2>1, <3>2, <3>3, <3>4 DEF Fresh, Entry
  <2>7. Write(h) => i'[h] = i[h] + 1 /\ before'[h] = before[h] /\ h \in Active
    BY <2>1 DEF Write, Shape, TypeOK, At, Active
  <2>8. i[h] \in Nat
    BY <2>1 DEF Shape, TypeOK
  <2>9. QED
    BY <2>1, <2>4, <2>5, <2>6, <2>7, <2>8, PlaceStep
<1>2. BeginsAtFirst'
  <2> SUFFICES ASSUME NEW h \in Handlers, pc'[h] = "idle" PROVE i'[h] = 0
    BY DEF BeginsAtFirst, At
  <2>1. pc[h] = "idle" /\ (i'[h] = i[h] \/ i'[h] = 0)
    BY DEF Next, HandlerStep, Begin, Loop, Get, Decode, Write, DecodeFails,
       CallFails, Return, GoTo, At, Upload, Cancel, ProcessEnds, vars, handlerVars,
       Shape, TypeOK
  <2>2. QED
    BY <2>1 DEF IFresh, BeginsAtFirst, At
<1>3. OkReplacesOlder'
  <2> SUFFICES ASSUME NEW h \in Handlers, result'[h] = "ok",
                      NEW a \in ToSet(ArtifactsOf[h])
               PROVE  Fresh(h, a)'
    BY DEF OkReplacesOlder, Fresh
  <2>1. CASE result[h] = "ok" /\ before'[h] = before[h]
    BY <2>1, FreshKept DEF IFresh, OkReplacesOlder, Fresh
  <2>2. CASE /\ h \in Active /\ i[h] = Len(ArtifactsOf[h])
             /\ vault' = vault /\ before'[h] = before[h]
    <3>1. PICK k \in 1 .. Len(ArtifactsOf[h]) : a = ArtifactsOf[h][k]
      <4>1. ArtifactsOf[h] \in Seq(Artifacts)
        OBVIOUS
      <4>2. QED
        BY <4>1 DEF ToSet
    <3>2. QED
      BY <2>2, <3>1 DEF IFresh, DoneIsFresh, Fresh
  <2>3. QED
    BY <2>1, <2>2, ResultStep
<1>4. QED
  BY <1>1, <1>2, <1>3 DEF IFresh

-----------------------------------------------------------------------------
(* A handler that has got an object got it in this step or holds on to it, *)
(* and S3 only ever moves to newer versions.                               *)

LEMMA VersionsGrow ==
  ASSUME Shape, [Next]_vars, NEW a \in Artifacts
  PROVE  s3[a].version \in Nat /\ s3'[a].version \in Nat
         /\ s3[a].version <= s3'[a].version
<1>1. s3[a] \in Objects
  BY DEF Shape, TypeOK
<1>2. CASE \E b \in Artifacts : Upload(b)
  BY <1>1, <1>2 DEF Upload, Shape, TypeOK, Objects
<1>3. CASE s3' = s3
  BY <1>1, <1>3 DEF Objects
<1>4. QED
  BY <1>2, <1>3 DEF Next, HandlerStep, Begin, Loop, Get, Decode, Write, DecodeFails,
     CallFails, Cancel, ProcessEnds, vars

LEMMA GotStep ==
  ASSUME Shape, [Next]_vars, NEW h \in Handlers, pc'[h] \in {"decode", "write"}
  PROVE  /\ Current(h)' = Current(h) /\ before'[h] = before[h]
         /\ i[h] < Len(ArtifactsOf[h])
         /\ \/ got'[h] = s3[Current(h)] /\ vault' = vault
            \/ got'[h] = got[h] /\ pc[h] \in {"decode", "write"}
<1> USE DEF Shape, At, GoTo, TypeOK
<1>1. CASE \E g \in Handlers : HandlerStep(g)
  <2>1. PICK g \in Handlers : HandlerStep(g)
    BY <1>1
  <2>2. CASE g = h
    BY <2>1, <2>2 DEF HandlerStep, Begin, Loop, Get, Decode, Write, DecodeFails,
       CallFails, Return, InBounds, Current
  <2>3. CASE g # h
    BY <2>1, <2>3 DEF HandlerStep, Begin, Loop, Get, Decode, Write, DecodeFails,
       CallFails, Return, Drop, InBounds, Current
  <2>4. QED
    BY <2>2, <2>3
<1>2. CASE ~ \E g \in Handlers : HandlerStep(g)
  BY <1>2 DEF Next, Upload, Cancel, ProcessEnds, vars, handlerVars, Active,
     InBounds, Current
<1>3. QED
  BY <1>1, <1>2

LEMMA VersionStep == Shape /\ IVersions /\ [Next]_vars => IVersions'
<1> SUFFICES ASSUME Shape, IVersions, [Next]_vars PROVE IVersions'
  OBVIOUS
<1> USE DEF IVersions
<1>0. Shape'
  BY ShapeStep
<1>1. VaultWasUploaded'
  <2> SUFFICES ASSUME NEW p \in Paths, vault'[p].by \in Handlers
               PROVE  /\ vault'[p].artifact \in Artifacts
                      /\ vault'[p].version <= s3'[vault'[p].artifact].version
    BY DEF VaultWasUploaded
  <2>0. vault'[p].version \in Nat
    BY <1>0 DEF Shape, TypeOK, Entries
  <2>1. CASE vault'[p] = vault[p]
    BY <2>0, <2>1, VersionsGrow DEF VaultWasUploaded
  <2>2. CASE vault'[p] # vault[p]
    <3>1. PICK w \in Handlers : At(w, "write") /\ vault'[p] = Entry(w)
      BY <2>2, VaultStep
    <3>2. Current(w) \in Artifacts
      BY <3>1, CurrentIsArtifact DEF Shape, InBounds, At
    <3>3. got[w].version <= s3[Current(w)].version
      BY <3>1 DEF GotWasUploaded, At
    <3>4. QED
      BY <2>0, <3>1, <3>2, <3>3, VersionsGrow DEF Entry
  <2>3. QED
    BY <2>1, <2>2
<1>2. ASSUME NEW h \in Handlers, pc'[h] \in {"decode", "write"}
      PROVE  /\ got'[h].version <= s3'[Current(h)'].version
             /\ \A p \in Paths :
                   vault'[p].by \in before'[h] /\ vault'[p].artifact = Current(h)' =>
                       vault'[p].version <= got'[h].version
  <2>1. /\ Current(h)' = Current(h) /\ before'[h] = before[h]
        /\ i[h] < Len(ArtifactsOf[h])
    BY <1>2, GotStep
  <2>2. Current(h) \in Artifacts
    BY <2>1, CurrentIsArtifact DEF Shape
  <2>3. got'[h].version \in Nat /\ got[h].version \in Nat
    BY <1>0 DEF Shape, TypeOK, Objects
  <2>4. before[h] \subseteq Handlers
    BY DEF Shape, TypeOK
  <2>5. CASE got'[h] = s3[Current(h)] /\ vault' = vault
    <3>1. got'[h].version <= s3'[Current(h)].version
      BY <2>2, <2>5, VersionsGrow
    <3>2. ASSUME NEW p \in Paths, vault'[p].by \in before[h],
                 vault'[p].artifact = Current(h)
          PROVE  vault'[p].version <= got'[h].version
      BY <2>4, <2>5, <3>2 DEF VaultWasUploaded
    <3>3. QED
      BY <2>1, <3>1, <3>2
  <2>6. CASE got'[h] = got[h] /\ pc[h] \in {"decode", "write"}
    <3>1. got[h].version <= s3[Current(h)].version
      BY <2>6 DEF GotWasUploaded
    <3>2. got'[h].version <= s3'[Current(h)].version
      BY <2>2, <2>3, <2>6, <3>1, VersionsGrow
    <3>3. ASSUME NEW p \in Paths, vault'[p].by \in before[h],
                 vault'[p].artifact = Current(h)
          PROVE  vault'[p].version <= got'[h].version
      <4>1. CASE vault'[p] = vault[p]
        BY <2>6, <3>3, <4>1 DEF GotIsNewer
      <4>2. CASE vault'[p] # vault[p]
        <5>1. PICK w \in Handlers : At(w, "write") /\ vault'[p] = Entry(w)
          BY <4>2, VaultStep
        <5>2. w \in before[h]
          BY <3>3, <5>1 DEF Entry
        <5>3. QED
          BY <5>1, <5>2 DEF Shape, BeforeIsOver, Over, At
      <4>3. QED
        BY <4>1, <4>2
    <3>4. QED
      BY <2>1, <3>2, <3>3
  <2>7. QED
    BY <1>2, <2>5, <2>6, GotStep
<1>3. QED
  BY <1>1, <1>2 DEF GotWasUploaded, GotIsNewer

-----------------------------------------------------------------------------
(* The theorems.                                                           *)

THEOREM Inductive == Spec => []IInv
<1>1. IInv /\ [Next]_vars => IInv'
  BY ShapeStep, FreshStep, VersionStep DEF IInv
<1>2. QED
  BY InitIInv, <1>1, PTL DEF Spec

(* Every variable of the handlers keeps its type, and no handler runs past *)
(* the end of its artifacts.                                               *)
THEOREM SecretTypeCorrect == Spec => []TypeOK
<1>1. IInv => TypeOK
  BY DEF IInv, Shape
<1>2. QED
  BY Inductive, <1>1, PTL

(* When a message is reported done, every path it names holds what this or *)
(* a concurrent or a later handler wrote.                                  *)
THEOREM OkReplaces == Spec => []OkReplacesOlder
<1>1. IInv => OkReplacesOlder
  BY DEF IInv, IFresh
<1>2. QED
  BY Inductive, <1>1, PTL

(* An older version is written over a newer one only by a handler that     *)
(* overlaps with the one that wrote the newer.                             *)
THEOREM OlderConcurrent == Spec => OlderOnlyWhenConcurrent
<1>1. ASSUME IInv, [Next]_vars,
             NEW p \in Paths, NEW h \in Handlers,
             vault'[p] # vault[p], vault'[p].artifact = vault[p].artifact,
             vault'[p].version < vault[p].version, vault'[p].by = h
      PROVE  vault[p].by \notin before[h]
  <2>1. PICK w \in Handlers : At(w, "write") /\ vault'[p] = Entry(w)
    BY <1>1, VaultStep DEF IInv
  <2>2. w = h /\ vault'[p].artifact = Current(h) /\ vault'[p].version = got[h].version
    BY <1>1, <2>1 DEF Entry
  <2>3. got[h].version \in Nat /\ vault[p].version \in Nat
    BY <1>1 DEF IInv, Shape, TypeOK, Objects, Entries
  <2>4. QED
    BY <1>1, <2>1, <2>2, <2>3 DEF IInv, IVersions, GotIsNewer, At
<1>2. IInv /\ [Next]_vars =>
        [\A p \in Paths, h \in Handlers :
             /\ vault'[p] # vault[p]
             /\ vault'[p].artifact = vault[p].artifact
             /\ vault'[p].version < vault[p].version
             /\ vault'[p].by = h
             => vault[p].by \notin before[h]]_vars
  BY <1>1
<1>3. QED
  BY Inductive, <1>2, PTL DEF Spec, OlderOnlyWhenConcurrent
=============================================================================
