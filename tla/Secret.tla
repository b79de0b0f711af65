-------------------------------- MODULE Secret --------------------------------
(***************************************************************************)
(* Package handler/secret: for each artifact of a message its handler gets *)
(* the encrypted secret from S3, decrypts it and writes it to Vault.  Many *)
(* messages are handled at once, a message may be handled again, and the   *)
(* objects in S3 are replaced meanwhile.                                   *)
(*                                                                         *)
(* The name of an artifact is the sequence of its segments between         *)
(* slashes, each the sequence of its parts between dots.                   *)
(***************************************************************************)
EXTENDS Naturals, Sequences, SequencesExt

CONSTANTS
    Handlers,       \* the deliveries of secret messages that are handled
    ArtifactsOf,    \* what the message of each of them lists
    MaxUploads,     \* bound on the uploads of one artifact
    MaxFaults       \* bound on failing calls, cancellations and crashes

VARIABLES
    s3,         \* the object of each artifact
    vault,      \* what each path holds, from which handler
    ctxDone,    \* the context of all handlers is cancelled
    faults,     \* the disturbances there have been
    pc,         \* where each handler is
    i,          \* its artifacts before this one are done
    got,        \* the object it has got
    result,     \* what it returned
    before      \* the handlers that were over when it began (history)

vars == <<s3, vault, ctxDone, faults, pc, i, got, result, before>>
handlerVars == <<pc, i, got, result, before>>

Artifacts == UNION {ToSet(ArtifactsOf[h]) : h \in Handlers}

ASSUME HandlersAssumption == "nobody" \notin Handlers
ASSUME ArtifactsAssumption == ArtifactsOf \in [Handlers -> Seq(Artifacts)]
ASSUME BoundsAssumption == MaxUploads \in Nat /\ MaxFaults \in Nat

(* pathFor: the second segment, up to its first dot; a name with no second *)
(* segment makes it panic.                                                 *)
HasPath(artifact) == Len(artifact) >= 2
PathFor(artifact) == artifact[2][1]

Paths == {PathFor(a) : a \in {b \in Artifacts : HasPath(b)}}

(* What an object holds: no message for our key, no JSON object, a secret. *)
Contents == {"undecryptable", "notJSON", "secret"}
Objects == [version : 0 .. MaxUploads, content : Contents]
Entries == [artifact : Artifacts \cup {<<>>}, version : 0 .. MaxUploads,
            by : Handlers \cup {"nobody"}]
NoObject == [version |-> 0, content |-> "undecryptable"]
Empty == [artifact |-> <<>>, version |-> 0, by |-> "nobody"]

Active == {h \in Handlers : pc[h] \in {"loop", "get", "decode", "write"}}
Over == {h \in Handlers : pc[h] \in {"returned", "killed"}}
Current(h) == ArtifactsOf[h][i[h] + 1]

TypeOK ==
    /\ s3 \in [Artifacts -> Objects]
    /\ vault \in [Paths -> Entries]
    /\ ctxDone \in BOOLEAN
    /\ faults \in 0 .. MaxFaults
    /\ pc \in [Handlers -> {"idle", "loop", "get", "decode", "write",
                            "returned", "killed"}]
    /\ i \in [Handlers -> Nat]
    /\ \A h \in Handlers : i[h] <= Len(ArtifactsOf[h])
    /\ got \in [Handlers -> Objects]
    /\ result \in [Handlers -> {"none", "ok", "err", "aborted"}]
    /\ before \in [Handlers -> SUBSET Handlers]

Init ==
    /\ s3 \in [Artifacts -> [version : {0}, content : Contents]]
    /\ vault = [p \in Paths |-> Empty]
    /\ ctxDone = FALSE
    /\ faults = 0
    /\ pc = [h \in Handlers |-> "idle"]
    /\ i = [h \in Handlers |-> 0]
    /\ got = [h \in Handlers |-> NoObject]
    /\ result = [h \in Handlers |-> "none"]
    /\ before = [h \in Handlers |-> {}]

At(h, place) == pc[h] = place
GoTo(h, place) == pc' = [pc EXCEPT ![h] = place]

(* What a turn of the loop has got goes out of scope with it, and the      *)
(* index with the loop.                                                    *)
Drop(h) == got' = [got EXCEPT ![h] = NoObject]

Return(h, r) ==
    /\ GoTo(h, "returned")
    /\ result' = [result EXCEPT ![h] = r]
    /\ i' = [i EXCEPT ![h] = 0]
    /\ Drop(h)
    /\ UNCHANGED before

Disturb ==
    /\ faults < MaxFaults
    /\ faults' = faults + 1

-----------------------------------------------------------------------------
(* Mutants: the handler with one plausible mistake each.                   *)

(* An S3 client with a cache: any earlier version may be read.             *)
GetCached(h) ==
    /\ At(h, "get")
    /\ \E v \in 0 .. s3[Current(h)].version :
         got' = [got EXCEPT ![h] = [version |-> v, content |-> "secret"]]
    /\ GoTo(h, "decode")
    /\ UNCHANGED <<s3, vault, ctxDone, faults, i, result, before>>

(* A failure to decode is logged and the loop goes on.                     *)
DecodeFailureSkips(h) ==
    /\ At(h, "decode")
    /\ got[h].content # "secret"
    /\ i' = [i EXCEPT ![h] = @ + 1]
    /\ GoTo(h, "loop")
    /\ Drop(h)
    /\ UNCHANGED <<s3, vault, ctxDone, faults, result, before>>

(* The index of the loop is advanced by its body as well.                  *)
WriteSkipsNext(h) ==
    /\ At(h, "write")
    /\ vault' = [vault EXCEPT ![PathFor(Current(h))] =
          [artifact |-> Current(h), version |-> got[h].version, by |-> h]]
    /\ i' = [i EXCEPT ![h] = @ + 2]
    /\ GoTo(h, "loop")
    /\ Drop(h)
    /\ UNCHANGED <<s3, ctxDone, faults, result, before>>

-----------------------------------------------------------------------------
(* The handler, one step of its loop after the other.                      *)

(* The engine calls Handler, in a goroutine of its own.                    *)
Begin(h) ==
    /\ At(h, "idle")
    /\ GoTo(h, "loop")
    /\ before' = [before EXCEPT ![h] = Over]
    /\ UNCHANGED <<s3, vault, ctxDone, faults, i, got, result>>

(* The head of the loop, and the only look at the context.                 *)
Loop(h) ==
    /\ At(h, "loop")
    /\ \/ i[h] = Len(ArtifactsOf[h]) /\ Return(h, "ok")
       \/ i[h] < Len(ArtifactsOf[h]) /\ ctxDone /\ Return(h, "aborted")
       \/ /\ i[h] < Len(ArtifactsOf[h])
          /\ ~ctxDone
          /\ GoTo(h, "get")
          /\ UNCHANGED <<i, got, result, before>>
    /\ UNCHANGED <<s3, vault, ctxDone, faults>>

Get(h) ==
    /\ At(h, "get")
    /\ got' = [got EXCEPT ![h] = s3[Current(h)]]
    /\ GoTo(h, "decode")
    /\ UNCHANGED <<s3, vault, ctxDone, faults, i, result, before>>

(* A call to S3 or Vault fails, or the body breaks off: the handler gives  *)
(* up with what it has written so far.  A failed write may have been done. *)
CallFails(h) ==
    /\ pc[h] \in {"get", "decode", "write"}
    /\ Disturb
    /\ Return(h, "err")
    /\ \/ UNCHANGED vault
       \/ /\ At(h, "write")
          /\ vault' = [vault EXCEPT ![PathFor(Current(h))] =
                [artifact |-> Current(h), version |-> got[h].version, by |-> h]]
    /\ UNCHANGED <<s3, ctxDone>>

(* decryptMessage, pathFor and json.Unmarshal.                             *)
Decode(h) ==
    /\ At(h, "decode")
    /\ got[h].content # "undecryptable"
    /\ HasPath(Current(h))
    /\ got[h].content = "secret"
    /\ GoTo(h, "write")
    /\ UNCHANGED <<s3, vault, ctxDone, faults, i, got, result, before>>

DecodeFails(h) ==
    /\ At(h, "decode")
    /\ \/ got[h].content = "undecryptable"
       \/ got[h].content = "notJSON" /\ HasPath(Current(h))
    /\ Return(h, "err")
    /\ UNCHANGED <<s3, vault, ctxDone, faults>>

(* vault.Write replaces all the path held.                                 *)
Write(h) ==
    /\ At(h, "write")
    /\ vault' = [vault EXCEPT ![PathFor(Current(h))] =
          [artifact |-> Current(h), version |-> got[h].version, by |-> h]]
    /\ i' = [i EXCEPT ![h] = @ + 1]
    /\ GoTo(h, "loop")
    /\ Drop(h)
    /\ UNCHANGED <<s3, ctxDone, faults, result, before>>

HandlerStep(h) ==
    \/ Begin(h) \/ Loop(h) \/ Get(h) \/ Decode(h) \/ Write(h)
    \/ DecodeFails(h) \/ CallFails(h)

-----------------------------------------------------------------------------
(* The world around the handlers.                                          *)

(* Whoever changes a secret uploads the artifact anew.                     *)
Upload(a) ==
    /\ s3[a].version < MaxUploads
    /\ \E c \in Contents :
         s3' = [s3 EXCEPT ![a] = [version |-> @.version + 1, content |-> c]]
    /\ UNCHANGED <<vault, ctxDone, faults, handlerVars>>

Cancel ==
    /\ ~ctxDone
    /\ Disturb
    /\ ctxDone' = TRUE
    /\ UNCHANGED <<s3, vault, handlerVars>>

(* The process and all handlers with it end: by os.Exit after cancel, by a *)
(* crash, or by the panic of pathFor in one of them.  It starts again.     *)
ProcessEnds ==
    /\ \/ ctxDone /\ UNCHANGED faults
       \/ Disturb
       \/ /\ \E h \in Handlers :
               /\ At(h, "decode")
               /\ got[h].content # "undecryptable"
               /\ ~HasPath(Current(h))
          /\ UNCHANGED faults
    /\ ctxDone' = FALSE
    /\ pc' = [h \in Handlers |-> IF h \in Active THEN "killed" ELSE pc[h]]
    /\ i' = [h \in Handlers |-> 0]
    /\ got' = [h \in Handlers |-> NoObject]
    /\ UNCHANGED <<s3, vault, result, before>>

Next ==
    \/ \E h \in Handlers : HandlerStep(h)
    \/ \E a \in Artifacts : Upload(a)
    \/ Cancel
    \/ ProcessEnds

Spec == Init /\ [][Next]_vars

-----------------------------------------------------------------------------
(* Properties.                                                             *)

(* When a message is reported done, every path it names holds what this or *)
(* a concurrent or a later handler wrote: nothing is left of the handlers  *)
(* that were over before it began, failed, killed or done.                 *)
OkReplacesOlder ==
    \A h \in Handlers : result[h] = "ok" =>
        \A a \in ToSet(ArtifactsOf[h]) :
            HasPath(a) /\ vault[PathFor(a)].by \notin before[h] \cup {"nobody"}

(* Nothing orders handlers of one secret, and one may write an older       *)
(* version over a newer; but only over a handler that it overlaps with:    *)
(* a message handled late or again does not bring an old value back.       *)
OlderOnlyWhenConcurrent ==
    [][\A p \in Paths, h \in Handlers :
          /\ vault'[p] # vault[p]
          /\ vault'[p].artifact = vault[p].artifact
          /\ vault'[p].version < vault[p].version
          /\ vault'[p].by = h
          => vault[p].by \notin before[h]]_vars
=============================================================================
