---------------------------- MODULE MetadataUpdate ----------------------------
(***************************************************************************)
(* Commands that change a part of the metadata of a bucket or an object:    *)
(* acl, defacl, iam, label, setmeta, retention lock.  Most read the part,   *)
(* change what they have read and write all of it back, under the condition *)
(* that the metageneration, or the etag of the policy, is still the one     *)
(* they have read; some repeat this when it is not.  Several gsutils and    *)
(* other users work on the same bucket and the same object.                 *)
(*                                                                          *)
(* A part is a map from keys (entities, labels, headers) to values, a       *)
(* policy one from roles to sets of members.  A version stands for an etag, *)
(* a metageneration, or a generation together with a metageneration.        *)
(***************************************************************************)
EXTENDS Integers, Sequences, FiniteSets

CONSTANTS
    Clients,
    Plans,          \* what each client does: [op, change]
    Keys, Vals,     \* of maps; roles and members of policies
    Writer,         \* the permission that does not apply to objects
    InitialMap,     \* what maps are to begin with
    MaxChanges,     \* bound: changes by others
    MaxFaults       \* bound: failed and unanswered requests

None == 0
DropAll == "DROP_ALL"
Parts == {"acl", "defacl", "labels", "policy", "objacl", "custom", "retention"}
Maps == Parts \ {"policy", "retention"}

PartOf == [aclBucket |-> "acl", aclSet |-> "acl", aclObject |-> "objacl",
           defacl |-> "defacl", iamCh |-> "policy", iamSet |-> "policy",
           labelCh |-> "labels", labelSet |-> "labels", setmeta |-> "custom",
           lock |-> "retention"]

\* What shares a version.
Container(part) == CASE part \in {"acl", "defacl", "labels", "retention"} -> "bucket"
                     [] part \in {"objacl", "custom"} -> "object"
                     [] part = "policy" -> "policy"

\* A word says what becomes of a key: a value, or None to delete it.
Words == [key : Keys, val : Vals \cup {None}]

\* Of a policy, a member is granted a role, or loses one or all of them.
Grants == [grant : {TRUE}, role : Keys, member : Vals]
          \cup [grant : {FALSE}, role : Keys \cup {DropAll}, member : Vals]

\* The changes of labels and of headers are dictionaries: one word on a key.
MentionedOnce(ch) == \A i, j \in DOMAIN ch : ch[i].key = ch[j].key => i = j

ASSUME PlansAssumption ==
    \A p \in Plans, c \in Clients :
       /\ p[c].op \in DOMAIN PartOf
       /\ CASE p[c].op \in {"iamCh", "iamSet"} -> p[c].change \in Seq(Grants)
            [] p[c].op \in {"labelCh", "labelSet", "setmeta"} ->
                   p[c].change \in Seq(Words) /\ MentionedOnce(p[c].change)
            [] OTHER -> p[c].change \in Seq(Words)
ASSUME ValsAssumption ==
    Vals # {} /\ None \notin Vals /\ Writer \in Vals /\ InitialMap \in [Keys -> Vals \cup {None}]
ASSUME BoundsAssumption == MaxChanges \in Nat /\ MaxFaults \in Nat

VARIABLES
    value,          \* the parts
    version,        \* of each container
    born,           \* the version with which the object was written
    plan,
    pc,
    seen,           \* per client: the part and the version it has read
    listed,         \* the same of the listing with which it began
    tries,          \* of the function that @Retry decorates
    inner,          \* of _RefetchObjectMetadataAndApplyAclChanges
    \* history: the parts as they should be; whether a command's effect has
    \* been there since it began; what has come between; errors raised
    ledger, effective, disturbed, raised,
    changes, faults

client == <<pc, seen, listed, tries, inner>>
service == <<value, version, ledger, born>>
bounds == <<changes, faults>>
vars == <<service, plan, client, effective, disturbed, raised, bounds>>

op(c) == plan[c].op
part(c) == PartOf[op(c)]
change(c) == plan[c].change
Current(p) == [value |-> value[p], version |-> version[Container(p)]]
-----------------------------------------------------------------------------
(* What a change is meant to do: the last word on each key.                *)

LastOf(I) == CHOOSE i \in I : \A j \in I : j <= i

\* Of the words of ch, those in W.
OverrideWith(ch, W, map) ==
    [k \in Keys |-> LET words == {i \in W : ch[i].key = k}
                    IN IF words = {} THEN map[k] ELSE ch[LastOf(words)].val]

Override(ch, map) == OverrideWith(ch, DOMAIN ch, map)

Empty == [k \in Keys |-> None]
Pairs(policy) == {p \in Keys \X Vals : p[2] \in policy[p[1]]}

\* Grants and removals in order, on pairs of a role and a member.
Regrant(pairs, w) ==
    IF w.grant THEN pairs \cup {<<w.role, w.member>>}
    ELSE {p \in pairs : p[2] # w.member \/ w.role \notin {p[1], DropAll}}

Regranted(pairs, ch) ==
    LET after[n \in 0..Len(ch)] ==
            IF n = 0 THEN pairs ELSE Regrant(after[n - 1], ch[n])
    IN after[Len(ch)]

\* AclChange.Execute on an object skips WRITER, with a warning.
Skips(o, w) == o = "aclObject" /\ w.val = Writer

Applied(o, ch) == {i \in DOMAIN ch : ~Skips(o, ch[i])}

Asked(o, ch, x) ==
    CASE o \in {"aclBucket", "aclObject", "defacl"} -> OverrideWith(ch, Applied(o, ch), x)
      [] o \in {"labelCh", "setmeta"} -> Override(ch, x)
      [] o \in {"aclSet", "labelSet"} -> Override(ch, Empty)
      [] o \in {"iamCh", "iamSet"} -> Regranted(x, ch)

\* A policy is locked with the period that the user has been shown.
Meant(c, x) ==
    IF op(c) = "lock" THEN [period |-> seen[c].value.period, locked |-> TRUE]
    ELSE Asked(op(c), change(c), x)

View(p, v) == IF p = "policy" THEN Pairs(v) ELSE v

\* The part is as the command asks for.
Satisfied(c, v) ==
    LET x == View(part(c), v)
    IN IF op(c) = "lock" THEN x.locked ELSE Asked(op(c), change(c), x) = x

-----------------------------------------------------------------------------
(* What the commands do with what they have read.                          *)

\* Mutant: a new permission of an entity that has one is not counted.
CountAdditions(o, s, w) ==
    IF Skips(o, w) \/ s.acl[w.key] = w.val THEN s
    ELSE [acl |-> [s.acl EXCEPT ![w.key] = w.val],
          count |-> s.count + IF None \in {s.acl[w.key], w.val} THEN 1 ELSE 0]

\* AclChange.Execute and AclDel.Execute.
Execute(o, s, w) ==
    IF Skips(o, w) \/ s.acl[w.key] = w.val THEN s
    ELSE [acl |-> [s.acl EXCEPT ![w.key] = w.val], count |-> s.count + 1]

ExecuteAll(o, acl, ch) ==
    LET after[n \in 0..Len(ch)] ==
            IF n = 0 THEN [acl |-> acl, count |-> 0] ELSE Execute(o, after[n - 1], ch[n])
    IN after[Len(ch)]

Executed(c) == ExecuteAll(op(c), seen[c].value, change(c))

NewAcl(c) == IF op(c) = "aclSet" THEN Override(change(c), Empty) ELSE Executed(c).acl

\* A new ACL with no entry is not sent: the request's body is without it, and
\* changes nothing.  Only of default ACLs is it told that there are none.
Unsent(c) == op(c) \in {"aclBucket", "aclObject", "aclSet"} /\ NewAcl(c) = Empty

PatchBindings(base, w) ==
    IF w.grant THEN [base EXCEPT ![w.role] = @ \cup {w.member}]
    ELSE [r \in Keys |-> IF w.role \in {r, DropAll} THEN base[r] \ {w.member}
                         ELSE base[r]]

PatchAll(policy, ch) ==
    LET after[n \in 0..Len(ch)] ==
            IF n = 0 THEN policy ELSE PatchBindings(after[n - 1], ch[n])
    IN after[Len(ch)]

Patched(c) == PatchAll(seen[c].value, change(c))

\* The deletions.  label ch asks for none if there are no labels.
Deletions(c) == {i \in DOMAIN change(c) : change(c)[i].val = None}

Corrected(c) ==
    IF seen[c].value = Empty THEN DOMAIN change(c) \ Deletions(c) ELSE DOMAIN change(c)

\* The early return "No changes".
Unchanged(c) ==
    CASE op(c) \in {"aclBucket", "aclObject", "defacl"} -> Executed(c).count = 0
      [] op(c) = "iamCh" -> Patched(c) = seen[c].value
      [] op(c) = "lock" -> seen[c].value.locked
      [] OTHER -> FALSE

\* What becomes of the part: an ACL or a policy is replaced, labels and
\* headers are patched.
Written(c) ==
    LET p == part(c)
        others(old) == [k \in Keys |-> IF seen[c].value[k] # None THEN old[k]
                                       ELSE value[p][k]]
    IN CASE op(c) \in {"aclBucket", "aclObject", "aclSet", "defacl"} ->
                IF Unsent(c) THEN value[p] ELSE NewAcl(c)
         [] op(c) \in {"iamCh", "iamSet"} -> Patched(c)
         [] op(c) = "labelCh" -> OverrideWith(change(c), Corrected(c), value[p])
         [] op(c) = "labelSet" -> Override(change(c), others(Empty))
         [] op(c) = "setmeta" -> Override(change(c), others(seen[c].value))
         [] op(c) = "lock" -> [period |-> value[p].period, locked |-> TRUE]

\* Mutant: only object changes are guarded.
GuardedObjects(c) == op(c) \in {"aclObject", "setmeta"}

\* Which requests carry the version that was read.
Guarded(c) ==
    CASE op(c) = "aclSet" -> FALSE
      [] op(c) = "labelCh" -> Deletions(c) # {} /\ seen[c].value = Empty
      [] OTHER -> TRUE

-----------------------------------------------------------------------------
(* The service.                                                            *)

Init ==
    /\ plan \in Plans
    /\ value = [p \in Parts |->
                   CASE p \in Maps -> InitialMap
                     [] p = "policy" -> [r \in Keys |-> {m \in Vals : m = InitialMap[r]}]
                     [] p = "retention" -> [period |-> CHOOSE v \in Vals : TRUE,
                                            locked |-> FALSE]]
    /\ ledger = [p \in Parts |-> View(p, value[p])]
    /\ version = [d \in {"bucket", "object", "policy"} |-> 0] /\ born = 0
    /\ pc = [c \in Clients |-> "begin"]
    /\ seen = [c \in Clients |-> Current(PartOf[plan[c].op])] /\ listed = seen
    /\ tries = [c \in Clients |-> 1] /\ inner = [c \in Clients |-> 1]
    /\ effective = [c \in Clients |-> FALSE]
    /\ disturbed = [c \in Clients |-> 0] /\ raised = [c \in Clients |-> FALSE]
    /\ changes = 0 /\ faults = 0

Allowed(c) == Guarded(c) => seen[c].version = version[Container(part(c))]

\* Clients of the same container, other than c.
Beside(c, p) == {d \in Clients \ {c} : Container(part(d)) = Container(p)}

Disturb(S) ==
    disturbed' = [d \in Clients |-> disturbed[d] + IF d \in S THEN 1 ELSE 0]

Store(p, v, meant) ==
    /\ value' = [value EXCEPT ![p] = v]
    /\ ledger' = [ledger EXCEPT ![p] = meant]
    /\ version' = [version EXCEPT ![Container(p)] = @ + 1]
    /\ UNCHANGED born

\* A request that cannot be fulfilled: no label is there to be deleted.
Refused(c) ==
    /\ op(c) = "labelCh" /\ Deletions(c) \cap Corrected(c) # {}
    /\ value["labels"] = Empty

\* What the part should be once the request is executed.
Due(c) == IF Unsent(c) THEN ledger[part(c)] ELSE Meant(c, ledger[part(c)])

Commit(c) == Allowed(c) /\ ~Refused(c) /\ Store(part(c), Written(c), Due(c))

-----------------------------------------------------------------------------
(* The commands.                                                           *)

\* A command's effect is noticed after each step, from its first on.
Observe ==
    /\ effective' = [d \in Clients |->
          effective[d] \/ (pc'[d] # "begin" /\ Satisfied(d, value'[part(d)]))]
    /\ UNCHANGED plan

Goes(c, to) == pc' = [pc EXCEPT ![c] = to]

Reading(c) == seen' = [seen EXCEPT ![c] = Current(part(c))]
NoFault == UNCHANGED <<raised, bounds>>

\* label ch and acl set need not read.
Blind(c) == op(c) = "aclSet" \/ (op(c) = "labelCh" /\ Deletions(c) = {})

\* The listing of an object, the policy a user has edited, or the start.
Begin(c) ==
    /\ pc[c] = "begin"
    /\ Reading(c) /\ listed' = [listed EXCEPT ![c] = Current(part(c))]
    /\ Goes(c, CASE op(c) \in {"aclObject"} -> "change"
                 [] op(c) \in {"setmeta", "iamSet"} \/ Blind(c) -> "patch"
                 [] OTHER -> "read")
    /\ UNCHANGED <<service, tries, inner, disturbed>> /\ NoFault /\ Observe

\* GetBucket, GetBucketIamPolicy, GetSingleBucketUrlFromArg.
Read(c) ==
    /\ pc[c] = "read"
    /\ Reading(c) /\ Goes(c, "change")
    /\ UNCHANGED <<service, listed, tries, inner, disturbed>> /\ NoFault /\ Observe

\* An ACL that cannot be read, or no retention policy, is an error.
NoAcl(c) == op(c) \in {"aclBucket", "aclObject"} /\ seen[c].value = Empty

\* So is WRITER in a default ACL.
Misplaced(c) == op(c) = "defacl" /\ \E i \in DOMAIN change(c) : change(c)[i].val = Writer

Hopeless(c) ==
    \/ NoAcl(c) /\ pc[c] = "change"
    \/ Misplaced(c)
    \/ op(c) = "lock" /\ seen[c].value.period = None

Change(c) ==
    /\ pc[c] \in {"change", "rechange"}
    /\ Goes(c, CASE Hopeless(c) -> "failed"
                 [] ~Hopeless(c) /\ Unchanged(c) -> "ok"
                 [] OTHER -> IF pc[c] = "change" THEN "patch" ELSE "repatch")
    /\ UNCHANGED <<service, seen, listed, tries, inner, disturbed>> /\ NoFault /\ Observe

\* _RefetchObjectMetadataAndApplyAclChanges, after the precondition failed.
Refetch(c) ==
    /\ pc[c] = "refetch"
    /\ Reading(c) /\ Goes(c, "rechange")
    /\ UNCHANGED <<service, listed, tries, inner, disturbed>> /\ NoFault /\ Observe

Sending(c) == pc[c] \in {"patch", "repatch"}

Accepted(c) ==
    /\ Sending(c) /\ Commit(c)
    /\ Goes(c, "ok")
    /\ Disturb(Beside(c, part(c)))
    /\ UNCHANGED <<seen, listed, tries, inner>> /\ NoFault /\ Observe

\* Mutant: the retried function does not read again.
AgainWithoutReading(c) ==
    IF tries[c] = 3 THEN Goes(c, "failed") /\ UNCHANGED <<seen, tries, inner>>
    ELSE /\ Goes(c, "patch")
         /\ tries' = [tries EXCEPT ![c] = @ + 1]
         /\ UNCHANGED <<seen, inner>>

\* @Retry: the function is called again, three times in all.
Again(c) ==
    IF tries[c] = 3 THEN Goes(c, "failed") /\ UNCHANGED <<seen, tries, inner>>
    ELSE /\ tries' = [tries EXCEPT ![c] = @ + 1]
         \* With an object, the function has its listing as its argument.
         /\ seen' = [seen EXCEPT ![c] = listed[c]]
         /\ inner' = [inner EXCEPT ![c] = 1]
         /\ Goes(c, CASE op(c) = "aclObject" -> "change"
                      [] op(c) = "setmeta" \/ Blind(c) -> "patch"
                      [] OTHER -> "read")

\* The second patch names the generation it has read, which is there no more.
Gone(c) == op(c) = "aclObject" /\ pc[c] = "repatch" /\ seen[c].version < born

\* PreconditionException, and NotFoundException of an object that is gone.
Rejected(c) ==
    /\ Sending(c) /\ ~Allowed(c)
    /\ CASE op(c) \in {"aclBucket", "defacl", "iamCh", "labelSet", "labelCh", "setmeta"}
                 \/ Gone(c) ->
                Again(c)
         [] op(c) = "aclObject" /\ ~Gone(c) /\ pc[c] = "repatch" /\ inner[c] = 3 ->
                Goes(c, "failed") /\ UNCHANGED <<seen, tries, inner>>
         [] op(c) = "aclObject" /\ ~Gone(c) /\ ~(pc[c] = "repatch" /\ inner[c] = 3) ->
                /\ Goes(c, "refetch")
                /\ inner' = [inner EXCEPT ![c] = IF pc[c] = "patch" THEN 1 ELSE @ + 1]
                /\ UNCHANGED <<seen, tries>>
         [] op(c) \in {"iamSet", "lock"} ->
                Goes(c, "failed") /\ UNCHANGED <<seen, tries, inner>>
    /\ UNCHANGED <<service, listed, disturbed>> /\ NoFault /\ Observe

\* The error 400 for it ends label ch, which retries only on a precondition.
BadRequest(c) ==
    /\ Sending(c) /\ Allowed(c) /\ Refused(c)
    /\ Goes(c, "failed")
    /\ UNCHANGED <<service, seen, listed, tries, inner, disturbed>> /\ NoFault /\ Observe

\* Another ServiceException is retried by the ACL commands only.
Raise(c) ==
    IF op(c) \in {"aclBucket", "aclObject", "defacl"} THEN Again(c)
    ELSE Goes(c, "failed") /\ UNCHANGED <<seen, tries, inner>>

Fault(c) ==
    /\ faults < MaxFaults /\ faults' = faults + 1
    /\ raised' = [raised EXCEPT ![c] = TRUE] /\ UNCHANGED changes

Error(c) ==
    /\ pc[c] \in {"read", "refetch", "patch", "repatch"} /\ Fault(c)
    /\ Raise(c)
    /\ UNCHANGED <<service, listed, disturbed>> /\ Observe

\* The request is executed and its answer lost: apitools sends it again, or
\* gives up.
Unanswered(c) ==
    /\ Sending(c) /\ Commit(c)
    /\ \/ /\ faults < MaxFaults /\ faults' = faults + 1
          /\ Goes(c, pc[c]) /\ UNCHANGED <<seen, tries, inner, raised, changes>>
       \/ Fault(c) /\ Raise(c)
    /\ Disturb({c} \cup Beside(c, part(c)))
    /\ UNCHANGED listed /\ Observe

-----------------------------------------------------------------------------
(* Everybody else.                                                         *)

\* The parts somebody works on.
InUse == {part(c) : c \in Clients}

Other ==
    /\ changes < MaxChanges /\ changes' = changes + 1
    /\ \E p \in InUse, k \in Keys, v \in Vals \cup {None} :
          LET new == CASE p \in Maps -> [value[p] EXCEPT ![k] = v]
                       [] p = "policy" -> [value[p] EXCEPT ![k] = {v} \ {None}]
                       [] p = "retention" -> [period |-> v, locked |-> value[p].locked]
          IN /\ new # value[p] /\ (p = "retention" => ~value[p].locked)
             /\ v = Writer => p \notin {"objacl", "defacl"}
             /\ Store(p, new, View(p, new))
             /\ Disturb({d \in Clients : Container(part(d)) = Container(p)})
    /\ UNCHANGED <<client, raised, faults>> /\ Observe

\* A new object of the same name.
Overwrite ==
    /\ changes < MaxChanges /\ changes' = changes + 1
    /\ InUse \cap {"objacl", "custom"} # {}
    /\ value' = [value EXCEPT !["objacl"] = InitialMap, !["custom"] = Empty]
    /\ ledger' = [ledger EXCEPT !["objacl"] = InitialMap, !["custom"] = Empty]
    /\ version' = [version EXCEPT !["object"] = @ + 1]
    /\ born' = version["object"] + 1
    /\ Disturb({d \in Clients : Container(part(d)) = "object"})
    /\ UNCHANGED <<client, raised, faults>> /\ Observe

Work(c) ==
    \/ Begin(c) \/ Read(c) \/ Change(c) \/ Refetch(c) \/ Accepted(c) \/ Rejected(c)
    \/ BadRequest(c) \/ Error(c) \/ Unanswered(c)

Next == (\E c \in Clients : Work(c)) \/ Other \/ Overwrite

Spec == Init /\ [][Next]_vars

-----------------------------------------------------------------------------

Contents(p) ==
    CASE p \in Maps -> [Keys -> Vals \cup {None}]
      [] p = "policy" -> [Keys -> SUBSET Vals]
      [] p = "retention" -> [period : Vals \cup {None}, locked : BOOLEAN]

Readings(p) == [value : Contents(p), version : Nat]

TypeOK ==
    /\ plan \in Plans
    /\ value = [p \in Parts |-> value[p]] /\ \A p \in Parts : value[p] \in Contents(p)
    /\ version \in [{"bucket", "object", "policy"} -> Nat] /\ born \in Nat
    /\ ledger = [p \in Parts |-> ledger[p]]
    /\ seen = [c \in Clients |-> seen[c]] /\ listed = [c \in Clients |-> listed[c]]
    /\ \A c \in Clients : {seen[c], listed[c]} \subseteq Readings(part(c))
    /\ pc \in [Clients -> {"begin", "read", "change", "rechange", "refetch", "patch",
                           "repatch", "ok", "failed"}]
    /\ tries \in [Clients -> 1..3] /\ inner \in [Clients -> 1..3]
    /\ effective \in [Clients -> BOOLEAN] /\ raised \in [Clients -> BOOLEAN]
    /\ disturbed \in [Clients -> Nat]
    /\ changes \in 0..MaxChanges /\ faults \in 0..MaxFaults

\* No update is lost: a part is at any time what the changes written so far
\* make of it, each applied to what the one before left, although the
\* commands write back a part as it was when they read it.  (A new ACL that
\* is not sent because it has no entry is no change.)
NoLostUpdate == \A p \in Parts : View(p, value[p]) = ledger[p]

\* A command that succeeds has had its effect: between its beginning and
\* its end, the bucket or the object was as it asks for, also if it found
\* nothing to change, or if its request was executed before it failed.
\* What acl ch skips is not asked for.  A command that leaves an ACL without
\* an entry is the exception: it succeeds and has sent nothing.
SuccessTakesEffect == \A c \in Clients : pc[c] = "ok" => effective[c] \/ Unsent(c)

\* The retries are good for something: a command that reads again fails on
\* others' changes only if there were three of them while it ran.  (setmeta,
\* iam set and retention lock fail on the first.)
Rereads == {"aclBucket", "aclObject", "defacl", "iamCh", "labelSet"}

FailsAfterThreeTries ==
    \A c \in Clients :
        /\ pc[c] = "failed" /\ op(c) \in Rereads
        /\ ~raised[c] /\ ~NoAcl(c) /\ ~Misplaced(c)
        => disturbed[c] >= 3
=============================================================================
