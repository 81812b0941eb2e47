----------------------------- MODULE Environments -----------------------------
(***************************************************************************)
(* Environments: an environment names a set of AWS keys, an S3 and a        *)
(* database reference, rows of their own, and its members by the invites     *)
(* they have accepted. Creating and deleting one is a query after the other  *)
(* without a transaction, and any of them may fail. The database itself      *)
(* keeps names unique, sets ownerId to NULL with the owner's row, and        *)
(* deletes the invites with their environment or user; the references of     *)
(* an environment it does not look after.                                    *)
(*                                                                         *)
(* The environment created by request e, and the keys and references made   *)
(* for it, have the id e.                                                    *)
(***************************************************************************)
EXTENDS Naturals, FiniteSets

CONSTANTS Users, Names,
          Envs,        \* POST /environments, each at most once
          Invitations, \* POST /environments/invites, each at most once
          MaxFaults    \* the queries that fail, and the users that go

Nobody  == "nobody"
Unsent  == [env |-> Nobody, user |-> Nobody, isAdmin |-> FALSE]
Invites == Envs \cup Invitations

ASSUME EnvironmentsAssumption ==
  /\ Nobody \notin Users /\ Envs \cap Invitations = {} /\ MaxFaults \in Nat

VARIABLES
  users,     \* the rows of User
  at,        \* where the creation of e is
  by,        \* who creates it
  name,      \* Environment.name
  keyOf,     \* Environment.awsKeysId
  env,       \* the rows of Environment
  owner,     \* Environment.ownerId
  keys, s3, db, \* the rows of AwsKeys, S3Reference and DBReference
  deleting,  \* the query deleteEnvironment is at
  invite,    \* EnvironmentUser: whom it invites where, and as an administrator
  stage,     \* how far each invite has come
  faults,
  failed,    \* history: the creations that broke off
  torn       \* history: the environments whose deletion began

creation == <<at, by, name, keyOf>>
refs     == <<keys, s3, db>>
invites  == <<invite, stage>>
evars    == <<users, creation, env, owner, refs, deleting, invites, faults, failed, torn>>

TypeOK ==
  /\ users \subseteq Users
  /\ at \in [Envs -> {"idle", "name", "keys", "s3", "db", "env", "invite", "accept", "over"}]
  /\ by \in [Envs -> Users \cup {Nobody}] /\ name \in [Envs -> Names] /\ keyOf \in [Envs -> Envs]
  /\ env \subseteq Envs /\ owner \in [Envs -> Users \cup {Nobody}]
  /\ {keys, s3, db} \subseteq SUBSET Envs
  /\ deleting \in [Envs -> {"no", "db", "keys", "s3", "captures", "env"}]
  /\ invite \in [Invites -> [env : Envs \cup {Nobody}, user : Users \cup {Nobody}, isAdmin : BOOLEAN]]
  /\ stage \in [Invites -> {"none", "asked", "sent", "accepted", "deleted"}]
  /\ faults \in 0..MaxFaults /\ failed \subseteq Envs /\ torn \subseteq Envs
  \* The foreign keys.
  /\ \A e \in Envs : owner[e] \in users \cup {Nobody}
  /\ \A i \in Invites : stage[i] \in {"sent", "accepted"} =>
                          invite[i].user \in users /\ invite[i].env \in env

Init ==
  /\ users = Users
  /\ at = [e \in Envs |-> "idle"] /\ by = [e \in Envs |-> Nobody]
  /\ name \in [Envs -> Names] /\ keyOf \in [Envs -> Envs]
  /\ env = {} /\ owner = [e \in Envs |-> Nobody]
  /\ keys = {} /\ s3 = {} /\ db = {}
  /\ deleting = [e \in Envs |-> "no"]
  /\ invite = [i \in Invites |-> Unsent] /\ stage = [i \in Invites |-> "none"]
  /\ faults = 0 /\ failed = {} /\ torn = {}

\* getEnvironment joins the owner's row: without the owner there is no environment.
Found(e) == e \in env /\ owner[e] \in users

\* getUserMembership: the owner, or someone with an accepted invite; with
\* several, any of them may be the first row that decides.
Of(e, u)          == {i \in Invites : invite[i].env = e /\ invite[i].user = u}
MayBeAdmin(u, e)  == owner[e] = u \/ \E i \in Of(e, u) : stage[i] = "accepted" /\ invite[i].isAdmin

(***************************************************************************)
(* POST /environments                                                      *)
(***************************************************************************)
Step(e, from, to) == at[e] = from /\ at' = [at EXCEPT ![e] = to]
Fails(e)          == failed' = failed \cup {e}

Create(e, u) ==
  /\ u \in users /\ Step(e, "idle", "name")
  /\ by' = [by EXCEPT ![e] = u]
  /\ UNCHANGED <<users, name, keyOf, env, owner, refs, deleting, invites, faults, failed, torn>>

\* Only a name whose environment has its owner is seen to be taken.
CheckName(e) ==
  /\ Step(e, "name", IF \E f \in env : Found(f) /\ name[f] = name[e] THEN "over" ELSE "keys")
  /\ UNCHANGED <<users, by, name, keyOf, env, owner, refs, deleting, invites, faults, failed, torn>>

\* Its own new keys, or the user's keys of an earlier environment.
MakeKeys(e) ==
  /\ \/ keyOf[e] = e /\ keys' = keys \cup {e} /\ Step(e, "keys", "s3")
     \/ keyOf[e] # e /\ UNCHANGED keys
        /\ Step(e, "keys", IF keyOf[e] \in keys /\ by[keyOf[e]] = by[e] THEN "s3" ELSE "over")
  /\ UNCHANGED <<users, by, name, keyOf, env, owner, s3, db, deleting, invites, faults, failed, torn>>

\* Mutant: the S3 reference is not waited for.
MakeReferencesButS3(e) ==
  /\ \/ Step(e, "s3", "db") /\ UNCHANGED <<s3, db>>
     \/ Step(e, "db", "env") /\ db' = db \cup {e} /\ UNCHANGED s3
  /\ UNCHANGED <<users, by, name, keyOf, env, owner, keys, deleting, invites, faults, failed, torn>>

MakeReferences(e) ==
  /\ \/ Step(e, "s3", "db") /\ s3' = s3 \cup {e} /\ UNCHANGED db
     \/ Step(e, "db", "env") /\ db' = db \cup {e} /\ UNCHANGED s3
  /\ UNCHANGED <<users, by, name, keyOf, env, owner, keys, deleting, invites, faults, failed, torn>>

\* The insertion fails on a name that is taken or a user that is gone.
MakeEnvironment(e) ==
  /\ IF by[e] \notin users \/ \E f \in env : name[f] = name[e]
     THEN Step(e, "env", "over") /\ Fails(e) /\ UNCHANGED <<env, owner>>
     ELSE /\ Step(e, "env", "invite")
          /\ env' = env \cup {e} /\ owner' = [owner EXCEPT ![e] = by[e]]
          /\ UNCHANGED failed
  /\ UNCHANGED <<users, by, name, keyOf, refs, deleting, invites, faults, torn>>

\* inviteUser inserts a row for a user and an environment that are still there.
There(i) == invite[i].user \in users /\ invite[i].env \in env
Move(i, from, to) == stage[i] = from /\ stage' = [stage EXCEPT ![i] = to]

InviteOwner(e) ==
  LET here == by[e] \in users /\ e \in env
  IN /\ Step(e, "invite", IF here THEN "accept" ELSE "over")
     /\ invite' = [invite EXCEPT ![e] = IF here THEN [env |-> e, user |-> by[e], isAdmin |-> TRUE] ELSE @]
     /\ Move(e, "none", IF here THEN "sent" ELSE "none")
     /\ UNCHANGED <<users, by, name, keyOf, env, owner, refs, deleting, faults, failed, torn>>

\* Mutant: the owner's invite is left for him to accept.
LeaveUnaccepted(e) ==
  /\ Step(e, "accept", "over")
  /\ UNCHANGED <<users, by, name, keyOf, env, owner, refs, deleting, invites, faults, failed, torn>>

AcceptOwn(e) ==
  /\ Step(e, "accept", "over")
  /\ stage' = [stage EXCEPT ![e] = IF @ = "deleted" THEN @ ELSE "accepted"]
  /\ UNCHANGED <<users, by, name, keyOf, env, owner, refs, deleting, invite, faults, failed, torn>>

(***************************************************************************)
(* DELETE /environments/:id, PUT and the invites                           *)
(***************************************************************************)
Delete(e, u) ==
  /\ u \in users /\ Found(e) /\ MayBeAdmin(u, e) /\ deleting[e] = "no"
  /\ deleting' = [deleting EXCEPT ![e] = "db"] /\ torn' = torn \cup {e}
  /\ UNCHANGED <<users, creation, env, owner, refs, invites, faults, failed>>

\* The database deletes the invites of a row that goes.
Sent       == {i \in Invites : stage[i] \in {"sent", "accepted"}}
Cascade(I) == /\ stage' = [i \in Invites |-> IF i \in I THEN "deleted" ELSE stage[i]]
              /\ invite' = [i \in Invites |-> IF i \in I THEN Unsent ELSE invite[i]]

Drop(e, from, to) == deleting[e] = from /\ deleting' = [deleting EXCEPT ![e] = to]

\* Mutant: the S3 reference is forgotten.
DropReferencesButS3(e) ==
  /\ \/ Drop(e, "db", "keys") /\ db' = db \ {e} /\ UNCHANGED <<keys, s3, env, invites>>
     \/ Drop(e, "keys", "captures") /\ keys' = keys \ {keyOf[e]} /\ UNCHANGED <<s3, db, env, invites>>
     \/ Drop(e, "captures", "env") /\ UNCHANGED <<refs, env, invites>>
     \/ Drop(e, "env", "no") /\ env' = env \ {e}
        /\ Cascade({i \in Sent : invite[i].env = e}) /\ UNCHANGED refs
  /\ UNCHANGED <<users, creation, owner, faults, failed, torn>>

\* deleteEnvironment: the references, the captures, and the environment last,
\* with its invites. The keys go although other environments may have them.
DropReferences(e) ==
  /\ \/ Drop(e, "db", "keys") /\ db' = db \ {e} /\ UNCHANGED <<keys, s3, env, invites>>
     \/ Drop(e, "keys", "s3") /\ keys' = keys \ {keyOf[e]} /\ UNCHANGED <<s3, db, env, invites>>
     \/ Drop(e, "s3", "captures") /\ s3' = s3 \ {e} /\ UNCHANGED <<keys, db, env, invites>>
     \/ Drop(e, "captures", "env") /\ UNCHANGED <<refs, env, invites>>
     \/ Drop(e, "env", "no") /\ env' = env \ {e}
        /\ Cascade({i \in Sent : invite[i].env = e}) /\ UNCHANGED refs
  /\ UNCHANGED <<users, creation, owner, faults, failed, torn>>

\* PUT /environments/:id: the name is unique or the update fails.
Rename(e, u, n) ==
  /\ u \in users /\ Found(e) /\ MayBeAdmin(u, e) /\ \A f \in env \ {e} : name[f] # n
  /\ name' = [name EXCEPT ![e] = n]
  /\ UNCHANGED <<users, at, by, keyOf, env, owner, refs, deleting, invites, faults, failed, torn>>

\* POST /invites: an administrator invites a user; the row comes some awaits later.
Ask(i, e, u, guest, isAdmin) ==
  /\ {u, guest} \subseteq users /\ Found(e) /\ MayBeAdmin(u, e)
  /\ Move(i, "none", "asked")
  /\ invite' = [invite EXCEPT ![i] = [env |-> e, user |-> guest, isAdmin |-> isAdmin]]
  /\ UNCHANGED <<users, creation, env, owner, refs, deleting, faults, failed, torn>>

\* Mutant: the row is inserted for whoever was asked for.
InviteUnchecked(i) ==
  /\ Move(i, "asked", "sent")
  /\ UNCHANGED <<users, creation, env, owner, refs, deleting, invite, faults, failed, torn>>

Invite(i) ==
  /\ stage[i] = "asked"
  /\ IF There(i) THEN Move(i, "asked", "sent") /\ UNCHANGED invite ELSE Cascade({i})
  /\ UNCHANGED <<users, creation, env, owner, refs, deleting, faults, failed, torn>>

\* PUT /invites/accept, within a day or never, by the user it is for; and
\* DELETE /invites/:id, which is for this user alone too, the owner included.
Answer(i) ==
  /\ \/ Move(i, "sent", "accepted") /\ UNCHANGED invite
     \/ i \in Sent /\ Cascade({i})
  /\ UNCHANGED <<users, creation, env, owner, refs, deleting, faults, failed, torn>>

\* PUT /invites/promote, by an administrator.
Promote(i, u) ==
  /\ i \in Sent /\ ~invite[i].isAdmin
  /\ u \in users /\ Found(invite[i].env) /\ MayBeAdmin(u, invite[i].env)
  /\ invite' = [invite EXCEPT ![i].isAdmin = TRUE]
  /\ UNCHANGED <<users, creation, env, owner, refs, deleting, stage, faults, failed, torn>>

DeleteUser(u) ==
  /\ u \in users /\ users' = users \ {u}
  /\ faults < MaxFaults /\ faults' = faults + 1
  /\ owner' = [e \in Envs |-> IF owner[e] = u THEN Nobody ELSE owner[e]]
  /\ Cascade({i \in Sent : invite[i].user = u})
  /\ UNCHANGED <<creation, env, refs, deleting, failed, torn>>

\* A query fails: a creation or a deletion breaks off where it is.
Reject(e) ==
  /\ faults < MaxFaults /\ faults' = faults + 1
  /\ \/ at[e] \notin {"idle", "over"} /\ Step(e, at[e], "over") /\ Fails(e) /\ UNCHANGED deleting
     \/ deleting[e] # "no" /\ Drop(e, deleting[e], "no") /\ UNCHANGED <<at, failed>>
  /\ UNCHANGED <<users, by, name, keyOf, env, owner, refs, invites, torn>>

Next ==
  \/ \E e \in Envs :
       \/ CheckName(e) \/ MakeKeys(e) \/ MakeReferences(e) \/ MakeEnvironment(e)
       \/ InviteOwner(e) \/ AcceptOwn(e) \/ DropReferences(e) \/ Reject(e)
       \/ \E u \in Users : Create(e, u) \/ Delete(e, u) \/ (\E n \in Names : Rename(e, u, n))
       \/ \E i \in Invitations, u, guest \in Users, isAdmin \in BOOLEAN : Ask(i, e, u, guest, isAdmin)
  \/ \E i \in Invites : Invite(i) \/ Answer(i) \/ (\E u \in Users : Promote(i, u))
  \/ \E u \in Users : DeleteUser(u)

Spec == Init /\ [][Next]_evars

\* An environment a member can open has all its references (getEnvironmentFull
\* joins them, and everything that runs needs it), unless somebody has set about
\* deleting it, or an environment it shares its keys with.
EnvironmentWhole ==
  \A e \in env :
    \/ e \in s3 \cap db /\ keyOf[e] \in keys
    \/ e \in torn
    \/ e \in s3 \cap db /\ \E f \in torn : keyOf[f] = keyOf[e]

\* References without an environment are left over only by a creation that
\* failed on the way, for whatever reason, the name taken meanwhile included.
LeftoversExplained ==
  \A e \in Envs :
    at[e] = "over" /\ e \notin env /\ deleting[e] = "no" /\ e \in keys \cup s3 \cup db => e \in failed

\* The rows of the environments and those they refer to are there together, but
\* for what a deletion under way and a creation that broke off explain.
ReferencesFit == EnvironmentWhole /\ LeftoversExplained

\* The list of environments is read from the accepted invites, the right to one
\* from ownerId: an owner sees the environment that has taken its name, except
\* while it is created, if that broke off, or after deleting the own invite.
OwnerSees ==
  \A e \in env : Found(e) => stage[e] = "accepted" \/ at[e] # "over" \/ e \in failed \/ stage[e] = "deleted"

===============================================================================
