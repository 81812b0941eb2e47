--------------------------- MODULE Environments_proofs ---------------------------
(***************************************************************************)
(* Theorems about Environments, for any users, names, environments and     *)
(* invitations, and any number of faults.                                  *)
(***************************************************************************)
EXTENDS Environments, TLAPS

\* The place of a creation tells which rows are there and which are not yet.
CreationOrder ==
  \A e \in Envs :
    /\ at[e] \in {"idle", "name", "keys", "s3", "db", "env"} => e \notin env \cup torn
    /\ at[e] \in {"idle", "name", "keys", "s3", "db", "env", "invite"} => stage[e] = "none"
    /\ at[e] \in {"idle", "name", "keys"} => e \notin keys \cup s3 \cup db
    /\ at[e] \in {"db", "env"} => e \in s3
    /\ at[e] = "env" => e \in db
    /\ at[e] = "accept" => stage[e] \in {"sent", "accepted", "deleted"}
    /\ stage[e] # "asked"
    /\ e \in keys => keyOf[e] = e

\* So does the place of a deletion.
DeletionOrder ==
  \A e \in Envs :
    /\ deleting[e] # "no" => e \in env \cap torn
    /\ deleting[e] \in {"keys", "s3", "captures", "env"} => e \notin db
    /\ deleting[e] \in {"s3", "captures", "env"} => e \notin keys
    /\ deleting[e] \in {"captures", "env"} => e \notin s3

\* The keys are there from the moment they are looked for, unless an environment
\* with the same keys has been deleted since.
KeysKept ==
  \A e \in Envs : at[e] \in {"s3", "db", "env"} \/ e \in env =>
    keyOf[e] \in keys \/ \E f \in torn : keyOf[f] = keyOf[e]

\* The other references are its own.
ReferencesKept == \A e \in env : e \in s3 \cap db \/ e \in torn

\* A deletion that has come to its end has left nothing.
LeftNothing ==
  \A e \in Envs : at[e] \in {"invite", "accept", "over"} /\ e \notin env /\ e \notin failed
                  => e \notin keys \cup s3 \cup db

\* The owner is who created the environment, or gone.
OwnerIsCreator == \A e \in env : owner[e] \in {by[e], Nobody}

IInv ==
  /\ TypeOK /\ CreationOrder /\ DeletionOrder /\ KeysKept /\ ReferencesKept /\ LeftNothing
  /\ OwnerIsCreator /\ OwnerSees

-----------------------------------------------------------------------------
(* The types and the foreign keys                                           *)

\* The rows the database looks after: it keeps the owner and the two ends of an
\* invite, if the rest has its type.
Owned   == \A e \in Envs : owner[e] \in users \cup {Nobody}
Invited == \A i \in Invites : stage[i] \in {"sent", "accepted"} =>
                                invite[i].user \in users /\ invite[i].env \in env

Places  == {"idle", "name", "keys", "s3", "db", "env", "invite", "accept", "over"}
Stages  == {"none", "asked", "sent", "accepted", "deleted"}
Invitation == [env : Envs \cup {Nobody}, user : Users \cup {Nobody}, isAdmin : BOOLEAN]

\* TypeOK in parts.
LEMMA TypeParts ==
  TypeOK <=>
    /\ users \subseteq Users /\ at \in [Envs -> Places] /\ by \in [Envs -> Users \cup {Nobody}]
    /\ name \in [Envs -> Names] /\ keyOf \in [Envs -> Envs]
    /\ env \subseteq Envs /\ owner \in [Envs -> Users \cup {Nobody}]
    /\ keys \subseteq Envs /\ s3 \subseteq Envs /\ db \subseteq Envs
    /\ deleting \in [Envs -> {"no", "db", "keys", "s3", "captures", "env"}]
    /\ invite \in [Invites -> Invitation] /\ stage \in [Invites -> Stages]
    /\ faults \in 0..MaxFaults /\ failed \subseteq Envs /\ torn \subseteq Envs
    /\ Owned /\ Invited
  BY DEF TypeOK, Places, Stages, Invitation, Owned, Invited

\* The environments and the invitations are told apart.
LEMMA InviteParts ==
  /\ Envs \subseteq Invites /\ Invitations \subseteq Invites
  /\ \A e \in Envs : e \notin Invitations
  /\ Unsent \in Invitation
  BY EnvironmentsAssumption DEF Invites, Unsent, Invitation

\* The initial state is well typed.
LEMMA InitTyped == Init => TypeOK
  BY EnvironmentsAssumption, InviteParts DEF Init, TypeOK, Invitation

\* A cascade keeps the types of the invites, and leaves those sent that were sent.
LEMMA CascadeTyped ==
  ASSUME TypeOK, NEW I \in SUBSET Invites, Cascade(I)
  PROVE  /\ invite' \in [Invites -> Invitation] /\ stage' \in [Invites -> Stages]
         /\ \A i \in Invites : /\ i \in I => stage'[i] = "deleted"
                               /\ i \notin I => stage'[i] = stage[i] /\ invite'[i] = invite[i]
  BY InviteParts, TypeParts DEF Cascade, Stages

\* Each step of a creation keeps the types.
LEMMA CreationTyped ==
  ASSUME TypeOK, CreationOrder, NEW e \in Envs,
         \/ \E u \in Users : Create(e, u)
         \/ CheckName(e) \/ MakeKeys(e) \/ MakeReferences(e) \/ MakeEnvironment(e)
         \/ InviteOwner(e) \/ AcceptOwn(e)
  PROVE  TypeOK'
  <1> USE TypeParts DEF creation, refs, invites, Places
  <1>1. CASE \E u \in Users : Create(e, u)
    <2>1. at' \in [Envs -> Places] /\ by' \in [Envs -> Users \cup {Nobody}] BY <1>1 DEF Create, Step
    <2> QED BY <1>1, <2>1 DEF Create, TypeOK
  <1>2. CASE CheckName(e)
    <2>1. at' \in [Envs -> Places] BY <1>2 DEF CheckName, Step
    <2> QED BY <1>2, <2>1 DEF CheckName, TypeOK
  <1>3. CASE MakeKeys(e)
    <2>1. at' \in [Envs -> Places] /\ keys' \subseteq Envs BY <1>3 DEF MakeKeys, Step
    <2> QED BY <1>3, <2>1 DEF MakeKeys, TypeOK
  <1>4. CASE MakeReferences(e)
    <2>1. at' \in [Envs -> Places] /\ s3' \subseteq Envs /\ db' \subseteq Envs
      BY <1>4 DEF MakeReferences, Step
    <2> QED BY <1>4, <2>1 DEF MakeReferences, TypeOK
  <1>5. CASE MakeEnvironment(e)
    <2>1. at' \in [Envs -> Places] /\ failed' \subseteq Envs /\ env \subseteq env' /\ env' \subseteq Envs
      BY <1>5 DEF MakeEnvironment, Step, Fails
    <2>2. owner' \in [Envs -> Users \cup {Nobody}] BY <1>5 DEF MakeEnvironment
    <2>3. Owned' BY <1>5 DEF MakeEnvironment, Owned
    <2> QED BY <1>5, <2>1, <2>2, <2>3 DEF MakeEnvironment, TypeOK, Owned
  <1>6. CASE InviteOwner(e)
    <2>1. at' \in [Envs -> Places] BY <1>6 DEF InviteOwner, Step
    <2>2. e \in Invites BY InviteParts
    <2>3. CASE by[e] \in users /\ e \in env
      <3>1. [env |-> e, user |-> by[e], isAdmin |-> TRUE] \in Invitation BY DEF Invitation
      <3>2. invite' = [invite EXCEPT ![e] = [env |-> e, user |-> by[e], isAdmin |-> TRUE]]
            /\ stage' = [stage EXCEPT ![e] = "sent"]
        BY <1>6, <2>3 DEF InviteOwner, Move
      <3>3. invite' \in [Invites -> Invitation] /\ stage' \in [Invites -> Stages]
        BY <2>2, <3>1, <3>2 DEF Stages
      <3>4. UNCHANGED <<users, env>> BY <1>6 DEF InviteOwner
      <3>5. Invited' BY <2>2, <2>3, <3>2, <3>4 DEF Invited
      <3> QED BY <1>6, <2>1, <3>3, <3>5 DEF InviteOwner, TypeOK, Invited, Invitation, Stages
    <2>4. CASE ~(by[e] \in users /\ e \in env)
      <3>1. invite' = invite /\ stage' = stage BY <1>6, <2>2, <2>4 DEF InviteOwner, Move
      <3> QED BY <1>6, <2>1, <3>1 DEF InviteOwner, TypeOK
    <2> QED BY <2>3, <2>4
  <1>7. CASE AcceptOwn(e)
    <2>1. at' \in [Envs -> Places] BY <1>7 DEF AcceptOwn, Step
    <2>2. e \in Invites BY InviteParts
    <2>3. at[e] = "accept" /\ invite' = invite /\ UNCHANGED <<users, env>>
      BY <1>7 DEF AcceptOwn, Step
    <2>4. stage[e] \in {"sent", "accepted", "deleted"} BY <2>3 DEF CreationOrder
    <2>5. stage' = [stage EXCEPT ![e] = IF @ = "deleted" THEN @ ELSE "accepted"] BY <1>7 DEF AcceptOwn
    <2>6. stage' \in [Invites -> Stages] BY <2>2, <2>5 DEF Stages
    <2>7. Invited' BY <2>2, <2>3, <2>4, <2>5 DEF Invited
    <2> QED BY <1>7, <2>1, <2>6, <2>7 DEF AcceptOwn, TypeOK, Invited, Stages
  <1> QED BY <1>1, <1>2, <1>3, <1>4, <1>5, <1>6, <1>7

\* So does each step on an environment that is there.
LEMMA EnvironmentTyped ==
  ASSUME TypeOK, NEW e \in Envs,
         \/ \E u \in Users : Delete(e, u) \/ \E n \in Names : Rename(e, u, n)
         \/ DropReferences(e) \/ Reject(e)
  PROVE  TypeOK'
  <1> USE TypeParts DEF creation, refs, invites
  <1>1. CASE \E u \in Users : Delete(e, u) BY <1>1 DEF Delete, TypeOK
  <1>2. CASE \E u \in Users, n \in Names : Rename(e, u, n) BY <1>2 DEF Rename, TypeOK
  <1>3. CASE DropReferences(e)
    <2>1. deleting' \in [Envs -> {"no", "db", "keys", "s3", "captures", "env"}]
      BY <1>3 DEF DropReferences, Drop
    <2>2. keys' \subseteq Envs /\ s3' \subseteq Envs /\ db' \subseteq Envs
      BY <1>3 DEF DropReferences
    <2>3. CASE deleting[e] # "env"
      <3>1. UNCHANGED <<env, invite, stage>> BY <1>3, <2>3 DEF DropReferences, Drop
      <3> QED BY <1>3, <2>1, <2>2, <3>1 DEF DropReferences, TypeOK
    <2>4. CASE deleting[e] = "env"
      <3> DEFINE I == {i \in Sent : invite[i].env = e}
      <3>1. Cascade(I) /\ env' = env \ {e} BY <1>3, <2>4 DEF DropReferences, Drop
      <3>2. I \in SUBSET Invites BY DEF Sent
      <3> HIDE DEF I
      <3>3. /\ invite' \in [Invites -> Invitation] /\ stage' \in [Invites -> Stages]
            /\ \A i \in Invites : /\ i \in I => stage'[i] = "deleted"
                                  /\ i \notin I => stage'[i] = stage[i] /\ invite'[i] = invite[i]
        BY <3>1, <3>2, CascadeTyped
      <3>4. UNCHANGED users BY <1>3 DEF DropReferences
      <3>5. Invited' BY <3>1, <3>3, <3>4 DEF I, Sent, Invited
      <3> QED BY <1>3, <2>1, <2>2, <3>1, <3>3, <3>5
          DEF DropReferences, TypeOK, Invited, Invitation, Stages
    <2> QED BY <2>3, <2>4
  <1>4. CASE Reject(e)
    <2>1. faults' \in 0..MaxFaults BY <1>4, EnvironmentsAssumption DEF Reject
    <2>2. at' \in [Envs -> Places] BY <1>4 DEF Reject, Step, Places
    <2>3. deleting' \in [Envs -> {"no", "db", "keys", "s3", "captures", "env"}]
      BY <1>4 DEF Reject, Drop
    <2>4. failed' \subseteq Envs BY <1>4 DEF Reject, Fails
    <2> QED BY <1>4, <2>1, <2>2, <2>3, <2>4 DEF Reject, TypeOK, Places
  <1> QED BY <1>1, <1>2, <1>3, <1>4

\* So does each step on an invite, and a user that goes.
LEMMA InviteTyped ==
  ASSUME TypeOK,
         \/ \E i \in Invitations, e \in Envs, u, guest \in Users, isAdmin \in BOOLEAN :
              Ask(i, e, u, guest, isAdmin)
         \/ \E i \in Invites : Invite(i) \/ Answer(i) \/ \E u \in Users : Promote(i, u)
         \/ \E u \in Users : DeleteUser(u)
  PROVE  TypeOK'
  <1> USE TypeParts DEF creation, refs
  <1>c. ASSUME NEW I \in SUBSET Invites, Cascade(I), UNCHANGED <<users, env>>
        PROVE  invite' \in [Invites -> Invitation] /\ stage' \in [Invites -> Stages] /\ Invited'
    <2>1. /\ invite' \in [Invites -> Invitation] /\ stage' \in [Invites -> Stages]
          /\ \A i \in Invites : /\ i \in I => stage'[i] = "deleted"
                                /\ i \notin I => stage'[i] = stage[i] /\ invite'[i] = invite[i]
      BY <1>c, CascadeTyped
    <2> QED BY <1>c, <2>1 DEF Invited
  <1>1. CASE \E i \in Invitations, e \in Envs, u, guest \in Users, isAdmin \in BOOLEAN :
               Ask(i, e, u, guest, isAdmin)
    <2>1. PICK i \in Invitations, e \in Envs, u \in Users, guest \in Users, isAdmin \in BOOLEAN :
            Ask(i, e, u, guest, isAdmin)
      BY <1>1
    <2>2. [env |-> e, user |-> guest, isAdmin |-> isAdmin] \in Invitation BY DEF Invitation
    <2>3. i \in Invites BY InviteParts
    <2>4. invite' = [invite EXCEPT ![i] = [env |-> e, user |-> guest, isAdmin |-> isAdmin]]
          /\ stage' = [stage EXCEPT ![i] = "asked"] /\ UNCHANGED <<users, env>>
      BY <2>1 DEF Ask, Move
    <2>5. invite' \in [Invites -> Invitation] /\ stage' \in [Invites -> Stages]
      BY <2>2, <2>3, <2>4 DEF Stages
    <2>6. Invited' BY <2>3, <2>4 DEF Invited
    <2> QED BY <2>1, <2>5, <2>6 DEF Ask, TypeOK, Invited, Invitation, Stages
  <1>2. CASE \E i \in Invites : Invite(i)
    <2>1. PICK i \in Invites : Invite(i) BY <1>2
    <2>2. UNCHANGED <<users, env>> BY <2>1 DEF Invite
    <2>3. CASE There(i)
      <3>1. stage' = [stage EXCEPT ![i] = "sent"] /\ invite' = invite BY <2>1, <2>3 DEF Invite, Move
      <3>2. stage' \in [Invites -> Stages] /\ Invited'
        BY <2>2, <2>3, <3>1 DEF Stages, Invited, There
      <3> QED BY <2>1, <3>1, <3>2 DEF Invite, TypeOK, Invited, Stages
    <2>4. CASE ~There(i)
      <3>1. invite' \in [Invites -> Invitation] /\ stage' \in [Invites -> Stages] /\ Invited'
        BY <1>c, <2>1, <2>2, <2>4 DEF Invite
      <3> QED BY <2>1, <3>1 DEF Invite, TypeOK, Invited, Stages, Invitation
    <2> QED BY <2>3, <2>4
  <1>3. CASE \E i \in Invites : Answer(i)
    <2>1. PICK i \in Invites : Answer(i) BY <1>3
    <2>2. UNCHANGED <<users, env>> BY <2>1 DEF Answer
    <2>3. CASE Move(i, "sent", "accepted") /\ UNCHANGED invite
      <3>1. stage[i] = "sent" /\ stage' = [stage EXCEPT ![i] = "accepted"] /\ invite' = invite
        BY <2>3 DEF Move
      <3>2. stage' \in [Invites -> Stages] /\ Invited' BY <2>2, <3>1 DEF Stages, Invited
      <3> QED BY <2>1, <3>1, <3>2 DEF Answer, TypeOK, Invited, Stages
    <2>4. CASE Cascade({i})
      <3>1. invite' \in [Invites -> Invitation] /\ stage' \in [Invites -> Stages] /\ Invited'
        BY <1>c, <2>2, <2>4
      <3> QED BY <2>1, <3>1 DEF Answer, TypeOK, Invited, Stages, Invitation
    <2> QED BY <2>1, <2>3, <2>4 DEF Answer
  <1>4. CASE \E i \in Invites, u \in Users : Promote(i, u)
    <2>1. PICK i \in Invites, u \in Users : Promote(i, u) BY <1>4
    <2>2. invite' = [invite EXCEPT ![i].isAdmin = TRUE] /\ UNCHANGED <<stage, users, env>>
      BY <2>1 DEF Promote
    <2>3. invite' \in [Invites -> Invitation]
      <3>1. [invite[i] EXCEPT !.isAdmin = TRUE] \in Invitation BY DEF Invitation
      <3> QED BY <2>2, <3>1
    <2>4. \A j \in Invites : invite'[j].user = invite[j].user /\ invite'[j].env = invite[j].env
      BY <2>2 DEF Invitation
    <2>5. Invited' BY <2>2, <2>4 DEF Invited
    <2> QED BY <2>1, <2>3, <2>5 DEF Promote, TypeOK, Invited, Invitation
  <1>5. CASE \E u \in Users : DeleteUser(u)
    <2>1. PICK u \in Users : DeleteUser(u) BY <1>5
    <2> DEFINE I == {i \in Sent : invite[i].user = u}
    <2>2. Cascade(I) /\ users' = users \ {u} /\ env' = env BY <2>1 DEF DeleteUser
    <2>3. I \in SUBSET Invites BY DEF Sent
    <2>4. faults' \in 0..MaxFaults BY <2>1, EnvironmentsAssumption DEF DeleteUser
    <2>5. owner' \in [Envs -> Users \cup {Nobody}] /\ Owned' BY <2>1 DEF DeleteUser, Owned
    <2> HIDE DEF I
    <2>6. /\ invite' \in [Invites -> Invitation] /\ stage' \in [Invites -> Stages]
          /\ \A i \in Invites : /\ i \in I => stage'[i] = "deleted"
                                /\ i \notin I => stage'[i] = stage[i] /\ invite'[i] = invite[i]
      BY <2>2, <2>3, CascadeTyped
    <2>7. Invited' BY <2>2, <2>6 DEF I, Sent, Invited
    <2> QED BY <2>1, <2>2, <2>4, <2>5, <2>6, <2>7
        DEF DeleteUser, TypeOK, Owned, Invited, Invitation, Stages
  <1> QED BY <1>1, <1>2, <1>3, <1>4, <1>5

\* Each step keeps the types.
LEMMA NextTyped == TypeOK /\ CreationOrder /\ [Next]_evars => TypeOK'
  <1> SUFFICES ASSUME TypeOK, CreationOrder, [Next]_evars PROVE TypeOK'
    OBVIOUS
  <1>1. CASE Next BY <1>1, CreationTyped, EnvironmentTyped, InviteTyped DEF Next
  <1>2. CASE UNCHANGED evars BY <1>2 DEF evars, creation, refs, invites, TypeOK
  <1> QED BY <1>1, <1>2

-----------------------------------------------------------------------------
(* Creating and deleting                                                    *)

\* The invite of an owner goes one way: sent by the creation, accepted, deleted.
LEMMA OwnInvite ==
  ASSUME TypeOK, CreationOrder, [Next]_evars, NEW e \in Envs
  PROVE  /\ stage[e] = "none" => stage'[e] = "none" \/ InviteOwner(e)
         /\ stage[e] \in {"sent", "accepted", "deleted"} => stage'[e] \in {"sent", "accepted", "deleted"}
         /\ stage[e] = "accepted" => stage'[e] \in {"accepted", "deleted"}
         /\ stage[e] = "deleted" => stage'[e] = "deleted"
  <1> DEFINE OneWay(to) == /\ stage[e] = "none" => to = "none" \/ InviteOwner(e)
                           /\ stage[e] \in {"sent", "accepted", "deleted"}
                                => to \in {"sent", "accepted", "deleted"}
                           /\ stage[e] = "accepted" => to \in {"accepted", "deleted"}
                           /\ stage[e] = "deleted" => to = "deleted"
  <1>0. /\ stage \in [Invites -> Stages] /\ e \in Invites /\ e \notin Invitations
        /\ stage[e] # "asked" /\ (at[e] = "accept" => stage[e] \in {"sent", "accepted", "deleted"})
    BY TypeParts, InviteParts DEF CreationOrder
  <1> SUFFICES OneWay(stage'[e])
    OBVIOUS
  <1>s. stage'[e] = stage[e] => OneWay(stage'[e]) BY <1>0
  <1>d. stage[e] \in {"sent", "accepted"} /\ stage'[e] = "deleted" => OneWay(stage'[e]) OBVIOUS
  <1> USE DEF invites
  <1>1. ASSUME NEW f \in Envs,
               \/ \E u \in Users : Create(f, u) \/ Delete(f, u) \/ \E n \in Names : Rename(f, u, n)
               \/ CheckName(f) \/ MakeKeys(f) \/ MakeReferences(f) \/ MakeEnvironment(f) \/ Reject(f)
        PROVE  stage' = stage
    BY <1>1 DEF Create, Delete, Rename, CheckName, MakeKeys, MakeReferences, MakeEnvironment, Reject
  <1>2. ASSUME NEW f \in Envs, InviteOwner(f) PROVE OneWay(stage'[e])
    BY <1>0, <1>2 DEF InviteOwner, Move
  <1>3. ASSUME NEW f \in Envs, AcceptOwn(f) PROVE OneWay(stage'[e])
    BY <1>0, <1>3 DEF AcceptOwn, Step
  <1>4. ASSUME NEW I \in SUBSET Sent, Cascade(I) PROVE OneWay(stage'[e])
    <2>1. e \in I => stage[e] \in {"sent", "accepted"} /\ stage'[e] = "deleted"
      BY <1>0, <1>4 DEF Cascade, Sent
    <2>2. e \notin I => stage'[e] = stage[e] BY <1>0, <1>4 DEF Cascade
    <2> QED BY <1>s, <1>d, <2>1, <2>2
  <1>5. ASSUME NEW f \in Envs, DropReferences(f) PROVE OneWay(stage'[e])
    <2>1. stage' = stage \/ Cascade({i \in Sent : invite[i].env = f}) BY <1>5 DEF DropReferences
    <2> QED BY <1>s, <1>4, <2>1
  <1>6. ASSUME NEW u \in Users, DeleteUser(u) PROVE OneWay(stage'[e])
    <2>1. Cascade({i \in Sent : invite[i].user = u}) BY <1>6 DEF DeleteUser
    <2> QED BY <1>4, <2>1
  <1>7. ASSUME NEW i \in Invitations, NEW f \in Envs, NEW u \in Users, NEW guest \in Users,
               NEW isAdmin \in BOOLEAN, Ask(i, f, u, guest, isAdmin)
        PROVE  stage'[e] = stage[e]
    BY <1>0, <1>7 DEF Ask, Move
  <1>8. ASSUME NEW i \in Invites, Invite(i) PROVE stage'[e] = stage[e]
    BY <1>0, <1>8 DEF Invite, Move, Cascade
  <1>9. ASSUME NEW i \in Invites, Answer(i) PROVE OneWay(stage'[e])
    <2>1. CASE Move(i, "sent", "accepted") BY <1>0, <2>1 DEF Move
    <2>2. CASE i \in Sent /\ Cascade({i}) BY <1>4, <2>2
    <2> QED BY <1>9, <2>1, <2>2 DEF Answer
  <1>10. ASSUME NEW i \in Invites, NEW u \in Users, Promote(i, u) PROVE stage' = stage
    BY <1>10 DEF Promote
  <1>11. UNCHANGED evars => stage' = stage BY DEF evars
  <1> QED
    BY <1>s, <1>1, <1>2, <1>3, <1>5, <1>6, <1>7, <1>8, <1>9, <1>10, <1>11 DEF Next

\* What the invites and the users change leaves the environments alone.
LEMMA InvitesApart ==
  ASSUME \/ \E i \in Invitations, e \in Envs, u, guest \in Users, isAdmin \in BOOLEAN :
              Ask(i, e, u, guest, isAdmin)
         \/ \E i \in Invites : Invite(i) \/ Answer(i) \/ \E u \in Users : Promote(i, u)
         \/ \E u \in Users : DeleteUser(u)
         \/ \E e \in Envs, u \in Users, n \in Names : Rename(e, u, n)
         \/ UNCHANGED evars
  PROVE  UNCHANGED <<at, by, keyOf, env, keys, s3, db, deleting, failed, torn>>
  BY DEF Ask, Invite, Answer, Promote, DeleteUser, Rename, evars, creation, refs

\* CreationOrder is kept.
LEMMA CreationOrderKept ==
  TypeOK /\ CreationOrder /\ DeletionOrder /\ [Next]_evars => CreationOrder'
  <1> SUFFICES ASSUME TypeOK, CreationOrder, DeletionOrder, [Next]_evars, NEW e \in Envs
               PROVE  /\ at'[e] \in {"idle", "name", "keys", "s3", "db", "env"} => e \notin env' \cup torn'
                      /\ at'[e] \in {"idle", "name", "keys", "s3", "db", "env", "invite"} => stage'[e] = "none"
                      /\ at'[e] \in {"idle", "name", "keys"} => e \notin keys' \cup s3' \cup db'
                      /\ at'[e] \in {"db", "env"} => e \in s3'
                      /\ at'[e] = "env" => e \in db'
                      /\ at'[e] = "accept" => stage'[e] \in {"sent", "accepted", "deleted"}
                      /\ stage'[e] # "asked"
                      /\ e \in keys' => keyOf'[e] = e
    BY DEF CreationOrder
  <1>0. /\ at[e] \in {"idle", "name", "keys", "s3", "db", "env"} => e \notin env \cup torn
        /\ at[e] \in {"idle", "name", "keys", "s3", "db", "env", "invite"} => stage[e] = "none"
        /\ at[e] \in {"idle", "name", "keys"} => e \notin keys \cup s3 \cup db
        /\ at[e] \in {"db", "env"} => e \in s3
        /\ at[e] = "env" => e \in db
        /\ at[e] = "accept" => stage[e] \in {"sent", "accepted", "deleted"}
        /\ stage[e] # "asked"
        /\ e \in keys => keyOf[e] = e
    BY DEF CreationOrder
  <1>t. at \in [Envs -> Places] /\ stage \in [Invites -> Stages] /\ e \in Invites
    BY TypeParts, InviteParts
  <1>s. \/ InviteOwner(e)
        \/ /\ stage[e] = "none" => stage'[e] = "none"
           /\ stage[e] # "none" => stage'[e] \in {"sent", "accepted", "deleted"}
    <2>1. stage[e] \in {"none", "sent", "accepted", "deleted"} BY <1>0, <1>t DEF Stages
    <2> QED BY <2>1, OwnInvite
  <1>i. stage'[e] # "asked"
    <2>1. InviteOwner(e) => stage'[e] # "asked" BY <1>t DEF InviteOwner, Move
    <2> QED BY <1>0, <1>s, <2>1
  <1> USE DEF creation, refs, invites
  <1>2. CASE \E f \in Envs, u \in Users : Create(f, u) BY <1>0, <1>t, <1>2 DEF Create, Step
  <1>3. CASE \E f \in Envs : CheckName(f)
    BY <1>0, <1>t, <1>3 DEF CheckName, Step
  <1>4. CASE \E f \in Envs : MakeKeys(f)
    BY <1>0, <1>t, <1>4 DEF MakeKeys, Step
  <1>5. CASE \E f \in Envs : MakeReferences(f)
    BY <1>0, <1>t, <1>5 DEF MakeReferences, Step
  <1>6. CASE \E f \in Envs : MakeEnvironment(f)
    BY <1>0, <1>t, <1>6 DEF MakeEnvironment, Step
  <1>7. CASE \E f \in Envs : InviteOwner(f)
    <2>1. PICK f \in Envs : InviteOwner(f) BY <1>7
    <2>2. UNCHANGED <<env, torn, keys, s3, db, keyOf>> BY <2>1 DEF InviteOwner
    <2>3. CASE f = e BY <1>0, <1>t, <1>i, <2>1, <2>2, <2>3 DEF InviteOwner, Step, Move
    <2>4. CASE f # e
      <3>1. f \in Invites BY InviteParts
      <3>2. at'[e] = at[e] /\ stage'[e] = stage[e] BY <1>t, <2>1, <2>4, <3>1 DEF InviteOwner, Step, Move
      <3> QED BY <1>0, <2>2, <3>2
    <2> QED BY <2>3, <2>4
  <1>8. CASE \E f \in Envs : AcceptOwn(f)
    <2>1. PICK f \in Envs : AcceptOwn(f) BY <1>8
    <2>2. UNCHANGED <<env, torn, keys, s3, db, keyOf>> BY <2>1 DEF AcceptOwn
    <2>3. at'[e] = at[e] \/ at'[e] = "over" BY <1>t, <2>1 DEF AcceptOwn, Step
    <2>4. ~InviteOwner(e) \/ at[e] = "invite" BY DEF InviteOwner, Step
    <2>5. at[e] = "accept" \/ at'[e] = at[e] BY <1>t, <2>1 DEF AcceptOwn, Step
    <2>6. f \in Invites BY InviteParts
    <2>7. f # e => stage'[e] = stage[e] BY <1>t, <2>1, <2>6 DEF AcceptOwn
    <2>8. f = e => at'[e] = "over" BY <1>t, <2>1 DEF AcceptOwn, Step
    <2> QED BY <1>0, <1>i, <2>2, <2>3, <2>7, <2>8
  <1>9. CASE \E f \in Envs, u \in Users : Delete(f, u)
    BY <1>0, <1>9 DEF Delete, Found
  <1>10. CASE \E f \in Envs : DropReferences(f)
    <2>1. PICK f \in Envs : DropReferences(f) BY <1>10
    <2>2. f \in env BY <2>1 DEF DropReferences, Drop, DeletionOrder
    <2>3. UNCHANGED <<at, keyOf, torn>> /\ env' \subseteq env /\ keys' \subseteq keys
          /\ s3 \ {f} \subseteq s3' /\ s3' \subseteq s3 /\ db \ {f} \subseteq db' /\ db' \subseteq db
      BY <2>1 DEF DropReferences
    <2>4. InviteOwner(e) => at'[e] # at[e] BY <1>t DEF InviteOwner, Step
    <2> QED BY <1>0, <1>s, <1>i, <2>2, <2>3, <2>4
  <1>11. CASE \E f \in Envs : Reject(f)
    BY <1>0, <1>t, <1>11 DEF Reject, Step
  <1>12. CASE UNCHANGED <<at, by, keyOf, env, keys, s3, db, deleting, failed, torn>>
    <2>1. InviteOwner(e) => at'[e] # at[e] BY <1>t DEF InviteOwner, Step
    <2> QED BY <1>0, <1>s, <1>i, <1>12, <2>1
  <1> QED BY <1>2, <1>3, <1>4, <1>5, <1>6, <1>7, <1>8, <1>9, <1>10, <1>11, <1>12, InvitesApart DEF Next

\* DeletionOrder is kept.
LEMMA DeletionOrderKept ==
  TypeOK /\ CreationOrder /\ DeletionOrder /\ [Next]_evars => DeletionOrder'
  <1> SUFFICES ASSUME TypeOK, CreationOrder, DeletionOrder, [Next]_evars, NEW e \in Envs
               PROVE  /\ deleting'[e] # "no" => e \in env' \cap torn'
                      /\ deleting'[e] \in {"keys", "s3", "captures", "env"} => e \notin db'
                      /\ deleting'[e] \in {"s3", "captures", "env"} => e \notin keys'
                      /\ deleting'[e] \in {"captures", "env"} => e \notin s3'
    BY DEF DeletionOrder
  <1>0. /\ deleting[e] # "no" => e \in env \cap torn
        /\ deleting[e] \in {"keys", "s3", "captures", "env"} => e \notin db
        /\ deleting[e] \in {"s3", "captures", "env"} => e \notin keys
        /\ deleting[e] \in {"captures", "env"} => e \notin s3
    BY DEF DeletionOrder
  <1>a. at[e] \in {"idle", "name", "keys", "s3", "db", "env"} => deleting[e] = "no"
    BY <1>0 DEF CreationOrder
  <1>t. deleting \in [Envs -> {"no", "db", "keys", "s3", "captures", "env"}] BY TypeParts
  <1> USE DEF creation, refs, invites
  <1>1. CASE \E f \in Envs : \/ \E u \in Users : Create(f, u)
                             \/ CheckName(f) \/ InviteOwner(f) \/ AcceptOwn(f)
    BY <1>0, <1>1 DEF Create, CheckName, InviteOwner, AcceptOwn
  <1>2. CASE \E f \in Envs : MakeKeys(f) \/ MakeReferences(f) \/ MakeEnvironment(f)
    <2>1. PICK f \in Envs : MakeKeys(f) \/ MakeReferences(f) \/ MakeEnvironment(f) BY <1>2
    <2>2. /\ deleting' = deleting /\ torn' = torn /\ env \subseteq env'
          /\ keys' \subseteq keys \cup {f} /\ s3' \subseteq s3 \cup {f} /\ db' \subseteq db \cup {f}
      BY <2>1 DEF MakeKeys, MakeReferences, MakeEnvironment
    <2>3. at[f] \in {"keys", "s3", "db", "env"} BY <2>1 DEF MakeKeys, MakeReferences, MakeEnvironment, Step
    <2>4. f = e => deleting[e] = "no" BY <1>a, <2>3
    <2> QED BY <1>0, <2>2, <2>4
  <1>3. CASE \E f \in Envs, u \in Users : Delete(f, u)
    BY <1>0, <1>t, <1>3 DEF Delete, Found
  <1>4. CASE \E f \in Envs : DropReferences(f)
    <2>1. PICK f \in Envs : DropReferences(f) BY <1>4
    <2>2. torn' = torn /\ env \ {f} \subseteq env' /\ keys' \subseteq keys /\ s3' \subseteq s3
          /\ db' \subseteq db /\ deleting[f] # "no"
      BY <2>1 DEF DropReferences, Drop
    <2>3. CASE f # e
      <3>1. deleting'[e] = deleting[e] BY <1>t, <2>1, <2>3 DEF DropReferences, Drop
      <3> QED BY <1>0, <2>2, <2>3, <3>1
    <2>4. CASE f = e
      <3>1. e \in keys => keyOf[e] = e BY DEF CreationOrder
      <3>2. \/ deleting[e] = "db" /\ deleting'[e] = "keys" /\ e \notin db' /\ env' = env
            \/ deleting[e] = "keys" /\ deleting'[e] = "s3" /\ e \notin keys' /\ env' = env
            \/ deleting[e] = "s3" /\ deleting'[e] = "captures" /\ e \notin s3' /\ env' = env
            \/ deleting[e] = "captures" /\ deleting'[e] = "env" /\ env' = env
            \/ deleting'[e] = "no"
        BY <1>t, <2>1, <2>4, <3>1 DEF DropReferences, Drop
      <3> QED BY <1>0, <2>2, <3>2
    <2> QED BY <2>3, <2>4
  <1>5. CASE \E f \in Envs : Reject(f)
    <2>1. PICK f \in Envs : Reject(f) BY <1>5
    <2>2. UNCHANGED <<env, torn, keys, s3, db>> BY <2>1 DEF Reject
    <2>3. deleting'[e] = deleting[e] \/ deleting'[e] = "no" BY <1>t, <2>1 DEF Reject, Drop
    <2> QED BY <1>0, <2>2, <2>3
  <1>6. CASE UNCHANGED <<at, by, keyOf, env, keys, s3, db, deleting, failed, torn>> BY <1>0, <1>6
  <1> QED BY <1>1, <1>2, <1>3, <1>4, <1>5, <1>6, InvitesApart DEF Next

\* KeysKept is kept: keys go only with an environment whose deletion has begun.
LEMMA KeysKeptKept ==
  TypeOK /\ CreationOrder /\ DeletionOrder /\ KeysKept /\ [Next]_evars => KeysKept'
  <1> SUFFICES ASSUME TypeOK, CreationOrder, DeletionOrder, KeysKept, [Next]_evars, NEW e \in Envs,
                      at'[e] \in {"s3", "db", "env"} \/ e \in env'
               PROVE  keyOf'[e] \in keys' \/ \E f \in torn' : keyOf'[f] = keyOf'[e]
    BY DEF KeysKept
  <1>0. at[e] \in {"s3", "db", "env"} \/ e \in env =>
          keyOf[e] \in keys \/ \E f \in torn : keyOf[f] = keyOf[e]
    BY DEF KeysKept
  <1>t. at \in [Envs -> Places] BY TypeParts
  <1> USE DEF creation, refs, invites
  <1>1. CASE \E f \in Envs : \/ \E u \in Users : Create(f, u)
                             \/ CheckName(f) \/ InviteOwner(f) \/ AcceptOwn(f)
    <2>1. UNCHANGED <<keyOf, keys, torn, env>>
      BY <1>1 DEF Create, CheckName, InviteOwner, AcceptOwn
    <2>2. at'[e] \in {"s3", "db", "env"} => at'[e] = at[e]
      BY <1>t, <1>1 DEF Create, CheckName, InviteOwner, AcceptOwn, Step
    <2> QED BY <1>0, <2>1, <2>2
  <1>2. CASE \E f \in Envs : MakeKeys(f)
    <2>1. PICK f \in Envs : MakeKeys(f) BY <1>2
    <2>2. UNCHANGED <<keyOf, torn, env>> /\ keys \subseteq keys' BY <2>1 DEF MakeKeys
    <2>3. f # e => at'[e] = at[e] BY <1>t, <2>1 DEF MakeKeys, Step
    <2>4. f = e /\ at'[e] = "s3" => keyOf[e] \in keys' BY <1>t, <2>1 DEF MakeKeys, Step
    <2>5. f = e => at'[e] \in {"s3", "over"} /\ e \notin env
      BY <1>t, <2>1 DEF MakeKeys, Step, CreationOrder
    <2> QED BY <1>0, <2>2, <2>3, <2>4, <2>5
  <1>3. CASE \E f \in Envs : MakeReferences(f) \/ MakeEnvironment(f)
    <2>1. PICK f \in Envs : MakeReferences(f) \/ MakeEnvironment(f) BY <1>3
    <2>2. UNCHANGED <<keyOf, torn, keys>> /\ env' \subseteq env \cup {f}
      BY <2>1 DEF MakeReferences, MakeEnvironment
    <2>3. f # e => at'[e] = at[e] BY <1>t, <2>1 DEF MakeReferences, MakeEnvironment, Step
    <2>4. at[f] \in {"s3", "db", "env"} BY <2>1 DEF MakeReferences, MakeEnvironment, Step
    <2> QED BY <1>0, <2>2, <2>3, <2>4
  <1>4. CASE \E f \in Envs, u \in Users : Delete(f, u) BY <1>0, <1>4 DEF Delete
  <1>5. CASE \E f \in Envs : DropReferences(f)
    <2>1. PICK f \in Envs : DropReferences(f) BY <1>5
    <2>2. UNCHANGED <<at, keyOf, torn>> /\ env' \subseteq env /\ keys \ {keyOf[f]} \subseteq keys'
      BY <2>1 DEF DropReferences
    <2>3. f \in torn BY <2>1 DEF DropReferences, Drop, DeletionOrder
    <2> QED BY <1>0, <2>2, <2>3
  <1>6. CASE \E f \in Envs : Reject(f)
    <2>1. UNCHANGED <<keyOf, torn, keys, env>> BY <1>6 DEF Reject
    <2>2. at'[e] = at[e] \/ at'[e] = "over" BY <1>t, <1>6 DEF Reject, Step
    <2> QED BY <1>0, <2>1, <2>2
  <1>7. CASE UNCHANGED <<at, by, keyOf, env, keys, s3, db, deleting, failed, torn>> BY <1>0, <1>7
  <1> QED BY <1>1, <1>2, <1>3, <1>4, <1>5, <1>6, <1>7, InvitesApart DEF Next

\* ReferencesKept is kept.
LEMMA ReferencesKeptKept ==
  TypeOK /\ CreationOrder /\ DeletionOrder /\ ReferencesKept /\ [Next]_evars => ReferencesKept'
  <1> SUFFICES ASSUME TypeOK, CreationOrder, DeletionOrder, ReferencesKept, [Next]_evars,
                      NEW e \in env'
               PROVE  e \in s3' \cap db' \/ e \in torn'
    BY DEF ReferencesKept
  <1>0. e \in env => e \in s3 \cap db \/ e \in torn BY DEF ReferencesKept
  <1> USE DEF creation, refs, invites
  <1>1. CASE \E f \in Envs : \/ \E u \in Users : Create(f, u) \/ Delete(f, u)
                             \/ CheckName(f) \/ InviteOwner(f) \/ AcceptOwn(f)
                             \/ MakeKeys(f) \/ MakeReferences(f) \/ Reject(f)
    <2>1. env' = env /\ torn \subseteq torn' /\ s3 \subseteq s3' /\ db \subseteq db'
      BY <1>1 DEF Create, Delete, CheckName, InviteOwner, AcceptOwn, MakeKeys, MakeReferences, Reject
    <2> QED BY <1>0, <2>1
  <1>2. CASE \E f \in Envs : MakeEnvironment(f)
    <2>1. PICK f \in Envs : MakeEnvironment(f) BY <1>2
    <2>2. f \in s3 \cap db BY <2>1 DEF MakeEnvironment, Step, CreationOrder
    <2>3. env' \subseteq env \cup {f} /\ UNCHANGED <<s3, db, torn>> BY <2>1 DEF MakeEnvironment
    <2> QED BY <1>0, <2>2, <2>3
  <1>3. CASE \E f \in Envs : DropReferences(f)
    <2>1. PICK f \in Envs : DropReferences(f) BY <1>3
    <2>2. torn' = torn /\ env' \subseteq env /\ s3 \ {f} \subseteq s3' /\ db \ {f} \subseteq db'
      BY <2>1 DEF DropReferences
    <2>3. f \in torn BY <2>1 DEF DropReferences, Drop, DeletionOrder
    <2> QED BY <1>0, <2>2, <2>3
  <1>4. CASE UNCHANGED <<at, by, keyOf, env, keys, s3, db, deleting, failed, torn>> BY <1>0, <1>4
  <1> QED BY <1>1, <1>2, <1>3, <1>4, InvitesApart DEF Next

\* LeftNothing is kept.
LEMMA LeftNothingKept ==
  TypeOK /\ CreationOrder /\ DeletionOrder /\ LeftNothing /\ [Next]_evars => LeftNothing'
  <1> SUFFICES ASSUME TypeOK, CreationOrder, DeletionOrder, LeftNothing, [Next]_evars,
                      NEW e \in Envs, at'[e] \in {"invite", "accept", "over"},
                      e \notin env', e \notin failed'
               PROVE  e \notin keys' \cup s3' \cup db'
    BY DEF LeftNothing
  <1>0. at[e] \in {"invite", "accept", "over"} /\ e \notin env /\ e \notin failed
        => e \notin keys \cup s3 \cup db
    BY DEF LeftNothing
  <1>t. at \in [Envs -> Places] /\ deleting \in [Envs -> {"no", "db", "keys", "s3", "captures", "env"}]
    BY TypeParts
  <1>o. at[e] \in {"idle", "name", "keys"} => e \notin keys \cup s3 \cup db BY DEF CreationOrder
  <1> USE DEF creation, refs, invites
  <1>1. CASE \E f \in Envs : (\E u \in Users : Create(f, u)) \/ CheckName(f)
    <2>1. UNCHANGED <<keys, s3, db, env, failed>> BY <1>1 DEF Create, CheckName
    <2>2. at'[e] = at[e] \/ at[e] \in {"idle", "name"} BY <1>t, <1>1 DEF Create, CheckName, Step
    <2> QED BY <1>0, <1>o, <2>1, <2>2
  <1>2. CASE \E f \in Envs : MakeKeys(f)
    <2>1. PICK f \in Envs : MakeKeys(f) BY <1>2
    <2>2. UNCHANGED <<s3, db, env, failed>> /\ keys' \subseteq keys \cup {f} BY <2>1 DEF MakeKeys
    <2>3. f # e => at'[e] = at[e] BY <1>t, <2>1 DEF MakeKeys, Step
    <2>4. f = e => at[e] = "keys" /\ (at'[e] = "s3" \/ keys' = keys)
      BY <1>t, <2>1 DEF MakeKeys, Step
    <2> QED BY <1>0, <1>o, <2>2, <2>3, <2>4
  <1>3. CASE \E f \in Envs : MakeReferences(f)
    <2>1. PICK f \in Envs : MakeReferences(f) BY <1>3
    <2>2. UNCHANGED <<keys, env, failed>> /\ s3' \subseteq s3 \cup {f} /\ db' \subseteq db \cup {f}
      BY <2>1 DEF MakeReferences
    <2>3. f # e /\ at'[e] = at[e] BY <1>t, <2>1 DEF MakeReferences, Step
    <2> QED BY <1>0, <2>2, <2>3
  <1>4. CASE \E f \in Envs : MakeEnvironment(f)
    <2>1. PICK f \in Envs : MakeEnvironment(f) BY <1>4
    <2>2. UNCHANGED <<keys, s3, db>> /\ env \subseteq env' /\ failed \subseteq failed'
      BY <2>1 DEF MakeEnvironment, Fails
    <2>3. f # e => at'[e] = at[e] BY <1>t, <2>1 DEF MakeEnvironment, Step
    <2>4. f = e => e \in env' \cup failed' BY <2>1 DEF MakeEnvironment, Fails
    <2> QED BY <1>0, <2>2, <2>3, <2>4
  <1>5. CASE \E f \in Envs : InviteOwner(f) \/ AcceptOwn(f)
    <2>1. UNCHANGED <<keys, s3, db, env, failed>> BY <1>5 DEF InviteOwner, AcceptOwn
    <2>2. at'[e] = at[e] \/ at[e] \in {"invite", "accept"}
      BY <1>t, <1>5 DEF InviteOwner, AcceptOwn, Step
    <2> QED BY <1>0, <2>1, <2>2
  <1>6. CASE \E f \in Envs, u \in Users : Delete(f, u) BY <1>0, <1>6 DEF Delete
  <1>7. CASE \E f \in Envs : DropReferences(f)
    <2>1. PICK f \in Envs : DropReferences(f) BY <1>7
    <2>2. UNCHANGED <<at, failed>> /\ keys' \subseteq keys /\ s3' \subseteq s3 /\ db' \subseteq db
      BY <2>1 DEF DropReferences
    <2>3. f # e => (e \in env => e \in env') BY <2>1 DEF DropReferences
    <2>4. f = e => e \in env /\ (e \in env' \/ deleting[e] = "env")
      BY <2>1 DEF DropReferences, Drop, DeletionOrder
    <2>5. deleting[e] = "env" => e \notin keys \cup s3 \cup db BY DEF DeletionOrder
    <2> QED BY <1>0, <2>2, <2>3, <2>4, <2>5
  <1>8. CASE \E f \in Envs : Reject(f)
    <2>1. UNCHANGED <<keys, s3, db, env>> /\ failed \subseteq failed' BY <1>8 DEF Reject, Fails
    <2>2. at'[e] = at[e] \/ e \in failed' BY <1>t, <1>8 DEF Reject, Step, Fails
    <2> QED BY <1>0, <2>1, <2>2
  <1>9. CASE UNCHANGED <<at, by, keyOf, env, keys, s3, db, deleting, failed, torn>> BY <1>0, <1>9
  <1> QED
    BY <1>1, <1>2, <1>3, <1>4, <1>5, <1>6, <1>7, <1>8, <1>9, InvitesApart DEF Next

-----------------------------------------------------------------------------
(* The owner                                                                *)

\* Somebody who has an environment found has had it found before, or makes it now.
LEMMA FoundSince ==
  ASSUME TypeOK, CreationOrder, OwnerIsCreator, [Next]_evars, NEW e \in env'
  PROVE  /\ owner'[e] \in {by'[e], Nobody}
         /\ \/ MakeEnvironment(e)
            \/ e \in env /\ by'[e] = by[e] /\ owner'[e] \in {owner[e], Nobody}
  <1>t. /\ e \in Envs /\ at \in [Envs -> Places] /\ by \in [Envs -> Users \cup {Nobody}]
        /\ owner \in [Envs -> Users \cup {Nobody}] /\ TypeOK'
    BY NextTyped, TypeParts DEF TypeOK
  <1>0. e \in env => owner[e] \in {by[e], Nobody} BY DEF OwnerIsCreator
  <1> USE DEF creation, refs, invites
  <1>1. CASE \E f \in Envs, u \in Users : Create(f, u)
    <2>1. PICK f \in Envs, u \in Users : Create(f, u) BY <1>1
    <2>2. UNCHANGED <<env, owner>> /\ f \notin env BY <2>1 DEF Create, Step, CreationOrder
    <2>3. by'[e] = by[e] BY <1>t, <2>1, <2>2 DEF Create
    <2> QED BY <1>0, <2>2, <2>3
  <1>2. CASE \E f \in Envs : MakeEnvironment(f)
    <2>1. PICK f \in Envs : MakeEnvironment(f) BY <1>2
    <2>2. UNCHANGED by BY <2>1 DEF MakeEnvironment
    <2>3. CASE f = e
      <3>1. e \notin env BY <2>1, <2>3 DEF MakeEnvironment, Step, CreationOrder
      <3>2. owner'[e] = by[e] BY <1>t, <2>1, <2>3, <3>1 DEF MakeEnvironment
      <3> QED BY <2>1, <2>2, <2>3, <3>2
    <2>4. CASE f # e
      <3>1. e \in env /\ owner'[e] = owner[e] BY <1>t, <2>1, <2>4 DEF MakeEnvironment
      <3> QED BY <1>0, <2>2, <3>1
    <2> QED BY <2>3, <2>4
  <1>3. CASE \E u \in Users : DeleteUser(u)
    <2>1. UNCHANGED <<env, by>> /\ owner'[e] \in {owner[e], Nobody} BY <1>t, <1>3 DEF DeleteUser
    <2> QED BY <1>0, <2>1
  <1>4. CASE UNCHANGED <<by, owner>> /\ env' \subseteq env BY <1>0, <1>4
  <1>5. ASSUME NEW f \in Envs,
               \/ CheckName(f) \/ MakeKeys(f) \/ MakeReferences(f) \/ InviteOwner(f) \/ AcceptOwn(f)
               \/ DropReferences(f) \/ Reject(f)
               \/ \E u \in Users : Delete(f, u) \/ \E n \in Names : Rename(f, u, n)
        PROVE  UNCHANGED <<by, owner>> /\ env' \subseteq env
    BY <1>5 DEF CheckName, MakeKeys, MakeReferences, InviteOwner, AcceptOwn, DropReferences, Reject,
                Delete, Rename
  <1>6. ASSUME \/ \E i \in Invitations, f \in Envs, u, guest \in Users, isAdmin \in BOOLEAN :
                    Ask(i, f, u, guest, isAdmin)
               \/ \E i \in Invites : Invite(i) \/ Answer(i) \/ \E u \in Users : Promote(i, u)
               \/ UNCHANGED evars
        PROVE  UNCHANGED <<by, owner>> /\ env' \subseteq env
    BY <1>6 DEF Ask, Invite, Answer, Promote, evars
  <1> QED BY <1>1, <1>2, <1>3, <1>4, <1>5, <1>6 DEF Next

\* OwnerIsCreator is kept.
LEMMA OwnerIsCreatorKept ==
  TypeOK /\ CreationOrder /\ OwnerIsCreator /\ [Next]_evars => OwnerIsCreator'
  BY FoundSince DEF OwnerIsCreator

\* Users only go.
LEMMA UsersGo == [Next]_evars => users' \subseteq users
  <1> SUFFICES ASSUME [Next]_evars PROVE users' \subseteq users
    OBVIOUS
  <1>1. ASSUME NEW e \in Envs,
               \/ CheckName(e) \/ MakeKeys(e) \/ MakeReferences(e) \/ MakeEnvironment(e)
               \/ InviteOwner(e) \/ AcceptOwn(e) \/ DropReferences(e) \/ Reject(e)
               \/ \E u \in Users : Create(e, u) \/ Delete(e, u) \/ \E n \in Names : Rename(e, u, n)
        PROVE  users' = users
    BY <1>1 DEF CheckName, MakeKeys, MakeReferences, MakeEnvironment, InviteOwner, AcceptOwn,
                DropReferences, Reject, Create, Delete, Rename
  <1>2. ASSUME \/ \E i \in Invitations, e \in Envs, u, guest \in Users, isAdmin \in BOOLEAN :
                    Ask(i, e, u, guest, isAdmin)
               \/ \E i \in Invites : Invite(i) \/ Answer(i) \/ \E u \in Users : Promote(i, u)
        PROVE  users' = users
    BY <1>2 DEF Ask, Invite, Answer, Promote
  <1>3. ASSUME NEW u \in Users, DeleteUser(u) PROVE users' \subseteq users
    BY <1>3 DEF DeleteUser
  <1>4. UNCHANGED evars => users' = users BY DEF evars
  <1> QED BY <1>1, <1>2, <1>3, <1>4 DEF Next

\* OwnerSees is kept.
LEMMA OwnerSeesKept ==
  TypeOK /\ CreationOrder /\ OwnerIsCreator /\ OwnerSees /\ [Next]_evars => OwnerSees'
  <1> SUFFICES ASSUME TypeOK, CreationOrder, OwnerIsCreator, OwnerSees, [Next]_evars,
                      NEW e \in env', owner'[e] \in users', at'[e] = "over", e \notin failed'
               PROVE  stage'[e] \in {"accepted", "deleted"}
    BY DEF OwnerSees, Found
  <1>t. e \in Envs /\ e \in Invites /\ at \in [Envs -> Places] /\ stage \in [Invites -> Stages]
        /\ Nobody \notin users /\ users' \subseteq users
    <2>1. users' \subseteq users BY UsersGo
    <2> QED BY <2>1, NextTyped, TypeParts, InviteParts, EnvironmentsAssumption DEF TypeOK
  <1>1. CASE MakeEnvironment(e)
    <2>1. at'[e] = "invite" \/ e \in failed' BY <1>t, <1>1 DEF MakeEnvironment, Step, Fails
    <2> QED BY <2>1
  <1>2. CASE e \in env /\ by'[e] = by[e] /\ owner'[e] \in {owner[e], Nobody}
    <2>1. e \in env /\ owner[e] \in users /\ owner[e] = by[e] BY <1>t, <1>2 DEF OwnerIsCreator
    <2>2. CASE at[e] = "over" /\ e \notin failed
      <3>1. stage[e] \in {"accepted", "deleted"} BY <2>1, <2>2 DEF OwnerSees, Found
      <3> QED BY <1>t, <3>1, OwnInvite
    <2>3. CASE InviteOwner(e)
      <3>1. at'[e] = "accept" BY <1>t, <2>1, <2>3 DEF InviteOwner, Step
      <3> QED BY <3>1
    <2>4. CASE AcceptOwn(e)
      BY <1>t, <2>4 DEF AcceptOwn
    <2>5. at[e] \in {"invite", "accept", "over"} BY <1>t, <2>1 DEF CreationOrder, Places
    <2>6. \/ at'[e] = at[e] /\ failed \subseteq failed'
          \/ e \in failed' \/ InviteOwner(e) \/ AcceptOwn(e)
      <3> USE DEF creation, refs, invites
      <3>1. ASSUME NEW f \in Envs,
                   \/ \E u \in Users : Create(f, u)
                   \/ CheckName(f) \/ MakeKeys(f) \/ MakeReferences(f) \/ MakeEnvironment(f)
            PROVE  at'[e] = at[e] /\ failed \subseteq failed'
        BY <1>t, <2>5, <3>1
        DEF Create, CheckName, MakeKeys, MakeReferences, MakeEnvironment, Step, Fails
      <3>2. ASSUME NEW f \in Envs, f # e, InviteOwner(f) \/ AcceptOwn(f)
            PROVE  at'[e] = at[e] /\ failed \subseteq failed'
        BY <1>t, <3>2 DEF InviteOwner, AcceptOwn, Step
      <3>3. ASSUME NEW f \in Envs, DropReferences(f) \/ \E u \in Users : Delete(f, u)
            PROVE  at'[e] = at[e] /\ failed \subseteq failed'
        BY <3>3 DEF DropReferences, Delete
      <3>4. ASSUME NEW f \in Envs, Reject(f)
            PROVE  (at'[e] = at[e] /\ failed \subseteq failed') \/ e \in failed'
        BY <1>t, <3>4 DEF Reject, Step, Fails
      <3>5. UNCHANGED <<at, by, keyOf, env, keys, s3, db, deleting, failed, torn>>
            => at'[e] = at[e] /\ failed \subseteq failed'
        OBVIOUS
      <3> QED BY <3>1, <3>2, <3>3, <3>4, <3>5, InvitesApart DEF Next
    <2> QED BY <2>2, <2>3, <2>4, <2>6
  <1> QED BY <1>1, <1>2, FoundSince

-----------------------------------------------------------------------------
(* The theorems                                                             *)

\* IInv holds at the start.
LEMMA InitInductive == Init => IInv
  <1> SUFFICES ASSUME Init PROVE IInv
    OBVIOUS
  <1>1. TypeOK BY InitTyped
  <1>2. /\ \A e \in Envs : at[e] = "idle" /\ stage[e] = "none" /\ deleting[e] = "no"
        /\ env = {} /\ torn = {} /\ keys = {} /\ s3 = {} /\ db = {}
    BY InviteParts DEF Init
  <1> QED BY <1>1, <1>2 DEF IInv, CreationOrder, DeletionOrder, KeysKept, ReferencesKept, LeftNothing,
                            OwnerIsCreator, OwnerSees

\* IInv is kept.
LEMMA NextInductive == IInv /\ [Next]_evars => IInv'
  BY NextTyped, CreationOrderKept, DeletionOrderKept, KeysKeptKept, ReferencesKeptKept,
     LeftNothingKept, OwnerIsCreatorKept, OwnerSeesKept
  DEF IInv

\* What IInv says of the references.
LEMMA ReferencesFollow == IInv => ReferencesFit
  <1> SUFFICES ASSUME IInv PROVE ReferencesFit
    OBVIOUS
  <1> USE DEF IInv
  <1>1. ASSUME NEW e \in env
        PROVE  \/ e \in s3 \cap db /\ keyOf[e] \in keys
               \/ e \in torn
               \/ e \in s3 \cap db /\ \E f \in torn : keyOf[f] = keyOf[e]
    <2>1. e \in Envs BY DEF TypeOK
    <2> QED BY <2>1 DEF KeysKept, ReferencesKept
  <1>2. LeftoversExplained BY DEF LeftoversExplained, LeftNothing
  <1> QED BY <1>1, <1>2 DEF ReferencesFit, EnvironmentWhole

\* IInv holds in every state.
THEOREM Inductive == Spec => []IInv
  BY InitInductive, NextInductive, PTL DEF Spec

\* The types hold in every state, and with them the foreign keys: an owner and
\* the two ends of an invite are rows that are there.
THEOREM Typed == Spec => []TypeOK
  <1>1. IInv => TypeOK BY DEF IInv
  <1> QED BY Inductive, <1>1, PTL

\* An environment has its references unless somebody has set about deleting it or
\* one it shares its keys with, and references without an environment are what a
\* creation that failed has left.
THEOREM Fit == Spec => []ReferencesFit
  BY Inductive, ReferencesFollow, PTL

\* An owner has an accepted invite to the environment, unless the creation is
\* under way or failed, or the invite was deleted.
THEOREM Sees == Spec => []OwnerSees
  <1>1. IInv => OwnerSees BY DEF IInv
  <1> QED BY Inductive, <1>1, PTL
================================================================================
