------------------------------- MODULE MCAccess -------------------------------
(***************************************************************************)
(* Small instances of Environments and of Sessions. They share nothing but  *)
(* the rows of the users, so one of them moves at a time.                   *)
(***************************************************************************)
EXTENDS Environments, TLC

CONSTANTS Requests, MaxTokens

ASSUME AccessAssumption == MaxTokens \in Nat

VARIABLES part, there, token, old, pass, reset, used, stale, tokens, passes,
          kind, step, given, seen, brought, under, behind, early, resetBy, together

svars == <<there, token, old, pass, reset, used, stale, tokens, passes,
           kind, step, given, seen, brought, under, behind, early, resetBy, together>>

S == INSTANCE Sessions WITH at <- step, sent <- brought

MCInit ==
  /\ part \in {"sessions", "environments"}
  /\ Init /\ S!Init
  /\ \E e \in Envs : keyOf[e] = e
  /\ part = "sessions" => \A e, f \in Envs : name[e] = name[f] /\ keyOf[e] = keyOf[f]

MCNext ==
  /\ UNCHANGED part
  /\ \/ part = "sessions" /\ S!Next /\ UNCHANGED evars
     \/ part = "environments" /\ Next /\ UNCHANGED svars

MCSpec == MCInit /\ [][MCNext]_<<part, evars, svars>>

\* The properties of Sessions.
AccessTypeOK        == TypeOK /\ S!TypeOK
ClearedByItsOwn     == S!ClearedByItsOwn
ChangeKnowsPassword == S!ChangeKnowsPassword
RevivedByItsOwn     == S!RevivedByItsOwn
ResetOnce           == S!ResetOnce

Symmetry ==
  Permutations(Users) \cup Permutations(Names) \cup Permutations(Envs)
===============================================================================
