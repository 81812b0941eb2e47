----------------------------- MODULE Access_proofs -----------------------------
(***************************************************************************)
(* Theorems about the composition of Environments and Sessions: what is     *)
(* proved of Environments holds of it, and the sessions of Sessions, whose  *)
(* variables at and sent are step and brought here, are as safe as it says, *)
(* for any requests and any number of tokens and passwords.                 *)
(***************************************************************************)
EXTENDS MCAccess, Environments_proofs

\* The steps of a request are those of what it asks for.
KindOrder ==
  \A q \in Requests :
    /\ step[q] \in {"find", "clear", "touch", "again"} => kind[q] \in {"look", "logout", "change"}
    /\ step[q] = "lookup" => kind[q] = "reset"

\* Once a token has reset the password, whoever is still about to use it had
\* found it unused by then.
ResetTogether ==
  /\ resetBy \subseteq together
  /\ resetBy # {} => used \/ ~there
  /\ resetBy # {} => \A q \in Requests :
       step[q] = "act" /\ kind[q] = "reset" /\ brought[q] = reset => q \in together

\* Who is about to change the password has read the one there is, or was about
\* to when it was set.
SeenOrBehind ==
  \A q \in Requests : step[q] = "act" /\ kind[q] = "change" => seen[q] = pass \/ q \in behind

\* Who is about to clear or to keep the session has come with its token, or was
\* under way when it began.
ClearsOwn ==
  token # 0 => \A q \in Requests :
    step[q] \in {"clear", "touch"} \/ (step[q] = "act" /\ kind[q] = "logout") => brought[q] = token \/ q \in under

\* Who is about to keep a session that has expired found it in time before.
EarlyKeeps == \A q \in Requests : old /\ step[q] = "touch" => q \in early

SessionsInv ==
  S!TypeOK /\ KindOrder /\ ResetTogether /\ SeenOrBehind /\ ClearsOwn /\ EarlyKeeps

-----------------------------------------------------------------------------
(* The types                                                                *)

Numbers == 0..MaxTokens
Kinds   == {"login", "look", "logout", "change", "forgot", "reset"}
Steps   == {"idle", "find", "clear", "touch", "again", "compare", "begin", "lookup", "act", "over"}

\* The type of Sessions in parts.
LEMMA SessionParts ==
  S!TypeOK <=>
    /\ there \in BOOLEAN /\ old \in BOOLEAN /\ used \in BOOLEAN /\ stale \in BOOLEAN
    /\ token \in Numbers /\ pass \in Numbers /\ reset \in Numbers
    /\ tokens \in Numbers /\ passes \in Numbers
    /\ token <= tokens /\ reset <= tokens /\ pass <= passes
    /\ kind \in [Requests -> Kinds] /\ step \in [Requests -> Steps]
    /\ brought \in [Requests -> Numbers] /\ given \in [Requests -> Numbers]
    /\ seen \in [Requests -> Numbers]
    /\ under \subseteq Requests /\ behind \subseteq Requests /\ early \subseteq Requests
    /\ resetBy \subseteq Requests /\ together \subseteq Requests
  BY DEF S!TypeOK, S!Numbers, S!Kinds, Numbers, Kinds, Steps

\* A new number is a number.
LEMMA NextNumber == \A n \in Numbers : n < MaxTokens => n + 1 \in Numbers /\ n <= n + 1 /\ n + 1 # 0
  BY AccessAssumption DEF Numbers

\* Sessions start well typed.
LEMMA SessionsInitTyped == S!Init => S!TypeOK
  <1>1. 0 \in Numbers /\ 0 <= 0 BY AccessAssumption DEF Numbers
  <1> QED BY <1>1, SessionParts DEF S!Init, Kinds, Steps

\* A step of a request keeps the types of what it does not set.
LEMMA SessionsNextTyped == S!TypeOK /\ S!Next => S!TypeOK'
  <1> SUFFICES ASSUME S!TypeOK, S!Next PROVE S!TypeOK'
    OBVIOUS
  <1> DEFINE Typed2 ==
        /\ there' \in BOOLEAN /\ old' \in BOOLEAN /\ used' \in BOOLEAN /\ stale' \in BOOLEAN
        /\ token' \in Numbers /\ pass' \in Numbers /\ reset' \in Numbers
        /\ tokens' \in Numbers /\ passes' \in Numbers
        /\ token' <= tokens' /\ reset' <= tokens' /\ pass' <= passes'
        /\ kind' \in [Requests -> Kinds] /\ step' \in [Requests -> Steps]
        /\ brought' \in [Requests -> Numbers] /\ given' \in [Requests -> Numbers]
        /\ seen' \in [Requests -> Numbers]
        /\ under' \subseteq Requests /\ behind' \subseteq Requests /\ early' \subseteq Requests
        /\ resetBy' \subseteq Requests /\ together' \subseteq Requests
  <1> SUFFICES Typed2
    BY DEF S!TypeOK, S!Numbers, S!Kinds, Numbers, Kinds, Steps
  <1>0. 0 \in Numbers /\ \A m, n \in Numbers : 0 <= n /\ n <= n /\ (m <= n => m <= n + 1)
    BY AccessAssumption DEF Numbers
  <1> USE SessionParts, <1>0, NextNumber
      DEF S!row, S!request, S!Same, S!History, S!Go, S!Waiting, Steps
  <1>1. CASE S!Age BY <1>1 DEF S!Age
  <1>2. CASE S!DeleteUser BY <1>2 DEF S!DeleteUser
  <1>3. CASE \E q \in Requests, k \in S!Kinds, t \in S!Numbers, p \in S!Numbers : S!Send(q, k, t, p)
    BY <1>3 DEF S!Send, S!Kinds, S!Numbers, Kinds, Numbers
  <1>4. CASE \E q \in Requests : S!Compare(q) BY <1>4 DEF S!Compare
  <1>5. CASE \E q \in Requests : S!Begin(q)
    <2>1. PICK q \in Requests : S!Begin(q) BY <1>5
    <2>2. UNCHANGED <<there, pass, reset, used, stale, passes, seen, kind, brought, given,
                      behind, early, resetBy, together>> /\ tokens < MaxTokens
      BY <2>1 DEF S!Begin
    <2>3. step' \in [Requests -> Steps] BY <2>1 DEF S!Begin
    <2>4. \/ UNCHANGED <<tokens, token, old, under>>
          \/ /\ tokens' = tokens + 1 /\ token' = tokens + 1 /\ old' = FALSE
             /\ under' \subseteq Requests
      BY <2>1 DEF S!Begin
    <2>5. /\ tokens' \in Numbers /\ token' \in Numbers /\ token' <= tokens' /\ reset' <= tokens'
          /\ old' \in BOOLEAN /\ under' \subseteq Requests
      BY <2>2, <2>4 DEF Numbers
    <2> QED BY <2>2, <2>3, <2>5
  <1>6. CASE \E q \in Requests : S!Find(q) BY <1>6 DEF S!Find
  <1>7. CASE \E q \in Requests : S!Touch(q) BY <1>7 DEF S!Touch
  <1>8. CASE \E q \in Requests : S!Again(q) BY <1>8 DEF S!Again
  <1>9. CASE \E q \in Requests : S!Clear(q)
    <2>1. PICK q \in Requests : S!Clear(q) BY <1>9
    <2>2. UNCHANGED <<there, pass, reset, used, stale, tokens, passes, seen, kind, brought, given,
                      under, behind, early, resetBy, together>> /\ token' = 0 /\ old' = FALSE
      BY <2>1 DEF S!Clear
    <2>3. step' \in [Requests -> Steps] BY <2>1 DEF S!Clear
    <2> QED BY <2>2, <2>3
  <1>10. CASE \E q \in Requests : S!Change(q)
    <2>1. PICK q \in Requests : S!Change(q) BY <1>10
    <2>2. UNCHANGED <<there, token, old, reset, used, stale, tokens, seen, kind, brought, given,
                      under, early, resetBy, together>>
      BY <2>1 DEF S!Change
    <2>3. step' \in [Requests -> Steps] BY <2>1 DEF S!Change
    <2>4. S!SetPassword(q) \/ UNCHANGED <<pass, passes, behind>> BY <2>1 DEF S!Change
    <2>5. pass' \in Numbers /\ passes' \in Numbers /\ pass' <= passes' /\ behind' \subseteq Requests
      BY <2>4 DEF S!SetPassword, Numbers
    <2> QED BY <2>2, <2>3, <2>5
  <1>11. CASE \E q \in Requests : S!Forgot(q)
    <2>1. PICK q \in Requests : S!Forgot(q) BY <1>11
    <2>2. UNCHANGED <<there, token, old, pass, passes, seen, kind, brought, given, under, behind,
                      early>>
          /\ tokens < MaxTokens
      BY <2>1 DEF S!Forgot
    <2>3. step' \in [Requests -> Steps] BY <2>1 DEF S!Forgot
    <2>4. \/ UNCHANGED <<tokens, reset, used, stale, resetBy, together>>
          \/ /\ tokens' = tokens + 1 /\ reset' = tokens + 1 /\ used' = FALSE /\ stale' = FALSE
             /\ resetBy' = {} /\ together' = {}
      BY <2>1 DEF S!Forgot
    <2>5. /\ tokens' \in Numbers /\ reset' \in Numbers /\ reset' <= tokens' /\ token' <= tokens'
          /\ used' \in BOOLEAN /\ stale' \in BOOLEAN
      BY <2>2, <2>4 DEF Numbers
    <2> QED BY <2>2, <2>3, <2>4, <2>5
  <1>12. CASE \E q \in Requests : S!Lookup(q) BY <1>12 DEF S!Lookup
  <1>13. CASE \E q \in Requests : S!Reset(q) BY <1>13 DEF S!Reset, S!SetPassword
  <1> QED
    BY <1>1, <1>2, <1>3, <1>4, <1>5, <1>6, <1>7, <1>8, <1>9, <1>10, <1>11, <1>12, <1>13 DEF S!Next

-----------------------------------------------------------------------------
(* The invariants of the sessions                                           *)

\* Each step of Sessions, with the request that takes it.
LEMMA SessionStep ==
  ASSUME S!Next
  PROVE  \/ S!Age \/ S!DeleteUser
         \/ \E q \in Requests, k \in Kinds, t \in Numbers, p \in Numbers : S!Send(q, k, t, p)
         \/ \E q \in Requests : \/ S!Compare(q) \/ S!Begin(q) \/ S!Find(q) \/ S!Touch(q) \/ S!Again(q)
                                \/ S!Clear(q) \/ S!Change(q) \/ S!Forgot(q) \/ S!Lookup(q) \/ S!Reset(q)
  BY DEF S!Next, S!Kinds, S!Numbers, Kinds, Numbers

\* Where a request can go.
LEMMA Goes ==
  ASSUME S!TypeOK, NEW q \in Requests, NEW p \in Requests, NEW from, NEW to, S!Go(p, from, to)
  PROVE  /\ step[p] = from
         /\ step'[q] = IF q = p THEN to ELSE step[q]
  BY SessionParts DEF S!Go

\* A request is sent once, and is what it was until then.
LEMMA Sends ==
  ASSUME S!TypeOK, NEW q \in Requests, NEW p \in Requests, NEW k, NEW t, NEW g, S!Send(p, k, t, g)
  PROVE  /\ q # p => step'[q] = step[q] /\ kind'[q] = kind[q] /\ brought'[q] = brought[q]
                     /\ seen'[q] = seen[q]
         /\ q = p => /\ kind'[q] = k
                     /\ k = "login" => step'[q] = "compare"
                     /\ k = "forgot" => step'[q] = "act"
                     /\ k = "reset" => step'[q] = "lookup"
                     /\ k \notin {"login", "forgot", "reset"} => step'[q] = "find"
  BY SessionParts DEF S!Send

\* KindOrder is kept.
LEMMA KindOrderKept == S!TypeOK /\ KindOrder /\ S!Next => KindOrder'
  <1> SUFFICES ASSUME S!TypeOK, KindOrder, S!Next, NEW q \in Requests
               PROVE  /\ step'[q] \in {"find", "clear", "touch", "again"}
                           => kind'[q] \in {"look", "logout", "change"}
                      /\ step'[q] = "lookup" => kind'[q] = "reset"
    BY DEF KindOrder
  <1>0. /\ step[q] \in {"find", "clear", "touch", "again"} => kind[q] \in {"look", "logout", "change"}
        /\ step[q] = "lookup" => kind[q] = "reset"
    BY DEF KindOrder
  <1> USE DEF S!row, S!request, S!Same, S!History
  <1>1. CASE S!Age \/ S!DeleteUser BY <1>0, <1>1 DEF S!Age, S!DeleteUser
  <1>2. CASE \E p \in Requests, k \in Kinds, t \in Numbers, g \in Numbers : S!Send(p, k, t, g)
    BY <1>0, <1>2, Sends DEF Kinds
  <1>3. ASSUME NEW p \in Requests,
               \/ S!Compare(p) \/ S!Begin(p) \/ S!Clear(p) \/ S!Change(p) \/ S!Forgot(p)
               \/ S!Lookup(p) \/ S!Reset(p) \/ S!Again(p)
        PROVE  kind' = kind /\ (step'[q] = step[q] \/ step'[q] \in {"begin", "over", "act"})
    BY <1>3, Goes
    DEF S!Compare, S!Begin, S!Clear, S!Change, S!Forgot, S!Lookup, S!Reset, S!Again
  <1>4. ASSUME NEW p \in Requests, S!Find(p) \/ S!Touch(p)
        PROVE  kind' = kind /\ (\/ step'[q] = step[q] \/ step'[q] = "over"
                                \/ step[q] \in {"find", "touch"} /\ step'[q] \in {"clear", "touch", "again"})
    BY <1>4, Goes DEF S!Find, S!Touch
  <1> QED BY <1>0, <1>1, <1>2, <1>3, <1>4, SessionStep

\* ResetTogether is kept.
LEMMA ResetTogetherKept == S!TypeOK /\ KindOrder /\ ResetTogether /\ S!Next => ResetTogether'
  <1> SUFFICES ASSUME S!TypeOK, KindOrder, ResetTogether, S!Next PROVE ResetTogether'
    OBVIOUS
  <1> DEFINE Acts(q) == step[q] = "act" /\ kind[q] = "reset"
  <1> USE DEF S!row, S!request, S!Same, S!History, ResetTogether
  <1>1. CASE S!Age BY <1>1 DEF S!Age
  <1>2. CASE S!DeleteUser BY <1>2 DEF S!DeleteUser
  <1>3. ASSUME UNCHANGED <<there, used, resetBy, together, reset>>,
               \A q \in Requests : Acts(q)' => Acts(q) /\ brought'[q] = brought[q]
        PROVE  ResetTogether'
    BY <1>3
  <1>4. CASE \E p \in Requests, k \in Kinds, t \in Numbers, g \in Numbers : S!Send(p, k, t, g)
    <2>1. PICK p \in Requests, k \in Kinds, t \in Numbers, g \in Numbers : S!Send(p, k, t, g) BY <1>4
    <2>2. UNCHANGED <<there, used, resetBy, together, reset>> BY <2>1 DEF S!Send
    <2>3. \A q \in Requests : Acts(q)' => Acts(q) /\ brought'[q] = brought[q]
      BY <2>1, Sends DEF Kinds
    <2> QED BY <1>3, <2>2, <2>3
  <1>5. ASSUME NEW p \in Requests,
               S!Compare(p) \/ S!Begin(p) \/ S!Find(p) \/ S!Touch(p) \/ S!Clear(p) \/ S!Change(p)
        PROVE  ResetTogether'
    <2>1. UNCHANGED <<there, used, resetBy, together, reset, kind, brought>>
      BY <1>5 DEF S!Compare, S!Begin, S!Find, S!Touch, S!Clear, S!Change
    <2>2. \A q \in Requests : step'[q] = "act" => step[q] = "act"
      BY <1>5, Goes DEF S!Compare, S!Begin, S!Find, S!Touch, S!Clear, S!Change
    <2> QED BY <1>3, <2>1, <2>2
  <1>6. ASSUME NEW p \in Requests, S!Again(p) PROVE ResetTogether'
    <2>1. UNCHANGED <<there, used, resetBy, together, reset, kind, brought>> BY <1>6 DEF S!Again
    <2>2. kind[p] # "reset" BY <1>6, Goes DEF S!Again, KindOrder
    <2>3. \A q \in Requests : q # p => step'[q] = step[q] BY <1>6, Goes DEF S!Again
    <2>4. \A q \in Requests : Acts(q)' => Acts(q) BY <2>1, <2>2, <2>3
    <2> QED BY <1>3, <2>1, <2>4
  <1>7. ASSUME NEW p \in Requests, S!Forgot(p) PROVE ResetTogether'
    <2>1. UNCHANGED <<there, kind, brought>> BY <1>7 DEF S!Forgot
    <2>2. \A q \in Requests : step'[q] = "act" => step[q] = "act" BY <1>7, Goes DEF S!Forgot
    <2>3. \/ UNCHANGED <<used, resetBy, together, reset>>
          \/ resetBy' = {} /\ together' = {}
      BY <1>7 DEF S!Forgot
    <2> QED BY <1>3, <2>1, <2>2, <2>3
  <1>8. ASSUME NEW p \in Requests, S!Lookup(p) PROVE ResetTogether'
    <2>1. UNCHANGED <<there, used, resetBy, together, reset, kind, brought>> BY <1>8 DEF S!Lookup
    <2>2. \A q \in Requests : step'[q] = "act" => step[q] = "act" \/ (there /\ ~used)
      BY <1>8, Goes DEF S!Lookup
    <2> QED BY <2>1, <2>2
  <1>9. ASSUME NEW p \in Requests, S!Reset(p) PROVE ResetTogether'
    <2>1. UNCHANGED <<there, reset, kind, brought>> /\ used' = (used \/ there) /\ kind[p] = "reset"
      BY <1>9 DEF S!Reset
    <2>2. step[p] = "act" /\ \A q \in Requests : step'[q] = "act" => step[q] = "act"
      BY <1>9, Goes DEF S!Reset
    <2>3. CASE reset # brought[p]
      <3>1. UNCHANGED <<resetBy, together>> BY <1>9, <2>3 DEF S!Reset
      <3> QED BY <2>1, <2>2, <3>1
    <2>4. CASE reset = brought[p] /\ resetBy # {}
      <3>1. resetBy' = resetBy \cup {p} /\ together' = together BY <1>9, <2>4 DEF S!Reset
      <3>2. p \in together BY <2>1, <2>2, <2>4
      <3> QED BY <2>1, <2>2, <2>4, <3>1, <3>2
    <2>5. CASE reset = brought[p] /\ resetBy = {}
      <3>1. resetBy' = {p}
            /\ together' = {q \in Requests : step[q] = "act" /\ kind[q] = "reset" /\ brought[q] = reset}
        BY <1>9, <2>5 DEF S!Reset, S!Waiting
      <3>2. p \in together' BY <2>1, <2>2, <2>5, <3>1
      <3> QED BY <2>1, <2>2, <3>1, <3>2
    <2> QED BY <2>3, <2>4, <2>5
  <1> QED BY <1>1, <1>2, <1>4, <1>5, <1>6, <1>7, <1>8, <1>9, SessionStep

\* SeenOrBehind is kept.
LEMMA SeenOrBehindKept == S!TypeOK /\ KindOrder /\ SeenOrBehind /\ S!Next => SeenOrBehind'
  <1> SUFFICES ASSUME S!TypeOK, KindOrder, SeenOrBehind, S!Next, NEW q \in Requests,
                      step'[q] = "act", kind'[q] = "change"
               PROVE  seen'[q] = pass' \/ q \in behind'
    BY DEF SeenOrBehind
  <1>0. step[q] = "act" /\ kind[q] = "change" => seen[q] = pass \/ q \in behind BY DEF SeenOrBehind
  <1> USE DEF S!row, S!request, S!Same, S!History
  <1>1. CASE S!Age \/ S!DeleteUser BY <1>0, <1>1 DEF S!Age, S!DeleteUser
  <1>2. CASE \E p \in Requests, k \in Kinds, t \in Numbers, g \in Numbers : S!Send(p, k, t, g)
    <2>1. PICK p \in Requests, k \in Kinds, t \in Numbers, g \in Numbers : S!Send(p, k, t, g) BY <1>2
    <2>2. UNCHANGED <<pass, behind>> BY <2>1 DEF S!Send
    <2>3. q # p BY <2>1, Sends
    <2> QED BY <1>0, <2>1, <2>2, <2>3, Sends
  <1>3. ASSUME NEW p \in Requests,
               \/ S!Compare(p) \/ S!Begin(p) \/ S!Find(p) \/ S!Touch(p) \/ S!Clear(p) \/ S!Forgot(p)
        PROVE  seen'[q] = pass' \/ q \in behind'
    <2>1. UNCHANGED <<pass, behind, seen, kind>>
      BY <1>3 DEF S!Compare, S!Begin, S!Find, S!Touch, S!Clear, S!Forgot
    <2>2. step[q] = "act"
      BY <1>3, Goes DEF S!Compare, S!Begin, S!Find, S!Touch, S!Clear, S!Forgot
    <2> QED BY <1>0, <2>1, <2>2
  <1>4. ASSUME NEW p \in Requests, S!Lookup(p) PROVE seen'[q] = pass' \/ q \in behind'
    <2>1. UNCHANGED <<pass, behind, seen, kind>> BY <1>4 DEF S!Lookup
    <2>2. step[p] = "lookup" /\ kind[p] = "reset" BY <1>4, Goes DEF S!Lookup, KindOrder
    <2>3. step[q] = "act" BY <1>4, <2>1, <2>2, Goes DEF S!Lookup
    <2> QED BY <1>0, <2>1, <2>3
  <1>5. ASSUME NEW p \in Requests, S!Again(p) PROVE seen'[q] = pass' \/ q \in behind'
    <2>1. UNCHANGED <<pass, behind, kind>> BY <1>5 DEF S!Again
    <2>2. CASE q = p
      <3>1. seen'[q] = pass BY <1>5, <2>2, SessionParts DEF S!Again
      <3> QED BY <2>1, <3>1
    <2>3. CASE q # p
      <3>1. step[q] = "act" BY <1>5, <2>3, Goes DEF S!Again
      <3>2. seen'[q] = seen[q] BY <1>5, <2>3, SessionParts DEF S!Again
      <3> QED BY <1>0, <2>1, <3>1, <3>2
    <2> QED BY <2>2, <2>3
  <1>6. ASSUME NEW p \in Requests, S!Change(p) \/ S!Reset(p) PROVE seen'[q] = pass' \/ q \in behind'
    <2>1. UNCHANGED <<seen, kind>> /\ (S!SetPassword(p) \/ UNCHANGED <<pass, behind>>)
      BY <1>6 DEF S!Change, S!Reset
    <2>2. step[q] = "act" BY <1>6, Goes DEF S!Change, S!Reset
    <2>3. S!SetPassword(p) => q \in behind' BY <2>2 DEF S!SetPassword, S!Waiting
    <2> QED BY <1>0, <2>1, <2>2, <2>3
  <1> QED BY <1>1, <1>2, <1>3, <1>4, <1>5, <1>6, SessionStep

\* ClearsOwn is kept.
LEMMA ClearsOwnKept == S!TypeOK /\ KindOrder /\ ClearsOwn /\ S!Next => ClearsOwn'
  <1> SUFFICES ASSUME S!TypeOK, KindOrder, ClearsOwn, S!Next, token' # 0, NEW q \in Requests,
                      step'[q] \in {"clear", "touch"} \/ (step'[q] = "act" /\ kind'[q] = "logout")
               PROVE  brought'[q] = token' \/ q \in under'
    BY DEF ClearsOwn
  <1>0. token # 0 /\ (step[q] \in {"clear", "touch"} \/ (step[q] = "act" /\ kind[q] = "logout"))
        => brought[q] = token \/ q \in under
    BY DEF ClearsOwn
  <1> USE DEF S!row, S!request, S!Same, S!History
  <1>1. CASE S!Age \/ S!DeleteUser BY <1>0, <1>1 DEF S!Age, S!DeleteUser
  <1>2. CASE \E p \in Requests, k \in Kinds, t \in Numbers, g \in Numbers : S!Send(p, k, t, g)
    <2>1. PICK p \in Requests, k \in Kinds, t \in Numbers, g \in Numbers : S!Send(p, k, t, g) BY <1>2
    <2>2. UNCHANGED <<token, under>> BY <2>1 DEF S!Send
    <2>3. q # p BY <2>1, Sends DEF Kinds
    <2> QED BY <1>0, <2>1, <2>2, <2>3, Sends
  <1>3. ASSUME NEW p \in Requests,
               S!Compare(p) \/ S!Touch(p) \/ S!Change(p) \/ S!Forgot(p) \/ S!Reset(p)
        PROVE  brought'[q] = token' \/ q \in under'
    <2>1. UNCHANGED <<token, under, brought, kind>>
      BY <1>3 DEF S!Compare, S!Touch, S!Change, S!Forgot, S!Reset
    <2>2. step[q] = step'[q]
      BY <1>3, Goes DEF S!Compare, S!Touch, S!Change, S!Forgot, S!Reset
    <2> QED BY <1>0, <2>1, <2>2
  <1>4. ASSUME NEW p \in Requests, S!Find(p) \/ S!Again(p) PROVE brought'[q] = token' \/ q \in under'
    <2>1. UNCHANGED <<token, under, brought, kind>> BY <1>4 DEF S!Find, S!Again
    <2>2. q # p => step[q] = step'[q] BY <1>4, Goes DEF S!Find, S!Again
    <2>3. q = p => brought[q] = token BY <1>4, Goes DEF S!Find, S!Again, S!Known
    <2> QED BY <1>0, <2>1, <2>2, <2>3
  <1>5. ASSUME NEW p \in Requests, S!Lookup(p) PROVE brought'[q] = token' \/ q \in under'
    <2>1. UNCHANGED <<token, under, brought, kind>> BY <1>5 DEF S!Lookup
    <2>2. step[p] = "lookup" /\ kind[p] = "reset" BY <1>5, Goes DEF S!Lookup, KindOrder
    <2>3. step[q] = step'[q] BY <1>5, <2>1, <2>2, Goes DEF S!Lookup
    <2> QED BY <1>0, <2>1, <2>3
  <1>6. ASSUME NEW p \in Requests, S!Begin(p) PROVE brought'[q] = token' \/ q \in under'
    <2>1. UNCHANGED <<brought, kind>> BY <1>6 DEF S!Begin
    <2>2. step[q] = step'[q] BY <1>6, Goes DEF S!Begin
    <2>3. CASE there
      <3>1. under' = {r \in Requests : step[r] \in {"find", "clear", "touch", "again", "act"}}
        BY <1>6, <2>3 DEF S!Begin, S!Waiting
      <3> QED BY <2>2, <3>1
    <2>4. CASE ~there
      <3>1. UNCHANGED <<token, under>> BY <1>6, <2>4 DEF S!Begin
      <3> QED BY <1>0, <2>1, <2>2, <3>1
    <2> QED BY <2>3, <2>4
  <1>7. ASSUME NEW p \in Requests, S!Clear(p) PROVE FALSE BY <1>7 DEF S!Clear
  <1> QED BY <1>1, <1>2, <1>3, <1>4, <1>5, <1>6, <1>7, SessionStep

\* EarlyKeeps is kept.
LEMMA EarlyKeepsKept == S!TypeOK /\ EarlyKeeps /\ S!Next => EarlyKeeps'
  <1> SUFFICES ASSUME S!TypeOK, EarlyKeeps, S!Next, NEW q \in Requests, old', step'[q] = "touch"
               PROVE  q \in early'
    BY DEF EarlyKeeps
  <1>0. old /\ step[q] = "touch" => q \in early BY DEF EarlyKeeps
  <1> USE DEF S!row, S!request, S!Same, S!History
  <1>1. CASE S!Age BY <1>0, <1>1 DEF S!Age, S!Waiting
  <1>2. CASE S!DeleteUser BY <1>0, <1>2 DEF S!DeleteUser
  <1>3. CASE \E p \in Requests, k \in Kinds, t \in Numbers, g \in Numbers : S!Send(p, k, t, g)
    <2>1. PICK p \in Requests, k \in Kinds, t \in Numbers, g \in Numbers : S!Send(p, k, t, g) BY <1>3
    <2>2. UNCHANGED <<old, early>> BY <2>1 DEF S!Send
    <2>3. q # p BY <2>1, Sends DEF Kinds
    <2> QED BY <1>0, <2>1, <2>2, <2>3, Sends
  <1>4. ASSUME NEW p \in Requests, S!Find(p) PROVE q \in early'
    <2>1. UNCHANGED <<old, early>> BY <1>4 DEF S!Find
    <2>2. step[q] = "touch" BY <1>4, <2>1, Goes DEF S!Find
    <2> QED BY <1>0, <2>1, <2>2
  <1>5. ASSUME NEW p \in Requests,
               \/ S!Compare(p) \/ S!Begin(p) \/ S!Touch(p) \/ S!Again(p) \/ S!Clear(p)
               \/ S!Change(p) \/ S!Forgot(p) \/ S!Lookup(p) \/ S!Reset(p)
        PROVE  q \in early'
    <2>1. early' = early /\ (old' = old \/ old' = FALSE)
      BY <1>5 DEF S!Compare, S!Begin, S!Touch, S!Again, S!Clear, S!Change, S!Forgot, S!Lookup, S!Reset
    <2>2. \E from \in Steps, to \in {"begin", "over", "again", "act"} : S!Go(p, from, to)
      BY <1>5
      DEF S!Compare, S!Begin, S!Touch, S!Again, S!Clear, S!Change, S!Forgot, S!Lookup, S!Reset, Steps
    <2>3. step[q] = "touch" BY <2>2, Goes
    <2> QED BY <1>0, <2>1, <2>3
  <1> QED BY <1>1, <1>2, <1>3, <1>4, <1>5, SessionStep

-----------------------------------------------------------------------------
(* The theorems                                                             *)

\* A step of the composition is one of Environments or of Sessions, or none.
LEMMA StepIsTheirs ==
  [MCNext]_<<part, evars, svars>> => [Next]_evars /\ [S!Next]_(S!svars)
  BY DEF MCNext, svars, S!svars, S!row, S!request

\* The composition behaves as Environments.
THEOREM IsEnvironments == MCSpec => Spec
  <1>1. MCInit => Init BY DEF MCInit
  <1> QED BY <1>1, StepIsTheirs, PTL DEF MCSpec, Spec

\* SessionsInv is kept by a step that leaves the sessions alone.
LEMMA SessionsStutter == SessionsInv /\ UNCHANGED S!svars => SessionsInv'
  <1> SUFFICES ASSUME SessionsInv, UNCHANGED S!svars PROVE SessionsInv'
    OBVIOUS
  <1> USE DEF S!svars, S!row, S!request, SessionsInv
  <1>1. S!TypeOK' BY DEF S!TypeOK
  <1>2. KindOrder' BY DEF KindOrder
  <1>3. ResetTogether' BY DEF ResetTogether
  <1>4. SeenOrBehind' BY DEF SeenOrBehind
  <1>5. ClearsOwn' BY DEF ClearsOwn
  <1>6. EarlyKeeps' BY DEF EarlyKeeps
  <1> QED BY <1>1, <1>2, <1>3, <1>4, <1>5, <1>6

\* SessionsInv holds in every state.
THEOREM SessionsInductive == MCSpec => []SessionsInv
  <1>1. MCInit => SessionsInv
    <2> SUFFICES ASSUME S!Init PROVE SessionsInv
      BY DEF MCInit
    <2>1. S!TypeOK BY SessionsInitTyped
    <2>2. (\A q \in Requests : step[q] = "idle") /\ resetBy = {} /\ together = {} BY DEF S!Init
    <2> QED BY <2>1, <2>2
        DEF SessionsInv, KindOrder, ResetTogether, SeenOrBehind, ClearsOwn, EarlyKeeps
  <1>2. SessionsInv /\ S!Next => SessionsInv'
    BY SessionsNextTyped, KindOrderKept, ResetTogetherKept, SeenOrBehindKept, ClearsOwnKept,
       EarlyKeepsKept
    DEF SessionsInv
  <1>3. SessionsInv /\ [S!Next]_(S!svars) => SessionsInv' BY <1>2, SessionsStutter
  <1> QED BY <1>1, <1>3, StepIsTheirs, PTL DEF MCSpec

\* The types hold in every state, and with them the foreign keys.
THEOREM AccessTyped == MCSpec => []AccessTypeOK
  <1>1. SessionsInv /\ TypeOK => AccessTypeOK BY DEF SessionsInv, AccessTypeOK
  <1> QED BY IsEnvironments, Typed, SessionsInductive, <1>1, PTL

\* A token resets the password twice only by requests that had all found it unused
\* before the first of them set it.
THEOREM ResetsTogether == MCSpec => []ResetOnce
  <1>1. SessionsInv => ResetOnce BY DEF SessionsInv, ResetTogether, ResetOnce, S!ResetOnce
  <1> QED BY SessionsInductive, <1>1, PTL

\* A session is cleared by a request that came with its token, or was under way
\* when it began.
THEOREM ClearedByOwner == MCSpec => ClearedByItsOwn
  <1> DEFINE Cleared == token # 0 /\ token' = 0 =>
               \E q \in Requests : step[q] \in {"clear", "act"} /\ step'[q] = "over"
                                   /\ (brought[q] = token \/ q \in under)
  <1>1. SessionsInv /\ S!Next => Cleared
    <2> SUFFICES ASSUME SessionsInv, S!Next, token # 0, token' = 0
                 PROVE  \E q \in Requests : step[q] \in {"clear", "act"} /\ step'[q] = "over"
                                            /\ (brought[q] = token \/ q \in under)
      OBVIOUS
    <2> USE DEF S!row, S!request, S!Same, S!History
    <2>0. S!TypeOK /\ ClearsOwn BY DEF SessionsInv
    <2>1. CASE S!Age \/ S!DeleteUser BY <2>1 DEF S!Age, S!DeleteUser
    <2>2. CASE \E p \in Requests, k \in Kinds, t \in Numbers, g \in Numbers : S!Send(p, k, t, g)
      BY <2>2 DEF S!Send
    <2>3. ASSUME NEW p \in Requests, S!Begin(p) PROVE FALSE
      BY <2>0, <2>3, NextNumber, SessionParts DEF S!Begin
    <2>4. ASSUME NEW p \in Requests, S!Clear(p)
          PROVE  \E q \in Requests : step[q] \in {"clear", "act"} /\ step'[q] = "over"
                                     /\ (brought[q] = token \/ q \in under)
      <3>1. step'[p] = "over" /\ (step[p] = "clear" \/ (step[p] = "act" /\ kind[p] = "logout"))
        BY <2>0, <2>4, Goes DEF S!Clear
      <3> QED BY <2>0, <3>1 DEF ClearsOwn
    <2>5. ASSUME NEW p \in Requests,
                 \/ S!Compare(p) \/ S!Find(p) \/ S!Touch(p) \/ S!Again(p) \/ S!Change(p)
                 \/ S!Forgot(p) \/ S!Lookup(p) \/ S!Reset(p)
          PROVE  FALSE
      BY <2>5 DEF S!Compare, S!Find, S!Touch, S!Again, S!Change, S!Forgot, S!Lookup, S!Reset
    <2> QED BY <2>1, <2>2, <2>3, <2>4, <2>5, SessionStep
  <1>2. SessionsInv /\ [S!Next]_(S!svars) => [Cleared]_(S!svars) BY <1>1
  <1>3. SessionsInv /\ [MCNext]_<<part, evars, svars>> => [Cleared]_(S!svars)
    BY <1>2, StepIsTheirs
  <1> QED BY SessionsInductive, <1>3, PTL DEF MCSpec, ClearedByItsOwn, S!ClearedByItsOwn

\* A request with a session changes the password only if it was sent the one it
\* replaces, or had read the row before that one was set.
THEOREM ChangeKnows == MCSpec => ChangeKnowsPassword
  <1> DEFINE Knows == \A q \in Requests :
               kind[q] = "change" /\ step[q] = "act" /\ step'[q] = "over" /\ pass' # pass =>
                 given[q] = pass \/ q \in behind
  <1>1. SessionsInv /\ S!Next => Knows
    <2> SUFFICES ASSUME SessionsInv, S!Next, NEW q \in Requests,
                        kind[q] = "change", step[q] = "act", step'[q] = "over", pass' # pass
                 PROVE  given[q] = pass \/ q \in behind
      OBVIOUS
    <2> USE DEF S!row, S!request, S!Same, S!History
    <2>0. S!TypeOK /\ SeenOrBehind BY DEF SessionsInv
    <2>1. CASE S!Age \/ S!DeleteUser BY <2>1 DEF S!Age, S!DeleteUser
    <2>2. CASE \E p \in Requests, k \in Kinds, t \in Numbers, g \in Numbers : S!Send(p, k, t, g)
      BY <2>2 DEF S!Send
    <2>3. ASSUME NEW p \in Requests,
                 \/ S!Compare(p) \/ S!Begin(p) \/ S!Find(p) \/ S!Touch(p) \/ S!Again(p)
                 \/ S!Clear(p) \/ S!Forgot(p) \/ S!Lookup(p)
          PROVE  FALSE
      BY <2>3 DEF S!Compare, S!Begin, S!Find, S!Touch, S!Again, S!Clear, S!Forgot, S!Lookup
    <2>4. ASSUME NEW p \in Requests, S!Reset(p) PROVE FALSE
      <3>1. kind[p] = "reset" BY <2>4 DEF S!Reset
      <3>2. q # p BY <3>1
      <3> QED BY <2>0, <2>4, <3>2, Goes DEF S!Reset
    <2>5. ASSUME NEW p \in Requests, S!Change(p) PROVE given[q] = pass \/ q \in behind
      <3>1. q = p BY <2>0, <2>5, Goes DEF S!Change
      <3>2. given[q] = seen[q] BY <2>5, <3>1 DEF S!Change
      <3> QED BY <2>0, <3>2 DEF SeenOrBehind
    <2> QED BY <2>1, <2>2, <2>3, <2>4, <2>5, SessionStep
  <1>2. SessionsInv /\ [S!Next]_(S!svars) => [Knows]_(S!svars) BY <1>1
  <1>3. SessionsInv /\ [MCNext]_<<part, evars, svars>> => [Knows]_(S!svars)
    BY <1>2, StepIsTheirs
  <1> QED BY SessionsInductive, <1>3, PTL DEF MCSpec, ChangeKnowsPassword, S!ChangeKnowsPassword

\* An expired session goes on, without a login, only by a request that had found it
\* in time before it expired, and that has its token or was under way when it began.
THEOREM RevivedByOwner == MCSpec => RevivedByItsOwn
  <1> DEFINE Revived == old /\ ~old' /\ token # 0 /\ token' = token =>
               \E q \in early : step[q] = "touch" /\ step'[q] = "again"
                               /\ (brought[q] = token \/ q \in under)
  <1>1. SessionsInv /\ S!Next => Revived
    <2> SUFFICES ASSUME SessionsInv, S!Next, old, ~old', token # 0, token' = token
                 PROVE  \E q \in early : step[q] = "touch" /\ step'[q] = "again"
                                         /\ (brought[q] = token \/ q \in under)
      OBVIOUS
    <2> USE DEF S!row, S!request, S!Same, S!History
    <2>0. S!TypeOK /\ ClearsOwn /\ EarlyKeeps BY DEF SessionsInv
    <2>1. CASE S!Age \/ S!DeleteUser BY <2>1 DEF S!Age, S!DeleteUser
    <2>2. CASE \E p \in Requests, k \in Kinds, t \in Numbers, g \in Numbers : S!Send(p, k, t, g)
      BY <2>2 DEF S!Send
    <2>3. ASSUME NEW p \in Requests, S!Begin(p) PROVE FALSE
      <3>1. token' = tokens + 1 BY <2>3 DEF S!Begin
      <3>2. token \in Nat /\ tokens \in Nat /\ token <= tokens
        BY <2>0, SessionParts, AccessAssumption DEF Numbers
      <3> QED BY <3>1, <3>2
    <2>4. ASSUME NEW p \in Requests, S!Touch(p)
          PROVE  \E q \in early : step[q] = "touch" /\ step'[q] = "again"
                                  /\ (brought[q] = token \/ q \in under)
      <3>1. step[p] = "touch" /\ step'[p] = "again" BY <2>0, <2>4, Goes DEF S!Touch
      <3> QED BY <2>0, <3>1 DEF ClearsOwn, EarlyKeeps
    <2>5. ASSUME NEW p \in Requests,
                 \/ S!Compare(p) \/ S!Find(p) \/ S!Again(p) \/ S!Clear(p) \/ S!Change(p)
                 \/ S!Forgot(p) \/ S!Lookup(p) \/ S!Reset(p)
          PROVE  FALSE
      BY <2>5 DEF S!Compare, S!Find, S!Again, S!Clear, S!Change, S!Forgot, S!Lookup, S!Reset
    <2> QED BY <2>1, <2>2, <2>3, <2>4, <2>5, SessionStep
  <1>2. SessionsInv /\ [S!Next]_(S!svars) => [Revived]_(S!svars) BY <1>1
  <1>3. SessionsInv /\ [MCNext]_<<part, evars, svars>> => [Revived]_(S!svars)
    BY <1>2, StepIsTheirs
  <1> QED BY SessionsInductive, <1>3, PTL DEF MCSpec, RevivedByItsOwn, S!RevivedByItsOwn
================================================================================
