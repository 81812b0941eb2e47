------------------------------- MODULE Sessions -------------------------------
(***************************************************************************)
(* The login of one user: the row of the user keeps the token of the one    *)
(* session there is, the password and the last token to reset it. Requests  *)
(* read the row, await, and write it by the user's id: what they write is   *)
(* not bound to what they have read. Passwords and tokens are numbered in   *)
(* the order they come to be.                                               *)
(***************************************************************************)
EXTENDS Naturals, FiniteSets

CONSTANTS Requests,  \* the requests that come, each at most once
          MaxTokens  \* how many sessions, resets and passwords there may be

VARIABLES
  there,    \* is the row of the user there
  token,    \* User.sessionToken, 0 for NULL
  old,      \* is lastTokenCheck more than sessionDuration ago
  pass,     \* User.passwordHash
  reset,    \* User.resetPassToken, 0 for NULL
  used,     \* is User.resetUsedAt set
  stale,    \* is resetCreatedAt more than an hour ago
  tokens, passes, \* how many there have been
  kind, at, \* what a request asks for, and the await it is at
  sent,     \* the token it comes with: of its session, or to reset the password
  given,    \* the old password it comes with
  seen,     \* the password in the row it has read
  under,    \* history: the requests under way when the session began
  behind,   \* history: those that had read the row when the password was set
  early,    \* history: those that had found the session in time when it expired
  resetBy,  \* history: who has used the token to reset
  together  \* history: who had found it unused when it was first used

row     == <<there, token, old, pass, reset, used, stale, tokens, passes>>
request == <<kind, at, sent, given, seen>>
svars   == <<row, request, under, behind, early, resetBy, together>>

Numbers == 0..MaxTokens
Kinds   == {"login", "look", "logout", "change", "forgot", "reset"}

TypeOK ==
  /\ {there, old, used, stale} \subseteq BOOLEAN
  /\ {token, pass, reset, tokens, passes} \subseteq Numbers
  /\ token <= tokens /\ reset <= tokens /\ pass <= passes
  /\ kind \in [Requests -> Kinds]
  /\ at \in [Requests -> {"idle", "find", "clear", "touch", "again", "compare", "begin",
                          "lookup", "act", "over"}]
  /\ sent \in [Requests -> Numbers] /\ given \in [Requests -> Numbers] /\ seen \in [Requests -> Numbers]
  /\ {under, behind, early, resetBy, together} \subseteq SUBSET Requests

Init ==
  /\ there = TRUE /\ token = 0 /\ old = FALSE /\ pass = 0
  /\ reset = 0 /\ used = FALSE /\ stale = FALSE /\ tokens = 0 /\ passes = 0
  /\ kind = [q \in Requests |-> "look"] /\ at = [q \in Requests |-> "idle"]
  /\ sent = [q \in Requests |-> 0] /\ given = [q \in Requests |-> 0] /\ seen = [q \in Requests |-> 0]
  /\ under = {} /\ behind = {} /\ early = {} /\ resetBy = {} /\ together = {}

Go(q, from, to) == at[q] = from /\ at' = [at EXCEPT ![q] = to]
Same            == UNCHANGED <<kind, sent, given>>
History         == UNCHANGED <<under, behind, early, resetBy, together>>
Waiting(steps)  == {q \in Requests : at[q] \in steps}

\* What the pages send: of the session's token, the one in the address of the
\* page and the password typed, what they have, maybe from long ago. Those that
\* change a password look for the user, or the token, before they send it; those
\* for login and a forgotten password look at nothing.
LoginPage(k, t, p)  == k = "login" /\ t = 0
ForgotPage(k, t, p) == k = "forgot" /\ t = 0 /\ p = 0
ResetPage(k, t, p)  == k = "reset" /\ t # 0 /\ p = 0
ChangePage(k, t, p) == k = "change" \/ (k = "look" /\ p = 0)
AccountPage(k, t, p) == k \in {"look", "logout"} /\ p = 0

Send(q, k, t, p) ==
  /\ at[q] = "idle" /\ t <= tokens /\ p <= passes
  /\ \/ LoginPage(k, t, p) \/ ForgotPage(k, t, p) \/ ResetPage(k, t, p)
     \/ ChangePage(k, t, p) \/ AccountPage(k, t, p)
  /\ kind' = [kind EXCEPT ![q] = k]
  /\ sent' = [sent EXCEPT ![q] = t]
  /\ given' = [given EXCEPT ![q] = p]
  /\ at' = [at EXCEPT ![q] = CASE k = "login" -> "compare" [] k = "forgot" -> "act"
                               [] k = "reset" -> "lookup" [] OTHER -> "find"]
  /\ UNCHANGED <<row, seen>> /\ History

\* POST /login: getUser with the hash, and a session for the right password.
Compare(q) ==
  /\ Go(q, "compare", IF there /\ given[q] = pass THEN "begin" ELSE "over")
  /\ UNCHANGED <<row, seen>> /\ Same /\ History

Begin(q) ==
  /\ Go(q, "begin", "over") /\ tokens < MaxTokens
  /\ IF there THEN /\ tokens' = tokens + 1 /\ token' = tokens + 1 /\ old' = FALSE
                   /\ under' = Waiting({"find", "clear", "touch", "again", "act"})
     ELSE UNCHANGED <<tokens, token, old, under>>
  /\ UNCHANGED <<there, pass, reset, used, stale, passes, seen, behind, early, resetBy, together>> /\ Same

\* sessionMiddleware: the row with the token, an update of the row by the
\* user's id, and the row with the token once more.
Known(q) == there /\ sent[q] # 0 /\ token = sent[q]

\* Mutant: the expiry is looked at before the token.
FindExpired(q) ==
  /\ Go(q, "find", IF old THEN "clear" ELSE IF Known(q) THEN "touch" ELSE "over")
  /\ UNCHANGED <<row, seen>> /\ Same /\ History

\* Mutant: the expiry is looked at after the update.
FindUnexpired(q) ==
  /\ Go(q, "find", IF Known(q) THEN "touch" ELSE "over")
  /\ UNCHANGED <<row, seen>> /\ Same /\ History

Find(q) ==
  /\ Go(q, "find", IF ~Known(q) THEN "over" ELSE IF old THEN "clear" ELSE "touch")
  /\ UNCHANGED <<row, seen>> /\ Same /\ History

Touch(q) ==
  /\ Go(q, "touch", "again") /\ old' = FALSE
  /\ UNCHANGED <<there, token, pass, reset, used, stale, tokens, passes, seen>> /\ Same /\ History

Again(q) ==
  /\ Go(q, "again", IF Known(q) /\ kind[q] # "look" THEN "act" ELSE "over")
  /\ seen' = [seen EXCEPT ![q] = pass]
  /\ UNCHANGED row /\ Same /\ History

\* clearSession, for an expired session and for PUT /logout.
Clear(q) ==
  /\ \/ Go(q, "clear", "over")
     \/ kind[q] = "logout" /\ Go(q, "act", "over")
  /\ token' = 0 /\ old' = FALSE
  /\ UNCHANGED <<there, pass, reset, used, stale, tokens, passes, seen>> /\ Same /\ History

\* PUT /changePassword: the old password is compared with the row read by the
\* middleware, then the new one is set.
SetPassword(q) ==
  /\ passes < MaxTokens /\ passes' = passes + 1
  /\ pass' = IF there THEN passes + 1 ELSE pass
  /\ behind' = Waiting({"act"})

\* Mutant: a session is enough.
ChangeAtOnce(q) ==
  /\ kind[q] = "change" /\ Go(q, "act", "over") /\ SetPassword(q)
  /\ UNCHANGED <<there, token, old, reset, used, stale, tokens, seen, under, early, resetBy, together>>
  /\ Same

Change(q) ==
  /\ kind[q] = "change" /\ Go(q, "act", "over")
  /\ IF given[q] = seen[q] THEN SetPassword(q) ELSE UNCHANGED <<pass, passes, behind>>
  /\ UNCHANGED <<there, token, old, reset, used, stale, tokens, seen, under, early, resetBy, together>>
  /\ Same

\* POST /forgotPassword. Without the user the handler throws after responding.
Forgot(q) ==
  /\ kind[q] = "forgot" /\ Go(q, "act", "over") /\ tokens < MaxTokens
  /\ IF there THEN /\ tokens' = tokens + 1 /\ reset' = tokens + 1
                   /\ used' = FALSE /\ stale' = FALSE
                   /\ resetBy' = {} /\ together' = {}
     ELSE UNCHANGED <<tokens, reset, used, stale, resetBy, together>>
  /\ UNCHANGED <<there, token, old, pass, passes, seen, under, behind, early>> /\ Same

\* PUT /resetPassword: the token must be there, unused and fresh; then the
\* password is set by email, and the token of the row is used.
Lookup(q) ==
  /\ Go(q, "lookup", IF there /\ sent[q] # 0 /\ reset = sent[q] /\ ~used /\ ~stale THEN "act" ELSE "over")
  /\ UNCHANGED <<row, seen>> /\ Same /\ History

\* Mutant: the token is not marked as used.
ResetUnmarked(q) ==
  /\ kind[q] = "reset" /\ Go(q, "act", "over") /\ SetPassword(q)
  /\ resetBy' = IF reset = sent[q] THEN resetBy \cup {q} ELSE resetBy
  /\ together' = IF reset = sent[q] /\ resetBy = {}
                 THEN {p \in Waiting({"act"}) : kind[p] = "reset" /\ sent[p] = reset} ELSE together
  /\ UNCHANGED <<there, token, old, reset, used, stale, tokens, seen, under, early>> /\ Same

Reset(q) ==
  /\ kind[q] = "reset" /\ Go(q, "act", "over") /\ SetPassword(q)
  /\ used' = (used \/ there)
  /\ resetBy' = IF reset = sent[q] THEN resetBy \cup {q} ELSE resetBy
  /\ together' = IF reset = sent[q] /\ resetBy = {}
                 THEN {p \in Waiting({"act"}) : kind[p] = "reset" /\ sent[p] = reset} ELSE together
  /\ UNCHANGED <<there, token, old, reset, stale, tokens, seen, under, early>> /\ Same

\* Time: a session not used for sessionDuration, a token to reset of an hour ago.
Age ==
  /\ \/ /\ token # 0 /\ ~old /\ old' = TRUE /\ UNCHANGED stale
        /\ early' = Waiting({"touch"})
     \/ reset # 0 /\ ~stale /\ stale' = TRUE /\ UNCHANGED <<old, early>>
  /\ UNCHANGED <<there, token, pass, reset, used, tokens, passes, request>>
  /\ UNCHANGED <<under, behind, resetBy, together>>

\* DELETE /users/:id.
DeleteUser ==
  /\ there /\ there' = FALSE
  /\ UNCHANGED <<token, old, pass, reset, used, stale, tokens, passes, request>> /\ History

Next ==
  \/ Age \/ DeleteUser
  \/ \E q \in Requests :
       \/ \E k \in Kinds, t, p \in Numbers : Send(q, k, t, p)
       \/ Compare(q) \/ Begin(q)
       \/ Find(q) \/ Touch(q) \/ Again(q) \/ Clear(q) \/ Change(q)
       \/ Forgot(q) \/ Lookup(q) \/ Reset(q)

Spec == Init /\ [][Next]_svars

\* A session is cleared by a request with its own token, or by one that was
\* already under way when the session began: that one found an earlier token,
\* and clears by the user's id.
ClearedByItsOwn ==
  [][token # 0 /\ token' = 0 =>
       \E q \in Requests : at[q] \in {"clear", "act"} /\ at'[q] = "over"
                           /\ (sent[q] = token \/ q \in under)]_svars

\* A request with a session changes the password only if it was sent the one it
\* replaces, or had read the row before that one was set.
ChangeKnowsPassword ==
  [][\A q \in Requests :
       kind[q] = "change" /\ at[q] = "act" /\ at'[q] = "over" /\ pass' # pass =>
         given[q] = pass \/ q \in behind]_svars

\* An expired session goes on, without a login, only by a request that had found
\* it in time before it expired, and that has its token or was already under way
\* when it began: the update that keeps a session comes an await after the look
\* at it, and is by the user's id.
RevivedByItsOwn ==
  [][old /\ ~old' /\ token # 0 /\ token' = token =>
       \E q \in early : at[q] = "touch" /\ at'[q] = "again" /\ (sent[q] = token \/ q \in under)]_svars

\* A token resets the password twice only by requests that had all found it
\* unused before the first of them set it.
ResetOnce == Cardinality(resetBy) > 1 => resetBy \subseteq together

===============================================================================
