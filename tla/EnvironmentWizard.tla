--------------------------- MODULE EnvironmentWizard ---------------------------
(***************************************************************************)
(* The wizard that creates an environment: a name, AWS keys, a database and *)
(* a bucket, each on a page of its own and each validated by the service    *)
(* before the next page comes; or an invite code instead. What is validated *)
(* is what was there when the request went out; what is saved is the form   *)
(* at the last click.                                                       *)
(***************************************************************************)
EXTENDS Naturals, FiniteSets

CONSTANTS Names, Keys, Databases,
          MaxEdits, \* changes of a value that was already filled in, and cancels
          MaxOut,   \* requests that are out at once
          MaxSaved  \* environments saved

Empty == "empty" \* '' in the form

VARIABLES
  page, disabled,
  newEnv, newKeys,  \* the radio buttons: a new environment, new keys
  envName, keys, db, bucket, \* in the form
  keysId,      \* the stored keys that were chosen last, whatever was typed since
  bucketList,  \* are there buckets to choose from
  out,         \* the requests that are out, with what they ask for
  saved,       \* what the service was asked to create
  edits,
  valid,       \* history: the keys and databases found valid
  under,       \* history: the values that came into the form over a request
  shadowed     \* history: the stored keys that were chosen and then typed over

choices == <<newEnv, newKeys>>
wform   == <<page, disabled, choices, envName, keys, keysId, db, bucket, bucketList, shadowed>>
wvars   == <<wform, out, saved, edits, valid, under>>

Value    == Names \cup Keys \cup Databases \cup {Empty}
Requests == {"keys list", "name", "key name", "credentials", "buckets", "database", "invite", "environment"}

TypeOK ==
  /\ page \in 1..7 /\ {disabled, newEnv, newKeys, bucket, bucketList} \subseteq BOOLEAN
  /\ envName \in Names \cup {Empty} /\ db \in Databases \cup {Empty}
  /\ {keys, keysId, shadowed} \subseteq Keys \cup {Empty}
  /\ out \subseteq Requests \X Value
  /\ saved \subseteq [name : Names \cup {Empty}, keys : Keys \cup {Empty}, db : Databases \cup {Empty},
                      over : SUBSET Value, shadowed : Keys \cup {Empty}]
  /\ edits \in 0..MaxEdits /\ {valid, under} \subseteq SUBSET Value

Init ==
  /\ page = 1 /\ disabled = FALSE /\ newEnv = TRUE /\ newKeys = TRUE
  /\ envName = Empty /\ keys = Empty /\ db = Empty /\ bucket = FALSE /\ bucketList = FALSE
  /\ keysId = Empty /\ shadowed = Empty
  /\ out = {} /\ saved = {} /\ edits = 0 /\ valid = {} /\ under = {}

Edit(old)    == edits' = edits + (IF old = Empty THEN 0 ELSE 1) /\ edits' <= MaxEdits
Under(new)   == under' = IF out = {} THEN under \ {new} ELSE under \cup {new}
Progress(to) == page' = to /\ disabled' = TRUE
Filled       == UNCHANGED <<envName, keys, keysId, db, bucket, shadowed>>

\* The inputs of each page; the modal shows one page, and the next button on all but the last.
Inputs   == <<{"option"}, {"envName"}, {"keys"}, {"db"}, {"bucket"}, {"inviteCode"}, {}>>
Shows(i) == i \in Inputs[page]
Button   == page # 7 /\ ~disabled

\* handleNameChange.
TypeName(n) ==
  /\ Shows("envName") /\ n # envName /\ Edit(envName) /\ envName' = n /\ disabled' = FALSE
  /\ UNCHANGED <<page, choices, keys, keysId, db, bucket, bucketList, out, saved, valid, under, shadowed>>

\* accessKeyChange and secretKeyChange: the inputs of new keys. The keys that
\* were chosen before are no longer in the form, but their id stays.
TypeKeys(k) ==
  /\ Shows("keys") /\ newKeys /\ k # keys /\ Edit(keys)
  /\ keys' = k /\ disabled' = FALSE /\ Under(k) /\ shadowed' = keysId
  /\ UNCHANGED <<page, choices, envName, keysId, db, bucket, bucketList, out, saved, valid>>

\* keyChange: one of the stored keys.
ChooseKeys(k) ==
  /\ Shows("keys") /\ ~newKeys /\ Edit(keys)
  /\ keys' = k /\ keysId' = k /\ disabled' = FALSE /\ Under(k) /\ shadowed' = Empty
  /\ UNCHANGED <<page, choices, envName, db, bucket, bucketList, out, saved, valid>>

\* updateKeyType: the radio button alone; what was typed and chosen stays.
ToggleKeys ==
  /\ Shows("keys") /\ newKeys' = ~newKeys /\ disabled' = FALSE
  /\ UNCHANGED <<page, newEnv, envName, keys, keysId, db, bucket, bucketList, shadowed>>
  /\ UNCHANGED <<out, saved, edits, valid, under>>

\* handleDBName and handlePasswordChange: the database with its password.
EnterDatabase(d) ==
  /\ Shows("db") /\ d # db /\ Edit(db) /\ db' = d /\ disabled' = (d = Empty) /\ Under(d)
  /\ UNCHANGED <<page, choices, envName, keys, keysId, bucket, bucketList, out, saved, valid, shadowed>>

\* handleS3Ref, handleInviteCode, handleOptionChange.
Choose ==
  /\ \/ Shows("bucket") /\ bucketList /\ bucket' = ~bucket /\ disabled' = bucket /\ UNCHANGED newEnv
     \/ Shows("inviteCode") /\ disabled /\ disabled' = FALSE /\ UNCHANGED <<bucket, newEnv>>
     \/ Shows("option") /\ newEnv' = ~newEnv /\ UNCHANGED <<bucket, disabled>>
  /\ UNCHANGED <<page, newKeys, envName, keys, keysId, db, bucketList, shadowed>>
  /\ UNCHANGED <<out, saved, edits, valid, under>>

\* cancelModal.
Reset ==
  /\ page' = 1 /\ disabled' = FALSE /\ newEnv' = TRUE /\ newKeys' = TRUE
  /\ envName' = Empty /\ keys' = Empty /\ db' = Empty /\ bucket' = FALSE /\ bucketList' = FALSE
  /\ keysId' = Empty /\ shadowed' = Empty

Cancel ==
  /\ Reset /\ edits < MaxEdits /\ edits' = edits + 1
  /\ UNCHANGED <<out, saved, valid, under>>

\* handleEvent: the request of the page. Old keys need no name.
Request ==
  CASE page = 1 -> <<"keys list", Empty>>
    [] page = 2 -> <<"name", envName>>
    [] page = 3 -> IF newKeys THEN <<"key name", keys>> ELSE <<"credentials", keys>>
    [] page = 4 -> <<"database", db>>
    [] page = 6 -> <<"invite", Empty>>

Click ==
  /\ Button /\ page # 5 /\ (page = 2 => envName # Empty)
  /\ Cardinality(out) < MaxOut /\ out' = out \cup {Request}
  /\ UNCHANGED <<wform, saved, edits, valid, under>>

\* The keys of the environment: those of keysId if there is one, whatever the
\* access key says. createEnvironment takes the id out of the state if the keys
\* are to be new.
KeptId == IF newKeys THEN Empty ELSE keysId
Stored == IF KeptId = Empty THEN keys ELSE KeptId

\* createEnvironment: the state of the wizard, whole.
Save ==
  /\ Button /\ page = 5
  /\ saved' = saved \cup {[name |-> envName, keys |-> Stored, db |-> db, over |-> under \cap {Stored, db},
                           shadowed |-> IF newKeys THEN Empty ELSE shadowed]}
  /\ Cardinality(saved) < MaxSaved
  /\ out' = out \cup {<<"environment", Empty>>}
  /\ keysId' = KeptId /\ shadowed' = IF newKeys THEN Empty ELSE shadowed
  /\ UNCHANGED <<page, disabled, choices, envName, keys, db, bucket, bucketList, edits, valid, under>>

\* A request that was sent twice is out once: its second answer is left out.
Answer(q, next) == q \in out /\ out' = (out \ {q}) \cup next

\* Whatever the answer is, the wizard closes itself.
Saved(q) ==
  /\ q[1] = "environment" /\ Answer(q, {}) /\ Reset
  /\ UNCHANGED <<saved, edits, valid, under>>

\* getAWSKeys; its failure is not looked at.
KeysListed(q) ==
  /\ q[1] = "keys list" /\ Answer(q, {})
  /\ Progress(IF newEnv THEN 2 ELSE 6) /\ Filled
  /\ UNCHANGED <<choices, bucketList, saved, edits, valid, under>>

\* validateName: a name is free if no environment has it.
NameFree(q) ==
  /\ q[1] = "name" /\ (\A s \in saved : s.name # q[2]) /\ Answer(q, {}) /\ Progress(3) /\ Filled
  /\ UNCHANGED <<choices, bucketList, saved, edits, valid, under>>

\* Mutant: with the name of the keys free, they are taken for valid.
KeysTrusted(q) ==
  /\ q[1] = "key name" /\ Answer(q, {<<"buckets", keys>>}) /\ Progress(4) /\ Filled
  /\ UNCHANGED <<choices, bucketList, saved, edits, valid, under>>

\* validateKeyName, and the credentials that are there by then.
KeyNameFree(q) ==
  /\ q[1] = "key name" /\ Answer(q, {<<"credentials", keys>>})
  /\ UNCHANGED <<wform, saved, edits, valid, under>>

\* validateIAMCreds, and the buckets of the same keys.
CredentialsValid(q) ==
  /\ q[1] = "credentials" /\ q[2] # Empty /\ Answer(q, {<<"buckets", q[2]>>})
  /\ Progress(4) /\ Filled /\ valid' = valid \cup {q[2]}
  /\ UNCHANGED <<choices, bucketList, saved, edits, under>>

BucketsListed(q) ==
  /\ q[1] = "buckets" /\ Answer(q, {}) /\ bucketList' = TRUE
  /\ UNCHANGED <<page, disabled, choices, saved, edits, valid, under>> /\ Filled

\* validateDB.
DatabaseValid(q) ==
  /\ q[1] = "database" /\ q[2] # Empty /\ Answer(q, {}) /\ Progress(5) /\ Filled
  /\ valid' = valid \cup {q[2]}
  /\ UNCHANGED <<choices, bucketList, saved, edits, under>>

\* validateInviteCode.
InviteAccepted(q) ==
  /\ q[1] = "invite" /\ Answer(q, {}) /\ Progress(7) /\ Filled
  /\ UNCHANGED <<choices, bucketList, saved, edits, valid, under>>

\* A request that fails or is refused: the page stays.
Refused(q) ==
  /\ q[1] \notin {"keys list", "environment"} /\ Answer(q, {})
  /\ UNCHANGED <<wform, saved, edits, valid, under>>

Next ==
  \/ Choose \/ Cancel \/ Click \/ Save
  \/ \E n \in Names : TypeName(n)
  \/ ToggleKeys \/ \E k \in Keys : TypeKeys(k) \/ ChooseKeys(k)
  \/ \E d \in Databases \cup {Empty} : EnterDatabase(d)
  \/ \E q \in out : Saved(q) \/ KeysListed(q) \/ NameFree(q) \/ KeyNameFree(q) \/ CredentialsValid(q)
                    \/ BucketsListed(q) \/ DatabaseValid(q) \/ InviteAccepted(q) \/ Refused(q)

Spec == Init /\ [][Next]_wvars

\* What is saved as an environment has been validated, except keys or a database
\* entered while some request was still out, whose answer turned the page; and
\* except stored keys that were chosen, typed over and gone back to by the radio
\* button alone, for what was validated is what was typed; and a form the wizard
\* was reset over, which is empty.
SavedIsValidated ==
  \A s \in saved : {s.keys, s.db} \subseteq valid \cup s.over \cup {s.shadowed, Empty}

================================================================================
