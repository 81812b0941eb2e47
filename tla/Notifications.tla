----------------------------- MODULE Notifications -----------------------------
(***************************************************************************)
(* The bot of one environment: its configurations at the service, and the   *)
(* tab of the dashboard where the administrators connect it and turn it on  *)
(* and off. What a page shows is set by the answers to its own requests,    *)
(* which may cross.                                                         *)
(***************************************************************************)
EXTENDS Naturals, Sequences, FiniteSets

CONSTANTS Admins,      \* one page each
          Channels,
          MaxRequests  \* bound: requests of the pages, and deletions

None == "none"
Config == [channel : Channels, on : BOOLEAN]
Null   == [channel |-> None, on |-> FALSE]  \* no configuration

VARIABLES
  configs,  \* SlackConfig: the rows of the environment, the oldest first
  channel,  \* of each page: connectedChannel, None for ""
  isOn,     \* of each page
  typed,    \* of each page: the channel in its form
  box,      \* of each page: the box "Disable Notifications", once it is there
  sent,     \* the requests that are out
  requests,
  doubt,    \* history: the pages that need not know
  raced     \* history: two requests to connect were both past the check

tab   == <<channel, isOn, typed, box>>
nvars == <<configs, tab, sent, requests, doubt, raced>>

Request == [id : 1..MaxRequests, page : Admins, kind : {"get", "post", "put"}, asks : Config \cup {Null},
            stage : {"sent", "checked", "served", "refused"}, got : Config \cup {Null}]

TypeOK ==
  /\ configs \in Seq(Config) /\ Len(configs) <= MaxRequests + 1
  /\ channel \in [Admins -> Channels \cup {None}] /\ typed \in [Admins -> Channels]
  /\ {isOn, box} \subseteq [Admins -> BOOLEAN]
  /\ sent \subseteq Request /\ requests \in 0..MaxRequests
  /\ doubt \subseteq Admins /\ raced \in BOOLEAN

\* The dashboard's constructor; the environment may have a bot already.
Init ==
  /\ configs \in {<< >>} \cup {<<c>> : c \in Config}
  /\ channel = [p \in Admins |-> None] /\ isOn = [p \in Admins |-> FALSE]
  /\ typed \in [Admins -> Channels] /\ box = [p \in Admins |-> FALSE]
  /\ sent = {} /\ requests = 0
  /\ doubt = (IF configs = << >> THEN {} ELSE Admins) /\ raced = FALSE

\* getSlackConfigByEnv: the first of them.
Found == IF configs = << >> THEN Null ELSE configs[1]

Count  == requests < MaxRequests /\ requests' = requests + 1
OthersOf(p) == Admins \ {p}

\* The tab is rendered: the box appears with the channel, saying what isOn says then.
Show(p, c, on) ==
  /\ channel' = [channel EXCEPT ![p] = c] /\ isOn' = [isOn EXCEPT ![p] = on]
  /\ box' = [box EXCEPT ![p] = IF channel[p] = None /\ c # None THEN ~on ELSE @]

Send(p, kind, asks) ==
  /\ Count
  /\ sent' = sent \cup {[id |-> requests', page |-> p, kind |-> kind, asks |-> asks,
                         stage |-> "sent", got |-> Null]}
  /\ doubt' = IF \E q \in sent : q.page = p THEN doubt \cup {p} ELSE doubt
  /\ UNCHANGED <<configs, raced>>

\* getSlackInfo, when the page is opened or refreshed.
AskInfo(p) == Send(p, "get", Null) /\ UNCHANGED tab
\* handleChannel.
TypeChannel(p, c) ==
  /\ channel[p] = None /\ c # typed[p] /\ typed' = [typed EXCEPT ![p] = c]
  /\ UNCHANGED <<configs, channel, isOn, box, sent, requests, doubt, raced>>
\* connectSlack, by the button of the form, which is there without a channel.
Connect(p) == channel[p] = None /\ Send(p, "post", [channel |-> typed[p], on |-> TRUE]) /\ UNCHANGED tab
\* turnOnOffSlack, by the box, which is there with one.
Toggle(p) ==
  /\ channel[p] # None /\ box' = [box EXCEPT ![p] = ~@] /\ Send(p, "put", [channel |-> channel[p], on |-> ~box'[p]])
  /\ UNCHANGED <<channel, isOn, typed>>

Becomes(q, stage) == sent' = (sent \ {q}) \cup {[q EXCEPT !.stage = stage]}

\* Mutant: the newest of them.
AskedNewest(q) ==
  /\ q.kind = "get" /\ q.stage = "sent"
  /\ sent' = (sent \ {q}) \cup
       {[q EXCEPT !.stage = "served", !.got = IF configs = << >> THEN Null ELSE configs[Len(configs)]]}
  /\ doubt' = IF Found # Null /\ \A o \in sent : o.page = q.page => o = q
              THEN doubt \ {q.page} ELSE doubt
  /\ UNCHANGED <<configs, tab, requests, raced>>

\* GET: without a configuration the answer is an error, which the page ignores.
Asked(q) ==
  /\ q.kind = "get" /\ q.stage = "sent"
  /\ sent' = (sent \ {q}) \cup {[q EXCEPT !.stage = "served", !.got = Found]}
  /\ doubt' = IF Found # Null /\ \A o \in sent : o.page = q.page => o = q
              THEN doubt \ {q.page} ELSE doubt
  /\ UNCHANGED <<configs, tab, requests, raced>>

\* POST: there must be none, and later it is inserted.
Checked(q) ==
  /\ q.kind = "post" /\ q.stage = "sent"
  /\ Becomes(q, IF Found = Null THEN "checked" ELSE "refused")
  /\ raced' = (raced \/ \E o \in sent : o.stage = "checked")
  /\ UNCHANGED <<configs, tab, requests, doubt>>
Inserted(q) ==
  /\ q.stage = "checked" /\ Becomes(q, "served")
  /\ configs' = Append(configs, q.asks)
  /\ doubt' = doubt \cup OthersOf(q.page)
  /\ UNCHANGED <<tab, requests, raced>>

\* PUT: editSlackConfig changes every one of them, or none.
Edited(q) ==
  /\ q.kind = "put" /\ q.stage = "sent" /\ Becomes(q, "served")
  /\ configs' = [i \in DOMAIN configs |-> [configs[i] EXCEPT !.on = q.asks.on]]
  /\ doubt' = doubt \cup OthersOf(q.page)
  /\ UNCHANGED <<tab, requests, raced>>

\* DELETE, which no page sends: the first of them, another may take its place.
Deleted ==
  /\ Found # Null /\ Count /\ configs' = Tail(configs) /\ doubt' = Admins
  /\ UNCHANGED <<tab, sent, raced>>

\* The answer to q is r, null if it failed or was lost: getSlackInfo heeds what
\* it gets, connectSlack shows the channel typed by now or that there is none,
\* and turnOnOffSlack shows what was asked for, whatever the answer.
Answered(q, null) ==
  /\ null \/ q.stage = "served"
  /\ sent' = sent \ {q}
  /\ CASE q.kind = "get" -> IF null \/ q.got = Null THEN UNCHANGED <<channel, isOn, box>>
                            ELSE Show(q.page, q.got.channel, q.got.on)
       [] q.kind = "post" -> IF null THEN Show(q.page, None, FALSE) ELSE Show(q.page, typed[q.page], TRUE)
       [] OTHER -> Show(q.page, channel[q.page], q.asks.on)
  /\ doubt' = IF null \/ (q.kind = "post" /\ typed[q.page] # q.asks.channel) THEN doubt \cup {q.page} ELSE doubt
  /\ UNCHANGED <<configs, typed, requests, raced>>

Next ==
  \/ \E p \in Admins : AskInfo(p) \/ Connect(p) \/ Toggle(p) \/ \E c \in Channels : TypeChannel(p, c)
  \/ \E q \in sent : Asked(q) \/ Checked(q) \/ Inserted(q) \/ Edited(q)
                     \/ \E null \in BOOLEAN : Answered(q, null)
  \/ Deleted

Spec == Init /\ [][Next]_nvars

\* A page none of whose requests is out says where the bot posts and whether it
\* does, if since the service told it nobody else has changed that, none of its
\* own requests crossed another or failed, and the form was left alone meanwhile.
\* And there is one configuration, unless two requests passed the check together.
NotificationsTell ==
  /\ \A p \in Admins \ doubt : (\A q \in sent : q.page # p) =>
       IF Found = Null THEN channel[p] = None
       ELSE channel[p] = Found.channel /\ isOn[p] = Found.on
  /\ Len(configs) > 1 => raced

================================================================================
