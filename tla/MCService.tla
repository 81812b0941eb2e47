------------------------------ MODULE MCService ------------------------------
(***************************************************************************)
(* Two requests to the service: two replays, a mimic and a replay, two      *)
(* mimics, two captures. Those with databases share one.                    *)
(***************************************************************************)
EXTENDS Service, TLC

CONSTANTS r1, r2, d1, d2

Ask(k, targets, u, t) == [kind |-> k, dbs |-> targets, by |-> u, when |-> t]

MCLoads ==
  LET R(t)    == Ask("replay", <<d1>>, 1, t)
      M(t)    == Ask("mimic", <<d1>>, 1, t)
      C(u, t) == Ask("capture", <<>>, u, t)
  IN {r1 :> pair[1] @@ r2 :> pair[2] : pair \in
       {<<R("now"), R("now")>>, <<R("later"), R("now")>>, <<R("later"), R("past")>>,
        <<M("later"), R("now")>>,
        <<Ask("mimic", <<d1, d2>>, 1, "now"), Ask("mimic", <<d1, d1>>, 1, "now")>>,
        <<C(1, "later"), C(1, "later")>>, <<C(2, "later"), C(1, "past")>>}}
===============================================================================
