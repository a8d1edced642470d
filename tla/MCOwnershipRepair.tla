-------------------------- MODULE MCOwnershipRepair --------------------------
(* Two services and the operator's command over two databases. *)
EXTENDS OwnershipRepair, TLC

CONSTANTS a, b, op, postgres, none

(* A role that stands above all others, and one with no rights but its own. *)
All == {a, b, postgres}

Base == [source |-> "broker", allow_static |-> FALSE, sane |-> TRUE,
         secrets |-> "none", skip |-> FALSE, allow_unlisted |-> FALSE,
         allow_direct |-> FALSE, bouncer |-> TRUE, ratls |-> TRUE,
         features |-> {}, acts |-> All, creates |-> TRUE, url_tls |-> TRUE]

Static == [Base EXCEPT !.source = "static", !.allow_static = TRUE]

Command == [Static EXCEPT !.bouncer = FALSE, !.allow_direct = TRUE]

Deploy(ca, cb, cop) == a :> ca @@ b :> cb @@ op :> cop

(* A service that leaves migrations to the other and may create nothing; one
   that does so beside a build with an extension and a second pool; development
   mode beside a second pool and a role that has no rights of another; a command
   without rights of the roles it lists, and an extension that may not be
   created; and configurations that are refused, one of them beside a service
   that takes any extension and leaves migrations to the command. *)
MCDeployments ==
    { Deploy(Base,
             [Base EXCEPT !.skip = TRUE, !.creates = FALSE],
             Command),
      Deploy([Base EXCEPT !.skip = TRUE],
             [Base EXCEPT !.secrets = "dedicated", !.features = {"citus"},
                          !.acts = {postgres}],
             [Command EXCEPT !.url_tls = FALSE]),
      Deploy([Static EXCEPT !.bouncer = FALSE, !.ratls = FALSE,
                            !.allow_unlisted = TRUE],
             [Base EXCEPT !.secrets = "dedicated", !.acts = {}],
             [Command EXCEPT !.sane = FALSE]),
      Deploy([Base EXCEPT !.acts = {}],
             [Base EXCEPT !.skip = TRUE, !.features = {"pgaudit"}, !.creates = FALSE],
             [Command EXCEPT !.acts = {}]),
      Deploy([Base EXCEPT !.secrets = "overrides"],
             [Static EXCEPT !.bouncer = FALSE],
             [Command EXCEPT !.secrets = "dedicated"]),
      Deploy([Static EXCEPT !.allow_static = FALSE],
             [Static EXCEPT !.skip = TRUE, !.allow_unlisted = TRUE],
             Command) }

MCExtOrder == <<"pgaudit", "citus">>
MCDataOnly == {"citus"}

(* The second argument repeats the first in other letters, the third has no
   letter; the owner's name fits the pattern too. *)
MCAudiences == <<"gateway", "Gateway", "*">>
MCPrefix == [x \in {"gateway", "Gateway", "*"} |-> IF x = "*" THEN none ELSE "gateway"]
MCMatches == [x \in {"gateway"} |-> {a, postgres}]
=============================================================================
