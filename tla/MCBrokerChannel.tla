--------------------------- MODULE MCBrokerChannel ---------------------------
(* Instance of BrokerChannel for TLC: each configuration switch both ways and
   a peer for each way of failing a check. *)
EXTENDS BrokerChannel, TLC

MCNames == {"m", "M", "n"}
MCLower == [x \in MCNames |-> IF x = "M" THEN "m" ELSE x]

Files == {[mrtd |-> {"M"}, mrenclave |-> Malformed, min_svn |-> Unset, compose |-> Unset],
          [mrtd |-> Unset, mrenclave |-> {"m"}, min_svn |-> 2, compose |-> Unset],
          [mrtd |-> {}, mrenclave |-> {"n"}, min_svn |-> 5, compose |-> "M"],
          [mrtd |-> Unset, mrenclave |-> Unset, min_svn |-> 2, compose |-> Malformed]}

Target == [td |-> "M", path |-> "broker"]

(* Variables a mode does not read keep one value. *)
Switches(mode, policies, subjects, identities, cas, pccs, targets) ==
    [mode : {mode}, loopback : BOOLEAN, https : BOOLEAN, debug : BOOLEAN,
     unsafe : BOOLEAN, policy : policies, subjects : subjects,
     identity : identities, timeout : {0, 10}, ca : cas, pccs : pccs,
     target : targets]

MCEnvironments ==
    Switches("enforced", Files \cup {Unset, Malformed}, {Unset, {}, {"M"}},
             {"pair", "half", "none"}, {FALSE}, BOOLEAN, {Unset})
    \cup Switches("spiffe", {Unset}, {Unset}, {"none"}, {FALSE}, {FALSE},
                  {Unset, Malformed, Target})
    \cup Switches("local", {Unset}, {Unset}, {"pair", "half", "none"}, BOOLEAN,
                  {FALSE}, {Unset})
    \cup Switches("disabled", {Unset, Malformed}, {Unset}, {"none"}, {FALSE},
                  {FALSE}, {Unset})
    \cup Switches("other", {Unset}, {Unset}, {"none"}, {FALSE}, {FALSE}, {Unset})

Logs == {Malformed, << >>,
         <<[imr |-> 1, event |-> "compose-hash", payload |-> "m"]>>,
         <<[imr |-> 3, event |-> "app-id", payload |-> "m"],
           [imr |-> 3, event |-> "compose-hash", payload |-> "m"]>>,
         <<[imr |-> 3, event |-> "upgraded-app-id", payload |-> "n"],
           [imr |-> 3, event |-> "compose-hash", payload |-> "m"]>>}

Quotes == [kind : {"TDX", "SGX", "SNP"}, bound : BOOLEAN, genuine : BOOLEAN,
           measurement : {"m", "n"}, svn : {1, 2}]

AttestedPeers ==
    [chain : {FALSE}, subject : {"m", "n", Unset}, uris : {<< >>},
     quote : Quotes \cup {Unset}, log : Logs]

ChainPeers ==
    [chain : BOOLEAN, subject : {"n"},
     uris : {<< >>, <<Malformed>>, <<[td |-> "m", path |-> "broker"]>>,
             <<[td |-> "m", path |-> "other"]>>,
             <<[td |-> "m", path |-> "broker"], Malformed>>},
     quote : {Unset}, log : {Malformed}]

MCPeers == AttestedPeers \cup ChainPeers
=============================================================================
