------------------------------ MODULE MCDaemon ------------------------------
(***************************************************************************)
(* Boots for TLC: a plain file, command line and environment, and one      *)
(* group of them varied at a time.                                         *)
(***************************************************************************)
EXTENDS Daemon

MCFile ==
    [s \in Settings |->
        CASE s \in FlagSettings \cup {"fillEnabled"} -> FALSE
          [] s \in {"auth", "privateKey", "host", "mixer"} -> Absent
          [] s \in {"apiHost", "listen"}             -> [form |-> "ip", port |-> 3000]
          [] s = "identity"                          -> [home |-> TRUE, name |-> "id"]
          [] s \in {"winProb", "fillMaxRate"}          -> 100
          [] s = "strategy"                          -> DefaultSection
          [] OTHER                                   -> "set"]
MCCli ==
    [s \in FlagSettings \cup PlainSettings \cup
           {"disableAuth", "apiToken", "apiHost", "apiPort", "listen", "host", "safe", "module"} |->
        IF s \in FlagSettings \cup {"disableAuth"} THEN s = "apiEnable" ELSE Absent]
MCEnv ==
    [detected |-> "ip", use |-> Absent, hoprdEndpoint |-> Absent, legacyEndpoint |-> Absent,
     signals |-> Absent, intervals |-> Absent,
     outputConcurrency |-> Absent, inputConcurrency |-> Bad, incomingCapacity |-> Absent,
     mixer |-> [min |-> Absent, range |-> Absent, capacity |-> Absent]]

Plain == [file |-> MCFile, cli |-> MCCli, env |-> MCEnv]

Tokens ==
    {[Plain EXCEPT !.file["auth"] = f, !.cli["apiToken"] = t, !.cli["disableAuth"] = d] :
        f \in {Absent, [token |-> 7], [token |-> 8]},
        t \in {Absent, [len |-> 7, quotes |-> "none"], [len |-> 9, quotes |-> "one"],
               [len |-> 9, quotes |-> "both"], [len |-> 10, quotes |-> "both"]},
        d \in BOOLEAN}
Hosts ==
    {[Plain EXCEPT !.cli["listen"] = h, !.env.detected = a] :
        h \in [form : {"ip", "domain", "auto"}, port : {Absent, 1}], a \in {"ip", Refused}}
    \cup {[Plain EXCEPT !.cli["apiHost"] = h, !.cli["apiPort"] = p] :
            h \in {Absent, "ip", "junk"}, p \in {Absent, 1}}
Mixers ==
    {[Plain EXCEPT !.file["mixer"] = m, !.env.mixer.capacity = 5] :
        m \in {Absent, [capacity |-> 7], [min |-> 1], [capacity |-> 7, engine |-> "poisson"],
               [capacity |-> 7, min |-> 1], [engine |-> "poisson"], [min |-> 1, engine |-> "poisson"]}}
Identities ==
    {[Plain EXCEPT !.cli["privateKey"] = k, !.cli["password"] = p, !.cli["safe"] = a] :
        k \in {Absent, "key", "junk"}, p \in {Absent, ""}, a \in {Absent, Bad}}

\* trees of five stanzas below the top: one of kind at the top, or in a group in a group
Tree(recursive, kind, deep, builds) ==
    [n \in 0..5 |->
        CASE n = 0 -> Group(0, recursive)
          [] n = 1 -> Stanza(IF deep THEN "Passive" ELSE kind, 0, FALSE, TRUE, builds)
          [] n = 2 -> Group(0, TRUE)
          [] n = 3 -> Stanza("ClosureFinalizer", 2, FALSE, TRUE, TRUE)
          [] n = 4 -> Group(2, TRUE)
          [] n = 5 -> Stanza(IF deep THEN kind ELSE "Passive", 4, FALSE, TRUE, builds)]
Trees ==
    {[Plain EXCEPT !.file["strategy"] = Tree(r, k, d, b)] :
        r \in BOOLEAN, k \in {"AutoFunding", "Pix"}, d \in BOOLEAN, b \in BOOLEAN}

MCMetrics == {<<"hopr", "session", "acks">>, <<"hopr", "mix", "size">>, <<"process", "memory">>}
Exports ==
    {[Plain EXCEPT !.env.use = u, !.env.hoprdEndpoint = "http"] : u \in {"on", "off"}} \cup
    {[Plain EXCEPT !.env.hoprdEndpoint = "http", !.env.signals = s, !.env.intervals = i] :
        s \in {<<"junk">>, <<"logs", "metrics", "junk">>},
        i \in {Absent, <<[prefix |-> << >>, ms |-> 5], [prefix |-> <<"hopr", "session">>, ms |-> 9],
                         [prefix |-> <<"hopr", "mix">>, ms |-> 0], [prefix |-> <<"hopr", "session">>, ms |-> 7],
                         [prefix |-> <<"hopr">>, ms |-> 1],
                         [prefix |-> <<"hopr", "session", "acks">>, ms |-> 3]>>}}

Limits ==
    {[Plain EXCEPT !.env.incomingCapacity = c, !.env.mixer.capacity = c] : c \in {0, 3}} \cup
    {[Plain EXCEPT !.file["fillEnabled"] = TRUE, !.file["fillMaxRate"] = r] : r \in {0, 3}}

MCBoots == Tokens \cup Hosts \cup Mixers \cup Identities \cup Trees \cup Exports \cup Limits
=============================================================================
