-------------------------- MODULE MCAdministration --------------------------
(***************************************************************************)
(* Small instances for TLC of the modules about what administrators do and *)
(* what comes of it.  They share no variable, and part names the one whose *)
(* steps a behaviour takes.                                                *)
(***************************************************************************)
EXTENDS PolicyAdmin, BacklogPolicy, PlanPreview, Accounts, SchedulingWindows,
        Passthrough

VARIABLE part

MCItems == {[media |-> "series", key |-> "s1", tags |-> {"anime", "kids"}],
            [media |-> "movie", key |-> "m1", tags |-> {"kids"}]}
MCScopes == {[type |-> "instance", key |-> ""], [type |-> "library", key |-> "anime"],
             [type |-> "library", key |-> "kids"], [type |-> "series", key |-> "s1"]}
MCLayerValues == {[dry_run |-> FALSE], [grace_episodes |-> 0, dry_run |-> TRUE]}
MCExclusionRules == {[kind |-> "tag", key |-> <<"kids">>]}

MCItem == [media |-> "series", key |-> "s1", tags |-> {"kids"}]
MCWant == [language |-> "fr", hi |-> FALSE, forced |-> FALSE]
Targets == [target_languages |-> {"fr"}, source_preferences |-> <<"en", "de">>, grace_episodes |-> 1]
MCPostures == {[dry_run |-> TRUE], [dry_run |-> FALSE] @@ Targets}
MCRules == {[kind |-> "series", key |-> <<"s1">>], [kind |-> "language_pair", key |-> <<"en", "fr">>]}
MCSubs == {[language |-> "en", hi |-> FALSE, forced |-> TRUE, embedded |-> FALSE],
           [language |-> "en", hi |-> TRUE, forced |-> FALSE, embedded |-> FALSE],
           [language |-> "de", hi |-> FALSE, forced |-> FALSE, embedded |-> FALSE],
           [language |-> "fr", hi |-> FALSE, forced |-> FALSE, embedded |-> FALSE]}
MCRecency == [a \in 0..2 |-> <<40, 36, 33>>[a + 1]]

Title(i, p, m, n) == [instance |-> i, pair |-> p, media |-> m, name |-> n]
MCCandidates == {Title("i1", "s1", "episode", 1), Title("i1", "s1", "episode", 2),
                 Title("i1", "m1", "movie", 3), Title("i1", "s2", "episode", 4),
                 Title("i2", "s3", "episode", 5)}
MCRailSettings == {[window |-> 1, caps |-> {}, budget |-> NoBudget],
                   [window |-> 3, caps |-> {2, 3}, budget |-> NoBudget],
                   [window |-> 2, caps |-> {}, budget |-> 120],
                   [window |-> 2, caps |-> {}, budget |-> 75]}
MCStatistics == {[files |-> 5, characters |-> 900], [files |-> 20, characters |-> 961]}

MCLoadOrder == <<"oidc", "ldap">>

Init == /\ part \in {"policy", "backlog", "plan", "accounts", "windows", "passthrough"}
        /\ PolicyInit /\ BacklogInit /\ PlanInit /\ AccountInit /\ WindowsInit
        /\ PassthroughInit
        /\ part # "passthrough" => linked

MCIntent(type, media, title, source) ==
  [type |-> type, media |-> media, title |-> title, source |-> source, target |-> "en"]
MCLedger == {MCIntent("Movie", "m1", "Dune", "zh"), MCIntent("Movie", "m2", "Dune", "zh"),
             MCIntent("Episode", "e1", "Dune", "zh")}
MCAsked == {MCIntent("Movie", "m1", "Dune", "zh-CN"), MCIntent("Movie", NoMedia, "Dune", "zh"),
            MCIntent("Episode", NoMedia, "Dune", "zh-CN")}
MCConversions == [c \in {"zh"} |-> "zh-CN"]

Others(own) ==
  /\ own # "policy" => UNCHANGED adminVars
  /\ own # "backlog" => UNCHANGED backlogVars
  /\ own # "plan" => UNCHANGED planVars
  /\ own # "accounts" => UNCHANGED accountVars
  /\ own # "windows" => UNCHANGED windowVars
  /\ own # "passthrough" => UNCHANGED passthroughVars

Next == /\ UNCHANGED part /\ Others(part)
        /\ \/ part = "policy" /\ PolicyNext
           \/ part = "backlog" /\ BacklogNext
           \/ part = "plan" /\ PlanNext
           \/ part = "accounts" /\ AccountNext
           \/ part = "windows" /\ WindowsNext
           \/ part = "passthrough" /\ PassthroughNext

Spec == Init /\ [][Next]_<<part, adminVars, backlogVars, planVars, accountVars, windowVars,
                          passthroughVars>>
=============================================================================
