----------------------------- MODULE Strategies -----------------------------
(***************************************************************************)
(* The strategy section of a configuration and what is built of it:        *)
(* hoprd/src/strategy.rs.                                                  *)
(*                                                                         *)
(* A section is a tree, given as a function on stanzas 0..n: stanza 0 is   *)
(* the top MultiStrategyConfig, every other has a parent.  A stanza is     *)
(* [kind, parent, recursive, interval, valid, builds]: recursive and       *)
(* interval mean something for groups only, valid is the verdict of the    *)
(* configuration type's own validate(), builds that of its build().        *)
(***************************************************************************)
EXTENDS Naturals

CONSTANT PixBuilt   \* the binary has a deposit pool: one of the strategy-pix-* features

ASSUME PixBuiltIsBoolean == PixBuilt \in BOOLEAN

Kinds == {"AutoRedeeming", "AutoFunding", "ClosureFinalizer", "ChannelLifecycle",
          "Pix", "Multi", "Passive"}
MinInterval == 10   \* seconds, validate_execution_interval

Stanza(kind, parent, recursive, valid, builds) ==
    [kind |-> kind, parent |-> parent, recursive |-> recursive, interval |-> 60,
     valid |-> valid, builds |-> builds]
Group(parent, recursive) == Stanza("Multi", parent, recursive, TRUE, TRUE)

\* hopr_default_strategies
DefaultSection ==
    [n \in 0..2 |-> CASE n = 0 -> Group(0, FALSE)
                      [] n = 1 -> Stanza("AutoRedeeming", 0, FALSE, TRUE, TRUE)
                      [] n = 2 -> Stanza("ChannelLifecycle", 0, FALSE, TRUE, TRUE)]

Stanzas(t) == DOMAIN t \ {0}

\* Validation visits the whole tree, groups that will never be built included.
ValidStanza(stanza) ==
    CASE stanza.kind = "Multi"   -> stanza.interval >= MinInterval
      [] stanza.kind = "Pix"     -> PixBuilt /\ stanza.valid
      [] stanza.kind = "Passive" -> TRUE
      [] OTHER                   -> stanza.valid
ValidTop(t) == \A n \in DOMAIN t : t[n].parent = 0 => ValidStanza(t[n])   \* a mutant: groups are not entered
ValidSection(t) == \A n \in DOMAIN t : ValidStanza(t[n])

\* build_strategies_inner descends into a group only where recursion is
\* allowed, and disallows it in the copy it descends into: a stanza is visited
\* at the top, or in a group of the top when the top allows recursion.
Visited(t, n) == t[n].parent = 0 \/ (t[t[n].parent].parent = 0 /\ t[0].recursive)

\* Groups met where recursion is not allowed are logged and left out.
Built(t) ==
    {n \in Stanzas(t) : /\ Visited(t, n)
                        /\ t[n].kind # "Passive"
                        /\ t[n].kind = "Multi" => (t[n].parent = 0 /\ t[0].recursive)}

\* The first stanza that does not build ends the build.
BuildSucceeds(t) ==
    \A n \in Built(t) : t[n].builds /\ (t[n].kind = "Pix" => PixBuilt)

\* The strategies that run, groups being only their parts.
RunningStanzas(t) == {n \in Built(t) : t[n].kind # "Multi"}
=============================================================================
