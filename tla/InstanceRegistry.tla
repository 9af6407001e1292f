--------------------------- MODULE InstanceRegistry ---------------------------
(***************************************************************************)
(* The registered instances and the health sweep.  A sweep reads the rows  *)
(* once, then checks one enabled instance after the other, Bazarr's before *)
(* Lingarr's, and stores what each answers; an error that is not the       *)
(* instance's silence ends it, and the loop starts another one.            *)
(***************************************************************************)
EXTENDS Naturals, Sequences

CONSTANTS
  Bazarrs, Lingarrs,
  SweepOrder,        \* every instance: Bazarr's by name, then Lingarr's by name
  Unreadable,        \* the instances whose stored key does not decrypt
  MaxVersion,        \* bound on upgrades of an instance
  MaxWrites,         \* bound on the requests that change a registration
  NoRow, NoLink, Waiting

VARIABLES
  rows,       \* rows[i]: the registered instance, or NoRow
  runs,       \* runs[i]: the version the instance runs (external)
  up,         \* up[i]: it answers (external)
  sweep,      \* Waiting, or the instances still to check, as they were read
  writes

registryVars == <<rows, runs, up, sweep, writes>>

Registered == Bazarrs \cup Lingarrs
Rows == {i \in Registered : rows[i] # NoRow}

\* caps is the version that the capabilities were probed at.
NewRow(i, link) ==
  [enabled |-> TRUE, link |-> link, version |-> runs[i], caps |-> runs[i], health |-> "unknown"]

RegistryInit ==
  /\ rows = [i \in Registered |-> NoRow]
  /\ runs = [i \in Registered |-> 1] /\ up = [i \in Registered |-> TRUE]
  /\ sweep = Waiting /\ writes = 0

Writes == writes < MaxWrites /\ writes' = writes + 1 /\ UNCHANGED <<runs, up, sweep>>

\* create_bazarr and create_lingarr: the instance answered the connection test.
CreateInstance(i) ==
  /\ Writes /\ rows[i] = NoRow /\ up[i]
  /\ rows' = [rows EXCEPT ![i] = NewRow(i, NoLink)]

\* update_bazarr, update_lingarr: the switch, and the link to a Lingarr.
UpdateInstance(i) ==
  /\ Writes /\ i \in Rows
  /\ \/ rows' = [rows EXCEPT ![i].enabled = ~ @]
     \/ /\ i \in Bazarrs
        /\ \E l \in (Lingarrs \cap Rows) \cup {NoLink} : rows' = [rows EXCEPT ![i].link = l]

DeleteBazarr(i) ==
  /\ Writes /\ i \in Bazarrs \cap Rows
  /\ rows' = [rows EXCEPT ![i] = NoRow]

LinkedTo(l) == {i \in Bazarrs \cap Rows : rows[i].link = l}

\* Refused while it is linked.
DeleteLingarr(l) ==
  /\ Writes /\ l \in Lingarrs \cap Rows /\ LinkedTo(l) = {}
  /\ rows' = [rows EXCEPT ![l] = NoRow]

\* confirm_lingarr_discovery commits the Lingarr, then the link.
ConfirmDiscovery(i, l) ==
  /\ Writes /\ i \in Bazarrs \cap Rows /\ rows[l] = NoRow /\ up[i] /\ up[l]
  /\ rows' = [rows EXCEPT ![l] = NewRow(l, NoLink), ![i].link = l]

\* What check_bazarr_health and check_lingarr_health find.
Health(i) == IF up[i] THEN "ok" ELSE "unreachable"

\* An unreachable instance has no version to store.
Snapshot(row, i, caps) ==
  [row EXCEPT !.health = Health(i),
              !.version = IF up[i] THEN runs[i] ELSE @,
              !.caps = caps]

\* The API's health checks: they store no capabilities.
HealthCheck(i) ==
  /\ i \in Rows \ Unreadable
  /\ rows' = [rows EXCEPT ![i] = Snapshot(@, i, @.caps)]
  /\ UNCHANGED <<runs, up, sweep, writes>>
-----------------------------------------------------------------------------
\* The sweep's session keeps each row as it was read.
SweepBegins ==
  /\ sweep = Waiting
  /\ sweep' = LET enabled == SelectSeq(SweepOrder, LAMBDA i : i \in Rows /\ rows[i].enabled)
              IN [k \in DOMAIN enabled |-> [at |-> enabled[k], version |-> rows[enabled[k]].version]]
  /\ UNCHANGED <<rows, runs, up, writes>>

NextUp == Head(sweep).at
Checking == sweep # Waiting /\ sweep # << >>

\* A version that differs from the row as read re-probes the capabilities.
SweepChecks ==
  /\ Checking /\ NextUp \in Rows \ Unreadable
  /\ LET i == NextUp
         changed == up[i] /\ runs[i] # Head(sweep).version
     IN rows' = [rows EXCEPT ![i] =
          Snapshot(@, i, IF changed /\ i \in Bazarrs THEN runs[i] ELSE @.caps)]
  /\ sweep' = Tail(sweep)
  /\ UNCHANGED <<runs, up, writes>>

\* Mutant of SweepFails: the same sweep is tried again.
SweepRetries ==
  /\ Checking /\ (NextUp \notin Rows \/ NextUp \in Unreadable)
  /\ sweep' = sweep
  /\ UNCHANGED <<rows, runs, up, writes>>

\* The key does not decrypt, or the row is gone: the sweep is over.
SweepFails ==
  /\ Checking /\ (NextUp \notin Rows \/ NextUp \in Unreadable)
  /\ sweep' = Waiting
  /\ UNCHANGED <<rows, runs, up, writes>>

SweepEnds ==
  /\ sweep = << >> /\ sweep' = Waiting
  /\ UNCHANGED <<rows, runs, up, writes>>

InstanceFlips(i) ==
  /\ up' = [up EXCEPT ![i] = ~ @]
  /\ UNCHANGED <<rows, runs, sweep, writes>>

InstanceUpgrades(i) ==
  /\ i \in Bazarrs /\ runs[i] < MaxVersion
  /\ runs' = [runs EXCEPT ![i] = @ + 1]
  /\ UNCHANGED <<rows, up, sweep, writes>>

RegistryNext ==
  \/ SweepBegins \/ SweepChecks \/ SweepFails \/ SweepEnds
  \/ \E i \in Registered :
       \/ CreateInstance(i) \/ UpdateInstance(i) \/ DeleteBazarr(i) \/ DeleteLingarr(i)
       \/ HealthCheck(i) \/ InstanceFlips(i) \/ InstanceUpgrades(i)
       \/ \E l \in Lingarrs : ConfirmDiscovery(i, l)
-----------------------------------------------------------------------------
\* No row before i keeps the sweep from reaching it.
Blocks(j, i) ==
  /\ j \in Rows \cap Unreadable /\ rows[j].enabled
  /\ \E m, n \in DOMAIN SweepOrder : m <= n /\ SweepOrder[m] = j /\ SweepOrder[n] = i

Monitored(i) == i \in Rows /\ rows[i].enabled /\ ~ \E j \in Registered : Blocks(j, i)

\* "Check every enabled instance once": an instance that is down for good is
\* shown as unreachable for good, whichever others are down, deleted under the
\* sweep or checked by hand, unless one before it has a key that is unreadable.
OutagesAreShown ==
  \A i \in Registered :
    <>[](Monitored(i) /\ ~ up[i]) => <>[](i \in Rows => rows[i].health = "unreachable")

\* "A version change re-probes the capability slots": the capabilities of an
\* instance that stays as it is, and that sweeps reach, are its version's in the
\* end. Not so: a check by hand stores the new version and probes nothing, so that
\* the next sweep sees no change.
CapabilitiesFollowVersion ==
  \A i \in Bazarrs :
    <>[](Monitored(i) /\ up[i]) => <>[](i \in Rows => rows[i].caps = runs[i])
=============================================================================
