---------------------------- MODULE WantedMirror ----------------------------
(***************************************************************************)
(* The mirror of Bazarr's wanted lists and what discovery makes of it.     *)
(* sync_wanted pages through the episodes and then the movies Bazarr       *)
(* wants, stamps each one it sees with the start of its own pass, and at   *)
(* the end deletes the rows with an older stamp; its completion hook runs  *)
(* discovery under the instance lock.  The sync itself takes no lock: the  *)
(* periodic loop, webhooks and the operator's button may overlap.          *)
(***************************************************************************)
EXTENDS Naturals, Sequences, SequencesExt, FiniteSets

CONSTANTS
  Wants,      \* (media, language, forced, hi) identities
  KindOf,     \* "episode" or "movie", for each want
  PageSize,   \* WANTED_PAGE_SIZE
  Syncers,    \* who may run sync_wanted for the instance
  Quiet,      \* does Bazarr's list stand still while a pass reads it?
  MaxStamp,   \* bound on the number of passes
  None

Kinds == {"episode", "movie"}

ASSUME WantedMirrorAssumption ==
  /\ IsFiniteSet(Wants) /\ KindOf \in [Wants -> Kinds]
  /\ PageSize \in Nat \ {0} /\ Quiet \in BOOLEAN /\ MaxStamp \in Nat
  /\ None \notin Syncers

VARIABLES
  bazarr,     \* per kind, the wanted list Bazarr answers from
  gone,       \* wants that have ever left it
  library,    \* wants whose episode or movie the library mirror knows
  stamp,      \* last_seen_at of each mirrored want, 0 if not mirrored
  clock,      \* the latest pass_started
  completed,  \* has a wanted pass ever completed?
  sync,       \* where each syncer is
  lock,       \* the syncer whose hook holds the instance lock
  intent      \* the ledger: "none", "open" or "withdrawn"

wantedVars == <<bazarr, gone, library, stamp, clock, completed, sync, lock, intent>>

Wanted == {w \in Wants : \E k \in Kinds : w \in ToSet(bazarr[k])}
Mirrored == {w \in Wants : stamp[w] > 0}

\* A syncer between passes.
AtRest == [at |-> "rest", kind |-> "episode", start |-> 0, page |-> {},
           last |-> FALSE, since |-> 0]

Reading == {s \in Syncers : sync[s].at \in {"fetch", "store", "delete"}}

-----------------------------------------------------------------------------
(* sync_wanted.                                                            *)

StartSync(s) ==
  /\ sync[s].at = "rest"
  /\ clock < MaxStamp
  /\ clock' = clock + 1
  /\ sync' = [sync EXCEPT ![s] = [AtRest EXCEPT !.at = "fetch", !.since = clock + 1]]
  /\ UNCHANGED <<bazarr, gone, library, stamp, completed, lock, intent>>

\* What follows the last page of a kind.
NextKind(s) ==
  IF sync[s].kind = "episode"
  THEN [sync[s] EXCEPT !.at = "fetch", !.kind = "movie", !.start = 0, !.page = {}]
  ELSE [sync[s] EXCEPT !.at = "delete", !.page = {}]

\* Bazarr answers with one page of its list, as it is at that moment.
FetchPage(s) ==
  /\ sync[s].at = "fetch"
  /\ LET list == bazarr[sync[s].kind]
         end == IF sync[s].start + PageSize < Len(list)
                THEN sync[s].start + PageSize ELSE Len(list)
         page == ToSet(SubSeq(list, sync[s].start + 1, end))
     IN sync' = [sync EXCEPT ![s] =
                   IF page = {} THEN NextKind(s)
                   ELSE [@ EXCEPT !.at = "store", !.page = page,
                                  !.last = end < sync[s].start + PageSize]]
  /\ UNCHANGED <<bazarr, gone, library, stamp, clock, completed, lock, intent>>

\* The upsert writes this pass's stamp, whatever the row had, and commits.
StorePage(s) ==
  /\ sync[s].at = "store"
  /\ stamp' = [w \in Wants |->
                 IF w \in sync[s].page \cap library THEN sync[s].since ELSE stamp[w]]
  /\ sync' = [sync EXCEPT ![s] =
                IF @.last THEN NextKind(s)
                ELSE [@ EXCEPT !.at = "fetch", !.start = sync[s].start + PageSize,
                               !.page = {}]]
  /\ UNCHANGED <<bazarr, gone, library, clock, completed, lock, intent>>

\* Mutant of DeleteUnseen: nothing is deleted.
DeleteNothing(s) ==
  /\ sync[s].at = "delete"
  /\ completed' = TRUE
  /\ sync' = [sync EXCEPT ![s].at = "hook"]
  /\ UNCHANGED <<bazarr, gone, library, stamp, clock, lock, intent>>

DeleteUnseen(s) ==
  /\ sync[s].at = "delete"
  /\ stamp' = [w \in Wants |-> IF stamp[w] < sync[s].since THEN 0 ELSE stamp[w]]
  /\ completed' = TRUE
  /\ sync' = [sync EXCEPT ![s].at = "hook"]
  /\ UNCHANGED <<bazarr, gone, library, clock, lock, intent>>

\* Mutant of SyncFails: a pass that broke off still deletes and completes.
SyncFailsDeleting(s) ==
  /\ sync[s].at \in {"fetch", "store", "delete"}
  /\ stamp' = [w \in Wants |-> IF stamp[w] < sync[s].since THEN 0 ELSE stamp[w]]
  /\ sync' = [sync EXCEPT ![s].at = "hook"]
  /\ completed' = TRUE
  /\ UNCHANGED <<bazarr, gone, library, clock, lock, intent>>

\* The pass or its hook raises, or the process restarts: what was committed
\* stays, the rest is not done, and the lock is free again.
SyncFails(s) ==
  /\ sync[s].at # "rest"
  /\ sync' = [sync EXCEPT ![s] = AtRest]
  /\ lock' = IF lock = s THEN None ELSE lock
  /\ UNCHANGED <<bazarr, gone, library, stamp, clock, completed, intent>>

-----------------------------------------------------------------------------
(* The completion hook: discovery, for what concerns wants.                *)

BeginDiscovery(s) ==
  /\ sync[s].at = "hook" /\ lock = None
  /\ lock' = s
  /\ sync' = [sync EXCEPT ![s].at = "discover"]
  /\ UNCHANGED <<bazarr, gone, library, stamp, clock, completed, intent>>

\* Rows for the mirrored wants that have none; a terminal row stays terminal.
Discover(s) ==
  /\ sync[s].at = "discover"
  /\ intent' = [w \in Wants |->
                  IF intent[w] = "none" /\ w \in Mirrored THEN "open" ELSE intent[w]]
  /\ sync' = [sync EXCEPT ![s].at = "withdraw"]
  /\ UNCHANGED <<bazarr, gone, library, stamp, clock, completed, lock>>

\* _withdraw_vanished
WithdrawVanished(s) ==
  /\ sync[s].at = "withdraw"
  /\ intent' = [w \in Wants |->
                  IF completed /\ intent[w] = "open" /\ w \notin Mirrored
                  THEN "withdrawn" ELSE intent[w]]
  /\ lock' = None
  /\ sync' = [sync EXCEPT ![s] = AtRest]
  /\ UNCHANGED <<bazarr, gone, library, stamp, clock, completed>>

-----------------------------------------------------------------------------
(* Bazarr and the library sync.                                            *)

MayChange == Quiet => Reading = {}

WantAppears(w) ==
  /\ MayChange
  /\ w \notin Wanted
  /\ \E at \in 0..Len(bazarr[KindOf[w]]) :
       bazarr' = [bazarr EXCEPT ![KindOf[w]] = InsertAt(@, at + 1, w)]
  /\ UNCHANGED <<gone, library, stamp, clock, completed, sync, lock, intent>>

WantIsMet(w) ==
  /\ MayChange
  /\ \E i \in DOMAIN bazarr[KindOf[w]] :
       /\ bazarr[KindOf[w]][i] = w
       /\ bazarr' = [bazarr EXCEPT ![KindOf[w]] = RemoveAt(@, i)]
  /\ gone' = gone \cup {w}
  /\ UNCHANGED <<library, stamp, clock, completed, sync, lock, intent>>

\* The library sync learns the episode or movie; until then pages skip it.
LibraryGains(w) ==
  /\ MayChange
  /\ w \notin library
  /\ library' = library \cup {w}
  /\ UNCHANGED <<bazarr, gone, stamp, clock, completed, sync, lock, intent>>

-----------------------------------------------------------------------------
WantedInit ==
  /\ bazarr \in {l \in [Kinds -> SetToAllKPermutations(Wants)] :
                   \A k \in Kinds : \A w \in ToSet(l[k]) : KindOf[w] = k}
  /\ gone = {}
  /\ library \in SUBSET Wants
  /\ stamp = [w \in Wants |-> 0]
  /\ clock = 0 /\ completed = FALSE
  /\ sync = [s \in Syncers |-> AtRest]
  /\ lock = None
  /\ intent = [w \in Wants |-> "none"]

SyncStep(s) == \/ FetchPage(s) \/ StorePage(s) \/ DeleteUnseen(s)
               \/ BeginDiscovery(s) \/ Discover(s) \/ WithdrawVanished(s)

WantedNext == \/ \E s \in Syncers : StartSync(s) \/ SyncStep(s) \/ SyncFails(s)
        \/ \E w \in Wants : WantAppears(w) \/ WantIsMet(w) \/ LibraryGains(w)

WantedSpec == WantedInit /\ [][WantedNext]_wantedVars

-----------------------------------------------------------------------------
\* Every variable keeps its type, and the lock is held exactly while the
\* hook of the syncer that took it runs.
WantedTypeOK ==
  /\ bazarr \in [Kinds -> Seq(Wants)]
  /\ gone \subseteq Wants /\ library \subseteq Wants
  /\ stamp \in [Wants -> 0..MaxStamp]
  /\ clock \in 0..MaxStamp /\ completed \in BOOLEAN
  /\ sync \in [Syncers ->
       [at : {"rest", "fetch", "store", "delete", "hook", "discover", "withdraw"},
        kind : Kinds, start : Nat, page : SUBSET Wants, last : BOOLEAN,
        since : 0..MaxStamp]]
  /\ lock \in Syncers \cup {None}
  /\ \A s \in Syncers : lock = s <=> sync[s].at \in {"discover", "withdraw"}
  /\ intent \in [Wants -> {"none", "open", "withdrawn"}]

\* "Anything not re-seen this pass is gone from Bazarr's wanted list": an
\* intent is withdrawn, for good, only if Bazarr did stop wanting it.
WithdrawnIsGone ==
  \A w \in Wants : intent[w] = "withdrawn" => w \in gone

\* A pass that completes leaves the mirror equal to what Bazarr wants among
\* the media the library knows.
CompletedPassIsExact ==
  [][\A s \in Syncers :
       sync[s].at = "delete" /\ sync'[s].at = "hook" =>
         {w \in Wants : stamp'[w] > 0} = Wanted \cap library]_wantedVars
=============================================================================
