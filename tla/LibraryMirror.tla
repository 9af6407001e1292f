---------------------------- MODULE LibraryMirror ----------------------------
(***************************************************************************)
(* The mirror of one instance's library: sync_library as the loop runs it  *)
(* every few hours, and as an operator runs it, with no lock between them. *)
(* It pages through Bazarr's series, then fetches the episodes of those it *)
(* has seen, then the movies; a full sync removes series it has not seen.  *)
(* Every page and every batch is a commit of its own, and what it fetched  *)
(* may be older than what the mirror has by then.                          *)
(***************************************************************************)
EXTENDS Naturals, Sequences, SequencesExt, FiniteSetsExt

CONSTANTS
  Shows,        \* series, each of one episode
  Films,
  LibrarySyncs, \* the sessions that may sync
  LibraryLoop,  \* the one of the loop, which never syncs in full
  LibraryPage,  \* SERIES_PAGE_SIZE, MOVIES_PAGE_SIZE
  MaxChanges,   \* bound on changes of the library
  Unmirrored, NoSync

ASSUME LibraryAssumption ==
  /\ LibraryPage \in Nat \ {0} /\ MaxChanges \in Nat
  /\ IsFiniteSet(Shows) /\ Shows \cap Films = {} /\ Unmirrored \notin Nat

VARIABLES
  shelf,        \* Bazarr's series, as it pages them (external)
  subtitles,    \* subtitles[m]: the version of m's subtitles there (external)
  films,        \* Bazarr's movies (external)
  mirrored,     \* the series rows
  copies,       \* copies[m]: the version stored of m's subtitles, or Unmirrored
  librarySync,  \* librarySync[y]: the run of y, or NoSync
  looping,      \* the loop's task has not ended
  changes

libraryVars == <<shelf, subtitles, films, mirrored, copies, librarySync, looping, changes>>
upstreamVars == <<shelf, subtitles, films, changes>>

LibraryInit ==
  /\ shelf \in SetToAllKPermutations(Shows) /\ films \in SUBSET Films
  /\ subtitles = [m \in Shows \cup Films |-> 0]
  /\ mirrored = {} /\ copies = [m \in Shows \cup Films |-> Unmirrored]
  /\ librarySync = [y \in LibrarySyncs |-> NoSync]
  /\ looping = TRUE /\ changes = 0

At(y, phase) == librarySync[y] # NoSync /\ librarySync[y].phase = phase
Continues(y, run) == librarySync' = [librarySync EXCEPT ![y] = run]

\* calm: of a full sync, nothing has changed, and nobody else has synced, since it began.
StartLibrarySync(y, full) ==
  /\ librarySync[y] = NoSync /\ (y = LibraryLoop => looping)
  /\ librarySync' = [x \in LibrarySyncs |->
       IF x = y THEN [full |-> full, phase |-> "series", start |-> 0, seen |-> {}, known |-> {},
                      lost |-> {}, left |-> {}, fetched |-> Unmirrored,
                      calm |-> full /\ \A z \in LibrarySyncs : librarySync[z] = NoSync]
       ELSE IF librarySync[x] = NoSync THEN NoSync ELSE [librarySync[x] EXCEPT !.calm = FALSE]]
  /\ UNCHANGED <<upstreamVars, mirrored, copies, looping>>

\* Every request is answered before its result is stored.
Fetches(y, phase, answer) ==
  /\ At(y, phase) /\ librarySync[y].fetched = Unmirrored
  /\ Continues(y, [librarySync[y] EXCEPT !.fetched = answer])
  /\ UNCHANGED <<upstreamVars, mirrored, copies, looping>>

Stores(y, phase) == At(y, phase) /\ librarySync[y].fetched # Unmirrored

FetchSeries(y) ==
  Fetches(y, "series",
    LET start == librarySync[y].start
    IN ToSet(SubSeq(shelf, start + 1, Min({start + LibraryPage, Len(shelf)}))))

\* A page of series is upserted; after the last one the ids of the rows are read.
StoreSeries(y) ==
  /\ Stores(y, "series")
  /\ LET run == [librarySync[y] EXCEPT !.seen = @ \cup librarySync[y].fetched, !.fetched = Unmirrored]
     IN /\ mirrored' = mirrored \cup librarySync[y].fetched
        /\ Continues(y,
             IF Cardinality(librarySync[y].fetched) = LibraryPage
             THEN [run EXCEPT !.start = @ + LibraryPage]
             ELSE [run EXCEPT !.phase = "episodes", !.known = mirrored', !.left = run.seen])
  /\ UNCHANGED <<upstreamVars, copies, looping>>

\* The episodes of a batch of series, here of one; none if it has gone.
FetchEpisodes(y, s) ==
  /\ At(y, "episodes") /\ s \in librarySync[y].left
  /\ Fetches(y, "episodes", IF s \in ToSet(shelf) THEN <<s, subtitles[s]>> ELSE <<s, Unmirrored>>)

\* Mutant of StoreEpisodes: an episode that is there is not touched.
StoreNewEpisodes(y) ==
  /\ Stores(y, "episodes")
  /\ LET s == librarySync[y].fetched[1]  version == librarySync[y].fetched[2]
     IN /\ version # Unmirrored => s \notin librarySync[y].lost
        /\ copies' = [copies EXCEPT ![s] = IF s \in librarySync[y].known /\ @ = Unmirrored
                                           THEN version ELSE @]
        /\ Continues(y, [librarySync[y] EXCEPT !.left = @ \ {s}, !.fetched = Unmirrored])
  /\ UNCHANGED <<upstreamVars, mirrored, looping>>

\* _store_episodes: the rows are upserted and their subtitles replaced, if the
\* series had a row; one whose row has gone since then fails the statement: see
\* SyncRaises.
StoreEpisodes(y) ==
  /\ Stores(y, "episodes")
  /\ LET s == librarySync[y].fetched[1]  version == librarySync[y].fetched[2]
     IN /\ version # Unmirrored => s \notin librarySync[y].lost
        /\ copies' = [copies EXCEPT ![s] = IF s \in librarySync[y].known /\ version # Unmirrored
                                           THEN version ELSE @]
        /\ Continues(y, [librarySync[y] EXCEPT !.left = @ \ {s}, !.fetched = Unmirrored])
  /\ UNCHANGED <<upstreamVars, mirrored, looping>>

\* The movies and their subtitles, a page of all of them here.
FetchMovies(y) ==
  /\ At(y, "episodes") /\ librarySync[y].left = {}
  /\ Continues(y, [librarySync[y] EXCEPT !.phase = "movies", !.fetched = [f \in films |-> subtitles[f]]])
  /\ UNCHANGED <<upstreamVars, mirrored, copies, looping>>

StoreMovies(y) ==
  /\ Stores(y, "movies")
  /\ copies' = [m \in Shows \cup Films |->
       IF m \in DOMAIN librarySync[y].fetched THEN librarySync[y].fetched[m] ELSE copies[m]]
  /\ Continues(y, [librarySync[y] EXCEPT !.phase = "vanished", !.fetched = Unmirrored])
  /\ UNCHANGED <<upstreamVars, mirrored, looping>>

\* Mutant of RemoveVanished: nothing is removed.
RemoveNone(y) ==
  /\ At(y, "vanished") /\ librarySync[y].full
  /\ Continues(y, [librarySync[y] EXCEPT !.phase = "done"])
  /\ UNCHANGED <<upstreamVars, mirrored, copies, looping>>

\* _remove_vanished_series: the episodes go with their series, by cascade.
\* Movies that have gone stay.
RemoveVanished(y) ==
  /\ At(y, "vanished") /\ librarySync[y].full
  /\ mirrored' = mirrored \cap librarySync[y].seen
  /\ copies' = [m \in Shows \cup Films |->
       IF m \in Films \/ m \in mirrored' THEN copies[m] ELSE Unmirrored]
  /\ librarySync' = [z \in LibrarySyncs |->
       IF z = y THEN [librarySync[y] EXCEPT !.phase = "done"]
       ELSE IF librarySync[z] = NoSync THEN NoSync
       ELSE [librarySync[z] EXCEPT !.lost = @ \cup (librarySync[z].known \ mirrored')]]
  /\ UNCHANGED <<upstreamVars, looping>>

SyncIsOver(y) == At(y, "done") \/ (At(y, "vanished") /\ ~ librarySync[y].full)

FinishLibrarySync(y) ==
  /\ SyncIsOver(y)
  /\ Continues(y, NoSync)
  /\ UNCHANGED <<upstreamVars, mirrored, copies, looping>>

\* A request or a statement fails, and what was committed stays.  If that rolls
\* back an open transaction, the loop cannot read the instance's name any more
\* for its log, and its task ends: see SyncTriggers.
SyncRaises(y) ==
  /\ librarySync[y] # NoSync /\ ~ SyncIsOver(y)
  /\ Continues(y, NoSync)
  /\ looping' \in IF y = LibraryLoop THEN {looping, FALSE} ELSE {looping}
  /\ UNCHANGED <<upstreamVars, mirrored, copies>>

LibraryRestart ==
  /\ ~ looping /\ looping' = TRUE
  /\ librarySync' = [y \in LibrarySyncs |-> NoSync]
  /\ UNCHANGED <<upstreamVars, mirrored, copies>>

LibrarySyncSteps(y) ==
  \/ FetchSeries(y) \/ StoreSeries(y)
  \/ \E s \in Shows : FetchEpisodes(y, s)
  \/ StoreEpisodes(y) \/ FetchMovies(y) \/ StoreMovies(y)
  \/ RemoveVanished(y) \/ FinishLibrarySync(y)
-----------------------------------------------------------------------------
\* Bazarr's library changes.
Changes ==
  /\ changes < MaxChanges /\ changes' = changes + 1
  /\ librarySync' = [y \in LibrarySyncs |-> IF librarySync[y] = NoSync THEN NoSync
                                            ELSE [librarySync[y] EXCEPT !.calm = FALSE]]
  /\ UNCHANGED <<mirrored, copies, looping>>

ShowArrives(s) ==
  /\ Changes /\ s \notin ToSet(shelf)
  /\ \E k \in 1 .. Len(shelf) + 1 : shelf' = InsertAt(shelf, k, s)
  /\ UNCHANGED <<subtitles, films>>

ShowLeaves(k) ==
  /\ Changes /\ shelf' = RemoveAt(shelf, k)
  /\ UNCHANGED <<subtitles, films>>

FilmTurns(f) ==
  /\ Changes /\ films' = (films \ {f}) \cup ({f} \ films)
  /\ UNCHANGED <<shelf, subtitles>>

SubtitlesChange(m) ==
  /\ Changes /\ m \in ToSet(shelf) \cup films
  /\ subtitles' = [subtitles EXCEPT ![m] = @ + 1]
  /\ UNCHANGED <<shelf, films>>

LibraryNext ==
  \/ LibraryRestart
  \/ \E y \in LibrarySyncs :
       \/ StartLibrarySync(y, FALSE)
       \/ y # LibraryLoop /\ StartLibrarySync(y, TRUE)
       \/ LibrarySyncSteps(y) \/ SyncRaises(y)
  \/ \E m \in Shows \cup Films : SubtitlesChange(m)
  \/ \E s \in Shows : ShowArrives(s)
  \/ \E f \in Films : FilmTurns(f)
  \/ \E k \in DOMAIN shelf : ShowLeaves(k)

LibrarySpec == LibraryInit /\ [][LibraryNext]_libraryVars
-----------------------------------------------------------------------------
\* What is listed upstream, and stored as it is there.
Current(m) == copies[m] = subtitles[m] /\ (m \in Shows => m \in mirrored)

\* "full also removes rows that disappeared upstream" (sync_library): a full sync
\* in which nothing changed and nobody else synced leaves the mirror of the
\* series exact, and has every movie.
FullSyncIsExact ==
  [][\A y \in LibrarySyncs : (At(y, "vanished") /\ librarySync[y].full
                              /\ librarySync[y].calm /\ (At(y, "done"))')
       => /\ mirrored' = ToSet(shelf)
          /\ \A m \in Shows \cup films : m \in films \/ m \in ToSet(shelf) => Current(m)'
          /\ \A s \in Shows \ ToSet(shelf) : copies'[s] = Unmirrored]_libraryVars

\* "The next library sync heals" (sync_wanted): whatever syncs overlap, fail, or
\* store what is out of date, once the library rests and the loop runs without
\* failure the mirror has all of it, as it is, for good.
MirrorCatchesUp ==
  <>[]looping /\ <>[][~ SyncRaises(LibraryLoop)]_libraryVars
    => \A m \in Shows \cup Films : <>[](m \in films \cup ToSet(shelf) => Current(m))

\* "full also removes rows that disappeared upstream": a movie that is not there
\* any more does not outlive a full sync. Not so: only series are removed.
FullSyncRemovesFilms ==
  [][\A y \in LibrarySyncs : (At(y, "vanished") /\ librarySync[y].full
                              /\ librarySync[y].calm /\ (At(y, "done"))')
       => \A f \in Films \ films : copies'[f] = Unmirrored]_libraryVars

\* A series that is there as long as a full sync runs is not removed by it. Not so:
\* one that shifts between two pages is not seen.
PresentIsKept ==
  [][\A s \in ToSet(shelf) : s \in mirrored => s \in mirrored']_libraryVars
=============================================================================
