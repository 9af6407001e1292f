-------------------------- MODULE MirrorProofs --------------------------
(***************************************************************************)
(* Proofs about the two mirrors, for every list, library and size of a     *)
(* page. WantedMirror where one pass runs at a time and Bazarr's list      *)
(* stands still while it is read; LibraryMirror for any number of syncs at *)
(* once, of which a calm one is exact. Of what happens otherwise, TLC has  *)
(* counterexamples.                                                        *)
(***************************************************************************)
EXTENDS WantedMirror, LibraryMirror, FiniteSetTheorems, SequenceTheorems, TLAPS

Steady == Quiet /\ \E s : Syncers = {s}

-----------------------------------------------------------------------------
(* Lists.                                                                  *)

\* A list without repetition is a sequence.
LEMMA PermutationIsList ==
  ASSUME NEW S, IsFiniteSet(S), NEW l \in SetToAllKPermutations(S)
  PROVE  l \in Seq(S) /\ IsInjective(l)
<1>1. PICK T \in SUBSET S :
        /\ l \in [1..Cardinality(T) -> T]
        /\ \A i, j \in 1..Cardinality(T) : i # j => l[i] # l[j]
    BY DEF SetToAllKPermutations, SetToSeqs
<1>2. Cardinality(T) \in Nat
    BY <1>1, FS_Subset, FS_CardinalityType
<1>3. l \in [1..Cardinality(T) -> S]
    BY <1>1
<1>4. QED
    BY <1>1, <1>2, <1>3 DEF IsInjective

\* What a list looks like around a new entry.
Gains(new, l, S, at, w) ==
  /\ new \in Seq(S) /\ Len(new) = Len(l) + 1 /\ new[at + 1] = w
  /\ \A j \in 1..at : new[j] = l[j]
  /\ \A j \in 1..Len(l) - at : new[at + 1 + j] = l[at + j]

LEMMA Inserted ==
  ASSUME NEW S, NEW l \in Seq(S), NEW at \in 0..Len(l), NEW w \in S
  PROVE  Gains(InsertAt(l, at + 1, w), l, S, at, w)
<1> DEFINE front == SubSeq(l, 1, (at + 1) - 1)
           back == SubSeq(l, at + 1, Len(l))
           new == (front \o <<w>>) \o back
<1>1. InsertAt(l, at + 1, w) = new
    BY DEF InsertAt
<1>2. /\ front \in Seq(S) /\ Len(front) = at
      /\ \A j \in 1..at : front[j] = l[j]
    BY SubSeqProperties
<1>3. /\ back \in Seq(S) /\ Len(back) = Len(l) - at
      /\ \A j \in 1..Len(l) - at : back[j] = l[at + j]
    BY SubSeqProperties
<1> HIDE DEF front, back
<1>4. /\ front \o <<w>> \in Seq(S) /\ Len(front \o <<w>>) = at + 1
      /\ (front \o <<w>>)[at + 1] = w
      /\ \A j \in 1..at : (front \o <<w>>)[j] = front[j]
    BY <1>2
<1>5. /\ new \in Seq(S) /\ Len(new) = Len(l) + 1
      /\ \A j \in 1..at + 1 : new[j] = (front \o <<w>>)[j]
      /\ \A j \in 1..Len(l) - at : new[at + 1 + j] = back[j]
    BY <1>3, <1>4
<1> HIDE DEF new
<1>6. QED
    BY <1>1, <1>2, <1>3, <1>4, <1>5 DEF Gains

\* A new entry displaces no other.
LEMMA InsertKeeps ==
  ASSUME NEW S, NEW l \in Seq(S), NEW at \in 0..Len(l), NEW w \in S
  PROVE  /\ InsertAt(l, at + 1, w) \in Seq(S)
         /\ ToSet(l) \subseteq ToSet(InsertAt(l, at + 1, w))
<1> DEFINE new == InsertAt(l, at + 1, w)
<1>1. /\ new \in Seq(S) /\ Len(new) = Len(l) + 1
      /\ \A j \in 1..at : new[j] = l[j]
      /\ \A j \in 1..Len(l) - at : new[at + 1 + j] = l[at + j]
    <2>1. Gains(InsertAt(l, at + 1, w), l, S, at, w)
        BY Inserted
    <2>2. QED
        BY <2>1 DEF Gains
<1> HIDE DEF new
<1>2. ASSUME NEW j \in 1..Len(l) PROVE \E k \in 1..Len(new) : new[k] = l[j]
    <2>1. CASE j <= at
        BY <1>1, <2>1
    <2>2. CASE j > at
        <3>1. j - at \in 1..Len(l) - at /\ at + 1 + (j - at) \in 1..Len(new)
            BY <1>1, <2>2
        <3>2. at + (j - at) = j
            OBVIOUS
        <3>3. new[at + 1 + (j - at)] = l[j]
            BY <1>1, <3>1, <3>2
        <3>4. QED
            BY <3>1, <3>3
    <2>3. QED
        BY <2>1, <2>2
<1>3. QED
    BY <1>1, <1>2 DEF ToSet, new

\* And a list has none twice if it had none twice, and not the new one.
LEMMA InsertIsInjective ==
  ASSUME NEW S, NEW l \in Seq(S), IsInjective(l), NEW at \in 0..Len(l), NEW w \in S,
         w \notin ToSet(l)
  PROVE  IsInjective(InsertAt(l, at + 1, w))
<1> DEFINE new == InsertAt(l, at + 1, w)
           old(j) == IF j <= at THEN j ELSE j - 1
<1>1. /\ new \in Seq(S) /\ Len(new) = Len(l) + 1 /\ new[at + 1] = w
      /\ \A j \in 1..at : new[j] = l[j]
      /\ \A j \in 1..Len(l) - at : new[at + 1 + j] = l[at + j]
    <2>1. Gains(InsertAt(l, at + 1, w), l, S, at, w)
        BY Inserted
    <2>2. QED
        BY <2>1 DEF Gains
<1> HIDE DEF new
<1>2. ASSUME NEW j \in 1..Len(new), j # at + 1 PROVE old(j) \in DOMAIN l /\ new[j] = l[old(j)]
    <2>1. CASE j <= at
        BY <1>1, <2>1
    <2>2. CASE j > at + 1
        <3>1. /\ j - (at + 1) \in 1..Len(l) - at
              /\ at + 1 + (j - (at + 1)) = j /\ at + (j - (at + 1)) = j - 1
            BY <1>1, <2>2
        <3>2. new[j] = l[j - 1]
            BY <1>1, <3>1
        <3>3. j - 1 \in DOMAIN l
            BY <1>1, <2>2
        <3>4. QED
            BY <2>2, <3>2, <3>3
    <2>3. QED
        BY <1>2, <2>1, <2>2
<1>3. \A j \in 1..Len(new) : j # at + 1 => new[j] # w
    BY <1>2 DEF ToSet
<1>4. ASSUME NEW i \in 1..Len(new), NEW j \in 1..Len(new), new[i] = new[j] PROVE i = j
    <2>1. CASE i = at + 1 \/ j = at + 1
        BY <1>1, <1>3, <1>4, <2>1
    <2>2. CASE i # at + 1 /\ j # at + 1
        <3>1. old(i) \in DOMAIN l /\ old(j) \in DOMAIN l /\ l[old(i)] = l[old(j)]
            BY <1>2, <1>4, <2>2
        <3>2. old(i) = old(j)
            <4> HIDE DEF old
            <4>1. QED
                BY <3>1 DEF IsInjective
        <3>3. QED
            BY <2>2, <3>2
    <2>3. QED
        BY <2>1, <2>2
<1>5. DOMAIN new = 1..Len(new)
    BY <1>1
<1>6. QED
    BY <1>4, <1>5 DEF IsInjective, new

\* What a list looks like without one of its entries.
LEMMA Removed ==
  ASSUME NEW S, NEW l \in Seq(S), NEW i \in 1..Len(l)
  PROVE  LET new == RemoveAt(l, i)
         IN /\ new \in Seq(S) /\ Len(new) = Len(l) - 1
            /\ \A j \in 1..i - 1 : new[j] = l[j]
            /\ \A j \in 1..Len(l) - i : new[i - 1 + j] = l[i + j]
<1> DEFINE front == SubSeq(l, 1, i - 1)
           back == SubSeq(l, i + 1, Len(l))
           new == front \o back
<1>1. RemoveAt(l, i) = new
    BY DEF RemoveAt
<1>2. /\ front \in Seq(S) /\ Len(front) = i - 1
      /\ \A j \in 1..i - 1 : front[j] = l[j]
    BY SubSeqProperties
<1>3. /\ back \in Seq(S) /\ Len(back) = Len(l) - i
      /\ \A j \in 1..Len(l) - i : back[j] = l[i + j]
    BY SubSeqProperties
<1> HIDE DEF front, back
<1>4. /\ new \in Seq(S) /\ Len(new) = Len(front) + Len(back)
      /\ \A j \in 1..Len(front) : new[j] = front[j]
      /\ \A j \in 1..Len(back) : new[Len(front) + j] = back[j]
    <2>1. front \in Seq(S) /\ back \in Seq(S)
        BY <1>2, <1>3
    <2>2. QED
        BY ONLY <2>1
<1> HIDE DEF new
<1>5. QED
    BY <1>1, <1>2, <1>3, <1>4

\* An entry that goes takes no other with it.
LEMMA RemoveKeeps ==
  ASSUME NEW S, NEW l \in Seq(S), NEW i \in 1..Len(l)
  PROVE  /\ RemoveAt(l, i) \in Seq(S)
         /\ ToSet(l) \subseteq ToSet(RemoveAt(l, i)) \cup {l[i]}
<1> DEFINE new == RemoveAt(l, i)
<1>1. /\ new \in Seq(S) /\ Len(new) = Len(l) - 1
      /\ \A j \in 1..i - 1 : new[j] = l[j]
      /\ \A j \in 1..Len(l) - i : new[i - 1 + j] = l[i + j]
    BY Removed
<1> HIDE DEF new
<1>2. ASSUME NEW j \in 1..Len(l), j # i PROVE \E k \in 1..Len(new) : new[k] = l[j]
    <2>1. CASE j < i
        BY <1>1, <2>1
    <2>2. CASE j > i
        <3>1. j - i \in 1..Len(l) - i /\ i - 1 + (j - i) \in 1..Len(new)
            BY <1>1, <2>2
        <3>2. i + (j - i) = j
            OBVIOUS
        <3>3. new[i - 1 + (j - i)] = l[j]
            BY <1>1, <3>1, <3>2
        <3>4. QED
            BY <3>1, <3>3
    <2>3. QED
        BY <1>2, <2>1, <2>2
<1>3. ASSUME NEW v \in ToSet(l), v # l[i] PROVE v \in ToSet(new)
    <2>1. PICK j \in 1..Len(l) : l[j] = v
        BY DEF ToSet
    <2>2. PICK k \in 1..Len(new) : new[k] = v
        BY <1>2, <1>3, <2>1
    <2>3. k \in DOMAIN new
        BY <1>1
    <2>4. QED
        BY <2>2, <2>3 DEF ToSet
<1>4. QED
    BY <1>1, <1>3 DEF new

\* And leaves none twice.
LEMMA RemoveIsInjective ==
  ASSUME NEW S, NEW l \in Seq(S), IsInjective(l), NEW i \in 1..Len(l)
  PROVE  IsInjective(RemoveAt(l, i))
<1> DEFINE new == RemoveAt(l, i)
           old(j) == IF j < i THEN j ELSE j + 1
<1>1. /\ new \in Seq(S) /\ Len(new) = Len(l) - 1
      /\ \A j \in 1..i - 1 : new[j] = l[j]
      /\ \A j \in 1..Len(l) - i : new[i - 1 + j] = l[i + j]
    BY Removed
<1> HIDE DEF new
<1>2. ASSUME NEW j \in 1..Len(new) PROVE old(j) \in DOMAIN l /\ new[j] = l[old(j)]
    <2>1. CASE j < i
        BY <1>1, <2>1
    <2>2. CASE j >= i
        <3>1. /\ j + 1 - i \in 1..Len(l) - i
              /\ i - 1 + (j + 1 - i) = j /\ i + (j + 1 - i) = j + 1
            BY <1>1, <2>2
        <3>2. new[j] = l[j + 1]
            BY <1>1, <3>1
        <3>3. j + 1 \in DOMAIN l
            BY <1>1, <2>2
        <3>4. QED
            BY <2>2, <3>2, <3>3
    <2>3. QED
        BY <2>1, <2>2
<1>3. ASSUME NEW j \in 1..Len(new), NEW k \in 1..Len(new), new[j] = new[k] PROVE j = k
    <2>1. old(j) \in DOMAIN l /\ old(k) \in DOMAIN l /\ l[old(j)] = l[old(k)]
        BY <1>2, <1>3
    <2>2. old(j) = old(k)
        <3> HIDE DEF old
        <3>1. QED
            BY <2>1 DEF IsInjective
    <2>3. QED
        BY <2>2
<1>4. DOMAIN new = 1..Len(new)
    BY <1>1
<1>5. QED
    BY <1>3, <1>4 DEF IsInjective, new

-----------------------------------------------------------------------------
(* The inductive invariant.                                                *)

Steps == {"rest", "fetch", "store", "delete", "hook", "discover", "withdraw"}

Where == [at : Steps, kind : Kinds, start : Nat, page : SUBSET Wants,
          last : BOOLEAN, since : Nat]

Typed ==
  /\ bazarr \in [Kinds -> Seq(Wants)]
  /\ gone \subseteq Wants /\ library \subseteq Wants
  /\ stamp \in [Wants -> Nat] /\ clock \in Nat
  /\ sync \in [Syncers -> Where]
  /\ intent \in [Wants -> {"none", "open", "withdrawn"}]

\* The first n entries of a list that the library knows carry the pass's stamp.
Covered(s, k, n) ==
  \A i \in 1..Len(bazarr[k]) :
    i <= n /\ bazarr[k][i] \in library => stamp[bazarr[k][i]] = sync[s].since

\* A pass has stored the pages up to the one it is at.
PagesStored ==
  \A s \in Reading :
    /\ sync[s].since = clock /\ clock > 0
    /\ sync[s].at # "delete" => Covered(s, sync[s].kind, sync[s].start)
    /\ sync[s].at = "delete" \/ sync[s].kind = "movie" =>
         Covered(s, "episode", Len(bazarr["episode"]))
    /\ sync[s].at = "delete" => Covered(s, "movie", Len(bazarr["movie"]))

\* The page at hand is the next one of the list.
PageIsNext ==
  \A s \in Syncers : sync[s].at = "store" =>
    LET list == bazarr[sync[s].kind] IN
    /\ sync[s].page \subseteq ToSet(list)
    /\ \A i \in 1..Len(list) :
         sync[s].start < i /\ i <= sync[s].start + PageSize => list[i] \in sync[s].page
    /\ sync[s].last => Len(list) < sync[s].start + PageSize

\* A mirrored want is in the library, and is wanted or has been met; while a pass
\* reads, those it has stamped are wanted.
MirrorIsTrue ==
  /\ \A w \in Wants : /\ stamp[w] <= clock
                      /\ stamp[w] > 0 => w \in library /\ w \in Wanted \cup gone
  /\ Reading # {} => \A w \in Wants : stamp[w] = clock => w \in Wanted

\* An open intent whose want is not mirrored, or a withdrawn one, has been met.
LedgerIsTrue ==
  \A w \in Wants : \/ intent[w] = "withdrawn"
                   \/ intent[w] = "open" /\ stamp[w] = 0
                   => w \in gone

WantedInv == Typed /\ PagesStored /\ PageIsNext /\ MirrorIsTrue /\ LedgerIsTrue

LEMMA PageSizeType == PageSize \in Nat /\ PageSize > 0
BY WantedMirrorAssumption

LEMMA AtRestType == AtRest \in Where
BY DEF AtRest, Where, Steps, Kinds

\* Nothing is mirrored at first, and no pass runs.
LEMMA WantedInvInit == WantedInit => WantedInv
<1> SUFFICES ASSUME WantedInit PROVE WantedInv
    OBVIOUS
<1>1. bazarr \in [Kinds -> Seq(Wants)]
    BY WantedMirrorAssumption, PermutationIsList DEF WantedInit
<1>2. Typed
    BY <1>1, AtRestType DEF WantedInit, Typed
<1>3. \A s \in Syncers : sync[s].at = "rest"
    BY DEF WantedInit, AtRest
<1>4. QED
    BY <1>2, <1>3
       DEF WantedInit, WantedInv, Typed, PagesStored, PageIsNext, MirrorIsTrue,
           LedgerIsTrue, Reading

\* Where only the syncer's place in its hook changes, everything stays true.
LEMMA BesideTheMirror ==
  ASSUME WantedInv, NEW s \in Syncers, NEW w \in Where,
         w.at \notin {"fetch", "store", "delete"},
         sync' = [sync EXCEPT ![s] = w],
         UNCHANGED <<bazarr, gone, library, stamp, clock>>,
         intent' \in [Wants -> {"none", "open", "withdrawn"}],
         LedgerIsTrue'
  PROVE  WantedInv'
<1>1. /\ sync'[s] = w /\ \A r \in Syncers \ {s} : sync'[r] = sync[r]
      /\ sync' \in [Syncers -> Where]
    BY DEF WantedInv, Typed
<1>2. Typed'
    BY <1>1 DEF WantedInv, Typed
<1>3. Reading' \subseteq Reading
    BY <1>1 DEF Reading
<1>4. \A r \in Reading' : r \in Reading /\ sync'[r] = sync[r]
    BY <1>1, <1>3 DEF Reading
<1>5. PagesStored'
    BY <1>4 DEF WantedInv, PagesStored, Covered
<1>6. PageIsNext'
    BY <1>1 DEF WantedInv, PageIsNext
<1>7. MirrorIsTrue'
    BY <1>3 DEF WantedInv, MirrorIsTrue, Wanted
<1>8. QED
    BY <1>2, <1>5, <1>6, <1>7 DEF WantedInv

\* Nobody reads while the list or the library changes.
LEMMA OutsideReading ==
  ASSUME Steady, WantedInv, MayChange
  PROVE  Reading = {} /\ \A s \in Syncers : sync[s].at # "store"
BY DEF Steady, MayChange, Reading

\* A pass starts with a stamp of its own.
LEMMA StartSyncStep ==
  ASSUME Steady, WantedInv, NEW s \in Syncers, StartSync(s) PROVE WantedInv'
<1> DEFINE w == [AtRest EXCEPT !.at = "fetch", !.since = clock + 1]
<1>1. /\ clock' = clock + 1 /\ sync' = [sync EXCEPT ![s] = w]
      /\ UNCHANGED <<bazarr, gone, library, stamp, intent>>
    BY DEF StartSync
<1>2. /\ AtRest \in Where /\ AtRest.kind = "episode" /\ AtRest.start = 0
      /\ clock + 1 \in Nat
    <2>1. clock \in Nat
        BY DEF WantedInv, Typed
    <2>2. QED
        BY <2>1, AtRestType DEF AtRest
<1>3. /\ w \in Where /\ w.at = "fetch" /\ w.kind = "episode" /\ w.start = 0
      /\ w.since = clock + 1
    BY <1>2 DEF Where, Steps
<1> HIDE DEF w
<1>4. Syncers = {s} /\ sync'[s] = w
    BY <1>1 DEF Steady, WantedInv, Typed
<1>5. Typed'
    BY <1>1, <1>2, <1>3 DEF WantedInv, Typed
<1>6. PagesStored'
    BY <1>1, <1>3, <1>4 DEF WantedInv, Typed, PagesStored, Covered, Reading
<1>7. PageIsNext'
    BY <1>3, <1>4 DEF PageIsNext
<1>8. MirrorIsTrue'
    BY <1>1 DEF WantedInv, Typed, MirrorIsTrue, Wanted
<1>9. LedgerIsTrue'
    BY <1>1 DEF WantedInv, LedgerIsTrue
<1>10. QED
    BY <1>5, <1>6, <1>7, <1>8, <1>9 DEF WantedInv

\* While a pass reads, only where it is changes; the mirror and ledger stay true.
LEMMA StillReading ==
  ASSUME Steady, WantedInv, NEW s \in Syncers, s \in Reading, NEW w \in Where,
         sync' = [sync EXCEPT ![s] = w],
         UNCHANGED <<bazarr, gone, library, stamp, clock, intent>>
  PROVE  /\ Typed' /\ MirrorIsTrue' /\ LedgerIsTrue'
         /\ Syncers = {s} /\ sync'[s] = w
<1>1. Syncers = {s} /\ sync'[s] = w
    BY DEF Steady, WantedInv, Typed
<1>2. Typed'
    BY DEF WantedInv, Typed
<1>3. MirrorIsTrue'
    BY DEF WantedInv, MirrorIsTrue, Wanted
<1>4. LedgerIsTrue'
    BY DEF WantedInv, LedgerIsTrue
<1>5. QED
    BY <1>1, <1>2, <1>3, <1>4

\* After the last page of a kind, that kind is covered.
LEMMA NextKindCovers ==
  ASSUME WantedInv, NEW s \in Syncers, s \in Reading, sync[s].at # "delete"
  PROVE  /\ NextKind(s) \in Where /\ NextKind(s).since = sync[s].since
         /\ \/ /\ sync[s].kind = "episode" /\ NextKind(s).at = "fetch"
               /\ NextKind(s).kind = "movie" /\ NextKind(s).start = 0
            \/ /\ sync[s].kind = "movie" /\ NextKind(s).at = "delete"
<1>1. sync[s] \in Where
    BY DEF WantedInv, Typed
<1>2. CASE sync[s].kind = "episode"
    BY <1>1, <1>2 DEF NextKind, Where, Steps, Kinds
<1>3. CASE sync[s].kind # "episode"
    BY <1>1, <1>3 DEF NextKind, Where, Steps, Kinds
<1>4. QED
    BY <1>2, <1>3

\* A page taken up.
TakesUp(r, p, f) == [r EXCEPT !.at = "store", !.page = p, !.last = f]

LEMMA WithPage ==
  ASSUME NEW r \in Where, NEW p \in SUBSET Wants, NEW f \in BOOLEAN
  PROVE  /\ TakesUp(r, p, f) \in Where /\ TakesUp(r, p, f).at = "store"
         /\ TakesUp(r, p, f).kind = r.kind /\ TakesUp(r, p, f).start = r.start
         /\ TakesUp(r, p, f).page = p /\ TakesUp(r, p, f).last = f
         /\ TakesUp(r, p, f).since = r.since
<1>1. TakesUp(r, p, f) \in Where
    BY DEF TakesUp, Where, Steps
<1>2. QED
    BY <1>1 DEF TakesUp, Where

\* The page read is the next one; an empty one ends the kind.
LEMMA FetchPageStep ==
  ASSUME Steady, WantedInv, NEW s \in Syncers, FetchPage(s) PROVE WantedInv'
<1> DEFINE k == sync[s].kind
           list == bazarr[k]
           start == sync[s].start
           end == IF start + PageSize < Len(list) THEN start + PageSize ELSE Len(list)
           page == ToSet(SubSeq(list, start + 1, end))
           stored == [sync[s] EXCEPT !.at = "store", !.page = page,
                                     !.last = end < start + PageSize]
<1>1. /\ sync[s].at = "fetch" /\ s \in Reading
      /\ sync' = [sync EXCEPT ![s] = IF page = {} THEN NextKind(s) ELSE stored]
      /\ UNCHANGED <<bazarr, gone, library, stamp, clock, intent>>
    BY DEF FetchPage, Reading
<1>2. /\ sync[s] \in Where /\ list \in Seq(Wants) /\ start \in Nat /\ k \in Kinds
      /\ Len(list) \in Nat /\ PageSize \in Nat /\ PageSize > 0
    BY PageSizeType DEF WantedInv, Typed, Where
<1>3. /\ end \in Nat /\ end <= Len(list)
      /\ \A x : x \in page <=> \E i \in start + 1 .. end : list[i] = x
    <2>1. /\ end \in Nat /\ end <= Len(list)
        BY <1>2
    <2> HIDE DEF end, start, list
    <2> DEFINE part == SubSeq(list, start + 1, end)
    <2>2. /\ part \in Seq(Wants)
          /\ Len(part) = IF start + 1 <= end THEN end - start ELSE 0
          /\ \A j \in 1..end - start : part[j] = list[start + j]
        BY <1>2, <2>1
    <2> HIDE DEF part
    <2>3. DOMAIN part = 1..Len(part) /\ Len(part) \in Nat
        BY <2>2
    <2>4. ASSUME NEW x \in ToSet(part) PROVE \E i \in start + 1 .. end : list[i] = x
        <3>1. PICK j \in 1..Len(part) : part[j] = x
            BY <2>3 DEF ToSet
        <3>2. j \in 1..end - start /\ start + j \in start + 1 .. end
            BY <1>2, <2>1, <2>2, <3>1
        <3>3. QED
            BY <2>2, <3>1, <3>2
    <2>5. ASSUME NEW i \in start + 1 .. end PROVE list[i] \in ToSet(part)
        <3>1. i - start \in 1..end - start /\ i - start \in 1..Len(part)
              /\ start + (i - start) = i
            BY <1>2, <2>1, <2>2
        <3>2. part[i - start] = list[i]
            BY <2>2, <3>1
        <3>3. QED
            BY <2>3, <3>1, <3>2 DEF ToSet
    <2>6. QED
        BY <2>1, <2>4, <2>5 DEF part
<1>4. CASE page = {}
    <2>1. sync' = [sync EXCEPT ![s] = NextKind(s)]
        BY <1>1, <1>4
    <2>2. NextKind(s) \in Where
        BY <1>1, NextKindCovers
    <2>3. /\ Typed' /\ MirrorIsTrue' /\ LedgerIsTrue'
          /\ Syncers = {s} /\ sync'[s] = NextKind(s)
        BY <1>1, <2>1, <2>2, StillReading
    <2>4. Len(list) <= start
        <3>1. start + 1 \notin start + 1 .. end
            BY <1>3, <1>4
        <3>2. ~ start + 1 <= end
            BY <1>2, <1>3, <3>1
        <3>3. QED
            BY <1>2, <3>2
    <2>5. Covered(s, k, Len(list))
        <3>1. Covered(s, k, start)
            BY <1>1 DEF WantedInv, PagesStored
        <3>2. QED
            BY <1>2, <2>4, <3>1 DEF Covered
    <2>6. PagesStored'
        <3> DEFINE next == NextKind(s)
        <3>1. /\ next.since = clock /\ k \in Kinds
              /\ \/ k = "episode" /\ next.at = "fetch" /\ next.kind = "movie" /\ next.start = 0
                 \/ k = "movie" /\ next.at = "delete"
            BY <1>1, <1>2, NextKindCovers DEF WantedInv, PagesStored
        <3>2. k = "movie" => Covered(s, "episode", Len(bazarr["episode"]))
            BY <1>1 DEF WantedInv, PagesStored
        <3>3. \A j, n : j \in Kinds /\ sync[s].since = clock /\ Covered(s, j, n) => Covered(s, j, n)'
            BY <1>1, <2>3, <3>1 DEF Covered
        <3>4. Reading' \subseteq {s} /\ sync[s].since = clock /\ clock > 0 /\ clock' = clock
            BY <1>1, <2>3 DEF Reading, WantedInv, PagesStored
        <3>5. k = "episode" => Covered(s, "episode", Len(bazarr["episode"]))'
            BY <1>1, <2>5, <3>3, <3>4 DEF Kinds
        <3>6. k = "movie" => /\ Covered(s, "movie", Len(bazarr["movie"]))'
                            /\ Covered(s, "episode", Len(bazarr["episode"]))'
            BY <1>1, <2>5, <3>2, <3>3, <3>4 DEF Kinds
        <3>7. Covered(s, "movie", 0)'
            BY <1>1, <1>2 DEF Covered, WantedInv, Typed
        <3> HIDE DEF next
        <3>8. QED
            BY <1>1, <2>3, <3>1, <3>4, <3>5, <3>6, <3>7 DEF PagesStored, next
    <2>7. PageIsNext'
        BY <1>1, <2>3, NextKindCovers DEF PageIsNext
    <2>8. QED
        BY <2>3, <2>6, <2>7 DEF WantedInv
<1>5. CASE page # {}
    <2>1. sync' = [sync EXCEPT ![s] = stored]
        BY <1>1, <1>5
    <2>2. ASSUME NEW x \in page PROVE x \in ToSet(list) /\ x \in Wants
        <3>1. PICK i \in start + 1 .. end : list[i] = x
            BY <1>3
        <3> HIDE DEF page, end, start, list
        <3>2. i \in 1..Len(list)
            BY <1>2, <1>3, <3>1
        <3>3. DOMAIN list = 1..Len(list)
            BY <1>2
        <3>4. QED
            BY <1>2, <3>1, <3>2, <3>3 DEF ToSet
    <2>3. page \subseteq ToSet(list) /\ page \subseteq Wants
        BY <2>2
    <2>4. /\ stored \in Where /\ stored.at = "store" /\ stored.kind = k
          /\ stored.start = start /\ stored.page = page
          /\ stored.last = (end < start + PageSize) /\ stored.since = sync[s].since
        <3> DEFINE full == end < start + PageSize
        <3>1. full \in BOOLEAN
            OBVIOUS
        <3> HIDE DEF page, full
        <3>2. sync[s] \in Where /\ page \in SUBSET Wants
            BY <1>2, <2>3
        <3>3. stored = TakesUp(sync[s], page, full)
            BY DEF TakesUp, full
        <3> HIDE DEF stored
        <3>4. /\ stored \in Where /\ stored.at = "store" /\ stored.kind = sync[s].kind
              /\ stored.start = sync[s].start /\ stored.page = page
              /\ stored.last = full /\ stored.since = sync[s].since
            BY ONLY <3>1, <3>2, <3>3, WithPage
        <3>5. QED
            BY <3>4, Zenon DEF full
    <2> HIDE DEF stored
    <2>5. /\ Typed' /\ MirrorIsTrue' /\ LedgerIsTrue'
          /\ Syncers = {s} /\ sync'[s] = stored
        BY <1>1, <2>1, <2>4, StillReading
    <2>6. PagesStored'
        <3>1. Reading' = {s} /\ Reading = {s}
            BY <1>1, <2>4, <2>5 DEF Reading
        <3>2. \A j, n : Covered(s, j, n) => Covered(s, j, n)'
            BY <1>1, <2>4, <2>5 DEF Covered
        <3>3. QED
            BY <1>1, <2>4, <2>5, <3>1, <3>2 DEF WantedInv, PagesStored
    <2>7. PageIsNext'
        <3>1. \A i \in 1..Len(list) :
                start < i /\ i <= start + PageSize => list[i] \in page
            BY <1>2, <1>3
        <3>2. end < start + PageSize => Len(list) < start + PageSize
            BY <1>2
        <3> HIDE DEF page, end
        <3>3. QED
            BY <1>1, <2>3, <2>4, <2>5, <3>1, <3>2 DEF PageIsNext
    <2>8. QED
        BY <2>5, <2>6, <2>7 DEF WantedInv
<1>6. QED
    BY <1>4, <1>5

\* A page is stored with the stamp of its pass, and the next one is due.
LEMMA StorePageStep ==
  ASSUME Steady, WantedInv, NEW s \in Syncers, StorePage(s) PROVE WantedInv'
<1>1. /\ sync[s].at = "store" /\ s \in Reading /\ Syncers = {s}
      /\ sync[s] \in Where
    BY DEF StorePage, Reading, Steady, WantedInv, Typed
<1>2. PICK k \in Kinds, start \in Nat, list \in Seq(Wants), last \in BOOLEAN :
        k = sync[s].kind /\ start = sync[s].start /\ list = bazarr[k]
        /\ last = sync[s].last
    BY <1>1 DEF Where, WantedInv, Typed
<1> DEFINE more == [sync[s] EXCEPT !.at = "fetch", !.start = sync[s].start + PageSize,
                                  !.page = {}]
           next == IF sync[s].last THEN NextKind(s) ELSE more
           upto == IF last THEN Len(list) ELSE start + PageSize
<1>3. /\ stamp' = [w \in Wants |-> IF w \in sync[s].page \cap library
                                   THEN sync[s].since ELSE stamp[w]]
      /\ UNCHANGED <<bazarr, gone, library, clock, intent>>
    BY DEF StorePage
<1>4. sync'[s] = next /\ sync' \in [Syncers -> {next}]
    <2>1. CASE sync[s].last
        <3>1. sync' = [sync EXCEPT ![s] = NextKind(s)]
            BY <2>1 DEF StorePage
        <3>2. QED
            BY <1>1, <2>1, <3>1 DEF WantedInv, Typed
    <2>2. CASE ~ sync[s].last
        <3>1. sync' = [sync EXCEPT ![s] = more]
            BY <2>2 DEF StorePage
        <3>2. QED
            BY <1>1, <2>2, <3>1 DEF WantedInv, Typed
    <2>3. QED
        BY <2>1, <2>2
<1>5. /\ Len(list) \in Nat /\ PageSize \in Nat /\ PageSize > 0
      /\ stamp \in [Wants -> Nat] /\ clock \in Nat /\ sync[s].since = clock /\ clock > 0
      /\ sync[s].page \subseteq Wants
    BY <1>1, PageSizeType DEF WantedInv, Typed, Where, PagesStored
<1>6. /\ more \in Where /\ more.at = "fetch" /\ more.kind = k
      /\ more.start = start + PageSize /\ more.since = clock
    <2>1. start + PageSize \in Nat
        BY <1>2, <1>5
    <2>2. QED
        BY <1>1, <1>2, <1>5, <2>1 DEF Where, Steps
<1>7. /\ NextKind(s) \in Where /\ NextKind(s).since = clock
      /\ \/ /\ k = "episode" /\ NextKind(s).at = "fetch"
            /\ NextKind(s).kind = "movie" /\ NextKind(s).start = 0
         \/ k = "movie" /\ NextKind(s).at = "delete"
    BY <1>1, <1>2, <1>3, <1>5, NextKindCovers
<1>8. /\ next \in Where /\ next.since = clock /\ next.at \in {"fetch", "delete"}
    BY <1>6, <1>7
<1>9. /\ stamp' \in [Wants -> Nat]
      /\ \A w \in Wants : stamp[w] = clock => stamp'[w] = clock
      /\ \A w \in sync[s].page \cap library : stamp'[w] = clock
      /\ \A w \in Wants : stamp'[w] = stamp[w] \/ (stamp'[w] = clock /\ w \in sync[s].page \cap library)
    BY <1>1, <1>2, <1>3, <1>5
<1>10. /\ sync[s].page \subseteq ToSet(list)
      /\ \A i \in 1..Len(list) :
           start < i /\ i <= start + PageSize => list[i] \in sync[s].page
    BY <1>1, <1>2, <1>3 DEF WantedInv, PageIsNext
<1>11. Typed'
    BY <1>1, <1>2, <1>3, <1>4, <1>8, <1>9 DEF WantedInv, Typed
<1>12. MirrorIsTrue'
    <2>1. \A w \in sync[s].page \cap library : w \in Wanted
        BY <1>2, <1>5, <1>10 DEF Wanted
    <2>2. Wanted' = Wanted
        BY <1>1, <1>2, <1>3 DEF Wanted
    <2>3. QED
        BY <1>1, <1>2, <1>3, <1>5, <1>9, <2>1, <2>2 DEF WantedInv, MirrorIsTrue
<1>13. LedgerIsTrue'
    <2>1. ASSUME NEW w \in Wants, stamp'[w] = 0, intent[w] = "open" PROVE w \in gone
        <3>1. CASE stamp'[w] = stamp[w]
            BY <2>1, <3>1 DEF WantedInv, LedgerIsTrue
        <3>2. CASE stamp'[w] = clock /\ w \in sync[s].page \cap library
            <4>1. stamp[w] = 0
                BY <1>2, <1>5, <2>1, <3>2 DEF WantedInv, MirrorIsTrue
            <4>2. QED
                BY <2>1, <4>1 DEF WantedInv, LedgerIsTrue
        <3>3. QED
            BY <1>9, <3>1, <3>2
    <2>2. QED
        BY <1>1, <1>2, <1>3, <2>1 DEF WantedInv, LedgerIsTrue
<1>14. /\ Covered(s, k, upto)'
       /\ \A j : Covered(s, j, Len(bazarr[j])) => Covered(s, j, Len(bazarr[j]))'
    <2>1. sync'[s].since = sync[s].since
        BY <1>2, <1>5, <1>4, <1>8
    <2>2. ASSUME NEW j, NEW i \in 1..Len(bazarr[j]), bazarr[j][i] \in library,
                 stamp[bazarr[j][i]] = clock
          PROVE stamp'[bazarr[j][i]] = clock
        BY <1>9, <2>2 DEF WantedInv, Typed
    <2>3. \A j : Covered(s, j, Len(bazarr[j])) => Covered(s, j, Len(bazarr[j]))'
        BY <1>1, <1>2, <1>3, <1>5, <2>1, <2>2 DEF Covered
    <2>4. ASSUME NEW i \in 1..Len(list), i <= upto, list[i] \in library
          PROVE stamp'[list[i]] = clock
        <3>1. CASE i <= start
            <4>1. Covered(s, k, start)
                BY <1>1, <1>2, <1>3 DEF WantedInv, PagesStored
            <4>2. stamp[list[i]] = clock
                BY <1>2, <1>5, <2>4, <3>1, <4>1 DEF Covered
            <4>3. QED
                BY <1>9, <2>4, <4>2 DEF WantedInv, Typed
        <3>2. CASE start < i
            <4>1. i <= start + PageSize
                <5>1. last => Len(list) < start + PageSize
                    BY <1>1, <1>2 DEF WantedInv, PageIsNext
                <5>2. CASE last
                    BY <1>5, <2>4, <5>1, <5>2
                <5>3. CASE ~ last
                    BY <2>4, <5>3
                <5>4. QED
                    BY <5>2, <5>3
            <4>2. list[i] \in sync[s].page
                BY <1>10, <3>2, <4>1
            <4>3. QED
                BY <1>9, <2>4, <4>2
        <3>3. QED
            BY <1>2, <1>5, <3>1, <3>2
    <2>5. Covered(s, k, upto)'
        BY <1>1, <1>2, <1>3, <1>5, <2>1, <2>4 DEF Covered
    <2>6. QED
        BY <2>3, <2>5
<1>15. PagesStored'
    <2>1. Reading' = {s}
        BY <1>1, <1>2, <1>3, <1>4, <1>8 DEF Reading
    <2>2. k = "movie" => Covered(s, "episode", Len(bazarr["episode"]))'
        BY <1>1, <1>2, <1>3, <1>14 DEF WantedInv, PagesStored
    <2>3. CASE last
        <3>1. Covered(s, k, Len(list))'
            BY <1>14, <2>3
        <3>2. Covered(s, "movie", 0)'
            BY <1>1, <1>2, <1>3, <1>5 DEF Covered, WantedInv, Typed
        <3> HIDE DEF more
        <3>3. QED
            BY <1>1, <1>2, <1>3, <1>5, <1>7, <1>4, <1>8, <2>1, <2>2, <2>3, <3>1, <3>2 DEF PagesStored
    <2>4. CASE ~ last
        <3>1. Covered(s, k, start + PageSize)'
            BY <1>14, <2>4
        <3> HIDE DEF more
        <3>2. QED
            BY <1>1, <1>2, <1>3, <1>5, <1>6, <1>4, <1>8, <2>1, <2>2, <2>4, <3>1 DEF PagesStored
    <2>5. QED
        BY <2>3, <2>4
<1>16. PageIsNext'
    BY <1>1, <1>2, <1>3, <1>4, <1>8 DEF PageIsNext
<1>17. QED
    BY <1>11, <1>12, <1>13, <1>15, <1>16 DEF WantedInv

\* When the pass deletes, every want that Bazarr has and the library knows carries
\* its stamp, and no other want does.
LEMMA PassIsComplete ==
  ASSUME Steady, WantedInv, NEW s \in Syncers, sync[s].at = "delete"
  PROVE  /\ sync[s].since = clock
         /\ \A w \in Wants : stamp[w] < clock \/ stamp[w] = clock
         /\ \A w \in Wants : stamp[w] = clock <=> w \in Wanted \cap library
<1>1. /\ s \in Reading /\ sync[s].since = clock /\ clock > 0
      /\ Covered(s, "episode", Len(bazarr["episode"]))
      /\ Covered(s, "movie", Len(bazarr["movie"]))
    BY DEF Reading, WantedInv, PagesStored
<1>2. \A w \in Wants : stamp[w] \in Nat /\ clock \in Nat /\ stamp[w] <= clock
    BY DEF WantedInv, Typed, MirrorIsTrue
<1>3. ASSUME NEW w \in Wanted \cap library PROVE stamp[w] = clock
    <2>1. PICK k \in Kinds : w \in ToSet(bazarr[k])
        BY DEF Wanted
    <2>2. bazarr[k] \in Seq(Wants)
        BY DEF WantedInv, Typed
    <2>3. PICK i \in 1..Len(bazarr[k]) : bazarr[k][i] = w
        BY <2>1, <2>2 DEF ToSet
    <2>4. Covered(s, k, Len(bazarr[k]))
        BY <1>1 DEF Kinds
    <2>5. i <= Len(bazarr[k])
        BY <2>2
    <2>6. QED
        BY <1>1, <1>3, <2>3, <2>4, <2>5 DEF Covered
<1>4. ASSUME NEW w \in Wants, stamp[w] = clock PROVE w \in Wanted \cap library
    BY <1>1, <1>4 DEF WantedInv, MirrorIsTrue
<1>5. QED
    BY <1>1, <1>2, <1>3, <1>4

\* What the pass deletes has been met.
LEMMA DeleteUnseenStep ==
  ASSUME Steady, WantedInv, NEW s \in Syncers, DeleteUnseen(s) PROVE WantedInv'
<1>1. /\ sync[s].at = "delete" /\ Syncers = {s}
      /\ stamp' = [w \in Wants |-> IF stamp[w] < sync[s].since THEN 0 ELSE stamp[w]]
      /\ sync' = [sync EXCEPT ![s].at = "hook"]
      /\ UNCHANGED <<bazarr, gone, library, clock, intent>>
    BY DEF DeleteUnseen, Steady
<1>2. /\ sync'[s] \in Where /\ sync'[s].at = "hook" /\ sync' \in [Syncers -> Where]
    <2>1. sync \in [Syncers -> Where] /\ sync[s] \in Where
        BY DEF WantedInv, Typed
    <2>2. sync'[s] = [sync[s] EXCEPT !.at = "hook"]
        BY <1>1, <2>1
    <2>3. [sync[s] EXCEPT !.at = "hook"] \in Where
        BY <2>1 DEF Where, Steps
    <2>4. sync'[s].at = "hook"
        BY <2>1, <2>2 DEF Where
    <2>5. sync' \in [Syncers -> Where]
        BY <1>1, <2>1, <2>3
    <2>6. QED
        BY <2>2, <2>3, <2>4, <2>5
<1>3. stamp \in [Wants -> Nat] /\ clock \in Nat
    BY DEF WantedInv, Typed
<1>4. stamp' \in [Wants -> Nat] /\ \A w \in Wants : stamp'[w] = stamp[w] \/ stamp'[w] = 0
    BY <1>1, <1>3
<1>5. ASSUME NEW w \in Wants, stamp[w] > 0, stamp'[w] = 0 PROVE w \in gone
    <2>1. stamp[w] # clock
        BY <1>1, <1>3, <1>5, PassIsComplete
    <2>2. w \notin Wanted \cap library
        BY <1>1, <2>1, PassIsComplete
    <2>3. QED
        BY <1>5, <2>2 DEF WantedInv, MirrorIsTrue
<1>6. Reading' = {}
    BY <1>1, <1>2 DEF Reading
<1>7. Typed'
    BY <1>1, <1>2, <1>4 DEF WantedInv, Typed
<1>8. MirrorIsTrue'
    <2>1. Wanted' = Wanted
        BY <1>1 DEF Wanted
    <2>2. QED
        BY <1>1, <1>3, <1>4, <1>6, <2>1 DEF WantedInv, MirrorIsTrue
<1>9. LedgerIsTrue'
    <2>1. ASSUME NEW w \in Wants, intent[w] = "open", stamp'[w] = 0 PROVE w \in gone
        BY <1>3, <1>5, <2>1 DEF WantedInv, LedgerIsTrue
    <2>2. QED
        BY <1>1, <2>1 DEF WantedInv, LedgerIsTrue
<1>10. PagesStored' /\ PageIsNext'
    BY <1>1, <1>2, <1>6 DEF PagesStored, PageIsNext
<1>11. QED
    BY <1>7, <1>8, <1>9, <1>10 DEF WantedInv

\* A pass that breaks off leaves what it has stored.
LEMMA SyncFailsStep ==
  ASSUME Steady, WantedInv, NEW s \in Syncers, SyncFails(s) PROVE WantedInv'
<1>1. /\ sync' = [sync EXCEPT ![s] = AtRest]
      /\ UNCHANGED <<bazarr, gone, library, stamp, clock, intent>>
    BY DEF SyncFails
<1>2. AtRest.at = "rest"
    BY DEF AtRest
<1>3. LedgerIsTrue' /\ intent' \in [Wants -> {"none", "open", "withdrawn"}]
    BY <1>1 DEF WantedInv, Typed, LedgerIsTrue
<1>4. QED
    BY <1>1, <1>2, <1>3, AtRestType, BesideTheMirror

\* Discovery opens intents for mirrored wants only, and withdraws those whose
\* wants have been met.
LEMMA HookStep ==
  ASSUME Steady, WantedInv, NEW s \in Syncers,
         BeginDiscovery(s) \/ Discover(s) \/ WithdrawVanished(s)
  PROVE  WantedInv'
<1>1. PICK w \in Where :
        w.at \notin {"fetch", "store", "delete"} /\ sync' = [sync EXCEPT ![s] = w]
    <2>1. CASE WithdrawVanished(s)
        <3>1. AtRest \in Where /\ AtRest.at = "rest"
            BY AtRestType DEF AtRest
        <3>2. QED
            BY <2>1, <3>1 DEF WithdrawVanished
    <2>2. ASSUME NEW at \in {"discover", "withdraw"}
          PROVE [sync[s] EXCEPT !.at = at] \in Where /\ [sync[s] EXCEPT !.at = at].at = at
        BY DEF WantedInv, Typed, Where, Steps
    <2>3. CASE BeginDiscovery(s)
        BY <2>2, <2>3 DEF BeginDiscovery
    <2>4. CASE Discover(s)
        BY <2>2, <2>4 DEF Discover
    <2>5. QED
        BY <2>1, <2>3, <2>4
<1>2. UNCHANGED <<bazarr, gone, library, stamp, clock>>
    BY DEF BeginDiscovery, Discover, WithdrawVanished
<1>3. intent' \in [Wants -> {"none", "open", "withdrawn"}]
    BY DEF BeginDiscovery, Discover, WithdrawVanished, WantedInv, Typed
<1>4. LedgerIsTrue'
    <2>1. stamp \in [Wants -> Nat]
        BY DEF WantedInv, Typed
    <2>2. CASE BeginDiscovery(s)
        BY <1>2, <2>2 DEF BeginDiscovery, WantedInv, LedgerIsTrue
    <2>3. CASE Discover(s)
        BY <1>2, <2>1, <2>3 DEF Discover, Mirrored, WantedInv, LedgerIsTrue
    <2>4. CASE WithdrawVanished(s)
        BY <1>2, <2>1, <2>4 DEF WithdrawVanished, Mirrored, WantedInv, LedgerIsTrue
    <2>5. QED
        BY <2>2, <2>3, <2>4
<1>5. QED
    BY <1>1, <1>2, <1>3, <1>4, BesideTheMirror

\* Bazarr's list and the library change between passes only, and a want that
\* leaves the list has been met.
LEMMA OutsideStep ==
  ASSUME Steady, WantedInv, NEW w \in Wants,
         WantAppears(w) \/ WantIsMet(w) \/ LibraryGains(w)
  PROVE  WantedInv'
<1>1. /\ Reading = {} /\ \A s \in Syncers : sync[s].at # "store"
      /\ UNCHANGED <<stamp, clock, sync, intent>>
    BY OutsideReading DEF WantAppears, WantIsMet, LibraryGains
<1>2. /\ bazarr \in [Kinds -> Seq(Wants)] /\ KindOf[w] \in Kinds
    BY WantedMirrorAssumption DEF WantedInv, Typed
<1>3. /\ bazarr' \in [Kinds -> Seq(Wants)]
      /\ gone \subseteq gone' /\ gone' \subseteq Wants
      /\ library \subseteq library' /\ library' \subseteq Wants
      /\ \A k \in Kinds : ToSet(bazarr[k]) \subseteq ToSet(bazarr'[k]) \cup gone'
    <2>1. CASE WantAppears(w)
        <3>1. PICK at \in 0..Len(bazarr[KindOf[w]]) :
                bazarr' = [bazarr EXCEPT ![KindOf[w]] = InsertAt(bazarr[KindOf[w]], at + 1, w)]
            BY <2>1 DEF WantAppears
        <3>2. /\ InsertAt(bazarr[KindOf[w]], at + 1, w) \in Seq(Wants)
              /\ ToSet(bazarr[KindOf[w]]) \subseteq
                   ToSet(InsertAt(bazarr[KindOf[w]], at + 1, w))
            BY <1>2, InsertKeeps
        <3>3. gone' = gone /\ library' = library
            BY <2>1 DEF WantAppears
        <3>4. QED
            BY <1>2, <3>1, <3>2, <3>3 DEF WantedInv, Typed
    <2>2. CASE WantIsMet(w)
        <3>0. DOMAIN bazarr[KindOf[w]] = 1..Len(bazarr[KindOf[w]])
            BY <1>2
        <3>1. PICK i \in 1..Len(bazarr[KindOf[w]]) :
                /\ bazarr[KindOf[w]][i] = w
                /\ bazarr' = [bazarr EXCEPT ![KindOf[w]] = RemoveAt(bazarr[KindOf[w]], i)]
            BY <3>0, <2>2 DEF WantIsMet
        <3>2. /\ RemoveAt(bazarr[KindOf[w]], i) \in Seq(Wants)
              /\ ToSet(bazarr[KindOf[w]]) \subseteq
                   ToSet(RemoveAt(bazarr[KindOf[w]], i)) \cup {w}
            BY <1>2, <3>1, RemoveKeeps
        <3>3. gone' = gone \cup {w} /\ library' = library
            BY <2>2 DEF WantIsMet
        <3>4. QED
            BY <1>2, <3>1, <3>2, <3>3 DEF WantedInv, Typed
    <2>3. CASE LibraryGains(w)
        BY <2>3 DEF LibraryGains, WantedInv, Typed
    <2>4. QED
        BY <2>1, <2>2, <2>3
<1>4. Wanted \cup gone \subseteq (Wanted \cup gone)'
    BY <1>3 DEF Wanted
<1>5. Typed'
    BY <1>1, <1>3 DEF WantedInv, Typed
<1>6. Reading' = {} /\ PagesStored' /\ PageIsNext'
    BY <1>1 DEF Reading, PagesStored, PageIsNext
<1>7. MirrorIsTrue'
    BY <1>1, <1>3, <1>4, <1>6 DEF WantedInv, MirrorIsTrue
<1>8. LedgerIsTrue'
    BY <1>1, <1>3 DEF WantedInv, LedgerIsTrue
<1>9. QED
    BY <1>5, <1>6, <1>7, <1>8 DEF WantedInv

LEMMA WantedInvStep == Steady /\ WantedInv /\ [WantedNext]_wantedVars => WantedInv'
<1> SUFFICES ASSUME Steady, WantedInv, [WantedNext]_wantedVars PROVE WantedInv'
    OBVIOUS
<1>1. ASSUME NEW s \in Syncers, StartSync(s) \/ SyncStep(s) \/ SyncFails(s)
      PROVE WantedInv'
    BY <1>1, StartSyncStep, FetchPageStep, StorePageStep, DeleteUnseenStep,
       SyncFailsStep, HookStep DEF SyncStep
<1>2. ASSUME NEW w \in Wants, WantAppears(w) \/ WantIsMet(w) \/ LibraryGains(w)
      PROVE WantedInv'
    BY <1>2, OutsideStep
<1>3. CASE UNCHANGED wantedVars
    BY <1>3 DEF wantedVars, WantedInv, Typed, PagesStored, PageIsNext, MirrorIsTrue,
       LedgerIsTrue, Reading, Covered, Wanted
<1>4. QED
    BY <1>1, <1>2, <1>3 DEF WantedNext

-----------------------------------------------------------------------------
\* Where Bazarr's list stands still while a pass reads it and passes do not
\* overlap, an intent is withdrawn only if Bazarr did stop wanting it
\* (_withdraw_vanished, sync_wanted).
THEOREM WithdrawnAreGone == Steady => (WantedSpec => []WithdrawnIsGone)
<1> SUFFICES ASSUME Steady PROVE WantedSpec => []WithdrawnIsGone
    OBVIOUS
<1>1. WantedInv /\ [WantedNext]_wantedVars => WantedInv'
    BY WantedInvStep
<1>2. WantedInv => WithdrawnIsGone
    BY DEF WantedInv, LedgerIsTrue, WithdrawnIsGone
<1>3. QED
    BY WantedInvInit, <1>1, <1>2, PTL DEF WantedSpec

\* A pass enters its hook only by deleting.
LEMMA OnlyDeletingEndsThePass ==
  ASSUME Steady, WantedInv, [WantedNext]_wantedVars,
         NEW s \in Syncers, sync[s].at = "delete", sync'[s].at = "hook"
  PROVE  DeleteUnseen(s)
<1>1. Syncers = {s} /\ sync \in [Syncers -> Where]
    BY DEF Steady, WantedInv, Typed
<1>2. sync' # sync
    OBVIOUS
<1>3. ~ SyncFails(s)
    BY <1>1 DEF SyncFails, AtRest
<1>4. ~ (StartSync(s) \/ FetchPage(s) \/ StorePage(s) \/ BeginDiscovery(s)
          \/ Discover(s) \/ WithdrawVanished(s))
    BY DEF StartSync, FetchPage, StorePage, BeginDiscovery, Discover, WithdrawVanished
<1>5. \A w \in Wants : ~ (WantAppears(w) \/ WantIsMet(w) \/ LibraryGains(w))
    BY <1>2 DEF WantAppears, WantIsMet, LibraryGains
<1>6. QED
    BY <1>1, <1>2, <1>3, <1>4, <1>5 DEF WantedNext, SyncStep, wantedVars

\* Under the same conditions a pass that completes leaves the mirror equal to what
\* Bazarr wants among the media the library knows, whatever the size of its pages.
THEOREM PassesAreExact == Steady => (WantedSpec => CompletedPassIsExact)
<1> SUFFICES ASSUME Steady PROVE WantedSpec => CompletedPassIsExact
    OBVIOUS
<1>1. WantedInv /\ [WantedNext]_wantedVars => WantedInv'
    BY WantedInvStep
<1>2. ASSUME WantedInv, [WantedNext]_wantedVars
      PROVE [\A s \in Syncers :
               sync[s].at = "delete" /\ sync'[s].at = "hook" =>
                 {w \in Wants : stamp'[w] > 0} = Wanted \cap library]_wantedVars
    <2>1. SUFFICES ASSUME NEW s \in Syncers, sync[s].at = "delete", sync'[s].at = "hook"
                   PROVE {w \in Wants : stamp'[w] > 0} = Wanted \cap library
        OBVIOUS
    <2>2. DeleteUnseen(s)
        BY <1>2, <2>1, OnlyDeletingEndsThePass
    <2>3. /\ sync[s].since = clock /\ clock > 0 /\ Wanted \subseteq Wants
          /\ \A w \in Wants : stamp[w] = clock <=> w \in Wanted \cap library
          /\ \A w \in Wants : stamp[w] < clock \/ stamp[w] = clock
          /\ clock \in Nat
        <3>1. clock > 0 /\ clock \in Nat
            BY <1>2, <2>1 DEF Reading, WantedInv, Typed, PagesStored
        <3>2. Wanted \subseteq Wants
            BY DEF Wanted
        <3>3. QED
            BY <1>2, <2>1, <3>1, <3>2, PassIsComplete
    <2>4. stamp' = [w \in Wants |-> IF stamp[w] < clock THEN 0 ELSE stamp[w]]
        BY <2>2, <2>3 DEF DeleteUnseen
    <2>5. \A w \in Wants : stamp'[w] > 0 <=> stamp[w] = clock
        BY <2>3, <2>4
    <2>6. QED
        BY <2>3, <2>5
<1>3. QED
    BY WantedInvInit, <1>1, <1>2, PTL DEF WantedSpec, CompletedPassIsExact

-----------------------------------------------------------------------------
(* The library: series, their episodes, movies.                            *)

RunFields ==
  {"full", "phase", "start", "seen", "known", "lost", "left", "fetched", "calm"}

\* No series is listed twice.
LibraryTypes ==
  /\ shelf \in Seq(Shows) /\ IsInjective(shelf)
  /\ films \subseteq Films /\ subtitles \in [Shows \cup Films -> Nat]
  /\ DOMAIN copies = Shows \cup Films
  /\ DOMAIN librarySync = LibrarySyncs

RunTyped(run) == DOMAIN run = RunFields /\ run.calm \in BOOLEAN

Upto(n) == {shelf[k] : k \in 1..n}

PageAt(n) == ToSet(SubSeq(shelf, n + 1, Min({n + LibraryPage, Len(shelf)})))

\* A calm run has seen the front of the list, and is about to store the next page.
SeriesRead(run) ==
  run.phase = "series" =>
    /\ run.start \in Nat /\ run.start <= Len(shelf) /\ run.seen = Upto(run.start) /\ run.seen \subseteq mirrored
    /\ run.fetched # Unmirrored => run.fetched = PageAt(run.start)

\* Then it has seen all series, and stored the episodes of those it is through with.
EpisodesRead(run) ==
  run.phase # "series" =>
    /\ run.seen = ToSet(shelf) /\ run.seen \subseteq mirrored
    /\ run.left \subseteq run.seen
    /\ \A s \in run.seen \ run.left : copies[s] = subtitles[s]
    /\ run.phase = "episodes" =>
         /\ run.seen \subseteq run.known
         /\ run.fetched # Unmirrored => \E s \in run.seen : run.fetched = <<s, subtitles[s]>>
    /\ run.phase # "episodes" => run.left = {}

\* And then the movies.
MoviesRead(run) ==
  /\ run.phase = "movies" =>
       (run.fetched # Unmirrored => run.fetched = [f \in films |-> subtitles[f]])
  /\ run.phase = "vanished" => \A f \in films : copies[f] = subtitles[f]

RunIsTrue(run) == SeriesRead(run) /\ EpisodesRead(run) /\ MoviesRead(run)

\* A calm run is the only one.
LibraryInv ==
  /\ LibraryTypes
  /\ \A y \in LibrarySyncs : librarySync[y] # NoSync =>
       /\ RunTyped(librarySync[y])
       /\ librarySync[y].calm => /\ RunIsTrue(librarySync[y])
                                 /\ \A z \in LibrarySyncs \ {y} : librarySync[z] = NoSync

-----------------------------------------------------------------------------
\* The page after the first n series: a full one moves the place by its size, and
\* one that is not is the last.
LEMMA PageIsTheNext ==
  ASSUME LibraryTypes, NEW n \in Nat, n <= Len(shelf)
  PROVE  /\ PageAt(n) \subseteq Shows
         /\ Cardinality(PageAt(n)) = LibraryPage
              => /\ n + LibraryPage <= Len(shelf)
                 /\ Upto(n) \cup PageAt(n) = Upto(n + LibraryPage)
         /\ Cardinality(PageAt(n)) # LibraryPage => Upto(n) \cup PageAt(n) = ToSet(shelf)
<1> DEFINE L == Len(shelf)
           b == Min({n + LibraryPage, L})
           page == SubSeq(shelf, n + 1, b)
<1>1. /\ L \in Nat /\ n \in Nat /\ n <= L /\ LibraryPage \in Nat
      /\ DOMAIN shelf = 1..L /\ \A k \in 1..L : shelf[k] \in Shows
    BY LibraryAssumption DEF LibraryTypes
<1> HIDE DEF L
<1>2. b \in n..L /\ (b = n + LibraryPage \/ (b = L /\ L < n + LibraryPage))
    <2>1. CASE n + LibraryPage <= L
        <3>1. \A x \in {n + LibraryPage, L} :
                (\A z \in {n + LibraryPage, L} : x <= z) => x = n + LibraryPage
            BY <1>1, <2>1
        <3>2. b = n + LibraryPage
            BY <1>1, <2>1, <3>1 DEF Min
        <3>3. QED
            BY <1>1, <2>1, <3>2
    <2>2. CASE L < n + LibraryPage
        <3>1. \A x \in {n + LibraryPage, L} :
                (\A z \in {n + LibraryPage, L} : x <= z) => x = L
            BY <1>1, <2>2
        <3>2. b = L
            BY <1>1, <2>2, <3>1 DEF Min
        <3>3. QED
            BY <1>1, <2>2, <3>2
    <2>3. QED
        BY <1>1, <2>1, <2>2
<1> HIDE DEF b
<1>3. Len(page) = b - n /\ DOMAIN page = 1..b - n /\ \A j \in 1..b - n : page[j] = shelf[n + j]
    <2>1. shelf \in Seq(Shows) /\ n + 1 \in 1..L + 1 /\ b \in (n + 1) - 1..L
        BY <1>1, <1>2 DEF LibraryTypes
    <2>2. /\ Len(page) = IF n + 1 <= b THEN b - (n + 1) + 1 ELSE 0
          /\ \A j \in 1..b - (n + 1) + 1 : page[j] = shelf[(n + 1) + j - 1]
          /\ page \in Seq(Shows)
        BY <2>1, SubSeqProperties DEF L
    <2> HIDE DEF page
    <2>3. DOMAIN page = 1..Len(page)
        BY <2>2
    <2>4. Len(page) = b - n /\ b - (n + 1) + 1 = b - n
        BY <1>1, <1>2, <2>2
    <2>5. \A j \in 1..b - n : (n + 1) + j - 1 = n + j
        BY <1>1, <1>2
    <2>6. QED
        BY <2>2, <2>3, <2>4, <2>5
<1>4. PageAt(n) = {page[j] : j \in DOMAIN page}
    BY DEF PageAt, ToSet, b, page, L
<1> HIDE DEF page
<1>5. PageAt(n) = {shelf[k] : k \in n + 1..b}
    <2>1. \A j \in 1..b - n : n + j \in n + 1..b
        BY <1>2
    <2>2. \A k \in n + 1..b : k - n \in 1..b - n /\ n + (k - n) = k
        BY <1>2
    <2>3. ASSUME NEW k \in n + 1..b PROVE shelf[k] \in PageAt(n)
        BY <1>3, <1>4, <2>2
    <2>4. QED
        BY <1>3, <1>4, <2>1, <2>3
<1>6. Cardinality(PageAt(n)) = b - n
    <2>1. b - n \in Nat
        BY <1>2
    <2>2. \A i, j \in 1..b - n : page[i] = page[j] => i = j
        <3>1. SUFFICES ASSUME NEW i \in 1..b - n, NEW j \in 1..b - n, page[i] = page[j]
              PROVE  i = j
            OBVIOUS
        <3>2. n + i \in DOMAIN shelf /\ n + j \in DOMAIN shelf /\ shelf[n + i] = shelf[n + j]
            BY <1>1, <1>2, <1>3, <3>1
        <3>3. n + i = n + j
            BY <3>2 DEF LibraryTypes, IsInjective
        <3>4. QED
            BY <3>3
    <2> DEFINE f == [j \in 1..b - n |-> page[j]]
    <2>3. f \in Bijection(1..b - n, PageAt(n))
        BY <1>3, <1>4, <2>2 DEF Bijection, Injection, Surjection, IsInjective
    <2>4. IsFiniteSet(1..b - n) /\ Cardinality(1..b - n) = b - n
        BY <2>1, FS_Interval
    <2>5. QED
        BY <2>3, <2>4, FS_Bijection DEF ExistsBijection
<1>7. ToSet(shelf) = Upto(L)
    BY <1>1 DEF ToSet, Upto, L
<1>8. Upto(n) \cup PageAt(n) = Upto(b)
    <2>1. 1..b = (1..n) \cup (n + 1..b)
        BY <1>2
    <2>2. QED
        BY <1>5, <2>1 DEF Upto
<1>9. PageAt(n) \subseteq Shows
    BY <1>1, <1>2, <1>5
<1>10. CASE b = n + LibraryPage
    BY <1>1, <1>2, <1>6, <1>8, <1>9, <1>10 DEF L
<1>11. CASE b = L /\ L < n + LibraryPage
    <2>1. b - n # LibraryPage
        BY <1>1, <1>11
    <2>2. QED
        BY <1>6, <1>7, <1>8, <1>9, <1>11, <2>1 DEF L
<1>12. QED
    BY <1>2, <1>10, <1>11

\* At the start nobody syncs.
LEMMA LibraryInvInit == ASSUME LibraryInit PROVE LibraryInv
<1>1. shelf \in Seq(Shows) /\ IsInjective(shelf)
    BY LibraryAssumption, PermutationIsList DEF LibraryInit
<1>2. QED
    BY <1>1 DEF LibraryInit, LibraryInv, LibraryTypes

\* What a step of y leaves of the others: a run goes on, and not calmer than before.
OthersGoOn(y) ==
  /\ DOMAIN librarySync' = LibrarySyncs
  /\ \A z \in LibrarySyncs \ {y} :
       /\ librarySync[z] = NoSync => librarySync'[z] = NoSync
       /\ librarySync[z] # NoSync /\ RunTyped(librarySync[z])
            => RunTyped(librarySync'[z]) /\ (librarySync'[z].calm => librarySync[z].calm)

\* And of its own.
RunGoesOn(y) ==
  librarySync'[y] # NoSync =>
    /\ RunTyped(librarySync'[y])
    /\ librarySync'[y].calm => librarySync[y].calm /\ RunIsTrue(librarySync[y])'

\* While one syncs no other run is calm, so that its step has only itself to care for.
LEMMA CalmStep ==
  ASSUME LibraryInv, LibraryTypes', NEW y \in LibrarySyncs, librarySync[y] # NoSync, OthersGoOn(y),
         RunGoesOn(y)
  PROVE  LibraryInv'
<1>1. SUFFICES ASSUME NEW x \in LibrarySyncs, librarySync'[x] # NoSync
      PROVE  /\ RunTyped(librarySync'[x])
             /\ librarySync'[x].calm => /\ RunIsTrue(librarySync[x])'
                                        /\ \A z \in LibrarySyncs \ {x} : librarySync'[z] = NoSync
    BY DEF LibraryInv, RunTyped
<1>2. CASE x = y
    BY <1>1, <1>2 DEF LibraryInv, OthersGoOn, RunGoesOn
<1>3. CASE x # y
    <2>1. librarySync[x] # NoSync /\ RunTyped(librarySync[x])
        BY <1>1, <1>3 DEF LibraryInv, OthersGoOn
    <2>2. ~ librarySync[x].calm
        BY <1>3, <2>1 DEF LibraryInv
    <2>3. QED
        BY <1>3, <2>1, <2>2 DEF OthersGoOn
<1>4. QED
    BY <1>2, <1>3

\* An assignment to y's own run is no business of the others.
LEMMA OwnRunOnly ==
  ASSUME LibraryInv, NEW y \in LibrarySyncs, NEW run, Continues(y, run)
  PROVE  OthersGoOn(y) /\ librarySync'[y] = run
BY DEF LibraryInv, LibraryTypes, Continues, OthersGoOn

\* Requests: what they bring is what Bazarr has, as long as the run is calm.
LEMMA FetchStep ==
  ASSUME LibraryInv, NEW y \in LibrarySyncs,
         FetchSeries(y) \/ (\E s \in Shows : FetchEpisodes(y, s)) \/ FetchMovies(y)
  PROVE  LibraryInv'
<1> DEFINE run == librarySync[y]
           new == librarySync'[y]
<1>1. /\ run # NoSync /\ RunTyped(run) /\ UNCHANGED <<upstreamVars, mirrored, copies>>
      /\ run.calm => RunIsTrue(run)
    BY DEF LibraryInv, FetchSeries, FetchEpisodes, FetchMovies, Fetches, At
<1>2. /\ shelf' = shelf /\ subtitles' = subtitles /\ films' = films
      /\ mirrored' = mirrored /\ copies' = copies
    BY <1>1 DEF upstreamVars
<1>3. OthersGoOn(y)
    BY OwnRunOnly DEF FetchSeries, FetchEpisodes, FetchMovies, Fetches
<1>4. LibraryTypes'
    BY <1>2, <1>3 DEF LibraryInv, LibraryTypes, OthersGoOn
<1>5. CASE FetchSeries(y)
    <2>1. run.phase = "series" /\ new = [run EXCEPT !.fetched = PageAt(run.start)]
        BY <1>5, OwnRunOnly DEF FetchSeries, Fetches, PageAt, At
    <2>2. /\ DOMAIN new = RunFields /\ new.calm = run.calm /\ new.phase = "series"
          /\ new.start = run.start /\ new.seen = run.seen /\ new.fetched = PageAt(run.start)
        BY <1>1, <2>1 DEF RunTyped, RunFields
    <2>3. PageAt(run.start)' = PageAt(new.start)
        BY <1>2, <2>2 DEF PageAt
    <2> HIDE DEF new, run
    <2>4. RunIsTrue(run) => RunIsTrue(new)
        BY <2>1, <2>2 DEF RunIsTrue, SeriesRead, EpisodesRead, MoviesRead
    <2>5. RunIsTrue(librarySync[y])' <=> RunIsTrue(new)
        BY <1>2 DEF RunIsTrue, SeriesRead, EpisodesRead, MoviesRead, PageAt, Upto, new
    <2>6. RunGoesOn(y)
        BY <1>1, <1>3, <1>4, <2>2, <2>4, <2>5 DEF RunGoesOn, new, run, RunTyped
    <2>7. QED
        BY <1>1, <1>3, <1>4, <2>6, CalmStep DEF run
<1>6. ASSUME NEW s \in Shows, FetchEpisodes(y, s) PROVE LibraryInv'
    <2>1. /\ run.phase = "episodes" /\ s \in run.left
          /\ new = [run EXCEPT !.fetched =
                      IF s \in ToSet(shelf) THEN <<s, subtitles[s]>> ELSE <<s, Unmirrored>>]
        BY <1>6, OwnRunOnly DEF FetchEpisodes, Fetches, At
    <2>2. /\ DOMAIN new = RunFields /\ new.calm = run.calm /\ new.phase = "episodes"
          /\ new.seen = run.seen /\ new.left = run.left /\ new.known = run.known
          /\ new.fetched = IF s \in ToSet(shelf) THEN <<s, subtitles[s]>> ELSE <<s, Unmirrored>>
        BY <1>1, <2>1 DEF RunTyped, RunFields
    <2> HIDE DEF new, run
    <2>3. RunIsTrue(run) => RunIsTrue(new)
        BY <2>1, <2>2 DEF RunIsTrue, SeriesRead, EpisodesRead, MoviesRead
    <2>4. RunIsTrue(librarySync[y])' <=> RunIsTrue(new)
        BY <1>2 DEF RunIsTrue, SeriesRead, EpisodesRead, MoviesRead, PageAt, Upto, new
    <2>5. RunGoesOn(y)
        BY <1>1, <1>3, <1>4, <2>2, <2>3, <2>4 DEF RunGoesOn, new, run, RunTyped
    <2>6. QED
        BY <1>1, <1>3, <1>4, <2>5, CalmStep DEF run
<1>7. CASE FetchMovies(y)
    <2>1. /\ run.phase = "episodes" /\ run.left = {}
          /\ new = [run EXCEPT !.phase = "movies", !.fetched = [f \in films |-> subtitles[f]]]
        BY <1>7, OwnRunOnly DEF FetchMovies, At
    <2>2. /\ DOMAIN new = RunFields /\ new.calm = run.calm /\ new.phase = "movies"
          /\ new.seen = run.seen /\ new.left = {}
          /\ new.fetched = [f \in films |-> subtitles[f]]
        BY <1>1, <2>1 DEF RunTyped, RunFields
    <2> HIDE DEF new, run
    <2>3. RunIsTrue(run) => RunIsTrue(new)
        BY <2>1, <2>2 DEF RunIsTrue, SeriesRead, EpisodesRead, MoviesRead
    <2>4. RunIsTrue(librarySync[y])' <=> RunIsTrue(new)
        BY <1>2 DEF RunIsTrue, SeriesRead, EpisodesRead, MoviesRead, PageAt, Upto, new
    <2>5. RunGoesOn(y)
        BY <1>1, <1>3, <1>4, <2>2, <2>3, <2>4 DEF RunGoesOn, new, run, RunTyped
    <2>6. QED
        BY <1>1, <1>3, <1>4, <2>5, CalmStep DEF run
<1>8. QED
    BY <1>5, <1>6, <1>7

\* A page of series: the front of the list that has been seen grows by it.
LEMMA StoreSeriesStep ==
  ASSUME LibraryInv, NEW y \in LibrarySyncs, StoreSeries(y)
  PROVE  LibraryInv'
<1> DEFINE run == librarySync[y]
           new == librarySync'[y]
           full == Cardinality(run.fetched) = LibraryPage
<1>1. /\ run # NoSync /\ RunTyped(run) /\ run.phase = "series" /\ run.fetched # Unmirrored
      /\ mirrored' = mirrored \cup run.fetched
      /\ run.calm => RunIsTrue(run)
    BY DEF LibraryInv, StoreSeries, Stores, At
<1>2. shelf' = shelf /\ subtitles' = subtitles /\ films' = films /\ copies' = copies
    BY DEF StoreSeries, upstreamVars
<1>3. /\ OthersGoOn(y)
      /\ full => new = [[run EXCEPT !.seen = @ \cup run.fetched, !.fetched = Unmirrored]
                          EXCEPT !.start = @ + LibraryPage]
      /\ ~ full => new = [[run EXCEPT !.seen = @ \cup run.fetched, !.fetched = Unmirrored]
                            EXCEPT !.phase = "episodes", !.known = mirrored',
                                   !.left = run.seen \cup run.fetched]
    BY <1>1, OwnRunOnly DEF StoreSeries, RunTyped, RunFields
<1>4. LibraryTypes'
    BY <1>2, <1>3 DEF LibraryInv, LibraryTypes, OthersGoOn
<1>5. CASE ~ run.calm
    <2>1. DOMAIN new = RunFields /\ new.calm = run.calm
        BY <1>1, <1>3 DEF RunTyped, RunFields
    <2>2. RunGoesOn(y)
        BY <1>1, <1>3, <1>4, <1>5, <2>1 DEF RunGoesOn, RunTyped
    <2>3. QED
        BY <1>1, <1>3, <1>4, <2>2, CalmStep
<1>6. CASE run.calm
    <2>1. /\ run.start \in Nat /\ run.start <= Len(shelf) /\ run.seen = Upto(run.start)
          /\ run.seen \subseteq mirrored /\ run.fetched = PageAt(run.start)
        BY <1>1, <1>6 DEF RunIsTrue, SeriesRead
    <2>2. LibraryTypes
        BY DEF LibraryInv
    <2> DEFINE start == run.start
    <2>3. start \in Nat /\ start <= Len(shelf) /\ run.seen = Upto(start) /\ run.fetched = PageAt(start)
        BY <2>1
    <2> HIDE DEF start
    <2>4. /\ full => /\ start + LibraryPage <= Len(shelf)
                     /\ run.seen \cup run.fetched = Upto(start + LibraryPage)
          /\ ~ full => run.seen \cup run.fetched = ToSet(shelf)
        BY <2>2, <2>3, PageIsTheNext
    <2>5. run.seen \cup run.fetched \subseteq mirrored'
        BY <1>1, <2>1
    <2>6. CASE full
        <3>1. /\ DOMAIN new = RunFields /\ new.calm = run.calm /\ new.phase = "series"
              /\ new.seen = run.seen \cup run.fetched /\ new.fetched = Unmirrored
              /\ new.start = start + LibraryPage
            BY <1>1, <1>3, <2>6 DEF RunTyped, RunFields, start
        <3>2. start + LibraryPage \in Nat
            BY <2>3, LibraryAssumption
        <3> HIDE DEF new, run
        <3>3. RunIsTrue(librarySync[y])'
            BY <1>2, <2>4, <2>5, <2>6, <3>1, <3>2
               DEF RunIsTrue, SeriesRead, EpisodesRead, MoviesRead, Upto, new
        <3>4. RunGoesOn(y)
            BY <1>1, <1>3, <1>4, <3>1, <3>3 DEF RunGoesOn, new, run, RunTyped
        <3>5. QED
            BY <1>1, <1>3, <1>4, <3>4, CalmStep DEF run
    <2>7. CASE ~ full
        <3>1. /\ DOMAIN new = RunFields /\ new.calm = run.calm /\ new.phase = "episodes"
              /\ new.seen = run.seen \cup run.fetched /\ new.left = new.seen
              /\ new.known = mirrored' /\ new.fetched = Unmirrored
            BY <1>1, <1>3, <2>7 DEF RunTyped, RunFields
        <3> HIDE DEF new, run
        <3>2. RunIsTrue(librarySync[y])'
            BY <1>2, <2>4, <2>5, <2>7, <3>1
               DEF RunIsTrue, SeriesRead, EpisodesRead, MoviesRead, new
        <3>3. RunGoesOn(y)
            BY <1>1, <1>3, <1>4, <3>1, <3>2 DEF RunGoesOn, new, run, RunTyped
        <3>4. QED
            BY <1>1, <1>3, <1>4, <3>3, CalmStep DEF run
    <2>8. QED
        BY <2>6, <2>7
<1>7. QED
    BY <1>5, <1>6

\* The episodes of a series: its row is known, since the page that listed it is stored.
LEMMA StoreEpisodesStep ==
  ASSUME LibraryInv, NEW y \in LibrarySyncs, StoreEpisodes(y)
  PROVE  LibraryInv'
<1> DEFINE run == librarySync[y]
           new == librarySync'[y]
           s == run.fetched[1]
           version == run.fetched[2]
<1>1. /\ run # NoSync /\ RunTyped(run) /\ run.phase = "episodes" /\ run.fetched # Unmirrored
      /\ copies' = [copies EXCEPT ![s] = IF s \in run.known /\ version # Unmirrored
                                         THEN version ELSE copies[s]]
      /\ run.calm => RunIsTrue(run)
    BY DEF LibraryInv, StoreEpisodes, Stores, At
<1>2. shelf' = shelf /\ subtitles' = subtitles /\ films' = films /\ mirrored' = mirrored
    BY DEF StoreEpisodes, upstreamVars
<1>3. OthersGoOn(y) /\ new = [run EXCEPT !.left = @ \ {s}, !.fetched = Unmirrored]
    BY OwnRunOnly DEF StoreEpisodes
<1>4. /\ DOMAIN new = RunFields /\ new.calm = run.calm /\ new.phase = "episodes"
      /\ new.seen = run.seen /\ new.known = run.known
      /\ new.left = run.left \ {s} /\ new.fetched = Unmirrored
    BY <1>1, <1>3 DEF RunTyped, RunFields
<1>5. LibraryTypes'
    BY <1>1, <1>2, <1>3 DEF LibraryInv, LibraryTypes, OthersGoOn
<1>6. ASSUME run.calm PROVE RunIsTrue(librarySync[y])'
    <2>1. /\ run.seen = ToSet(shelf) /\ run.seen \subseteq mirrored /\ run.left \subseteq run.seen
          /\ \A t \in run.seen \ run.left : copies[t] = subtitles[t]
          /\ run.seen \subseteq run.known
          /\ \E t \in run.seen : run.fetched = <<t, subtitles[t]>>
        BY <1>1, <1>6 DEF RunIsTrue, EpisodesRead
    <2>2. s \in run.seen /\ version = subtitles[s]
        BY <2>1
    <2>3. ToSet(shelf) \subseteq Shows
        BY DEF LibraryInv, LibraryTypes, ToSet
    <2>4. s \in DOMAIN copies /\ version \in Nat
        BY <2>1, <2>2, <2>3 DEF LibraryInv, LibraryTypes
    <2> HIDE DEF run, new, s, version
    <2>5. copies'[s] = subtitles[s] /\ \A t \in DOMAIN copies : t # s => copies'[t] = copies[t]
        BY <1>1, <2>1, <2>2, <2>4, LibraryAssumption
    <2>6. \A t \in new.seen \ new.left : copies'[t] = subtitles[t]
        BY <1>4, <2>1, <2>3, <2>5 DEF LibraryInv, LibraryTypes
    <2>7. QED
        BY <1>2, <1>4, <2>1, <2>6
           DEF RunIsTrue, SeriesRead, EpisodesRead, MoviesRead, new
<1>7. RunGoesOn(y)
    BY <1>1, <1>3, <1>4, <1>5, <1>6 DEF RunGoesOn, RunTyped
<1>8. QED
    BY <1>1, <1>3, <1>5, <1>7, CalmStep

\* The movies, which are no series.
LEMMA StoreMoviesStep ==
  ASSUME LibraryInv, NEW y \in LibrarySyncs, StoreMovies(y)
  PROVE  LibraryInv'
<1> DEFINE run == librarySync[y]
           new == librarySync'[y]
<1>1. /\ run # NoSync /\ RunTyped(run) /\ run.phase = "movies" /\ run.fetched # Unmirrored
      /\ copies' = [m \in Shows \cup Films |->
                      IF m \in DOMAIN run.fetched THEN run.fetched[m] ELSE copies[m]]
      /\ run.calm => RunIsTrue(run)
    BY DEF LibraryInv, StoreMovies, Stores, At
<1>2. shelf' = shelf /\ subtitles' = subtitles /\ films' = films /\ mirrored' = mirrored
    BY DEF StoreMovies, upstreamVars
<1>3. OthersGoOn(y) /\ new = [run EXCEPT !.phase = "vanished", !.fetched = Unmirrored]
    BY OwnRunOnly DEF StoreMovies
<1>4. /\ DOMAIN new = RunFields /\ new.calm = run.calm /\ new.phase = "vanished"
      /\ new.seen = run.seen /\ new.left = run.left /\ new.fetched = Unmirrored
    BY <1>1, <1>3 DEF RunTyped, RunFields
<1>5. LibraryTypes'
    BY <1>1, <1>2, <1>3 DEF LibraryInv, LibraryTypes, OthersGoOn
<1>6. ASSUME run.calm PROVE RunIsTrue(librarySync[y])'
    <2>1. /\ run.seen = ToSet(shelf) /\ run.seen \subseteq mirrored /\ run.left = {}
          /\ \A t \in run.seen : copies[t] = subtitles[t]
          /\ run.fetched = [f \in films |-> subtitles[f]]
        BY <1>1, <1>6 DEF RunIsTrue, EpisodesRead, MoviesRead
    <2>2. ToSet(shelf) \subseteq Shows /\ films \subseteq Films
        BY DEF LibraryInv, LibraryTypes, ToSet
    <2>3. \A f \in films : copies'[f] = subtitles[f]
        BY <1>1, <2>1, <2>2
    <2>4. \A t \in run.seen : copies'[t] = subtitles[t]
        BY <1>1, <2>1, <2>2, LibraryAssumption
    <2> HIDE DEF run, new
    <2>5. QED
        BY <1>2, <1>4, <2>1, <2>3, <2>4
           DEF RunIsTrue, SeriesRead, EpisodesRead, MoviesRead, new
<1>7. RunGoesOn(y)
    BY <1>1, <1>3, <1>4, <1>5, <1>6 DEF RunGoesOn, RunTyped
<1>8. QED
    BY <1>1, <1>3, <1>5, <1>7, CalmStep

\* What is not seen goes; the rest stays as it is.
LEMMA RemoveVanishedStep ==
  ASSUME LibraryInv, NEW y \in LibrarySyncs, RemoveVanished(y)
  PROVE  LibraryInv'
<1> DEFINE run == librarySync[y]
           new == librarySync'[y]
<1>1. /\ run # NoSync /\ RunTyped(run) /\ run.phase = "vanished"
      /\ mirrored' = mirrored \cap run.seen
      /\ copies' = [m \in Shows \cup Films |->
                      IF m \in Films \/ m \in mirrored' THEN copies[m] ELSE Unmirrored]
      /\ run.calm => RunIsTrue(run)
    BY DEF LibraryInv, RemoveVanished, At
<1>2. shelf' = shelf /\ subtitles' = subtitles /\ films' = films
    BY DEF RemoveVanished, upstreamVars
<1>3. new = [run EXCEPT !.phase = "done"]
    BY DEF RemoveVanished
<1>4. /\ DOMAIN new = RunFields /\ new.calm = run.calm /\ new.phase = "done"
      /\ new.seen = run.seen /\ new.left = run.left
    BY <1>1, <1>3 DEF RunTyped, RunFields
<1>5. OthersGoOn(y)
    <2>1. ASSUME NEW z \in LibrarySyncs \ {y}, librarySync[z] # NoSync, RunTyped(librarySync[z])
          PROVE  RunTyped(librarySync'[z]) /\ (librarySync'[z].calm => librarySync[z].calm)
        <3>1. librarySync'[z] =
                [librarySync[z] EXCEPT !.lost = @ \cup (librarySync[z].known \ mirrored')]
            BY <2>1 DEF RemoveVanished
        <3>2. DOMAIN librarySync'[z] = RunFields /\ librarySync'[z].calm = librarySync[z].calm
            BY <2>1, <3>1 DEF RunTyped, RunFields
        <3>3. QED
            BY <2>1, <3>2 DEF RunTyped
    <2>2. QED
        BY <2>1 DEF OthersGoOn, RemoveVanished
<1>6. LibraryTypes'
    BY <1>1, <1>2, <1>5 DEF LibraryInv, LibraryTypes, OthersGoOn
<1>7. ASSUME run.calm PROVE RunIsTrue(librarySync[y])'
    <2>1. /\ run.seen = ToSet(shelf) /\ run.seen \subseteq mirrored /\ run.left = {}
          /\ \A t \in run.seen : copies[t] = subtitles[t]
        BY <1>1, <1>7 DEF RunIsTrue, EpisodesRead
    <2>2. ToSet(shelf) \subseteq Shows
        BY DEF LibraryInv, LibraryTypes, ToSet
    <2>3. run.seen \subseteq mirrored' /\ \A t \in run.seen : copies'[t] = subtitles[t]
        BY <1>1, <2>1, <2>2
    <2> HIDE DEF run, new
    <2>4. QED
        BY <1>2, <1>4, <2>1, <2>3
           DEF RunIsTrue, SeriesRead, EpisodesRead, MoviesRead, new
<1>8. RunGoesOn(y)
    BY <1>1, <1>4, <1>5, <1>6, <1>7 DEF RunGoesOn, RunTyped
<1>9. QED
    BY <1>1, <1>5, <1>6, <1>8, CalmStep

\* A sync begins: it is calm only if it is alone.
LEMMA StartStep ==
  ASSUME LibraryInv, NEW y \in LibrarySyncs, NEW full \in BOOLEAN, StartLibrarySync(y, full)
  PROVE  LibraryInv'
<1> DEFINE alone == full /\ \A z \in LibrarySyncs : librarySync[z] = NoSync
           first == [full |-> full, phase |-> "series", start |-> 0, seen |-> {}, known |-> {},
                     lost |-> {}, left |-> {}, fetched |-> Unmirrored, calm |-> alone]
<1>1. /\ shelf' = shelf /\ subtitles' = subtitles /\ films' = films
      /\ mirrored' = mirrored /\ copies' = copies
    BY DEF StartLibrarySync, upstreamVars
<1>2. /\ DOMAIN librarySync' = LibrarySyncs /\ librarySync'[y] = first
      /\ \A x \in LibrarySyncs \ {y} :
           librarySync'[x] = IF librarySync[x] = NoSync THEN NoSync
                             ELSE [librarySync[x] EXCEPT !.calm = FALSE]
    BY DEF StartLibrarySync
<1>3. /\ DOMAIN first = RunFields /\ first.phase = "series" /\ first.start = 0
      /\ first.seen = {} /\ first.fetched = Unmirrored
    BY DEF RunFields
<1>4. first.calm \in BOOLEAN /\ (first.calm => alone)
    OBVIOUS
<1> HIDE DEF first, alone
<1>5. LibraryTypes'
    BY <1>1, <1>2 DEF LibraryInv, LibraryTypes
<1>6. RunIsTrue(librarySync[y])'
    <2>1. 1..0 = {} /\ Len(shelf) \in Nat
        BY DEF LibraryInv, LibraryTypes
    <2>2. /\ librarySync'[y].phase = "series" /\ librarySync'[y].start = 0
          /\ librarySync'[y].seen = {} /\ librarySync'[y].fetched = Unmirrored
        BY <1>2, <1>3
    <2>3. QED
        BY <1>1, <2>1, <2>2 DEF RunIsTrue, SeriesRead, EpisodesRead, MoviesRead, Upto
<1>7. \A x \in LibrarySyncs \ {y} :
        /\ alone => librarySync'[x] = NoSync
        /\ librarySync'[x] # NoSync => RunTyped(librarySync'[x]) /\ ~ librarySync'[x].calm
    <2>1. SUFFICES ASSUME NEW x \in LibrarySyncs \ {y}, librarySync[x] # NoSync
          PROVE  ~ alone /\ RunTyped(librarySync'[x]) /\ ~ librarySync'[x].calm
        BY <1>2
    <2>2. DOMAIN librarySync[x] = RunFields
        BY <2>1 DEF LibraryInv, RunTyped
    <2>3. librarySync'[x] = [librarySync[x] EXCEPT !.calm = FALSE]
        BY <1>2, <2>1
    <2>4. DOMAIN librarySync'[x] = RunFields /\ librarySync'[x].calm = FALSE
        BY <2>2, <2>3 DEF RunFields
    <2>5. QED
        BY <2>1, <2>4 DEF RunTyped, alone
<1>8. RunTyped(librarySync'[y]) /\ (librarySync'[y].calm => alone)
    BY <1>2, <1>3, <1>4 DEF RunTyped
<1>9. QED
    BY <1>5, <1>6, <1>7, <1>8 DEF LibraryInv, RunTyped

\* A run that ends leaves no trace, and a new process has none.
LEMMA EndStep ==
  ASSUME LibraryInv,
         LibraryRestart \/ \E y \in LibrarySyncs : FinishLibrarySync(y) \/ SyncRaises(y)
  PROVE  LibraryInv'
<1>1. /\ shelf' = shelf /\ subtitles' = subtitles /\ films' = films
      /\ mirrored' = mirrored /\ copies' = copies
    BY DEF LibraryRestart, FinishLibrarySync, SyncRaises, upstreamVars
<1>2. CASE LibraryRestart
    BY <1>1, <1>2 DEF LibraryRestart, LibraryInv, LibraryTypes
<1>3. ASSUME NEW y \in LibrarySyncs, FinishLibrarySync(y) \/ SyncRaises(y) PROVE LibraryInv'
    <2>1. OthersGoOn(y) /\ librarySync'[y] = NoSync /\ librarySync[y] # NoSync
        BY <1>3, OwnRunOnly DEF FinishLibrarySync, SyncRaises, SyncIsOver, At
    <2>2. LibraryTypes'
        BY <1>1, <2>1 DEF LibraryInv, LibraryTypes, OthersGoOn
    <2>3. RunGoesOn(y)
        BY <2>1 DEF RunGoesOn
    <2>4. QED
        BY <2>1, <2>2, <2>3, CalmStep
<1>4. QED
    BY <1>2, <1>3

\* Bazarr's library changes, and no run is calm any more.
LEMMA ChangeStep ==
  ASSUME LibraryInv,
         \/ \E m \in Shows \cup Films : SubtitlesChange(m)
         \/ \E s \in Shows : ShowArrives(s)
         \/ \E f \in Films : FilmTurns(f)
         \/ \E k \in DOMAIN shelf : ShowLeaves(k)
  PROVE  LibraryInv'
<1>1. /\ copies' = copies
      /\ librarySync' = [y \in LibrarySyncs |-> IF librarySync[y] = NoSync THEN NoSync
                                                ELSE [librarySync[y] EXCEPT !.calm = FALSE]]
    BY DEF SubtitlesChange, ShowArrives, FilmTurns, ShowLeaves, Changes
<1>2. shelf' \in Seq(Shows) /\ IsInjective(shelf')
    <2>1. shelf \in Seq(Shows) /\ IsInjective(shelf) /\ DOMAIN shelf = 1..Len(shelf)
        BY DEF LibraryInv, LibraryTypes
    <2>2. ASSUME NEW s \in Shows, ShowArrives(s) PROVE shelf' \in Seq(Shows) /\ IsInjective(shelf')
        <3>1. PICK k \in 1 .. Len(shelf) + 1 : shelf' = InsertAt(shelf, k, s)
            BY <2>2 DEF ShowArrives
        <3>2. k - 1 \in 0..Len(shelf) /\ (k - 1) + 1 = k
            BY <2>1
        <3>3. s \notin ToSet(shelf)
            BY <2>2 DEF ShowArrives
        <3>4. /\ InsertAt(shelf, (k - 1) + 1, s) \in Seq(Shows)
              /\ IsInjective(InsertAt(shelf, (k - 1) + 1, s))
            BY <2>1, <3>2, <3>3, InsertKeeps, InsertIsInjective
        <3>5. QED
            BY <3>1, <3>2, <3>4
    <2>3. ASSUME NEW k \in DOMAIN shelf, ShowLeaves(k) PROVE shelf' \in Seq(Shows) /\ IsInjective(shelf')
        BY <2>1, <2>3, RemoveKeeps, RemoveIsInjective DEF ShowLeaves
    <2>4. QED
        BY <2>1, <2>2, <2>3 DEF SubtitlesChange, FilmTurns
<1>3. films' \subseteq Films
    BY DEF LibraryInv, LibraryTypes, SubtitlesChange, ShowArrives, FilmTurns, ShowLeaves
<1>4. subtitles' \in [Shows \cup Films -> Nat]
    BY DEF LibraryInv, LibraryTypes, SubtitlesChange, ShowArrives, FilmTurns, ShowLeaves
<1>5. LibraryTypes'
    BY <1>1, <1>2, <1>3, <1>4 DEF LibraryInv, LibraryTypes
<1>6. ASSUME NEW y \in LibrarySyncs, librarySync'[y] # NoSync
      PROVE  RunTyped(librarySync'[y]) /\ ~ librarySync'[y].calm
    <2>1. DOMAIN librarySync[y] = RunFields /\ librarySync'[y] = [librarySync[y] EXCEPT !.calm = FALSE]
        BY <1>1, <1>6 DEF LibraryInv, RunTyped
    <2>2. DOMAIN librarySync'[y] = RunFields /\ librarySync'[y].calm = FALSE
        BY <2>1 DEF RunFields
    <2>3. QED
        BY <2>2 DEF RunTyped
<1>7. QED
    BY <1>5, <1>6 DEF LibraryInv, RunTyped

\* Every step keeps the invariant.
LEMMA LibraryInvStep == ASSUME LibraryInv, [LibraryNext]_libraryVars PROVE LibraryInv'
<1>1. CASE UNCHANGED libraryVars
    <2>1. /\ shelf' = shelf /\ subtitles' = subtitles /\ films' = films
          /\ mirrored' = mirrored /\ copies' = copies /\ librarySync' = librarySync
        BY <1>1 DEF libraryVars
    <2>2. \A y \in LibrarySyncs : RunIsTrue(librarySync[y])' <=> RunIsTrue(librarySync[y])
        BY <2>1 DEF RunIsTrue, SeriesRead, EpisodesRead, MoviesRead, Upto, PageAt
    <2>3. QED
        BY <2>1, <2>2 DEF LibraryInv, LibraryTypes, RunTyped
<1>2. CASE LibraryNext
    BY <1>2, FetchStep, StoreSeriesStep, StoreEpisodesStep, StoreMoviesStep, RemoveVanishedStep,
       StartStep, EndStep, ChangeStep DEF LibraryNext, LibrarySyncSteps
<1>3. QED
    BY <1>1, <1>2

\* Only RemoveVanished ends a full sync.
LEMMA OnlyRemovingEnds ==
  ASSUME LibraryInv, [LibraryNext]_libraryVars, NEW y \in LibrarySyncs,
         At(y, "vanished"), librarySync[y].full, librarySync[y].calm, At(y, "done")'
  PROVE  RemoveVanished(y)
<1> DEFINE run == librarySync[y]
<1>1. /\ run # NoSync /\ RunTyped(run) /\ run.phase = "vanished"
      /\ librarySync'[y] # NoSync /\ librarySync'[y].phase = "done"
      /\ \A z \in LibrarySyncs \ {y} : librarySync[z] = NoSync
    BY DEF LibraryInv, At
<1>2. ASSUME librarySync'[y] = librarySync[y] PROVE FALSE
    BY <1>1, <1>2
<1>3. ASSUME librarySync'[y] = [librarySync[y] EXCEPT !.calm = FALSE] PROVE FALSE
    BY <1>1, <1>3 DEF RunTyped, RunFields
<1>4. CASE UNCHANGED libraryVars
    BY <1>2, <1>4 DEF libraryVars
<1>5. ASSUME NEW z \in LibrarySyncs, NEW full \in BOOLEAN, StartLibrarySync(z, full) PROVE FALSE
    <2>1. z # y
        BY <1>1, <1>5 DEF StartLibrarySync
    <2>2. QED
        BY <1>1, <1>3, <1>5, <2>1 DEF StartLibrarySync
<1>6. ASSUME Changes PROVE FALSE
    BY <1>1, <1>3, <1>6 DEF Changes
<1>7. ASSUME NEW z \in LibrarySyncs, LibrarySyncSteps(z) \/ SyncRaises(z) PROVE RemoveVanished(y)
    <2>1. z = y
        BY <1>1, <1>7 DEF LibrarySyncSteps, SyncRaises, FetchSeries, FetchEpisodes, Fetches, At,
           StoreSeries, StoreEpisodes, Stores, FetchMovies, StoreMovies, RemoveVanished,
           FinishLibrarySync, SyncIsOver
    <2>2. SyncRaises(z) \/ FinishLibrarySync(z) => librarySync'[y] = NoSync
        BY <2>1, OwnRunOnly DEF SyncRaises, FinishLibrarySync
    <2>3. LibrarySyncSteps(z) => FinishLibrarySync(z) \/ RemoveVanished(z)
        BY <1>1, <2>1 DEF LibrarySyncSteps, FetchSeries, FetchEpisodes, Fetches, At,
           StoreSeries, StoreEpisodes, Stores, FetchMovies, StoreMovies
    <2>4. QED
        BY <1>1, <1>7, <2>1, <2>2, <2>3
<1>8. ~ LibraryRestart
    BY <1>1 DEF LibraryRestart
<1>9. QED
    BY <1>4, <1>5, <1>6, <1>7, <1>8
       DEF LibraryNext, SubtitlesChange, ShowArrives, FilmTurns, ShowLeaves

\* A full sync in which nothing changed and nobody else synced leaves the mirror of
\* the series exact and has every movie, for every library, size of a page and order
\* in which the series are listed.
THEOREM FullSyncsAreExact == LibrarySpec => FullSyncIsExact
<1> DEFINE Exact ==
      \A y \in LibrarySyncs : (At(y, "vanished") /\ librarySync[y].full
                               /\ librarySync[y].calm /\ (At(y, "done"))')
        => /\ mirrored' = ToSet(shelf)
           /\ \A m \in Shows \cup films : m \in films \/ m \in ToSet(shelf) => Current(m)'
           /\ \A s \in Shows \ ToSet(shelf) : copies'[s] = Unmirrored
<1>1. LibraryInit => LibraryInv
    BY LibraryInvInit
<1>2. LibraryInv /\ [LibraryNext]_libraryVars => LibraryInv'
    BY LibraryInvStep
<1>3. LibraryInv /\ [LibraryNext]_libraryVars => Exact
    <2>1. SUFFICES ASSUME LibraryInv, [LibraryNext]_libraryVars, NEW y \in LibrarySyncs,
                          At(y, "vanished"), librarySync[y].full, librarySync[y].calm, At(y, "done")'
          PROVE  /\ mirrored' = ToSet(shelf)
                 /\ \A m \in Shows \cup films : m \in films \/ m \in ToSet(shelf) => Current(m)'
                 /\ \A s \in Shows \ ToSet(shelf) : copies'[s] = Unmirrored
        OBVIOUS
    <2>2. RemoveVanished(y)
        BY <2>1, OnlyRemovingEnds
    <2> DEFINE run == librarySync[y]
    <2>3. /\ run.seen = ToSet(shelf) /\ run.seen \subseteq mirrored /\ run.left = {}
          /\ \A s \in run.seen : copies[s] = subtitles[s]
          /\ \A f \in films : copies[f] = subtitles[f]
        <3>1. RunIsTrue(run) /\ run.phase = "vanished"
            BY <2>1 DEF LibraryInv, At
        <3>2. QED
            BY <3>1 DEF RunIsTrue, EpisodesRead, MoviesRead
    <2>4. /\ mirrored' = mirrored \cap run.seen /\ subtitles' = subtitles
          /\ copies' = [m \in Shows \cup Films |->
                          IF m \in Films \/ m \in mirrored' THEN copies[m] ELSE Unmirrored]
        BY <2>2 DEF RemoveVanished, upstreamVars
    <2>5. ToSet(shelf) \subseteq Shows /\ films \subseteq Films /\ Shows \cap Films = {}
        BY <2>1, LibraryAssumption DEF LibraryInv, LibraryTypes, ToSet
    <2> HIDE DEF run
    <2>6. mirrored' = ToSet(shelf)
        BY <2>3, <2>4
    <2>7. \A s \in Shows \ ToSet(shelf) : copies'[s] = Unmirrored
        BY <2>4, <2>5, <2>6
    <2>8. ASSUME NEW m \in Shows \cup films, m \in films \/ m \in ToSet(shelf) PROVE Current(m)'
        <3>1. copies'[m] = copies[m] /\ copies[m] = subtitles[m]
            BY <2>3, <2>4, <2>5, <2>6, <2>8
        <3>2. m \in Shows => m \in mirrored'
            BY <2>5, <2>6, <2>8
        <3>3. QED
            BY <2>4, <3>1, <3>2 DEF Current
    <2>9. QED
        BY <2>6, <2>7, <2>8
<1>4. QED
    BY <1>1, <1>2, <1>3, PTL DEF LibrarySpec, FullSyncIsExact
=============================================================================
